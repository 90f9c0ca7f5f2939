SPECIFICATION MCSpec
CONSTANTS Msg = {m1, m2}
          NoMsg = NoMsg
          InitCap = 2
          OverloadBase = 1
          MaxLen = 5
          Thread = {t1, t2, t3}
          Writer = t1
          MaxCopies = 2
          Asker = {"t1", "t2", "t3"}
          Name = {"a", "b", "bad", "gone"}
          Openable = {"a", "b", "bad"}
          Complete = {"a", "b"}
          MaxModules = 2
          End = {"e1", "e2", "e3"}
          MaxCommands = 3
          Service = {1, 2}
          MaxVersion = 6
          Worker = {w1, w2, w3}
          Io = {i1}
          Clock = Clock
          NoThread = NoThread
          MaxArrive = 3
          MaxPosted = 2
INVARIANTS QueueTypeOK NoLostWork Exclusion CountsExact OneEntryEach ChannelKept OneSleeper
PROPERTIES OverloadHonest ImplementsFifo LockProgress MonitorReports WorkIsTaken
CHECK_DEADLOCK FALSE
