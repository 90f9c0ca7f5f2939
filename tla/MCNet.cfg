SPECIFICATION Spec
CONSTANTS
  Self = 1
  Node = {2}
  Name = {n}
  Sizes <- MCSizes
  HeaderLen = 2
  QueueSize = 2
  MaxMsg = 2
  MaxConn = 2
  MaxIn = 2
  Svc = {a, b}
  Io = Io
  Fd = {f1, f2}
  NoFd = NoFd
  Slots = 2
  MaxAlloc = 4
  MaxPost = 4
  Accepts = 2
SYMMETRY Alike
VIEW NoEvents
INVARIANTS MessagesKept FramesIntact 
PROPERTIES ForeignCloseIsSecond
CHECK_DEADLOCK FALSE
