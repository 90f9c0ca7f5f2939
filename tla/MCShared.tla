------------------------------ MODULE MCShared ------------------------------
(***************************************************************************)
(* What threads share.  A behaviour is about one of: a message queue, with *)
(* two cells at first and up to five messages, so that it wraps at every   *)
(* capacity and expands to eight; the read-write lock; an stm object,      *)
(* which uses it; the watch over endless callbacks; the table of modules;  *)
(* a debug channel; the sleep and wakeup of workers (three, the timer and  *)
(* one I/O thread).                                                        *)
(***************************************************************************)
EXTENDS MessageQueue, Stm, Modules, DebugChannel, Monitor, WorkerPool

VARIABLE focus

mcVars == <<focus, queueVars, stmVars, monVars, modVars, chanVars, poolVars>>

MCInit == /\ focus \in {"queue", "lock", "stm", "monitor", "modules", "channel", "pool"}
          /\ QueueInit /\ StmInit /\ MonInit /\ ModInit /\ ChanInit /\ PoolInit

\* A step leaves the other parts alone.
Others(f) == /\ f # "queue" => UNCHANGED queueVars
             /\ f \notin {"lock", "stm"} => UNCHANGED stmVars
             /\ f # "monitor" => UNCHANGED monVars
             /\ f # "modules" => UNCHANGED modVars
             /\ f # "channel" => UNCHANGED chanVars
             /\ f # "pool" => UNCHANGED poolVars
             /\ UNCHANGED focus

LockStep(t) == focus = "lock" /\ Step(t) /\ UNCHANGED <<obj, copies, task>> /\ Others("lock")
LockCall == /\ focus = "lock" /\ \E t \in Thread : CallReadLock(t) \/ CallWriteLock(t)
            /\ UNCHANGED <<obj, copies, task>> /\ Others("lock")
StmAct == focus = "stm" /\ StmNext /\ Others("stm")
QueueAct == focus = "queue" /\ QueueNext /\ Others("queue")
MonAct == focus = "monitor" /\ MonNext /\ Others("monitor")
ModAct == focus = "modules" /\ ModNext /\ Others("modules")
ChanAct == focus = "channel" /\ ChanNext /\ Others("channel")
PoolAct(A) == focus = "pool" /\ A /\ Others("pool")

MCNext == \/ QueueAct \/ LockCall \/ (\E t \in Thread : LockStep(t)) \/ StmAct \/ MonAct \/ ModAct \/ ChanAct
          \/ PoolAct(PoolNext)

\* Threads inside the lock run; the monitor thread sleeps and runs, and a worker
\* outside of a callback runs; the threads of the pool run (PoolFairness).
MCFairness ==
    /\ \A t \in Thread : WF_mcVars(LockStep(t))
    /\ WF_mcVars(focus = "monitor" /\ WatchStep /\ Others("monitor"))
    /\ WF_mcVars(focus = "monitor" /\ WorkerRuns /\ Others("monitor"))
    /\ \A w \in Worker : WF_mcVars(PoolAct(WorkerStep(w)))
    /\ WF_mcVars(PoolAct(TimerStep))
    /\ \A s \in Sender : WF_mcVars(PoolAct(Post(s)))
    /\ \A i \in Io : WF_mcVars(PoolAct(IoWakeup(i)))
MCSpec == MCInit /\ [][MCNext]_mcVars /\ MCFairness

-----------------------------------------------------------------------------
\* rwlock.h: when somebody waits for the lock, somebody gets it; a writer that has
\* raised its flag does.
LockProgress == focus = "lock" => WriterGetsIn /\ SomebodyGetsIn

\* ztask_monitor.c: a report that is not overtaken by the worker names the callback
\* that has been running since the check before, or is about to, and its message's
\* source; and a callback that never returns is reported, again and again.
MonitorReports == [][HonestReport]_monVars /\ EndlessReported
=============================================================================
