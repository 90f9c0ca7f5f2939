----------------------------- MODULE WorkerPool -----------------------------
(***************************************************************************)
(* How worker threads go to sleep and are woken: struct monitor of         *)
(* ztask_start.c, with the loops of thread_worker, thread_timer and the    *)
(* I/O threads, on the condition variable of thread.c.                     *)
(*                                                                         *)
(* thread.h maps the mutex to a CRITICAL_SECTION on every platform, so the *)
(* build is the Windows one, where ztask_cond_wait waits for a packet on a *)
(* completion port and does NOT release the mutex: the sleeping worker     *)
(* keeps it.  Packets posted while nobody sleeps are not lost.             *)
(*                                                                         *)
(* The global list is abstracted to the number of queues on it; module     *)
(* Dispatch has its detail.                                                *)
(***************************************************************************)
EXTENDS Integers, FiniteSets

CONSTANTS Worker,     \* worker threads
          Io,         \* socket, http and dns threads
          Clock,      \* the timer thread
          NoThread,   \* the mutex is free
          MaxArrive,  \* bound: queues that become non-empty in all
          MaxPosted   \* bound: packets the completion port is seen to hold

ASSUME WorkerPoolAssumption ==
    /\ IsFiniteSet(Worker) /\ Worker # {}
    /\ NoThread \notin Worker
    /\ Clock \notin Io
    /\ MaxArrive \in Nat
    /\ MaxPosted \in Nat \ {0}

VARIABLES work,     \* queues on the global list
          arrived,  \* queues listed so far, at most MaxArrive
          alive,    \* G_NODE.total # 0
          sleep,    \* m->sleep
          quit,     \* m->quit
          mutex,    \* the thread in the critical section m->mutex
          posted,   \* packets on the completion port m->cond
          wpc,      \* workers
          spc       \* the timer and I/O threads

poolVars == <<work, arrived, alive, sleep, quit, mutex, posted, wpc, spc>>

Count == Cardinality(Worker)

\* The threads that call wakeup, and the top of their loops.
Sender == Io \cup {Clock}
Home(s) == IF s = Clock THEN "tick" ELSE "poll"

PoolInit ==
    /\ work = 0 /\ arrived = 0 /\ alive = TRUE
    /\ sleep = 0 /\ quit = FALSE
    /\ mutex = NoThread
    /\ posted = 0
    /\ wpc = [w \in Worker |-> "top"]
    /\ spc = [s \in Sender |-> Home(s)]

-----------------------------------------------------------------------------

\* A message makes a queue non-empty.
Arrive == /\ arrived < MaxArrive
          /\ arrived' = arrived + 1
          /\ work' = work + 1

\* ztask_cond_signal: PostQueuedCompletionStatus.
Signal == posted' = IF posted < MaxPosted THEN posted + 1 ELSE posted

\* Mutant: the test of wakeup is strict.
Sleepy_Strict(busy) == sleep > Count - busy

\* The test in wakeup(m, busy); m->sleep is read without the mutex.
Sleepy(busy) == sleep >= Count - busy

WGoto(w, from, to) == wpc[w] = from /\ wpc' = [wpc EXCEPT ![w] = to]
SGoto(s, from, to) == spc[s] = from /\ spc' = [spc EXCEPT ![s] = to]

\* The second half of wakeup: the test was true.
Post(s) ==
    /\ Signal
    /\ SGoto(s, "post", Home(s))
    /\ UNCHANGED <<work, arrived, alive, sleep, quit, mutex, wpc>>

\* thread_worker: while (!m->quit)
LoopTest(w) ==
    /\ WGoto(w, "top", IF quit THEN "exit" ELSE "dispatch")
    /\ UNCHANGED <<work, arrived, alive, sleep, quit, mutex, posted, spc>>

\* ztask_context_message_dispatch takes a queue ...
TakeWork(w) ==
    /\ work > 0
    /\ work' = work - 1
    /\ WGoto(w, "dispatch", "run")
    /\ UNCHANGED <<arrived, alive, sleep, quit, mutex, posted, spc>>

\* ... or returns NULL.
NoWork(w) ==
    /\ work = 0
    /\ WGoto(w, "dispatch", "lock")
    /\ UNCHANGED <<work, arrived, alive, sleep, quit, mutex, posted, spc>>

\* A callback sends, which lists another queue.
CallbackSends(w) ==
    /\ wpc[w] = "run" /\ alive
    /\ Arrive
    /\ UNCHANGED <<alive, sleep, quit, mutex, posted, wpc, spc>>

\* A callback ends the last service.
CallbackEndsAll(w) ==
    /\ wpc[w] = "run" /\ alive
    /\ alive' = FALSE
    /\ UNCHANGED <<work, arrived, sleep, quit, mutex, posted, wpc, spc>>

CallbackReturns(w) ==
    /\ WGoto(w, "run", "top")
    /\ UNCHANGED <<work, arrived, alive, sleep, quit, mutex, posted, spc>>

\* Mutant: the worker counts itself before it has the mutex.
GoToSleep_Early(w) ==
    /\ sleep' = sleep + 1
    /\ WGoto(w, "lock", IF quit THEN "unlock" ELSE "wait")
    /\ UNCHANGED <<work, arrived, alive, quit, mutex, posted, spc>>

\* Lock the mutex and count as sleeping; wait unless quitting.
GoToSleep(w) ==
    /\ mutex = NoThread
    /\ mutex' = w
    /\ sleep' = sleep + 1
    /\ WGoto(w, "lock", IF quit THEN "unlock" ELSE "wait")
    /\ UNCHANGED <<work, arrived, alive, quit, posted, spc>>

\* ztask_cond_wait returns: a packet is there.  The mutex was never given up.
WakeUp(w) ==
    /\ posted > 0
    /\ posted' = posted - 1
    /\ WGoto(w, "wait", "unlock")
    /\ UNCHANGED <<work, arrived, alive, sleep, quit, mutex, spc>>

\* Mutant: the sleeper does not uncount itself.
UnlockMutex_Counted(w) ==
    /\ mutex' = NoThread
    /\ WGoto(w, "unlock", "top")
    /\ UNCHANGED <<work, arrived, alive, sleep, quit, posted, spc>>

\* Uncount and unlock.
UnlockMutex(w) ==
    /\ sleep' = sleep - 1
    /\ mutex' = NoThread
    /\ WGoto(w, "unlock", "top")
    /\ UNCHANGED <<work, arrived, alive, quit, posted, spc>>

-----------------------------------------------------------------------------

\* thread_timer: ztask_updatetime may deliver timeouts.
TimerFires ==
    /\ spc[Clock] = "tick" /\ alive
    /\ Arrive
    /\ UNCHANGED <<alive, sleep, quit, mutex, posted, wpc, spc>>

\* CHECK_ABORT, then the test of wakeup(m, m->count - 1).
TimerTick ==
    /\ SGoto(Clock, "tick", IF ~alive THEN "abort"
                            ELSE IF Sleepy(Count - 1) THEN "post" ELSE "tick")
    /\ UNCHANGED <<work, arrived, alive, sleep, quit, mutex, posted, wpc>>

\* After the loop: lock, set quit, unlock.  No packet is posted; the
\* broadcast is commented out.
TimerQuits ==
    /\ mutex = NoThread
    /\ quit' = TRUE
    /\ SGoto(Clock, "abort", "exit")
    /\ UNCHANGED <<work, arrived, alive, sleep, mutex, posted, wpc>>

\* thread_socket, thread_http, thread_dns: an event is sent to a service.
IoEvent(i) ==
    /\ alive
    /\ Arrive
    /\ SGoto(i, "poll", "wake")
    /\ UNCHANGED <<alive, sleep, quit, mutex, posted, wpc>>

\* wakeup(m, 0)
IoWakeup(i) ==
    /\ SGoto(i, "wake", IF Sleepy(0) THEN "post" ELSE "poll")
    /\ UNCHANGED <<work, arrived, alive, sleep, quit, mutex, posted, wpc>>

-----------------------------------------------------------------------------

WorkerStep(w) == \/ LoopTest(w) \/ TakeWork(w) \/ NoWork(w) \/ CallbackReturns(w)
                 \/ GoToSleep(w) \/ WakeUp(w) \/ UnlockMutex(w)

TimerStep == TimerTick \/ TimerQuits

PoolNext == \/ \E w \in Worker : WorkerStep(w) \/ CallbackSends(w) \/ CallbackEndsAll(w)
            \/ TimerStep \/ TimerFires
            \/ \E s \in Sender : Post(s)
            \/ \E i \in Io : IoWakeup(i) \/ IoEvent(i)

\* Threads keep running and callbacks return.  Whether messages arrive, and
\* whether the services ever end, is left open.
PoolFairness == /\ \A w \in Worker : WF_poolVars(WorkerStep(w))
                /\ WF_poolVars(TimerStep)
                /\ \A s \in Sender : WF_poolVars(Post(s))
                /\ \A i \in Io : WF_poolVars(IoWakeup(i))

PoolSpec == PoolInit /\ [][PoolNext]_poolVars /\ PoolFairness

-----------------------------------------------------------------------------

\* Types of struct monitor and of the threads' positions.
PoolTypeOK ==
    /\ work \in 0..MaxArrive /\ arrived \in 0..MaxArrive
    /\ alive \in BOOLEAN /\ quit \in BOOLEAN
    /\ sleep \in 0..Count
    /\ mutex \in Worker \cup {NoThread}
    /\ posted \in 0..MaxPosted
    /\ wpc \in [Worker -> {"top", "dispatch", "run", "lock", "wait", "unlock", "exit"}]
    /\ spc \in [Sender -> {"tick", "abort", "exit", "poll", "wake", "post"}]

\* m->sleep counts the workers that sleep, and since the sleeper keeps the
\* mutex there is never more than one: the others queue up at the mutex.
OneSleeper ==
    /\ PoolTypeOK
    /\ sleep = Cardinality({w \in Worker : wpc[w] \in {"wait", "unlock"}})
    /\ \A w \in Worker : wpc[w] \in {"wait", "unlock"} <=> mutex = w

\* No wakeup is lost for good: while services live, a queue on the global
\* list is taken by some worker even if all of them were going to sleep when
\* it was listed; the timer's tick wakes the sleeper.
WorkIsTaken == (work > 0) ~> (work = 0 \/ ~alive)

\* thread_timer says it wakes all workers when the last service has ended,
\* so that they leave their loops.
WorkersTerminate == ~alive ~> \A w \in Worker : wpc[w] = "exit"
=============================================================================
