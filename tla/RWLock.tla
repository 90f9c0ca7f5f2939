------------------------------- MODULE RWLock -------------------------------
(***************************************************************************)
(* The read-write spinlock of rwlock.h, which guards the handle storage    *)
(* and the shared memory objects of stm: a flag that writers test-and-set, *)
(* and a count of readers.  A reader announces itself in the count and     *)
(* withdraws if a writer's flag turns up; a writer raises the flag and     *)
(* waits for the count to fall to zero.  Each atomic builtin, and each     *)
(* test of a spinning loop, is one action.  Memory is taken to be          *)
(* sequentially consistent (the builtins are full barriers on x86).        *)
(***************************************************************************)
EXTENDS Integers, FiniteSets

CONSTANT Thread

ASSUME RWLockAssumption == IsFiniteSet(Thread)

VARIABLES write,  \* lock->write
          read,   \* lock->read
          pc      \* where each thread is

vars == <<write, read, pc>>

Init == /\ write = 0
        /\ read = 0
        /\ pc = [t \in Thread |-> "idle"]

Goto(t, from, to) == pc[t] = from /\ pc' = [pc EXCEPT ![t] = to]

\* A thread calls rwlock_rlock or rwlock_wlock.
CallReadLock(t)  == Goto(t, "idle", "rwait") /\ UNCHANGED <<write, read>>
CallWriteLock(t) == Goto(t, "idle", "wwait") /\ UNCHANGED <<write, read>>

\* Mutant: no loop: the reader announces itself at once.
SeeNoWriter_Eager(t) == Goto(t, "rwait", "rinc") /\ UNCHANGED <<write, read>>

\* rwlock_rlock: the loop over lock->write ends.
SeeNoWriter(t) == write = 0 /\ Goto(t, "rwait", "rinc") /\ UNCHANGED <<write, read>>

\* rwlock_rlock: add to lock->read.
Announce(t) == read' = read + 1 /\ Goto(t, "rinc", "rcheck") /\ UNCHANGED write

\* Mutant: the flag is not looked at again.
CheckWriter_Blind(t) == Goto(t, "rcheck", "reading") /\ UNCHANGED <<write, read>>

\* rwlock_rlock: look at lock->write again.
CheckWriter(t) ==
    /\ Goto(t, "rcheck", IF write = 0 THEN "reading" ELSE "rback")
    /\ UNCHANGED <<write, read>>

\* rwlock_rlock: a writer came first; leave the count and start over.
Withdraw(t) == read' = read - 1 /\ Goto(t, "rback", "rwait") /\ UNCHANGED write

\* Mutant: the reader only leaves, as if the count were a flag.
ReadUnlock_Clear(t) == read' = 0 /\ Goto(t, "reading", "idle") /\ UNCHANGED write

\* rwlock_runlock
ReadUnlock(t) == read' = read - 1 /\ Goto(t, "reading", "idle") /\ UNCHANGED write

\* rwlock_wlock: the test-and-set that finds the flag clear.
RaiseFlag(t) == write = 0 /\ write' = 1 /\ Goto(t, "wwait", "wdrain") /\ UNCHANGED read

\* rwlock_wlock: the loop over lock->read ends.
SeeNoReader(t) == read = 0 /\ Goto(t, "wdrain", "writing") /\ UNCHANGED <<write, read>>

\* rwlock_wunlock
WriteUnlock(t) == write' = 0 /\ Goto(t, "writing", "idle") /\ UNCHANGED read

Step(t) == \/ SeeNoWriter(t) \/ Announce(t) \/ CheckWriter(t) \/ Withdraw(t)
           \/ ReadUnlock(t) \/ RaiseFlag(t) \/ SeeNoReader(t) \/ WriteUnlock(t)

Next == \E t \in Thread : CallReadLock(t) \/ CallWriteLock(t) \/ Step(t)

\* A thread that is in the lock's code, or holds the lock, keeps running.
Fairness == \A t \in Thread : WF_vars(Step(t))

Spec == Init /\ [][Next]_vars /\ Fairness

-----------------------------------------------------------------------------

Readers == {t \in Thread : pc[t] \in {"rcheck", "rback", "reading"}}

\* Types; the reader count is the number of announced readers, so it never
\* goes negative (lock->read is an int and readers withdraw from it).
TypeOK ==
    /\ write \in {0, 1}
    /\ read \in 0..Cardinality(Thread)
    /\ pc \in [Thread -> {"idle", "rwait", "rinc", "rcheck", "rback", "reading",
                          "wwait", "wdrain", "writing"}]

\* What the handle storage relies on: while a thread writes, nobody else
\* reads or writes.
Exclusion ==
    \A t, u \in Thread :
       pc[t] = "writing" /\ pc[u] \in {"reading", "writing"} => t = u

\* A writer that has raised the flag gets the lock: new readers withdraw and
\* those inside leave.
WriterGetsIn == \A t \in Thread : pc[t] = "wdrain" ~> pc[t] = "writing"

\* Threads that withdraw and retry do not keep one another out for ever: when
\* somebody waits, somebody gets in.
SomebodyGetsIn ==
    (\E t \in Thread : pc[t] \in {"rwait", "rinc", "rcheck", "rback", "wwait", "wdrain"})
       ~> (\E t \in Thread : pc[t] \in {"reading", "writing"})
=============================================================================
