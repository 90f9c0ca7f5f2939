---------------------------- MODULE SharedProofs ----------------------------
(***************************************************************************)
(* What threads share is right for every number of threads: the read-write *)
(* lock, the stm objects that use it, the table of modules, the debug      *)
(* channel, the watch over callbacks, the mutex on which workers sleep and *)
(* a message queue.                                                        *)
(*                                                                         *)
(* The lock.  Exclusion is not inductive: that a writer's test of          *)
(* lock->read is conclusive needs the count to be exact, and that a        *)
(* reader's second look at lock->write is conclusive needs the flag to     *)
(* stay up while a writer drains or writes.                                *)
(*                                                                         *)
(* stm.  What CountsExact says of the counts is not inductive.  The object *)
(* is freed by whoever takes its count to 0, so that count must be the     *)
(* number of ends that can still use it (Referenced); that a section sees  *)
(* a state nobody else is changing needs the lock's own invariant and the  *)
(* place of every thread in it (InLock); and which copies a thread can     *)
(* have depends on what it is doing (Roles).                               *)
(*                                                                         *)
(* Modules.  What the second look under the lock has excluded stays        *)
(* excluded until the new entry is published (Progress).                   *)
(*                                                                         *)
(* Debug channel.  The count is that of the open ends, and what was read   *)
(* and what is in the list are together all that was written.              *)
(*                                                                         *)
(* Monitor.  A check that finds the count it noted was not the first since *)
(* the callback began, as a new count is never the noted one (Noticed),    *)
(* and what it reads stays what is noted (Undisturbed); source and         *)
(* destination are those of the callback while it runs (Marked).           *)
(*                                                                         *)
(* Worker pool.  OneSleeper counts: m->sleep is the number of workers      *)
(* between the lock and the unlock.  The count follows from the mutex: the *)
(* worker that holds it is the only one there, so m->sleep is 0 or 1.      *)
(* PoolInv says so without a cardinality, and is inductive.                *)
(*                                                                         *)
(* Message queue.  The ring buffer is safe and implements a first-in       *)
(* first-out queue for every initial capacity, threshold and message set.  *)
(* QueueTypeOK alone is not inductive for the refinement: a pop hands out  *)
(* a cell, and that the cell was written before is the invariant Written.  *)
(***************************************************************************)
EXTENDS Stm, Modules, DebugChannel, Monitor, WorkerPool, MessageQueue, ProofLemmas, FiniteSetTheorems, TLAPS

(* The read-write lock.                                                    *)
Labels == {"idle", "rwait", "rinc", "rcheck", "rback", "reading",
           "wwait", "wdrain", "writing"}

\* The state alone, without the bound on the count.
Shape == write \in {0, 1} /\ pc \in [Thread -> Labels]

\* lock->read is the number of announced readers.
Counted == read = Cardinality(Readers)

\* The flag is up while a thread drains or writes, and only one does.
Flagged == /\ \A t \in Thread : pc[t] \in {"wdrain", "writing"} => write = 1
           /\ \A t, u \in Thread : /\ pc[t] \in {"wdrain", "writing"}
                                   /\ pc[u] \in {"wdrain", "writing"}
                                   => t = u

Inv == Shape /\ Counted /\ Flagged /\ Exclusion

-----------------------------------------------------------------------------

LEMMA ReadersFinite == IsFiniteSet(Readers) /\ Cardinality(Readers) \in Nat
<1>1. Readers \subseteq Thread BY DEF Readers
<1> QED BY <1>1, RWLockAssumption, FS_Subset, FS_CardinalityType

\* A step of t that is neither into nor out of the count leaves it exact.
LEMMA CountKept ==
    ASSUME Counted, read' = read, Readers' = Readers
    PROVE  Counted'
  BY DEF Counted

LEMMA Joined ==
    ASSUME Counted, NEW t \in Thread, t \notin Readers,
           Readers' = Readers \cup {t}, read' = read + 1
    PROVE  Counted'
<1>1. Cardinality(Readers \cup {t}) = Cardinality(Readers) + 1
  BY ReadersFinite, FS_AddElement
<1> QED BY <1>1 DEF Counted

LEMMA Left ==
    ASSUME Counted, NEW t \in Thread, t \in Readers,
           Readers' = Readers \ {t}, read' = read - 1
    PROVE  Counted'
<1>1. Cardinality(Readers \ {t}) = Cardinality(Readers) - 1
  BY ReadersFinite, FS_RemoveElement
<1> QED BY <1>1 DEF Counted

LEMMA NextInv == Inv /\ [Next]_vars => Inv'
<1> SUFFICES ASSUME Inv, [Next]_vars PROVE Inv' OBVIOUS
<1> USE DEF Inv, Labels
<1>1. ASSUME NEW t \in Thread,
             CallReadLock(t) \/ CallWriteLock(t) \/ SeeNoWriter(t)
      PROVE  Inv'
  <2> USE <1>1 DEF CallReadLock, CallWriteLock, SeeNoWriter, Goto
  <2>1. Shape' BY DEF Shape
  <2>2. Readers' = Readers BY DEF Shape, Readers
  <2>3. Counted' BY <2>2, CountKept
  <2>4. Flagged' BY DEF Shape, Flagged
  <2>5. Exclusion' BY DEF Shape, Exclusion
  <2> QED BY <2>1, <2>3, <2>4, <2>5
<1>2. ASSUME NEW t \in Thread, Announce(t) PROVE Inv'
  <2> USE <1>2 DEF Announce, Goto
  <2>1. Shape' BY DEF Shape
  <2>2. t \notin Readers /\ Readers' = Readers \cup {t} BY DEF Shape, Readers
  <2>3. Counted' BY <2>2, Joined
  <2>4. Flagged' BY DEF Shape, Flagged
  <2>5. Exclusion' BY DEF Shape, Exclusion
  <2> QED BY <2>1, <2>3, <2>4, <2>5
<1>3. ASSUME NEW t \in Thread, CheckWriter(t) PROVE Inv'
  <2> USE <1>3 DEF CheckWriter, Goto
  <2>1. Shape' BY DEF Shape
  <2>2. Readers' = Readers BY DEF Shape, Readers
  <2>3. Counted' BY <2>2, CountKept
  <2>4. Flagged' BY DEF Shape, Flagged
  <2>5. Exclusion' BY DEF Shape, Flagged, Exclusion
  <2> QED BY <2>1, <2>3, <2>4, <2>5
<1>4. ASSUME NEW t \in Thread, Withdraw(t) \/ ReadUnlock(t) PROVE Inv'
  <2> USE <1>4 DEF Withdraw, ReadUnlock, Goto
  <2>1. Shape' BY DEF Shape
  <2>2. t \in Readers /\ Readers' = Readers \ {t} BY DEF Shape, Readers
  <2>3. Counted' BY <2>2, Left
  <2>4. Flagged' BY DEF Shape, Flagged
  <2>5. Exclusion' BY DEF Shape, Exclusion
  <2> QED BY <2>1, <2>3, <2>4, <2>5
<1>5. ASSUME NEW t \in Thread, RaiseFlag(t) PROVE Inv'
  <2> USE <1>5 DEF RaiseFlag, Goto
  <2>1. Shape' BY DEF Shape
  <2>2. Readers' = Readers BY DEF Shape, Readers
  <2>3. Counted' BY <2>2, CountKept
  <2>4. Flagged' BY DEF Shape, Flagged
  <2>5. Exclusion' BY DEF Shape, Exclusion
  <2> QED BY <2>1, <2>3, <2>4, <2>5
<1>6. ASSUME NEW t \in Thread, SeeNoReader(t) PROVE Inv'
  <2> USE <1>6 DEF SeeNoReader, Goto
  <2>1. Shape' BY DEF Shape
  <2>2. Readers' = Readers BY DEF Shape, Readers
  <2>3. Counted' BY <2>2, CountKept
  <2>4. Flagged' BY DEF Shape, Flagged
  <2>5. Readers = {}
    BY ReadersFinite, FS_EmptySet DEF Counted
  <2>6. \A u \in Thread : pc[u] # "reading" BY <2>5 DEF Readers
  <2>7. Exclusion' BY <2>6 DEF Shape, Flagged, Exclusion
  <2> QED BY <2>1, <2>3, <2>4, <2>7
<1>7. ASSUME NEW t \in Thread, WriteUnlock(t) PROVE Inv'
  <2> USE <1>7 DEF WriteUnlock, Goto
  <2>1. Shape' BY DEF Shape
  <2>2. Readers' = Readers BY DEF Shape, Readers
  <2>3. Counted' BY <2>2, CountKept
  <2>4. Flagged' BY DEF Shape, Flagged
  <2>5. Exclusion' BY DEF Shape, Exclusion
  <2> QED BY <2>1, <2>3, <2>4, <2>5
<1>8. CASE UNCHANGED vars
  BY <1>8 DEF vars, Shape, Counted, Readers, Flagged, Exclusion
<1> QED BY <1>1, <1>2, <1>3, <1>4, <1>5, <1>6, <1>7, <1>8 DEF Next, Step

LEMMA InitInv == Init => Inv
<1> SUFFICES ASSUME Init PROVE Inv OBVIOUS
<1>1. Readers = {} BY DEF Init, Readers
<1>2. Counted BY <1>1, FS_EmptySet DEF Init, Counted
<1> QED BY <1>2 DEF Init, Inv, Shape, Labels, Flagged, Exclusion

LEMMA InvSafe == Inv => TypeOK /\ Exclusion
<1> SUFFICES ASSUME Inv PROVE TypeOK BY DEF Inv
<1>1. Cardinality(Readers) <= Cardinality(Thread)
  BY RWLockAssumption, FS_Subset DEF Readers
<1>2. Cardinality(Thread) \in Nat BY RWLockAssumption, FS_CardinalityType
<1> QED BY <1>1, <1>2, ReadersFinite DEF Inv, Shape, Labels, Counted, TypeOK

\* For every finite set of threads, a thread between rwlock_wlock and
\* rwlock_wunlock is alone, and lock->read counts the announced readers.
THEOREM LockExcludes == Spec => [](TypeOK /\ Exclusion)
  BY InvSafe, InitInv, NextInv, PTL DEF Spec

-----------------------------------------------------------------------------
(* stm.                                                                    *)

Ops == {"none", "grab", "update", "release", "read", "delete"}
Ats == {"done", "lock", "unlock", "after"}
Ends == {"none", "sent", "open", "closed"}

StmTypes ==
    /\ copies \in Seq(Int)
    /\ obj \in [ref : Int, copy : 0..Len(copies), freed : BOOLEAN]
    /\ task \in [Thread -> [run : [op : Ops, at : Ats, mine : 0..Len(copies)],
                            last : 0..Len(copies), end : Ends]]

\* What a thread may do, and which copies it may have while it does it.
Roles ==
    \A t \in Thread :
       /\ Run(t).op \in IF t = Writer THEN {"none", "grab", "update", "release"}
                        ELSE {"none", "read", "delete"}
       /\ t = Writer => task[t].end \in {"open", "closed"} /\ task[t].last = 0
       /\ task[t].end # "open" => Run(t).op = "none" /\ task[t].last = 0
       /\ Run(t).op = "none" <=> Run(t).at = "done"
       /\ Run(t).op \in {"none", "grab", "release", "delete"} => Run(t).mine = 0
       /\ Run(t).op = "read" /\ Run(t).at = "lock" => Run(t).mine = 0
       /\ Run(t).at = "after" => Run(t).op \in {"update", "read", "delete"}

ReadLabels == {"rwait", "rinc", "rcheck", "rback", "reading"}
WriteLabels == {"wwait", "wdrain", "writing"}
Writes(t) == Run(t).op \in {"update", "release"}

\* Where a thread is in the lock.  The one that frees the object leaves the lock
\* as it is.
InLock ==
    \A t \in Thread :
       /\ Run(t).at \in {"done", "after"} => pc[t] = "idle" \/ obj.freed
       /\ Run(t).at = "lock" => pc[t] \in IF Writes(t) THEN WriteLabels ELSE ReadLabels
       /\ Run(t).at = "unlock" => pc[t] = IF Writes(t) THEN "writing" ELSE "reading"

\* The ends that keep the object alive: sent to a reader, or open and not yet
\* given up.
Refs == {t \in Thread :
            \/ task[t].end = "sent"
            \/ /\ task[t].end = "open"
               /\ ~(Run(t).op \in {"release", "delete"} /\ Run(t).at # "lock")}

\* stm_grab has counted an end that nobody has yet.
Granted == Run(Writer).op = "grab" /\ Run(Writer).at = "unlock"

Referenced ==
    /\ obj.ref = Cardinality(Refs) + (IF Granted THEN 1 ELSE 0)
    /\ obj.freed <=> obj.ref = 0
    /\ obj.copy # 0 => Writer \in Refs
    /\ Run(Writer).op = "release" /\ Run(Writer).at = "unlock" => ~obj.freed

StmInv == Inv /\ StmTypes /\ Roles /\ InLock /\ Referenced /\ CopiesCounted

-----------------------------------------------------------------------------
LEMMA HasType ==
    ASSUME NEW t, NEW c PROVE Has(t, c) \in {0, 1, 2}
  BY DEF Has

LEMMA HoldersFinite ==
    ASSUME NEW c PROVE IsFiniteSet(Holders(c)) /\ Cardinality(Holders(c)) \in Nat
<1>1. IsFiniteSet({1, 2})
  <2>1. IsFiniteSet({1}) BY FS_Singleton
  <2>2. IsFiniteSet({1} \cup {2}) BY <2>1, FS_AddElement
  <2>3. {1, 2} = {1} \cup {2} OBVIOUS
  <2> QED BY <2>2, <2>3
<1>2. IsFiniteSet(Thread \X {1, 2}) BY <1>1, RWLockAssumption, FS_Product
<1>3. Holders(c) \subseteq Thread \X {1, 2} BY DEF Holders
<1> QED BY <1>2, <1>3, FS_Subset, FS_CardinalityType

LEMMA HoldSame ==
    ASSUME NEW CONSTANT c, \A u \in Thread : Has(u, c)' = Has(u, c)
    PROVE  Cardinality(Holders(c))' = Cardinality(Holders(c))
<1>1. Holders(c)' = Holders(c) BY DEF Holders
<1> QED BY <1>1

\* One more pointer, of t.
LEMMA HoldAdd ==
    ASSUME NEW CONSTANT c, NEW CONSTANT t \in Thread, Has(t, c)' = Has(t, c) + 1,
           \A u \in Thread \ {t} : Has(u, c)' = Has(u, c)
    PROVE  Cardinality(Holders(c))' = Cardinality(Holders(c)) + 1
<1> PICK n : n = Has(t, c) OBVIOUS
<1>1. n \in {0, 1} /\ Has(t, c)' = n + 1
  <2>1. Has(t, c) \in {0, 1, 2} /\ Has(t, c)' \in {0, 1, 2} BY HasType DEF Has
  <2> QED BY <2>1
<1>2. <<t, n + 1>> \in Thread \X {1, 2} BY <1>1
<1>3. <<t, n + 1>> \notin Holders(c) BY <1>1 DEF Holders
<1>4. Holders(c)' = Holders(c) \cup {<<t, n + 1>>} BY <1>1, <1>2 DEF Holders
<1> QED BY <1>3, <1>4, HoldersFinite, FS_AddElement

\* One pointer fewer, of t.
LEMMA HoldSub ==
    ASSUME NEW CONSTANT c, NEW CONSTANT t \in Thread, Has(t, c)' = Has(t, c) - 1,
           \A u \in Thread \ {t} : Has(u, c)' = Has(u, c)
    PROVE  Cardinality(Holders(c))' = Cardinality(Holders(c)) - 1
<1> PICK n : n = Has(t, c) OBVIOUS
<1>1. n \in {1, 2} /\ Has(t, c)' = n - 1
  <2>1. Has(t, c) \in {0, 1, 2} /\ Has(t, c)' \in {0, 1, 2} BY HasType DEF Has
  <2> QED BY <2>1
<1>3. <<t, n>> \in Holders(c) BY <1>1 DEF Holders
<1>4. Holders(c)' = Holders(c) \ {<<t, n>>} BY <1>1 DEF Holders
<1> QED BY <1>3, <1>4, HoldersFinite, FS_RemoveElement

LEMMA RefsFinite == IsFiniteSet(Refs) /\ Cardinality(Refs) \in Nat
<1>1. Refs \subseteq Thread BY DEF Refs
<1> QED BY <1>1, RWLockAssumption, FS_Subset, FS_CardinalityType

\* No thread gains or loses a copy, and nor does the object.
LEMMA CountsKept ==
    ASSUME CopiesCounted, copies' = copies, obj'.copy = obj.copy,
           \A u \in Thread : task'[u].last = task[u].last /\ task'[u].run.mine = task[u].run.mine
    PROVE  CopiesCounted'
<1> SUFFICES ASSUME NEW CONSTANT c \in DOMAIN copies
             PROVE  copies[c] = Cardinality(Holders(c))' + (IF obj'.copy = c THEN 1 ELSE 0)
  BY DEF CopiesCounted
<1>1. \A u \in Thread : Has(u, c)' = Has(u, c) BY DEF Has, Run
<1>2. Cardinality(Holders(c))' = Cardinality(Holders(c)) BY <1>1, HoldSame
<1> QED BY <1>2 DEF CopiesCounted

\* A step of stm is a step of the lock or leaves the lock alone.
LEMMA LockKept ==
    ASSUME Inv, [StmNext]_stmVars
    PROVE  Inv' /\ Exclusion
<1>1. ASSUME StmNext PROVE [Next]_vars
  <2>1. ASSUME NEW t \in Thread, StmStep(t) PROVE [Next]_vars
    <3>1. CASE Locking(t) BY <3>1 DEF Locking, Next, Step
    <3>2. CASE GrabBody(t) BY <3>2 DEF GrabBody, vars
    <3>3. CASE ReadBody(t) BY <3>3 DEF ReadBody, vars
    <3>4. CASE UpdateBody(t) BY <3>4 DEF UpdateBody, vars
    <3>5. CASE ReleaseBody(t) BY <3>5 DEF ReleaseBody, vars
    <3>6. CASE DeleteBody(t) BY <3>6 DEF DeleteBody, vars
    <3>7. CASE Unlock(t) BY <3>7 DEF Unlock, Next, Step
    <3>8. CASE After(t) BY <3>8 DEF After, vars
    <3> QED BY <2>1, <3>1, <3>2, <3>3, <3>4, <3>5, <3>6, <3>7, <3>8 DEF StmStep
  <2>2. ASSUME NEW r \in Thread, LCopy(r) \/ LNewReader(r) \/ LRead(r) \/ LDeleteReader(r)
        PROVE  [Next]_vars
    BY <2>2, StmAssumption DEF LCopy, LNewReader, LRead, LDeleteReader, Next, vars
  <2>3. CASE LUpdate \/ LDeleteWriter
    BY <2>3, StmAssumption DEF LUpdate, LDeleteWriter, Next
  <2> QED BY <1>1, <2>1, <2>2, <2>3 DEF StmNext
<1>2. ASSUME UNCHANGED stmVars PROVE [Next]_vars BY <1>2 DEF stmVars, vars
<1>3. [Next]_vars BY <1>1, <1>2
<1> QED BY <1>3, NextInv, InvSafe

-----------------------------------------------------------------------------
Others(t) == \A u \in Thread \ {t} : task'[u] = task[u]

StmParts == StmTypes /\ Roles /\ InLock /\ Referenced /\ CopiesCounted

\* The tasks when n copies have been made.  A step that changes several fields
\* of a thread's task leaves the tasks typed.
RunSet(n) == [op : Ops, at : Ats, mine : 0..n]
TaskSet(n) == [Thread -> [run : RunSet(n), last : 0..n, end : Ends]]

LEMMA TaskRunEnd ==
    ASSUME NEW n, NEW f \in TaskSet(n), NEW t \in Thread, NEW r \in Thread,
           NEW x \in RunSet(n), NEW z \in Ends
    PROVE  [f EXCEPT ![t].run = x, ![r].end = z] \in TaskSet(n)
<1>1. PICK g : g = [f EXCEPT ![t].run = x] OBVIOUS
<1>2. [f[t] EXCEPT !.run = x] \in [run : RunSet(n), last : 0..n, end : Ends] BY DEF TaskSet
<1>3. g \in [Thread -> [run : RunSet(n), last : 0..n, end : Ends]] BY <1>1, <1>2 DEF TaskSet
<1>4. [g[r] EXCEPT !.end = z] \in [run : RunSet(n), last : 0..n, end : Ends] BY <1>3
<1>5. [g EXCEPT ![r].end = z] \in [Thread -> [run : RunSet(n), last : 0..n, end : Ends]]
  BY <1>3, <1>4
<1> QED BY <1>1, <1>5 DEF TaskSet

LEMMA TaskRunLastEnd ==
    ASSUME NEW n, NEW f \in TaskSet(n), NEW t \in Thread,
           NEW x \in RunSet(n), NEW y \in 0..n, NEW z \in Ends
    PROVE  [f EXCEPT ![t].run = x, ![t].last = y, ![t].end = z] \in TaskSet(n)
<1>1. PICK g : g = [f EXCEPT ![t].run = x, ![t].last = y] OBVIOUS
<1>2. [f[t] EXCEPT !.run = x, !.last = y] \in [run : RunSet(n), last : 0..n, end : Ends]
  BY DEF TaskSet
<1>3. g = [f EXCEPT ![t] = [f[t] EXCEPT !.run = x, !.last = y]] BY <1>1 DEF TaskSet
<1>4. g \in [Thread -> [run : RunSet(n), last : 0..n, end : Ends]] BY <1>2, <1>3 DEF TaskSet
<1>5. [g[t] EXCEPT !.end = z] \in [run : RunSet(n), last : 0..n, end : Ends] BY <1>4
<1>6. [g EXCEPT ![t].end = z] \in [Thread -> [run : RunSet(n), last : 0..n, end : Ends]]
  BY <1>4, <1>5
<1> QED BY <1>1, <1>6 DEF TaskSet

\* lcopy, ldeletewriter, lread, ldeletereader up to the lock.
LEMMA BeginKeeps ==
    ASSUME StmInv, NEW CONSTANT t \in Thread, NEW CONSTANT op,
           op \in IF t = Writer THEN {"grab", "release"} ELSE {"read", "delete"},
           Begin(t, op, 0), Goto(t, "idle", IF op = "release" THEN "wwait" ELSE "rwait"),
           UNCHANGED <<obj, copies>>
    PROVE  StmParts'
<1> USE DEF StmInv, Idle
<1>a. /\ task[t].run = Idle /\ task[t].end = "open"
      /\ task' = [task EXCEPT ![t].run = [op |-> op, at |-> "lock", mine |-> 0]]
      /\ pc[t] = "idle" /\ pc' = [pc EXCEPT ![t] = IF op = "release" THEN "wwait" ELSE "rwait"]
      /\ obj' = obj /\ copies' = copies
  BY DEF Begin, Goto, Run
<1>b. task \in [Thread -> [run : [op : Ops, at : Ats, mine : 0..Len(copies)],
                           last : 0..Len(copies), end : Ends]]
  BY DEF StmTypes
<1>c. Others(t) /\ DOMAIN task' = Thread BY <1>a, <1>b DEF Others
<1>d. /\ task'[t].run = [op |-> op, at |-> "lock", mine |-> 0]
      /\ task'[t].last = task[t].last /\ task'[t].end = "open"
  BY <1>a, <1>b
<1>e. pc \in [Thread -> Labels] BY DEF Inv, Shape
<1>1. StmTypes' BY <1>a, <1>b DEF StmTypes, Ops, Ats
<1>2. Roles' BY <1>a, <1>c, <1>d DEF Roles, Others, Run
<1>3. InLock' BY <1>a, <1>c, <1>d, <1>e DEF InLock, Others, Run, Writes, ReadLabels, WriteLabels
<1>4. Refs' = Refs BY <1>a, <1>c, <1>d DEF Refs, Others, Run
<1>5. Granted' <=> Granted BY <1>a, <1>c, <1>d, StmAssumption DEF Granted, Others, Run, Roles
<1>6. Referenced' BY <1>a, <1>c, <1>d, <1>4, <1>5, StmAssumption DEF Referenced, Others, Run
<1>7. CopiesCounted'
  <2>1. \A u \in Thread : task'[u].last = task[u].last /\ task'[u].run.mine = task[u].run.mine
    BY <1>a, <1>c, <1>d DEF Others
  <2> QED BY <1>a, <2>1, CountsKept
<1> QED BY <1>1, <1>2, <1>3, <1>6, <1>7 DEF StmParts

\* What every action needs to know of the state before it.
LEMMA Before ==
    ASSUME StmInv
    PROVE  /\ task \in [Thread -> [run : [op : Ops, at : Ats, mine : 0..Len(copies)],
                                   last : 0..Len(copies), end : Ends]]
           /\ obj \in [ref : Int, copy : 0..Len(copies), freed : BOOLEAN]
           /\ copies \in Seq(Int) /\ Len(copies) \in Nat /\ DOMAIN copies = 1..Len(copies)
           /\ pc \in [Thread -> Labels]
           /\ Cardinality(Refs) \in Nat
  BY RefsFinite DEF StmInv, StmTypes, Inv, Shape

\* lupdate up to the lock: only the writer has the new copy.
LEMMA UpdateKeeps ==
    ASSUME StmInv, LUpdate
    PROVE  StmParts'
<1> PICK n : n = Len(copies) + 1 OBVIOUS
<1> USE DEF StmInv, Idle
<1>a. /\ task[Writer].run = Idle /\ task[Writer].end = "open"
      /\ task' = [task EXCEPT ![Writer].run = [op |-> "update", at |-> "lock", mine |-> n]]
      /\ pc[Writer] = "idle" /\ pc' = [pc EXCEPT ![Writer] = "wwait"]
      /\ obj' = obj /\ copies' = Append(copies, 1)
  BY DEF LUpdate, Begin, CallWriteLock, Goto, Run
<1>b. /\ task \in [Thread -> [run : [op : Ops, at : Ats, mine : 0..Len(copies)],
                              last : 0..Len(copies), end : Ends]]
      /\ obj \in [ref : Int, copy : 0..Len(copies), freed : BOOLEAN]
      /\ copies \in Seq(Int) /\ Len(copies) \in Nat /\ pc \in [Thread -> Labels]
  BY Before
<1>w. Writer \in Thread BY StmAssumption
<1>c. Others(Writer) /\ DOMAIN task' = Thread BY <1>a, <1>b DEF Others
<1>d. /\ task'[Writer].run = [op |-> "update", at |-> "lock", mine |-> n]
      /\ task'[Writer].last = task[Writer].last /\ task'[Writer].end = "open"
  BY <1>a, <1>b, <1>w
<1>e. copies' \in Seq(Int) /\ Len(copies') = n /\ n \in Nat /\ 0..Len(copies) \subseteq 0..n
  BY <1>a, <1>b
<1>1. StmTypes'
  <2>1. obj' \in [ref : Int, copy : 0..n, freed : BOOLEAN] BY <1>a, <1>b, <1>e
  <2>2. ASSUME NEW u \in Thread
        PROVE  task'[u] \in [run : [op : Ops, at : Ats, mine : 0..n], last : 0..n, end : Ends]
    <3>1. CASE u = Writer
      <4>1. task'[u] = [task[u] EXCEPT !.run = [op |-> "update", at |-> "lock", mine |-> n]]
        BY <1>a, <1>b, <3>1
      <4>2. task[u] \in [run : [op : Ops, at : Ats, mine : 0..n], last : 0..n, end : Ends]
        BY <1>b, <1>e
      <4>3. [op |-> "update", at |-> "lock", mine |-> n] \in [op : Ops, at : Ats, mine : 0..n]
        BY <1>e DEF Ops, Ats
      <4> QED BY <4>1, <4>2, <4>3
    <3>2. CASE u # Writer
      <4>1. task[u] \in [run : [op : Ops, at : Ats, mine : 0..n], last : 0..n, end : Ends]
        BY <1>b, <1>e
      <4> QED BY <4>1, <1>c, <3>2 DEF Others
    <3> QED BY <3>1, <3>2
  <2>3. task' = [u \in Thread |-> task'[u]] BY <1>a, <1>b
  <2> QED BY <1>e, <2>1, <2>2, <2>3 DEF StmTypes
<1>2. Roles' BY <1>a, <1>c, <1>d DEF Roles, Others, Run
<1>3. InLock' BY <1>a, <1>b, <1>c, <1>d DEF InLock, Others, Run, Writes, ReadLabels, WriteLabels
<1>4. Refs' = Refs BY <1>a, <1>c, <1>d DEF Refs, Others, Run
<1>5. Granted' <=> Granted BY <1>a, <1>c, <1>d, <1>w DEF Granted, Others, Run, Roles
<1>6. Referenced' BY <1>a, <1>c, <1>d, <1>4, <1>5, <1>w DEF Referenced, Others, Run
<1>7. CopiesCounted'
  <2> SUFFICES ASSUME NEW CONSTANT c \in 1..n
               PROVE  copies'[c] = Cardinality(Holders(c))' + (IF obj.copy = c THEN 1 ELSE 0)
    BY <1>a, <1>e DEF CopiesCounted
  <2>1. CASE c = n
    <3>1. copies'[c] = 1 /\ obj.copy # c BY <1>a, <1>b, <1>e, <2>1
    <3>2. \A u \in Thread : Has(u, c) = 0 BY <1>b, <1>e, <2>1 DEF Has, Run
    <3>3. \A u \in Thread \ {Writer} : Has(u, c)' = Has(u, c) BY <1>c DEF Has, Run, Others
    <3>4. Has(Writer, c)' = Has(Writer, c) + 1 BY <1>d, <1>w, <1>b, <1>e, <2>1 DEF Has, Run
    <3>5. Holders(c) = {} BY <3>2 DEF Holders
    <3>6. Cardinality(Holders(c)) = 0 BY <3>5, FS_EmptySet
    <3> QED BY <3>1, <3>3, <3>4, <3>6, <1>w, HoldAdd
  <2>2. CASE c # n
    <3>1. c \in DOMAIN copies /\ copies'[c] = copies[c] BY <1>a, <1>b, <1>e, <2>2
    <3>2. \A u \in Thread : Has(u, c)' = Has(u, c)
      BY <1>a, <1>c, <1>d, <1>w, <1>e, <2>2 DEF Has, Run, Others
    <3> QED BY <3>1, <3>2, HoldSame DEF CopiesCounted
  <2> QED BY <2>1, <2>2
<1> QED BY <1>1, <1>2, <1>3, <1>6, <1>7 DEF StmParts

\* lnewreader: a reference that is on its way arrives.
LEMMA NewReaderKeeps ==
    ASSUME StmInv, NEW CONSTANT t \in Thread, LNewReader(t)
    PROVE  StmParts'
<1> USE DEF StmInv
<1>a. /\ task[t].end = "sent" /\ task' = [task EXCEPT ![t].end = "open"]
      /\ pc' = pc /\ obj' = obj /\ copies' = copies
  BY DEF LNewReader
<1>b. /\ task \in [Thread -> [run : [op : Ops, at : Ats, mine : 0..Len(copies)],
                              last : 0..Len(copies), end : Ends]]
  BY Before
<1>c. Others(t) /\ DOMAIN task' = Thread BY <1>a, <1>b DEF Others
<1>d. /\ task'[t].run = task[t].run
      /\ task'[t].last = task[t].last /\ task'[t].end = "open"
  BY <1>a, <1>b
<1>1. StmTypes' BY <1>a, <1>b DEF StmTypes, Ends
<1>2. Roles' BY <1>a, <1>c, <1>d DEF Roles, Others, Run
<1>3. InLock'
  <2>1. \A u \in Thread : task'[u].run = task[u].run BY <1>c, <1>d DEF Others
  <2> QED BY <1>a, <2>1 DEF InLock, Run, Writes
<1>4. Refs' = Refs BY <1>a, <1>c, <1>d DEF Refs, Others, Run, Roles
<1>5. Granted' <=> Granted BY <1>a, <1>c, <1>d, StmAssumption DEF Granted, Others, Run, Roles
<1>6. Referenced' BY <1>a, <1>c, <1>d, <1>4, <1>5, StmAssumption DEF Referenced, Others, Run
<1>7. CopiesCounted'
  <2>1. \A u \in Thread : task'[u].last = task[u].last /\ task'[u].run.mine = task[u].run.mine
    BY <1>a, <1>c, <1>d DEF Others
  <2> QED BY <1>a, <2>1, CountsKept
<1> QED BY <1>1, <1>2, <1>3, <1>6, <1>7 DEF StmParts

\* The lock's own steps.
LEMMA LockingKeeps ==
    ASSUME StmInv, NEW CONSTANT t \in Thread, Locking(t)
    PROVE  StmParts'
<1> USE DEF StmInv
<1>a. obj' = obj /\ copies' = copies /\ task' = task BY DEF Locking
<1>b. /\ pc[t] \in {"rwait", "rinc", "rcheck", "rback", "wwait", "wdrain"}
      /\ pc[t] \in ReadLabels => pc'[t] \in ReadLabels
      /\ pc[t] \in WriteLabels => pc'[t] \in WriteLabels
      /\ \A u \in Thread \ {t} : pc'[u] = pc[u]
  <2>1. pc \in [Thread -> Labels] BY Before
  <2> QED BY <2>1 DEF Locking, SeeNoWriter, Announce, CheckWriter, Withdraw, RaiseFlag, SeeNoReader,
        Goto, ReadLabels, WriteLabels
<1>1. StmTypes' BY <1>a DEF StmTypes
<1>2. Roles' BY <1>a DEF Roles, Run
<1>3. InLock' BY <1>a, <1>b DEF InLock, Run, Writes
<1>4. Referenced' BY <1>a DEF Referenced, Refs, Granted, Run
<1>5. CopiesCounted' BY <1>a, CountsKept
<1> QED BY <1>1, <1>2, <1>3, <1>4, <1>5 DEF StmParts

-----------------------------------------------------------------------------
\* The body of stm_grab: the end that is counted is nobody's yet.
LEMMA GrabKeeps ==
    ASSUME StmInv, NEW CONSTANT t \in Thread, GrabBody(t)
    PROVE  StmParts'
<1> USE DEF StmInv
<1>a. /\ task[t].run.op = "grab" /\ task[t].run.at = "lock" /\ pc[t] \in {"reading", "writing"}
      /\ obj' = [obj EXCEPT !.ref = @ + 1] /\ task' = [task EXCEPT ![t].run.at = "unlock"]
      /\ pc' = pc /\ copies' = copies
  BY DEF GrabBody, InSection, Run, Then
<1>b. /\ task \in [Thread -> [run : [op : Ops, at : Ats, mine : 0..Len(copies)],
                              last : 0..Len(copies), end : Ends]]
      /\ obj \in [ref : Int, copy : 0..Len(copies), freed : BOOLEAN]
      /\ Cardinality(Refs) \in Nat
  BY Before
<1>c. Others(t) /\ DOMAIN task' = Thread BY <1>a, <1>b DEF Others
<1>d. /\ task'[t].run.op = "grab" /\ task'[t].run.at = "unlock" /\ task'[t].run.mine = task[t].run.mine
      /\ task'[t].last = task[t].last /\ task'[t].end = task[t].end
  BY <1>a, <1>b
<1>e. obj'.ref = obj.ref + 1 /\ obj'.copy = obj.copy /\ obj'.freed = obj.freed BY <1>a, <1>b
<1>w. t = Writer BY <1>a DEF Roles, Run
<1>1. StmTypes'
  <2>1. obj' \in [ref : Int, copy : 0..Len(copies), freed : BOOLEAN]
    <3> PICK i : i = obj.ref + 1 OBVIOUS
    <3>1. i \in Int /\ obj' = [obj EXCEPT !.ref = i] BY <1>a, <1>b
    <3> QED BY <1>b, <3>1
  <2>2. [task[t].run EXCEPT !.at = "unlock"] \in [op : Ops, at : Ats, mine : 0..Len(copies)]
    BY <1>b DEF Ats
  <2>3. task' \in [Thread -> [run : [op : Ops, at : Ats, mine : 0..Len(copies)],
                              last : 0..Len(copies), end : Ends]]
    BY <1>a, <1>b, <2>2
  <2> QED BY <1>a, <2>1, <2>3 DEF StmInv, StmTypes
<1>2. Roles' BY <1>a, <1>c, <1>d DEF Roles, Others, Run
<1>3. InLock' BY <1>a, <1>c, <1>d, <1>e DEF InLock, Others, Run, Writes, ReadLabels
<1>4. Refs' = Refs BY <1>a, <1>c, <1>d DEF Refs, Others, Run
<1>5. ~Granted /\ Granted' BY <1>a, <1>d, <1>w DEF Granted, Run
<1>6. Writer \in Refs
  <2>1. task[t].end = "open" BY <1>a DEF Roles, Run
  <2> QED BY <2>1, <1>a, <1>w DEF Refs, Run
<1>7. Cardinality(Refs) # 0 BY <1>6, RefsFinite, FS_EmptySet
<1>8. Referenced' BY <1>b, <1>d, <1>e, <1>w, <1>4, <1>5, <1>6, <1>7 DEF Referenced, Run
<1>9. CopiesCounted'
  <2>1. \A u \in Thread : task'[u].last = task[u].last /\ task'[u].run.mine = task[u].run.mine
    BY <1>c, <1>d DEF Others
  <2> QED BY <1>a, <1>e, <2>1, CountsKept
<1> QED BY <1>1, <1>2, <1>3, <1>8, <1>9 DEF StmParts

\* The body of stm_copy: the reader has one more copy, and that copy one more
\* reference.
LEMMA ReadKeeps ==
    ASSUME StmInv, NEW CONSTANT t \in Thread, ReadBody(t)
    PROVE  StmParts'
<1> PICK k : k = obj.copy OBVIOUS
<1> USE DEF StmInv
<1>a. /\ task[t].run.op = "read" /\ task[t].run.at = "lock" /\ pc[t] \in {"reading", "writing"}
      /\ copies' = IF k = 0 THEN copies ELSE [copies EXCEPT ![k] = @ + 1]
      /\ task' = [task EXCEPT ![t].run.at = "unlock", ![t].run.mine = k]
      /\ pc' = pc /\ obj' = obj
  BY DEF ReadBody, InSection, Run
<1>b. /\ task \in [Thread -> [run : [op : Ops, at : Ats, mine : 0..Len(copies)],
                              last : 0..Len(copies), end : Ends]]
      /\ obj \in [ref : Int, copy : 0..Len(copies), freed : BOOLEAN]
      /\ copies \in Seq(Int) /\ Len(copies) \in Nat /\ DOMAIN copies = 1..Len(copies)
  BY Before
<1>c. Others(t) /\ DOMAIN task' = Thread BY <1>a, <1>b DEF Others
<1>d. /\ task'[t].run.op = "read" /\ task'[t].run.at = "unlock" /\ task'[t].run.mine = k
      /\ task'[t].last = task[t].last /\ task'[t].end = task[t].end
  BY <1>a, <1>b
<1>e. task[t].run.mine = 0 BY <1>a DEF Roles, Run
<1>f. k \in 0..Len(copies) BY <1>b
<1>g. copies' \in Seq(Int) /\ Len(copies') = Len(copies) /\ DOMAIN copies' = DOMAIN copies
  BY <1>a, <1>b, <1>f
<1>1. StmTypes'
  <2>2. [task[t].run EXCEPT !.at = "unlock", !.mine = k] \in [op : Ops, at : Ats, mine : 0..Len(copies)]
    BY <1>b, <1>f DEF Ats
  <2>3. task' \in [Thread -> [run : [op : Ops, at : Ats, mine : 0..Len(copies)],
                              last : 0..Len(copies), end : Ends]]
    <3>1. task' = [task EXCEPT ![t].run = [task[t].run EXCEPT !.at = "unlock", !.mine = k]]
      BY <1>a, <1>b
    <3> QED BY <1>b, <2>2, <3>1
  <2> QED BY <1>a, <1>b, <1>g, <2>3 DEF StmTypes
<1>2. Roles' BY <1>a, <1>c, <1>d DEF Roles, Others, Run
<1>3. InLock' BY <1>a, <1>c, <1>d DEF InLock, Others, Run, Writes, ReadLabels
<1>4. Refs' = Refs BY <1>a, <1>c, <1>d DEF Refs, Others, Run
<1>w. t # Writer BY <1>a DEF Roles, Run
<1>5. task'[Writer] = task[Writer] BY <1>c, <1>w, StmAssumption DEF Others
<1>6. Referenced' BY <1>a, <1>4, <1>5 DEF Referenced, Granted, Run
<1>7. CopiesCounted'
  <2> SUFFICES ASSUME NEW CONSTANT c \in DOMAIN copies
               PROVE  copies'[c] = Cardinality(Holders(c))' + (IF obj.copy = c THEN 1 ELSE 0)
    BY <1>a, <1>g DEF CopiesCounted
  <2>0. copies[c] = Cardinality(Holders(c)) + (IF obj.copy = c THEN 1 ELSE 0) /\ c # 0
    BY <1>b DEF CopiesCounted
  <2>1. \A u \in Thread \ {t} : Has(u, c)' = Has(u, c) BY <1>c DEF Has, Run, Others
  <2>2. CASE c = k
    <3>1. copies'[c] = copies[c] + 1 BY <1>a, <1>b, <2>0, <2>2
    <3>2. Has(t, c)' = Has(t, c) + 1 BY <1>d, <1>e, <2>0, <2>2 DEF Has, Run
    <3>3. Cardinality(Holders(c))' = Cardinality(Holders(c)) + 1 BY <2>1, <3>2, HoldAdd
    <3> QED BY <2>0, <3>1, <3>3, <2>2, HoldersFinite
  <2>3. CASE c # k
    <3>1. copies'[c] = copies[c] BY <1>a, <1>b, <2>3
    <3>2. Has(t, c)' = Has(t, c) BY <1>d, <1>e, <2>0, <2>3 DEF Has, Run
    <3>3. Cardinality(Holders(c))' = Cardinality(Holders(c)) BY <2>1, <3>2, HoldSame
    <3> QED BY <2>0, <3>1, <3>3
  <2> QED BY <2>2, <2>3
<1> QED BY <1>1, <1>2, <1>3, <1>6, <1>7 DEF StmParts

\* The body of stm_update: the object and the writer exchange their copies.
LEMMA ExchangeKeeps ==
    ASSUME StmInv, NEW CONSTANT t \in Thread, UpdateBody(t)
    PROVE  StmParts'
<1> PICK k : k = obj.copy OBVIOUS
<1> PICK m : m = task[t].run.mine OBVIOUS
<1> USE DEF StmInv
<1>a. /\ task[t].run.op = "update" /\ task[t].run.at = "lock" /\ pc[t] \in {"reading", "writing"}
      /\ obj' = [obj EXCEPT !.copy = m]
      /\ task' = [task EXCEPT ![t].run.at = "unlock", ![t].run.mine = k]
      /\ pc' = pc /\ copies' = copies
  BY DEF UpdateBody, InSection, Run
<1>b. /\ task \in [Thread -> [run : [op : Ops, at : Ats, mine : 0..Len(copies)],
                              last : 0..Len(copies), end : Ends]]
      /\ obj \in [ref : Int, copy : 0..Len(copies), freed : BOOLEAN]
      /\ copies \in Seq(Int) /\ Len(copies) \in Nat /\ DOMAIN copies = 1..Len(copies)
  BY Before
<1>c. Others(t) /\ DOMAIN task' = Thread BY <1>a, <1>b DEF Others
<1>d. /\ task'[t].run.op = "update" /\ task'[t].run.at = "unlock" /\ task'[t].run.mine = k
      /\ task'[t].last = task[t].last /\ task'[t].end = task[t].end
  BY <1>a, <1>b
<1>e. obj'.ref = obj.ref /\ obj'.copy = m /\ obj'.freed = obj.freed BY <1>a, <1>b
<1>f. k \in 0..Len(copies) /\ m \in 0..Len(copies) BY <1>b
<1>w. t = Writer /\ task[t].end = "open" /\ task[t].last = 0 BY <1>a DEF Roles, Run
<1>1. StmTypes'
  <2>1. obj' \in [ref : Int, copy : 0..Len(copies), freed : BOOLEAN] BY <1>a, <1>b, <1>f
  <2>2. [task[t].run EXCEPT !.at = "unlock", !.mine = k] \in [op : Ops, at : Ats, mine : 0..Len(copies)]
    BY <1>b, <1>f DEF Ats
  <2>3. task' \in [Thread -> [run : [op : Ops, at : Ats, mine : 0..Len(copies)],
                              last : 0..Len(copies), end : Ends]]
    <3>1. task' = [task EXCEPT ![t].run = [task[t].run EXCEPT !.at = "unlock", !.mine = k]]
      BY <1>a, <1>b
    <3> QED BY <1>b, <2>2, <3>1
  <2> QED BY <1>a, <1>b, <2>1, <2>3 DEF StmTypes
<1>2. Roles' BY <1>a, <1>c, <1>d DEF Roles, Others, Run
<1>3. InLock'
  <2>1. pc[t] = "writing" BY <1>a DEF InLock, Run, Writes, WriteLabels
  <2> QED BY <1>a, <1>c, <1>d, <1>e, <2>1 DEF InLock, Others, Run, Writes
<1>4. Refs' = Refs BY <1>a, <1>c, <1>d DEF Refs, Others, Run
<1>5. ~Granted /\ ~Granted' BY <1>a, <1>d, <1>w DEF Granted, Run
<1>6. Referenced'
  <2>1. Writer \in Refs BY <1>a, <1>w DEF Refs, Run
  <2> QED BY <1>d, <1>e, <1>w, <1>4, <1>5, <2>1 DEF Referenced, Run
<1>7. CopiesCounted'
  <2> SUFFICES ASSUME NEW CONSTANT c \in DOMAIN copies
               PROVE  copies[c] = Cardinality(Holders(c))' + (IF m = c THEN 1 ELSE 0)
    BY <1>a, <1>e DEF CopiesCounted
  <2>0. copies[c] = Cardinality(Holders(c)) + (IF k = c THEN 1 ELSE 0) /\ c # 0
    BY <1>b DEF CopiesCounted
  <2>1. \A u \in Thread \ {t} : Has(u, c)' = Has(u, c) BY <1>c DEF Has, Run, Others
  <2>2. Has(t, c) = (IF m = c THEN 1 ELSE 0) /\ Has(t, c)' = (IF k = c THEN 1 ELSE 0)
    BY <1>d, <1>w, <2>0 DEF Has, Run
  <2>3. CASE c = k /\ c # m
    <3>1. Cardinality(Holders(c))' = Cardinality(Holders(c)) + 1 BY <2>1, <2>2, <2>3, HoldAdd
    <3> QED BY <2>0, <3>1, <2>3, HoldersFinite
  <2>4. CASE c # k /\ c = m
    <3>1. Cardinality(Holders(c))' = Cardinality(Holders(c)) - 1 BY <2>1, <2>2, <2>4, HoldSub
    <3> QED BY <2>0, <3>1, <2>4, HoldersFinite
  <2>5. CASE c = k <=> c = m
    <3>1. Cardinality(Holders(c))' = Cardinality(Holders(c)) BY <2>1, <2>2, <2>5, HoldSame
    <3> QED BY <2>0, <3>1, <2>5
  <2> QED BY <2>3, <2>4, <2>5
<1> QED BY <1>1, <1>2, <1>3, <1>6, <1>7 DEF StmParts

LEMMA ReleaseTyped ==
    ASSUME NEW cs \in Seq(Int), NEW k \in 0..Len(cs)
    PROVE  /\ ReleaseCopy(cs, k) \in Seq(Int) /\ Len(ReleaseCopy(cs, k)) = Len(cs)
           /\ DOMAIN ReleaseCopy(cs, k) = DOMAIN cs
           /\ \A c \in DOMAIN cs : ReleaseCopy(cs, k)[c] = IF c = k THEN cs[c] - 1 ELSE cs[c]
  BY DEF ReleaseCopy

\* A thread gives up a copy, which loses a reference.
LEMMA GivenUp ==
    ASSUME CopiesCounted, copies \in Seq(Int), NEW CONSTANT k \in 0..Len(copies), NEW CONSTANT t \in Thread,
           copies' = ReleaseCopy(copies, k), obj'.copy = obj.copy, Others(t),
           \A c \in DOMAIN copies : Has(t, c)' = Has(t, c) - (IF c = k THEN 1 ELSE 0)
    PROVE  CopiesCounted'
<1> SUFFICES ASSUME NEW CONSTANT c \in DOMAIN copies
             PROVE  copies'[c] = Cardinality(Holders(c))' + (IF obj.copy = c THEN 1 ELSE 0)
  BY ReleaseTyped DEF CopiesCounted
<1>0. copies[c] = Cardinality(Holders(c)) + (IF obj.copy = c THEN 1 ELSE 0) BY DEF CopiesCounted
<1>1. \A u \in Thread \ {t} : Has(u, c)' = Has(u, c) BY DEF Has, Run, Others
<1>2. CASE c = k
  <2>1. copies'[c] = copies[c] - 1 BY <1>2, ReleaseTyped
  <2>2. Has(t, c)' = Has(t, c) - 1 BY <1>2
  <2>3. Cardinality(Holders(c))' = Cardinality(Holders(c)) - 1 BY <1>1, <2>2, HoldSub
  <2> QED BY <1>0, <2>1, <2>3, HoldersFinite
<1>3. CASE c # k
  <2>1. copies'[c] = copies[c] BY <1>3, ReleaseTyped
  <2>2. Has(t, c)' = Has(t, c) BY <1>3, HasType
  <2>3. Cardinality(Holders(c))' = Cardinality(Holders(c)) BY <1>1, <2>2, HoldSame
  <2> QED BY <1>0, <2>1, <2>3
<1> QED BY <1>2, <1>3

\* The body of stm_release: the writer's end goes, and the copy of the object
\* loses the reference that the object was.
LEMMA ReleaseKeeps ==
    ASSUME StmInv, NEW CONSTANT t \in Thread, ReleaseBody(t)
    PROVE  StmParts'
<1> PICK k : k = obj.copy OBVIOUS
<1> PICK n : n = obj.ref OBVIOUS
<1> PICK b : b = (n = 1) OBVIOUS
<1>0. b \in BOOLEAN /\ (b <=> n = 1) OBVIOUS
<1> USE DEF StmInv
<1>a. /\ task[t].run.op = "release" /\ task[t].run.at = "lock" /\ pc[t] \in {"reading", "writing"}
      /\ copies' = ReleaseCopy(copies, k)
      /\ obj' = [ref |-> n - 1, copy |-> 0, freed |-> b]
      /\ task' = IF n > 1 THEN [task EXCEPT ![t].run.at = "unlock"]
                 ELSE [task EXCEPT ![t].run = Idle, ![t].end = "closed"]
      /\ pc' = pc
  BY DEF ReleaseBody, InSection, Run, Then
<1>b. /\ task \in [Thread -> [run : [op : Ops, at : Ats, mine : 0..Len(copies)],
                              last : 0..Len(copies), end : Ends]]
      /\ obj \in [ref : Int, copy : 0..Len(copies), freed : BOOLEAN]
      /\ copies \in Seq(Int) /\ Len(copies) \in Nat /\ DOMAIN copies = 1..Len(copies)
      /\ Cardinality(Refs) \in Nat
  BY Before
<1>c. Others(t) /\ DOMAIN task' = Thread BY <1>a, <1>b DEF Others
<1>w. t = Writer /\ task[t].end = "open" /\ task[t].last = 0 /\ task[t].run.mine = 0
  BY <1>a DEF Roles, Run
<1>d. /\ task'[t].run.mine = 0 /\ task'[t].last = 0
      /\ n > 1 => task'[t].run.op = "release" /\ task'[t].run.at = "unlock" /\ task'[t].end = "open"
      /\ ~(n > 1) => task'[t].run.op = "none" /\ task'[t].run.at = "done" /\ task'[t].end = "closed"
  BY <1>a, <1>b, <1>w DEF Idle
<1>e. n \in Int /\ k \in 0..Len(copies) BY <1>b
<1>f. obj'.ref = n - 1 /\ obj'.copy = 0 /\ (obj'.freed <=> n = 1) BY <1>0, <1>a
<1>g. copies' \in Seq(Int) /\ Len(copies') = Len(copies) /\ DOMAIN copies' = DOMAIN copies
  BY <1>a, <1>b, <1>e, ReleaseTyped
<1>r. \A c \in DOMAIN copies : copies'[c] = IF c = k THEN copies[c] - 1 ELSE copies[c]
  BY <1>a, <1>b, <1>e DEF ReleaseCopy
<1>h. Writer \in Refs BY <1>a, <1>w DEF Refs, Run
<1>i. ~Granted /\ ~Granted' BY <1>a, <1>d, <1>w DEF Granted, Run
<1>j. Refs' = Refs \ {Writer} BY <1>c, <1>d, <1>w DEF Refs, Run, Others
<1>k. Cardinality(Refs) # 0 BY <1>h, RefsFinite, FS_EmptySet
<1>l. Cardinality(Refs') = Cardinality(Refs) - 1
  BY <1>h, <1>j, RefsFinite, FS_RemoveElement
<1>m. n = Cardinality(Refs) /\ n >= 1 /\ ~obj.freed BY <1>b, <1>e, <1>i, <1>k DEF Referenced
<1>1. StmTypes'
  <2>1. obj' \in [ref : Int, copy : 0..Len(copies), freed : BOOLEAN] BY <1>0, <1>a, <1>b, <1>e
  <2>2. [task[t].run EXCEPT !.at = "unlock"] \in [op : Ops, at : Ats, mine : 0..Len(copies)]
    BY <1>b DEF Ats
  <2>3. Idle \in [op : Ops, at : Ats, mine : 0..Len(copies)] BY <1>b DEF Ats, Ops, Idle
  <2>4. task' \in [Thread -> [run : [op : Ops, at : Ats, mine : 0..Len(copies)],
                              last : 0..Len(copies), end : Ends]]
    <3>1. CASE n > 1 BY <1>a, <1>b, <2>2, <3>1
    <3>2. CASE ~(n > 1)
      <4>1. task' = [task EXCEPT ![t].run = Idle, ![t].end = "closed"] BY <1>a, <3>2
      <4>2. "closed" \in Ends BY DEF Ends
      <4>3. task \in TaskSet(Len(copies)) /\ Idle \in RunSet(Len(copies))
        BY <1>b, <2>3 DEF TaskSet, RunSet
      <4>4. task' \in TaskSet(Len(copies)) BY <4>1, <4>2, <4>3, TaskRunEnd
      <4> QED BY <4>4 DEF TaskSet, RunSet
    <3> QED BY <3>1, <3>2
  <2> QED BY <1>b, <1>g, <2>1, <2>4 DEF StmTypes
<1>2. Roles' BY <1>a, <1>c, <1>d, <1>w DEF Roles, Others, Run
<1>3. InLock'
  <2>1. pc[t] = "writing" BY <1>a DEF InLock, Run, Writes, WriteLabels
  <2> QED BY <1>a, <1>c, <1>d, <1>e, <1>f, <1>m, <2>1 DEF InLock, Others, Run, Writes
<1>4. Referenced'
  <2>1. obj'.ref = Cardinality(Refs') + (IF Granted' THEN 1 ELSE 0) BY <1>b, <1>e, <1>f, <1>i, <1>l, <1>m
  <2>2. obj'.freed <=> obj'.ref = 0 BY <1>e, <1>f
  <2>3. obj'.copy = 0 BY <1>f
  <2>4. task'[Writer].run.op = "release" /\ task'[Writer].run.at = "unlock" => ~obj'.freed
    BY <1>d, <1>e, <1>f, <1>w
  <2> QED BY <2>1, <2>2, <2>3, <2>4 DEF Referenced, Run
<1>5. CopiesCounted'
  <2> SUFFICES ASSUME NEW CONSTANT c \in DOMAIN copies
               PROVE  copies'[c] = Cardinality(Holders(c))' + (IF obj'.copy = c THEN 1 ELSE 0)
    BY <1>g DEF CopiesCounted
  <2>0. copies[c] = Cardinality(Holders(c)) + (IF k = c THEN 1 ELSE 0) /\ c # 0
    BY <1>b DEF CopiesCounted
  <2>1. \A u \in Thread : Has(u, c)' = Has(u, c) BY <1>c, <1>d, <1>w DEF Has, Run, Others
  <2>2. Cardinality(Holders(c))' = Cardinality(Holders(c)) BY <2>1, HoldSame
  <2>3. copies'[c] = IF c = k THEN copies[c] - 1 ELSE copies[c]
    BY <1>r
  <2> QED BY <1>f, <2>0, <2>2, <2>3, HoldersFinite
<1> QED BY <1>1, <1>2, <1>3, <1>4, <1>5 DEF StmParts

\* The body of stm_releasereader: no writer is about to unlock an object that is
\* freed here, since it would have the lock alone.
LEMMA DeleteKeeps ==
    ASSUME StmInv, NEW CONSTANT t \in Thread, DeleteBody(t)
    PROVE  StmParts'
<1> PICK n : n = obj.ref OBVIOUS
<1> PICK b : b = (n = 1) OBVIOUS
<1>0. b \in BOOLEAN /\ (b <=> n = 1) OBVIOUS
<1> USE DEF StmInv
<1>a. /\ task[t].run.op = "delete" /\ task[t].run.at = "lock" /\ pc[t] \in {"reading", "writing"}
      /\ obj' = [obj EXCEPT !.ref = n - 1, !.freed = b]
      /\ task' = [task EXCEPT ![t].run.at = IF n > 1 THEN "unlock" ELSE "after"]
      /\ pc' = pc /\ copies' = copies
  BY DEF DeleteBody, InSection, Run, Then
<1>b. /\ task \in [Thread -> [run : [op : Ops, at : Ats, mine : 0..Len(copies)],
                              last : 0..Len(copies), end : Ends]]
      /\ obj \in [ref : Int, copy : 0..Len(copies), freed : BOOLEAN]
      /\ Cardinality(Refs) \in Nat
  BY Before
<1>c. Others(t) /\ DOMAIN task' = Thread BY <1>a, <1>b DEF Others
<1>w. t # Writer /\ task[t].end = "open" BY <1>a DEF Roles, Run
<1>x. task'[Writer] = task[Writer] BY <1>c, <1>w, StmAssumption DEF Others
<1>d. /\ task'[t].run.op = "delete" /\ task'[t].run.mine = task[t].run.mine
      /\ task'[t].run.at = IF n > 1 THEN "unlock" ELSE "after"
      /\ task'[t].last = task[t].last /\ task'[t].end = "open"
  BY <1>a, <1>b, <1>w
<1>e. n \in Int BY <1>b
<1>f. obj'.ref = n - 1 /\ obj'.copy = obj.copy /\ (obj'.freed <=> n = 1) BY <1>0, <1>a, <1>b
<1>h. t \in Refs BY <1>a, <1>w DEF Refs, Run
<1>i. Granted' <=> Granted BY <1>x DEF Granted, Run
<1>j. Refs' = Refs \ {t} BY <1>c, <1>d, <1>w DEF Refs, Run, Others
<1>k. Cardinality(Refs) # 0 BY <1>h, RefsFinite, FS_EmptySet
<1>l. Cardinality(Refs') = Cardinality(Refs) - 1
  BY <1>h, <1>j, RefsFinite, FS_RemoveElement
<1>m. n >= 1 /\ ~obj.freed BY <1>b, <1>e, <1>k DEF Referenced
<1>p. pc[t] = "reading" BY <1>a DEF InLock, Run, Writes, ReadLabels
<1>1. StmTypes'
  <2>1. obj' \in [ref : Int, copy : 0..Len(copies), freed : BOOLEAN]
    <3> PICK i : i = n - 1 OBVIOUS
    <3>1. i \in Int /\ obj' = [obj EXCEPT !.ref = i, !.freed = b] BY <1>a, <1>e
    <3> QED BY <1>0, <1>b, <3>1
  <2>2. [task[t].run EXCEPT !.at = IF n > 1 THEN "unlock" ELSE "after"]
           \in [op : Ops, at : Ats, mine : 0..Len(copies)]
    BY <1>b DEF Ats
  <2>3. task' \in [Thread -> [run : [op : Ops, at : Ats, mine : 0..Len(copies)],
                              last : 0..Len(copies), end : Ends]]
    BY <1>a, <1>b, <2>2
  <2> QED BY <1>a, <2>1, <2>3 DEF StmTypes
<1>2. Roles' BY <1>a, <1>c, <1>d, <1>w DEF Roles, Others, Run
<1>3. InLock' BY <1>a, <1>c, <1>d, <1>e, <1>f, <1>m, <1>p DEF InLock, Others, Run, Writes
<1>4. Referenced'
  <2>1. obj'.ref = Cardinality(Refs') + (IF Granted' THEN 1 ELSE 0)
    BY <1>b, <1>e, <1>f, <1>i, <1>l DEF Referenced
  <2>2. obj'.freed <=> obj'.ref = 0 BY <1>e, <1>f
  <2>3. obj'.copy # 0 => Writer \in Refs' BY <1>f, <1>j, <1>w DEF Referenced
  <2>4. ~(Run(Writer).op = "release" /\ Run(Writer).at = "unlock")
    <3> SUFFICES ASSUME Run(Writer).op = "release", Run(Writer).at = "unlock" PROVE FALSE OBVIOUS
    <3>1. pc[Writer] = "writing" BY StmAssumption DEF InLock, Writes
    <3> QED BY <3>1, <1>p, <1>w, StmAssumption DEF Inv, Exclusion
  <2> QED BY <1>x, <2>1, <2>2, <2>3, <2>4 DEF Referenced, Run
<1>5. CopiesCounted'
  <2>1. \A u \in Thread : task'[u].last = task[u].last /\ task'[u].run.mine = task[u].run.mine
    BY <1>c, <1>d DEF Others
  <2> QED BY <1>a, <1>f, <2>1, CountsKept
<1> QED BY <1>1, <1>2, <1>3, <1>4, <1>5 DEF StmParts

-----------------------------------------------------------------------------
\* rwlock_runlock and rwlock_wunlock, from outside the lock.
LEMMA Unlocked ==
    ASSUME StmInv, NEW CONSTANT t \in Thread, Unlock(t)
    PROVE  /\ task[t].run.at = "unlock" /\ obj' = obj /\ copies' = copies
           /\ pc'[t] = "idle" /\ \A u \in Thread \ {t} : pc'[u] = pc[u]
<1>1. pc \in [Thread -> Labels] BY Before
<1> QED BY <1>1 DEF Unlock, ReadUnlock, WriteUnlock, Goto, Run

\* stm_update, stm_copy and stm_releasereader unlock.
LEMMA UnlockKeeps ==
    ASSUME StmInv, NEW CONSTANT t \in Thread, Unlock(t),
           Run(t).op \in {"update", "read", "delete"}, task' = Then(t, "after")
    PROVE  StmParts'
<1> USE DEF StmInv
<1>a. /\ task[t].run.op \in {"update", "read", "delete"} /\ task[t].run.at = "unlock"
      /\ task' = [task EXCEPT ![t].run.at = "after"] /\ obj' = obj /\ copies' = copies
      /\ pc'[t] = "idle" /\ \A u \in Thread \ {t} : pc'[u] = pc[u]
  BY Unlocked DEF Run, Then
<1>b. task \in [Thread -> [run : [op : Ops, at : Ats, mine : 0..Len(copies)],
                           last : 0..Len(copies), end : Ends]]
  BY Before
<1>c. Others(t) /\ DOMAIN task' = Thread BY <1>a, <1>b DEF Others
<1>d. /\ task'[t].run.op = task[t].run.op /\ task'[t].run.mine = task[t].run.mine
      /\ task'[t].run.at = "after" /\ task'[t].last = task[t].last /\ task'[t].end = task[t].end
  BY <1>a, <1>b
<1>1. StmTypes'
  <2>1. [task[t].run EXCEPT !.at = "after"] \in [op : Ops, at : Ats, mine : 0..Len(copies)]
    BY <1>b DEF Ats
  <2>2. task' \in [Thread -> [run : [op : Ops, at : Ats, mine : 0..Len(copies)],
                              last : 0..Len(copies), end : Ends]]
    BY <1>a, <1>b, <2>1
  <2> QED BY <1>a, <2>2 DEF StmTypes
<1>2. Roles' BY <1>a, <1>c, <1>d DEF Roles, Others, Run
<1>3. InLock' BY <1>a, <1>c, <1>d DEF InLock, Others, Run, Writes
<1>4. Refs' = Refs BY <1>a, <1>c, <1>d DEF Refs, Others, Run
<1>5. Granted' <=> Granted BY <1>a, <1>c, <1>d, StmAssumption DEF Granted, Others, Run
<1>6. Referenced' BY <1>a, <1>c, <1>d, <1>4, <1>5, StmAssumption DEF Referenced, Others, Run
<1>7. CopiesCounted'
  <2>1. \A u \in Thread : task'[u].last = task[u].last /\ task'[u].run.mine = task[u].run.mine
    BY <1>c, <1>d DEF Others
  <2> QED BY <1>a, <2>1, CountsKept
<1> QED BY <1>1, <1>2, <1>3, <1>6, <1>7 DEF StmParts

\* stm_release unlocks, and the writer's end is gone.
LEMMA CloseKeeps ==
    ASSUME StmInv, NEW CONSTANT t \in Thread, Unlock(t),
           Run(t).op = "release", task' = [task EXCEPT ![t].run = Idle, ![t].end = "closed"]
    PROVE  StmParts'
<1> USE DEF StmInv
<1>a. /\ task[t].run.op = "release" /\ task[t].run.at = "unlock"
      /\ task' = [task EXCEPT ![t].run = Idle, ![t].end = "closed"] /\ obj' = obj /\ copies' = copies
      /\ pc'[t] = "idle" /\ \A u \in Thread \ {t} : pc'[u] = pc[u]
  BY Unlocked DEF Run
<1>b. /\ task \in [Thread -> [run : [op : Ops, at : Ats, mine : 0..Len(copies)],
                              last : 0..Len(copies), end : Ends]]
      /\ Len(copies) \in Nat
  BY Before
<1>c. Others(t) /\ DOMAIN task' = Thread BY <1>a, <1>b DEF Others
<1>w. t = Writer /\ task[t].last = 0 /\ task[t].run.mine = 0 /\ task[t].end = "open"
  BY <1>a DEF Roles, Run
<1>d. /\ task'[t].run.op = "none" /\ task'[t].run.mine = 0 /\ task'[t].run.at = "done"
      /\ task'[t].last = 0 /\ task'[t].end = "closed"
  BY <1>a, <1>b, <1>w DEF Idle
<1>1. StmTypes'
  <2>1. Idle \in [op : Ops, at : Ats, mine : 0..Len(copies)] BY <1>b DEF Ats, Ops, Idle
  <2>2. task' \in [Thread -> [run : [op : Ops, at : Ats, mine : 0..Len(copies)],
                              last : 0..Len(copies), end : Ends]]
    <3>1. "closed" \in Ends BY DEF Ends
    <3>3. task \in TaskSet(Len(copies)) /\ Idle \in RunSet(Len(copies))
      BY <1>b, <2>1 DEF TaskSet, RunSet
    <3>2. task' = [task EXCEPT ![t].run = Idle, ![t].end = "closed"] BY <1>a
    <3>4. [task EXCEPT ![t].run = Idle, ![t].end = "closed"] \in TaskSet(Len(copies))
      BY <3>1, <3>2, <3>3, TaskRunEnd
    <3>5. task' \in TaskSet(Len(copies)) BY <3>2, <3>4
    <3> QED BY <3>5 DEF TaskSet, RunSet
  <2> QED BY <1>a, <2>2 DEF StmTypes
<1>2. Roles' BY <1>a, <1>c, <1>d, <1>w DEF Roles, Others, Run
<1>3. InLock' BY <1>a, <1>c, <1>d DEF InLock, Others, Run, Writes
<1>4. Refs' = Refs BY <1>a, <1>c, <1>d, <1>w DEF Refs, Others, Run
<1>5. ~Granted' /\ ~Granted BY <1>a, <1>d, <1>w DEF Granted, Run
<1>6. Referenced' BY <1>a, <1>d, <1>w, <1>4, <1>5 DEF Referenced, Run
<1>7. CopiesCounted'
  <2>1. \A u \in Thread : task'[u].last = task[u].last /\ task'[u].run.mine = task[u].run.mine
    BY <1>c, <1>d, <1>w DEF Others
  <2> QED BY <1>a, <2>1, CountsKept
<1> QED BY <1>1, <1>2, <1>3, <1>6, <1>7 DEF StmParts

\* lcopy is back from stm_grab: the end that was counted is r's.
LEMMA SendKeeps ==
    ASSUME StmInv, NEW CONSTANT t \in Thread, Unlock(t), NEW CONSTANT r \in Readers_,
           Run(t).op = "grab", task[r].end = "none",
           task' = [task EXCEPT ![t].run = Idle, ![r].end = "sent"]
    PROVE  StmParts'
<1> USE DEF StmInv
<1>a. /\ task[t].run.op = "grab" /\ task[t].run.at = "unlock"
      /\ task' = [task EXCEPT ![t].run = Idle, ![r].end = "sent"] /\ obj' = obj /\ copies' = copies
      /\ pc'[t] = "idle" /\ \A u \in Thread \ {t} : pc'[u] = pc[u]
  BY Unlocked DEF Run
<1>b. /\ task \in [Thread -> [run : [op : Ops, at : Ats, mine : 0..Len(copies)],
                              last : 0..Len(copies), end : Ends]]
      /\ obj \in [ref : Int, copy : 0..Len(copies), freed : BOOLEAN]
      /\ Len(copies) \in Nat /\ Cardinality(Refs) \in Nat
  BY Before
<1>w. t = Writer /\ task[t].last = 0 /\ task[t].run.mine = 0 /\ task[t].end = "open" BY <1>a DEF Roles, Run
<1>r. r \in Thread /\ r # t BY <1>w DEF Readers_
<1>c. /\ DOMAIN task' = Thread
      /\ \A u \in Thread : u # t /\ u # r => task'[u] = task[u]
  BY <1>a, <1>b
<1>d. /\ task'[t].run.op = "none" /\ task'[t].run.mine = 0 /\ task'[t].run.at = "done"
      /\ task'[t].last = 0 /\ task'[t].end = "open"
  BY <1>a, <1>b, <1>w, <1>r DEF Idle
<1>e. task'[r].run = task[r].run /\ task'[r].last = task[r].last /\ task'[r].end = "sent"
  BY <1>a, <1>b, <1>r
<1>1. StmTypes'
  <2>1. Idle \in [op : Ops, at : Ats, mine : 0..Len(copies)] BY <1>b DEF Ats, Ops, Idle
  <2>2. task' \in [Thread -> [run : [op : Ops, at : Ats, mine : 0..Len(copies)],
                              last : 0..Len(copies), end : Ends]]
    <3>1. "sent" \in Ends BY DEF Ends
    <3>3. task \in TaskSet(Len(copies)) /\ Idle \in RunSet(Len(copies))
      BY <1>b, <2>1 DEF TaskSet, RunSet
    <3>2. task' = [task EXCEPT ![t].run = Idle, ![r].end = "sent"] /\ r \in Thread BY <1>a, <1>r
    <3>4. [task EXCEPT ![t].run = Idle, ![r].end = "sent"] \in TaskSet(Len(copies))
      BY <3>1, <3>2, <3>3, TaskRunEnd
    <3>5. task' \in TaskSet(Len(copies)) BY <3>2, <3>4
    <3> QED BY <3>5 DEF TaskSet, RunSet
  <2> QED BY <1>a, <2>2 DEF StmTypes
<1>2. Roles' BY <1>a, <1>c, <1>d, <1>e, <1>w, <1>r DEF Roles, Run
<1>3. InLock'
  <2>1. \A u \in Thread \ {t} : task'[u].run = task[u].run BY <1>c, <1>e
  <2> QED BY <1>a, <1>d, <2>1 DEF InLock, Run, Writes
<1>4. r \notin Refs /\ Refs' = Refs \cup {r} BY <1>a, <1>c, <1>d, <1>e, <1>w, <1>r DEF Refs, Run
<1>5. Cardinality(Refs') = Cardinality(Refs) + 1 BY <1>4, RefsFinite, FS_AddElement
<1>6. ~Granted' /\ Granted BY <1>a, <1>d, <1>w DEF Granted, Run
<1>7. Referenced' BY <1>a, <1>b, <1>d, <1>w, <1>4, <1>5, <1>6 DEF Referenced, Run
<1>8. CopiesCounted'
  <2>1. \A u \in Thread : task'[u].last = task[u].last /\ task'[u].run.mine = task[u].run.mine
    BY <1>c, <1>d, <1>e, <1>w
  <2> QED BY <1>a, <2>1, CountsKept
<1> QED BY <1>1, <1>2, <1>3, <1>7, <1>8 DEF StmParts

-----------------------------------------------------------------------------
\* What is left after unlocking gives up one copy, k, keeps another, j, and may
\* close a reader's end that no longer counts.
LEMMA AfterKeeps ==
    ASSUME StmInv, NEW CONSTANT t \in Thread, NEW CONSTANT k, NEW CONSTANT j, NEW CONSTANT e,
           task[t].run.at = "after",
           \/ task[t].run.op = "update" /\ k = task[t].run.mine /\ j = task[t].last /\ e = task[t].end
           \/ task[t].run.op = "read" /\ k = task[t].last /\ j = task[t].run.mine /\ e = task[t].end
           \/ task[t].run.op = "delete" /\ k = task[t].last /\ j = 0 /\ e = "closed",
           copies' = ReleaseCopy(copies, k), pc' = pc, obj' = obj,
           task' = [task EXCEPT ![t].run = Idle, ![t].last = j, ![t].end = e]
    PROVE  StmParts'
<1> USE DEF StmInv
<1>b. /\ task \in [Thread -> [run : [op : Ops, at : Ats, mine : 0..Len(copies)],
                              last : 0..Len(copies), end : Ends]]
      /\ obj \in [ref : Int, copy : 0..Len(copies), freed : BOOLEAN]
      /\ copies \in Seq(Int) /\ Len(copies) \in Nat /\ DOMAIN copies = 1..Len(copies)
  BY Before
<1>c. Others(t) /\ DOMAIN task' = Thread BY <1>b DEF Others
<1>d. /\ task'[t].run.op = "none" /\ task'[t].run.mine = 0 /\ task'[t].run.at = "done"
      /\ task'[t].last = j /\ task'[t].end = e
  BY <1>b DEF Idle
<1>e. k \in 0..Len(copies) /\ j \in 0..Len(copies) /\ e \in Ends BY <1>b DEF Ends
<1>f. copies' \in Seq(Int) /\ Len(copies') = Len(copies) BY <1>b, <1>e, ReleaseTyped
<1>g. /\ task[t].end = "open"
      /\ t = Writer <=> task[t].run.op = "update"
      /\ t = Writer => j = 0
      /\ task[t].run.op = "delete" => task[t].run.mine = 0
  BY DEF Roles, Run
<1>1. StmTypes'
  <2>1. Idle \in [op : Ops, at : Ats, mine : 0..Len(copies)] BY <1>b DEF Ats, Ops, Idle
  <2>2. task' \in [Thread -> [run : [op : Ops, at : Ats, mine : 0..Len(copies)],
                              last : 0..Len(copies), end : Ends]]
    <3>3. task \in TaskSet(Len(copies)) /\ Idle \in RunSet(Len(copies))
      BY <1>b, <2>1 DEF TaskSet, RunSet
    <3>4. task' \in TaskSet(Len(copies)) BY <1>e, <3>3, TaskRunLastEnd
    <3> QED BY <3>4 DEF TaskSet, RunSet
  <2> QED BY <1>b, <1>f, <2>2 DEF StmTypes
<1>2. Roles' BY <1>c, <1>d, <1>g DEF Roles, Others, Run
<1>3. InLock' BY <1>c, <1>d DEF InLock, Others, Run, Writes
<1>4. Refs' = Refs BY <1>c, <1>d, <1>g DEF Refs, Others, Run
<1>5. Granted' <=> Granted BY <1>c, <1>d, <1>g, StmAssumption DEF Granted, Others, Run
<1>6. Referenced' BY <1>c, <1>d, <1>g, <1>4, <1>5, StmAssumption DEF Referenced, Others, Run
<1>7. CopiesCounted'
  <2>1. ASSUME NEW CONSTANT c \in DOMAIN copies PROVE Has(t, c)' = Has(t, c) - (IF c = k THEN 1 ELSE 0)
    <3>1. c # 0 BY <1>b
    <3>2. Has(t, c)' = IF j = c THEN 1 ELSE 0 BY <1>d, <3>1 DEF Has, Run
    <3>3. Has(t, c) = (IF j = c THEN 1 ELSE 0) + (IF k = c THEN 1 ELSE 0)
      BY <1>g, <3>1 DEF Has, Run
    <3> QED BY <3>2, <3>3
  <2> QED BY <1>b, <1>c, <1>e, <2>1, GivenUp
<1> QED BY <1>1, <1>2, <1>3, <1>6, <1>7 DEF StmParts

LEMMA StmNextInv == StmInv /\ [StmNext]_stmVars => StmInv'
<1> SUFFICES ASSUME StmInv, [StmNext]_stmVars PROVE StmInv' OBVIOUS
<1>0. Inv' BY LockKept DEF StmInv
<1> SUFFICES StmParts' BY <1>0 DEF StmInv, StmParts
<1>1. ASSUME NEW r \in Thread, LCopy(r) \/ LRead(r) \/ LDeleteReader(r) PROVE StmParts'
  <2>1. CASE LCopy(r)
    <3>1. Begin(Writer, "grab", 0) /\ Goto(Writer, "idle", "rwait") /\ UNCHANGED <<obj, copies>>
      BY <2>1 DEF LCopy, CallReadLock
    <3> QED BY <3>1, StmAssumption, BeginKeeps
  <2>2. CASE LRead(r)
    <3>1. Begin(r, "read", 0) /\ Goto(r, "idle", "rwait") /\ UNCHANGED <<obj, copies>> /\ r # Writer
      BY <2>2 DEF LRead, CallReadLock, Readers_
    <3> QED BY <3>1, BeginKeeps
  <2>3. CASE LDeleteReader(r)
    <3>1. Begin(r, "delete", 0) /\ Goto(r, "idle", "rwait") /\ UNCHANGED <<obj, copies>> /\ r # Writer
      BY <2>3 DEF LDeleteReader, CallReadLock, Readers_
    <3> QED BY <3>1, BeginKeeps
  <2> QED BY <1>1, <2>1, <2>2, <2>3
<1>2. ASSUME NEW r \in Thread, LNewReader(r) PROVE StmParts' BY <1>2, NewReaderKeeps
<1>3. CASE LUpdate BY <1>3, UpdateKeeps
<1>4. CASE LDeleteWriter
  <2>1. Begin(Writer, "release", 0) /\ Goto(Writer, "idle", "wwait") /\ UNCHANGED <<obj, copies>>
    BY <1>4 DEF LDeleteWriter, CallWriteLock
  <2> QED BY <2>1, StmAssumption, BeginKeeps
<1>5. ASSUME NEW t \in Thread, Unlock(t) PROVE StmParts'
  <2>1. \/ Run(t).op \in {"update", "read", "delete"} /\ task' = Then(t, "after")
        \/ Run(t).op = "release" /\ task' = [task EXCEPT ![t].run = Idle, ![t].end = "closed"]
        \/ /\ Run(t).op = "grab"
           /\ \E r \in Readers_ : task[r].end = "none" /\ task' = [task EXCEPT ![t].run = Idle, ![r].end = "sent"]
    BY <1>5 DEF Unlock
  <2>2. CASE Run(t).op \in {"update", "read", "delete"} /\ task' = Then(t, "after")
    BY <1>5, <2>2, UnlockKeeps
  <2>3. CASE Run(t).op = "release" /\ task' = [task EXCEPT ![t].run = Idle, ![t].end = "closed"]
    BY <1>5, <2>3, CloseKeeps
  <2>4. CASE /\ Run(t).op = "grab"
             /\ \E r \in Readers_ : task[r].end = "none" /\ task' = [task EXCEPT ![t].run = Idle, ![r].end = "sent"]
    BY <1>5, <2>4, SendKeeps
  <2> QED BY <2>1, <2>2, <2>3, <2>4
<1>6. ASSUME NEW t \in Thread, After(t) PROVE StmParts'
  <2> PICK m : m = task[t].run.mine OBVIOUS
  <2> PICK l : l = task[t].last OBVIOUS
  <2> PICK e : e = task[t].end OBVIOUS
  <2>0. /\ task[t].run.at = "after" /\ pc' = pc /\ obj' = obj
        /\ task \in [Thread -> [run : [op : Ops, at : Ats, mine : 0..Len(copies)],
                                last : 0..Len(copies), end : Ends]]
    BY <1>6, Before DEF After, Run
  <2>1. CASE /\ Run(t).op = "update" /\ copies' = ReleaseCopy(copies, Run(t).mine)
             /\ task' = [task EXCEPT ![t].run = Idle]
    <3>1. task' = [task EXCEPT ![t].run = Idle, ![t].last = l, ![t].end = e] BY <2>0, <2>1
    <3>2. copies' = ReleaseCopy(copies, m) /\ task[t].run.op = "update" BY <2>1 DEF Run
    <3> QED BY <2>0, <3>1, <3>2, AfterKeeps
  <2>2. CASE /\ Run(t).op = "read" /\ copies' = ReleaseCopy(copies, task[t].last)
             /\ task' = [task EXCEPT ![t].run = Idle, ![t].last = Run(t).mine]
    <3>1. task' = [task EXCEPT ![t].run = Idle, ![t].last = m, ![t].end = e] BY <2>0, <2>2 DEF Run
    <3>2. copies' = ReleaseCopy(copies, l) /\ task[t].run.op = "read" BY <2>2 DEF Run
    <3> QED BY <2>0, <3>1, <3>2, AfterKeeps
  <2>3. CASE /\ Run(t).op = "delete" /\ copies' = ReleaseCopy(copies, task[t].last)
             /\ task' = [task EXCEPT ![t].run = Idle, ![t].last = 0, ![t].end = "closed"]
    <3>1. copies' = ReleaseCopy(copies, l) /\ task[t].run.op = "delete" BY <2>3 DEF Run
    <3> QED BY <2>0, <2>3, <3>1, AfterKeeps
  <2> QED BY <1>6, <2>1, <2>2, <2>3 DEF After
<1>7. ASSUME NEW t \in Thread,
             \/ Locking(t) \/ GrabBody(t) \/ ReadBody(t) \/ UpdateBody(t) \/ ReleaseBody(t) \/ DeleteBody(t)
      PROVE  StmParts'
  BY <1>7, LockingKeeps, GrabKeeps, ReadKeeps, ExchangeKeeps, ReleaseKeeps, DeleteKeeps
<1>8. CASE UNCHANGED stmVars
  <2>1. pc' = pc /\ obj' = obj /\ copies' = copies /\ task' = task BY <1>8 DEF stmVars
  <2>2. CopiesCounted' BY <2>1, CountsKept DEF StmInv
  <2> QED BY <2>1, <2>2 DEF StmInv, StmParts, StmTypes, Roles, InLock, Writes, Referenced, Refs, Granted, Run
<1> QED BY <1>1, <1>2, <1>3, <1>4, <1>5, <1>6, <1>7, <1>8 DEF StmNext, StmStep

LEMMA StmInitInv == StmInit => StmInv
<1> SUFFICES ASSUME StmInit PROVE StmInv OBVIOUS
<1> USE StmAssumption DEF StmInit, Idle, Run
<1>1. Inv BY InitInv
<1>2. copies = <<1>> /\ Len(copies) = 1 /\ DOMAIN copies = {1} /\ copies[1] = 1 /\ copies \in Seq(Int) OBVIOUS
<1>3. StmTypes BY <1>2 DEF StmTypes, Ops, Ats, Ends
<1>4. Roles BY DEF Roles
<1>5. InLock BY DEF InLock, Init
<1>6. Refs = {Writer} /\ ~Granted BY DEF Refs, Granted
<1>7. Referenced
  <2>1. Cardinality(Refs) = 1 BY <1>6, FS_Singleton
  <2> QED BY <1>6, <2>1 DEF Referenced
<1>8. CopiesCounted
  <2>1. Holders(1) = {} BY DEF Holders, Has
  <2>2. Cardinality(Holders(1)) = 0 BY <2>1, FS_EmptySet
  <2> QED BY <1>2, <2>2 DEF CopiesCounted
<1> QED BY <1>1, <1>3, <1>4, <1>5, <1>7, <1>8 DEF StmInv

\* When the object is freed, no end counts any more.
LEMMA StmInvExact == StmInv => CountsExact
<1> SUFFICES ASSUME StmInv PROVE CountsExact OBVIOUS
<1> USE DEF StmInv
<1>1. TypeOK BY InvSafe
<1>2. /\ copies \in Seq(Int) /\ DOMAIN copies = 1..Len(copies) /\ Len(copies) \in Nat
      /\ obj \in [ref : Int, copy : 0..Len(copies), freed : BOOLEAN] /\ Cardinality(Refs) \in Nat
      /\ task \in [Thread -> [run : [op : Ops, at : Ats, mine : 0..Len(copies)],
                              last : 0..Len(copies), end : Ends]]
  BY Before
<1>3. FreedLast
  <2> SUFFICES ASSUME obj.freed PROVE FreedLast BY DEF FreedLast
  <2>1. Cardinality(Refs) = 0 /\ ~Granted BY <1>2 DEF Referenced
  <2>2. Refs = {} BY <2>1, RefsFinite, FS_EmptySet
  <2>3. obj.copy = 0 BY <2>2 DEF Referenced
  <2>4. ASSUME NEW t \in Thread, task[t].end = "open" PROVE Run(t).op = "delete"
    <3>1. Run(t).op \in {"release", "delete"} /\ Run(t).at # "lock" BY <2>2, <2>4 DEF Refs
    <3>2. Run(t).op # "release"
      <4> SUFFICES ASSUME Run(t).op = "release" PROVE FALSE OBVIOUS
      <4>1. t = Writer BY DEF Roles
      <4>2. Run(t).at = "unlock" BY <3>1, <1>2 DEF Roles, Run, Ats
      <4> QED BY <4>1, <4>2 DEF Referenced
    <3> QED BY <3>1, <3>2
  <2>5. ASSUME NEW t \in Thread, Run(t).op # "none"
        PROVE  Run(t).at = "after" \/ (Run(t).op = "delete" /\ Run(t).at = "unlock")
    <3>1. task[t].end = "open" BY <2>5 DEF Roles
    <3>2. Run(t).op = "delete" BY <2>4, <3>1
    <3>3. Run(t).at # "lock" BY <2>2, <3>1, <3>2 DEF Refs
    <3> QED BY <3>2, <3>3, <1>2 DEF Roles, Run, Ats
  <2> QED BY <2>3, <2>4, <2>5 DEF FreedLast
<1>4. AllFreed
  <2> SUFFICES ASSUME \A t \in Thread : task[t].end \in {"closed", "none"}
               PROVE  obj.freed /\ \A c \in DOMAIN copies : copies[c] = 0
    BY DEF AllFreed
  <2>1. Refs = {} BY DEF Refs
  <2>2. Cardinality(Refs) = 0 BY <2>1, FS_EmptySet
  <2>3. ~Granted BY StmAssumption DEF Roles, Granted
  <2>4. obj.freed BY <2>2, <2>3 DEF Referenced
  <2>5. obj.copy = 0 BY <2>1 DEF Referenced
  <2>6. ASSUME NEW c \in DOMAIN copies PROVE copies[c] = 0
    <3>0. c # 0 BY <1>2
    <3>1. \A t \in Thread : task[t].last = 0 /\ task[t].run.mine = 0 BY DEF Roles, Run
    <3>2. \A t \in Thread : Has(t, c) = 0 BY <3>0, <3>1 DEF Has, Run
    <3>3. Holders(c) = {} BY <3>2 DEF Holders
    <3>4. Cardinality(Holders(c)) = 0 BY <3>3, FS_EmptySet
    <3> QED BY <2>5, <3>0, <3>4 DEF CopiesCounted
  <2> QED BY <2>4, <2>6
<1> QED BY <1>1, <1>3, <1>4 DEF CountsExact

\* For every set of threads, every writer among them and every number of copies:
\* the references of a copy are the pointers to it, the object is freed by the
\* last end that is given up and used by nobody afterwards, and when all ends are
\* closed nothing is left.
THEOREM ReferencesAreExact == StmSpec => []CountsExact
  BY StmInitInv, StmNextInv, StmInvExact, PTL DEF StmSpec

-----------------------------------------------------------------------------
(* The table of modules.                                                   *)

ModLabels == {"idle", "look", "lock", "again", "open", "syms", "publish", "unlock"}

ModTypes ==
    /\ count \in 0..MaxModules
    /\ tab \in [Slots -> [name : Name \cup {None}, syms : BOOLEAN]]
    /\ lock \in Asker \cup {None}
    /\ ask \in [Asker -> [at : ModLabels, name : Name \cup {None}, i : Nat \ {0}, result : 0..count]]

\* The entries that count are complete, and each has a name of its own.
Entries == /\ \A i \in 1..count : tab[i].syms
           /\ \A i, j \in 1..count : tab[i].name = tab[j].name => i = j

\* One thread at a time is between the lock and the unlock.
HasLock == \A t \in Asker : ask[t].at \in {"again", "open", "syms", "publish", "unlock"} <=> lock = t

Absent(n, k) == \A i \in 1..count : i < k => tab[i].name # n

\* What a thread knows at each place.
Knows(a) ==
    /\ a.result # 0 => tab[a.result].name = a.name
    /\ a.at \in {"look", "lock", "again", "open", "syms", "publish"} => a.result = 0
    /\ a.at = "again" => Absent(a.name, a.i)
    /\ a.at \in {"open", "syms", "publish"} => Absent(a.name, count + 1)
    /\ a.at \in {"syms", "publish"} => count < MaxModules /\ tab[count + 1].name = a.name
    /\ a.at = "publish" => tab[count + 1].syms
    /\ a.at \in {"unlock", "idle"} /\ a.name # None /\ a.result = 0 =>
          a.name \notin Complete \/ count = MaxModules

Progress == \A t \in Asker : Knows(ask[t])

ModInv == ModTypes /\ Entries /\ HasLock /\ Progress

Asks == [at : ModLabels, name : Name \cup {None}, i : Nat \ {0}, result : 0..count]

LEMMA ModInitInv == ModInit => ModInv
<1> SUFFICES ASSUME ModInit PROVE ModInv OBVIOUS
<1>0. /\ tab = [i \in Slots |-> [name |-> None, syms |-> FALSE]] /\ count = 0 /\ lock = None
      /\ ask = [t \in Asker |-> [at |-> "idle", name |-> None, i |-> 1, result |-> 0]]
  BY DEF ModInit
<1>1. ModTypes
  <2>1. count \in 0..MaxModules /\ lock \in Asker \cup {None} BY <1>0, ModAssumption
  <2>2. tab \in [Slots -> [name : Name \cup {None}, syms : BOOLEAN]] BY <1>0
  <2>3. [at |-> "idle", name |-> None, i |-> 1, result |-> 0] \in Asks BY <1>0 DEF Asks, ModLabels
  <2>4. ask \in [Asker -> Asks] BY <1>0, <2>3
  <2> QED BY <2>1, <2>2, <2>4 DEF ModTypes, Asks
<1>2. Entries
  <2>1. \A i \in 1..count : FALSE BY <1>0
  <2> QED BY <2>1 DEF Entries
<1>3. HasLock BY <1>0, ModAssumption DEF HasLock
<1>4. Progress BY <1>0 DEF Progress, Knows
<1> QED BY <1>1, <1>2, <1>3, <1>4 DEF ModInv

\* A step of t that leaves the table alone.
LEMMA TableKept ==
    ASSUME ModInv, NEW t \in Asker, NEW r \in Asks, ask' = [ask EXCEPT ![t] = r],
           tab' = tab, count' = count, Knows(r),
           \/ lock' = lock /\ (r.at \in {"again", "open", "syms", "publish", "unlock"} <=> lock = t)
           \/ lock = None /\ lock' = t /\ r.at \in {"again", "open", "syms", "publish", "unlock"}
           \/ lock = t /\ lock' = None /\ r.at \notin {"again", "open", "syms", "publish", "unlock"}
    PROVE  ModInv'
<1>1. /\ ask \in [Asker -> Asks] /\ ask' \in [Asker -> Asks] /\ ask'[t] = r
      /\ \A u \in Asker : u # t => ask'[u] = ask[u]
  BY DEF ModInv, ModTypes, Asks
<1>2. ModTypes'
  <2>1. lock' \in Asker \cup {None} BY DEF ModInv, ModTypes
  <2>2. ask' \in [Asker -> [at : ModLabels, name : Name \cup {None}, i : Nat \ {0}, result : 0..count']]
    BY <1>1 DEF Asks
  <2> QED BY <2>1, <2>2 DEF ModInv, ModTypes
<1>3. Entries' BY DEF ModInv, Entries
<1>4. HasLock' BY <1>1, ModAssumption DEF ModInv, HasLock
<1>5. Progress'
  <2>1. \A a : Knows(a) => /\ a.result # 0 => tab'[a.result].name = a.name
                           /\ a.at \in {"look", "lock", "again", "open", "syms", "publish"} => a.result = 0
                           /\ a.at = "again" => Absent(a.name, a.i)
                           /\ a.at \in {"open", "syms", "publish"} => Absent(a.name, count' + 1)
                           /\ a.at \in {"syms", "publish"} => count' < MaxModules /\ tab'[count' + 1].name = a.name
                           /\ a.at = "publish" => tab'[count' + 1].syms
                           /\ a.at \in {"unlock", "idle"} /\ a.name # None /\ a.result = 0 =>
                                 a.name \notin Complete \/ count' = MaxModules
    BY DEF Knows
  <2>2. \A n, k : Absent(n, k) => \A i \in 1..count' : i < k => tab'[i].name # n BY DEF Absent
  <2>3. \A u \in Asker : Knows(ask'[u]) BY <1>1 DEF ModInv, Progress
  <2> QED BY <2>1, <2>2, <2>3 DEF Progress, Knows, Absent
<1> QED BY <1>2, <1>3, <1>4, <1>5 DEF ModInv

\* A thread and what it knows.
LEMMA ModTyped == ASSUME ModInv, NEW t \in Asker
                  PROVE  /\ ask[t] \in Asks /\ ask \in [Asker -> Asks] /\ Knows(ask[t])
                         /\ ask[t].at \in {"again", "open", "syms", "publish", "unlock"} <=> lock = t
                         /\ count \in Nat /\ count <= MaxModules /\ MaxModules \in Nat
  BY ModAssumption DEF ModInv, ModTypes, Asks, Progress, HasLock

LEMMA QueryInv == ASSUME ModInv, NEW t \in Asker, NEW n \in Name, Query(t, n) PROVE ModInv'
<1>1. PICK r : r = [at |-> "look", name |-> n, i |-> 1, result |-> 0] OBVIOUS
<1>2. r \in Asks /\ Knows(r) BY <1>1, ModTyped DEF Asks, ModLabels, Knows
<1>3. /\ ask' = [ask EXCEPT ![t] = r] /\ tab' = tab /\ count' = count /\ lock' = lock /\ ask[t].at = "idle"
  BY <1>1 DEF Query
<1>4. r.at = "look" /\ lock # t BY <1>1, <1>3, ModTyped
<1> QED BY <1>2, <1>3, <1>4, TableKept

\* A step of _query: the entry is found, or not yet, or the search is over.
LEMMA SearchInv ==
    ASSUME ModInv, NEW t \in Asker, NEW miss \in {"lock", "open"},
           ask[t].at = IF miss = "lock" THEN "look" ELSE "again",
           Search(t, miss), UNCHANGED <<tab, count, lock>>
    PROVE  ModInv'
<1>0. PICK a \in Asks : a = ask[t] BY ModTyped
<1>a. /\ a.at \in ModLabels /\ a.name \in Name \cup {None} /\ a.i \in Nat /\ a.i >= 1 /\ a.result \in 0..count
      /\ a.result = 0 /\ Knows(a) /\ count \in Nat
      /\ a.at = "again" => Absent(a.name, a.i)
      /\ a.at \in {"again", "open", "syms", "publish", "unlock"} <=> lock = t
      /\ a.at = IF miss = "lock" THEN "look" ELSE "again"
  BY <1>0, ModTyped DEF Asks, Knows
<1>1. CASE a.i > count /\ Goto_(t, miss)
  <2>1. PICK r : r = [a EXCEPT !.at = miss] OBVIOUS
  <2>2. r \in Asks BY <2>1 DEF Asks, ModLabels
  <2>3. ask' = [ask EXCEPT ![t] = r] BY <1>0, <1>1, <2>1, ModTyped DEF Goto_, Asks
  <2>4. r.at = miss /\ r.name = a.name /\ r.result = 0 BY <1>a, <2>1 DEF Asks
  <2>5. Knows(r)
    <3>1. a.at = "again" => Absent(a.name, count + 1) BY <1>1, <1>a DEF Absent
    <3> QED BY <1>a, <2>4, <3>1 DEF Knows
  <2>6. r.at \in {"again", "open", "syms", "publish", "unlock"} <=> lock = t BY <1>a, <2>4
  <2> QED BY <2>2, <2>3, <2>5, <2>6, TableKept
<1>2. CASE a.i <= count /\ tab[a.i].name = a.name
           /\ ask' = [ask EXCEPT ![t].result = a.i, ![t].at = IF a.at = "look" THEN "idle" ELSE "unlock"]
  <2>1. PICK r : r = [a EXCEPT !.result = a.i, !.at = IF a.at = "look" THEN "idle" ELSE "unlock"] OBVIOUS
  <2>2. a.i \in 0..count /\ a.i # 0 BY <1>2, <1>a
  <2>3. r \in Asks BY <2>1, <2>2 DEF Asks, ModLabels
  <2>4. ask' = [ask EXCEPT ![t] = r] BY <1>0, <1>2, <2>1, ModTyped DEF Asks
  <2>5. r.at = (IF a.at = "look" THEN "idle" ELSE "unlock") /\ r.name = a.name /\ r.result = a.i
    BY <2>1 DEF Asks
  <2>6. Knows(r) BY <1>2, <2>2, <2>5 DEF Knows
  <2>7. r.at \in {"again", "open", "syms", "publish", "unlock"} <=> lock = t BY <1>a, <2>5
  <2> QED BY <2>3, <2>4, <2>6, <2>7, TableKept
<1>3. CASE a.i <= count /\ tab[a.i].name # a.name /\ ask' = [ask EXCEPT ![t].i = @ + 1]
  <2>1. PICK r : r = [a EXCEPT !.i = a.i + 1] OBVIOUS
  <2>2. r \in Asks BY <1>a, <2>1 DEF Asks
  <2>3. ask' = [ask EXCEPT ![t] = r] BY <1>0, <1>3, <2>1, ModTyped DEF Asks
  <2>4. r.at = a.at /\ r.name = a.name /\ r.result = 0 /\ r.i = a.i + 1 BY <1>a, <2>1 DEF Asks
  <2>5. a.at = "again" => Absent(a.name, a.i + 1)
    <3>1. \A i \in 1..count : i < a.i + 1 => i < a.i \/ i = a.i BY <1>a
    <3> QED BY <1>3, <1>a, <3>1 DEF Absent
  <2>6. Knows(r) BY <1>a, <2>4, <2>5 DEF Knows
  <2>7. r.at \in {"again", "open", "syms", "publish", "unlock"} <=> lock = t BY <1>a, <2>4
  <2> QED BY <2>2, <2>3, <2>6, <2>7, TableKept
<1> QED BY <1>0, <1>1, <1>2, <1>3 DEF Search

\* The spinlock is taken and given back.
LEMMA SpinInv == ASSUME ModInv, NEW t \in Asker, SpinLock(t) \/ SpinUnlock(t) PROVE ModInv'
<1>0. PICK a \in Asks : a = ask[t] BY ModTyped
<1>a. Knows(a) /\ (a.at \in {"again", "open", "syms", "publish", "unlock"} <=> lock = t) /\ count \in Nat
  BY <1>0, ModTyped
<1>1. CASE SpinLock(t)
  <2>1. PICK r : r = [a EXCEPT !.at = "again", !.i = 1] OBVIOUS
  <2>2. r \in Asks /\ r.at = "again" /\ r.i = 1 /\ r.result = a.result /\ r.name = a.name
    <3>1. 1 \in Nat \ {0} /\ "again" \in ModLabels BY DEF ModLabels
    <3>2. r \in Asks BY <2>1, <3>1 DEF Asks
    <3>3. r.at = "again" /\ r.i = 1 BY <2>1 DEF Asks
    <3>4. r.result = a.result /\ r.name = a.name BY <2>1 DEF Asks
    <3> QED BY <3>2, <3>3, <3>4
  <2>3. ask' = [ask EXCEPT ![t] = r] BY <1>0, <1>1, <2>1, ModTyped DEF Asks, SpinLock
  <2>4. Absent(a.name, 1) BY <1>a DEF Absent
  <2>5. Knows(r) BY <1>0, <1>1, <1>a, <2>2, <2>4 DEF Knows, SpinLock
  <2> QED BY <1>1, <2>2, <2>3, <2>5, TableKept DEF SpinLock
<1>2. CASE SpinUnlock(t)
  <2>1. PICK r : r = [a EXCEPT !.at = "idle"] OBVIOUS
  <2>2. r \in Asks /\ r.at = "idle" /\ r.i = a.i /\ r.result = a.result /\ r.name = a.name
    BY <2>1 DEF Asks, ModLabels
  <2>3. ask' = [ask EXCEPT ![t] = r] BY <1>0, <1>2, <2>1, ModTyped DEF Asks, SpinUnlock, Goto_
  <2>4. Knows(r) BY <1>0, <1>2, <1>a, <2>2 DEF Knows, SpinUnlock
  <2>5. lock = t BY <1>0, <1>2, <1>a DEF SpinUnlock
  <2> QED BY <1>2, <2>2, <2>3, <2>4, <2>5, TableKept DEF SpinUnlock
<1> QED BY <1>1, <1>2

\* A step of the thread that has the lock on the entry behind the last.
LEMMA EntryWritten ==
    ASSUME ModInv, NEW t \in Asker, NEW r \in Asks, ask' = [ask EXCEPT ![t] = r],
           lock = t, lock' = t, count' = count, count < MaxModules,
           NEW n \in Name \cup {None}, NEW s \in BOOLEAN,
           tab' = [tab EXCEPT ![count + 1] = [name |-> n, syms |-> s]],
           r.at \in {"syms", "publish"}, r.result = 0, Absent(r.name, count + 1), n = r.name,
           r.at = "publish" => s
    PROVE  ModInv'
<1>0. count \in Nat /\ MaxModules \in Nat /\ count + 1 \in Slots
  BY ModTyped DEF Slots
<1>1. /\ ask \in [Asker -> Asks] /\ ask' \in [Asker -> Asks] /\ ask'[t] = r
      /\ \A u \in Asker : u # t => ask'[u] = ask[u]
  BY DEF ModInv, ModTypes, Asks
<1>2. /\ tab \in [Slots -> [name : Name \cup {None}, syms : BOOLEAN]]
      /\ tab' \in [Slots -> [name : Name \cup {None}, syms : BOOLEAN]]
      /\ tab'[count + 1] = [name |-> n, syms |-> s]
      /\ \A i \in Slots : i # count + 1 => tab'[i] = tab[i]
  BY <1>0 DEF ModInv, ModTypes
<1>3. \A i \in 1..count : i \in Slots /\ i # count + 1 BY <1>0 DEF Slots
<1>4. ModTypes'
  <2>1. ask' \in [Asker -> [at : ModLabels, name : Name \cup {None}, i : Nat \ {0}, result : 0..count']]
    BY <1>1 DEF Asks
  <2> QED BY <1>2, <2>1 DEF ModInv, ModTypes
<1>5. Entries' BY <1>2, <1>3 DEF ModInv, Entries
<1>6. HasLock' BY <1>1 DEF ModInv, HasLock
<1>7. \A m, k : Absent(m, k) => \A i \in 1..count : i < k => tab'[i].name # m BY <1>2, <1>3 DEF Absent
<1>8. ASSUME NEW u \in Asker, u # t
      PROVE  /\ ask'[u].at \in {"look", "lock", "idle"}
             /\ ask'[u].result # 0 => tab'[ask'[u].result].name = ask'[u].name
             /\ ask'[u].at \in {"look", "lock"} => ask'[u].result = 0
             /\ ask'[u].at = "idle" /\ ask'[u].name # None /\ ask'[u].result = 0 =>
                   ask'[u].name \notin Complete \/ count = MaxModules
  <2>1. PICK a \in Asks : a = ask[u] /\ a = ask'[u] BY <1>1, <1>8, ModTyped
  <2>2. Knows(a) /\ a.at \notin {"again", "open", "syms", "publish", "unlock"} BY <1>8, <2>1, ModTyped
  <2>3. a.at \in {"look", "lock", "idle"} /\ a.result \in 0..count BY <2>2 DEF Asks, ModLabels
  <2>4. a.result # 0 => a.result \in 1..count BY <1>0, <2>3
  <2>5. a.result # 0 => tab'[a.result].name = a.name BY <1>2, <1>3, <2>2, <2>4 DEF Knows
  <2> QED BY <2>1, <2>2, <2>3, <2>5 DEF Knows
<1>9. Progress'
  <2> SUFFICES ASSUME NEW u \in Asker PROVE Knows(ask[u])' BY DEF Progress
  <2>1. CASE u = t BY <1>1, <1>2, <1>7, <2>1 DEF Knows, Absent
  <2>2. CASE u # t BY <1>8, <2>2 DEF Knows
  <2> QED BY <2>1, <2>2
<1> QED BY <1>4, <1>5, <1>6, <1>9 DEF ModInv

LEMMA OpenInv == ASSUME ModInv, NEW t \in Asker, Open(t) \/ OpenSym(t) PROVE ModInv'
<1>0. PICK a \in Asks : a = ask[t] BY ModTyped
<1>a. /\ Knows(a) /\ (a.at \in {"again", "open", "syms", "publish", "unlock"} <=> lock = t)
      /\ count \in Nat /\ count <= MaxModules /\ MaxModules \in Nat
  BY <1>0, ModTyped
<1>b. /\ a.at \in {"open", "syms"} /\ lock = t /\ lock' = lock /\ count' = count
      /\ a.result = 0 /\ Absent(a.name, count + 1) /\ a.name \in Name \cup {None}
  BY <1>0, <1>a DEF Open, OpenSym, Knows, Asks
<1>1. ASSUME Goto_(t, "unlock"), tab' = tab, a.name \notin Complete \/ count = MaxModules PROVE ModInv'
  <2>1. PICK r : r = [a EXCEPT !.at = "unlock"] OBVIOUS
  <2>2. r \in Asks /\ r.at = "unlock" /\ r.result = a.result /\ r.name = a.name
    BY <2>1 DEF Asks, ModLabels
  <2>3. ask' = [ask EXCEPT ![t] = r] BY <1>0, <1>1, <2>1, ModTyped DEF Asks, Goto_
  <2>4. Knows(r) BY <1>1, <1>b, <2>2 DEF Knows
  <2> QED BY <1>1, <1>b, <2>2, <2>3, <2>4, TableKept
<1>2. CASE a.at = "open" /\ count < MaxModules /\ a.name \in Openable
           /\ tab' = [tab EXCEPT ![count + 1] = [name |-> a.name, syms |-> FALSE]] /\ Goto_(t, "syms")
  <2>1. PICK r : r = [a EXCEPT !.at = "syms"] OBVIOUS
  <2>2. r \in Asks /\ r.at = "syms" /\ r.result = a.result /\ r.name = a.name
    BY <2>1 DEF Asks, ModLabels
  <2>3. ask' = [ask EXCEPT ![t] = r] BY <1>0, <1>2, <2>1, ModTyped DEF Asks, Goto_
  <2>4. PICK s \in BOOLEAN : s = FALSE OBVIOUS
  <2>5. tab' = [tab EXCEPT ![count + 1] = [name |-> a.name, syms |-> s]] BY <1>2, <2>4
  <2> QED BY <1>2, <1>b, <2>2, <2>3, <2>5, EntryWritten
<1>3. CASE a.at = "syms" /\ tab' = [tab EXCEPT ![count + 1].syms = TRUE] /\ Goto_(t, "publish")
  <2>1. PICK r : r = [a EXCEPT !.at = "publish"] OBVIOUS
  <2>2. r \in Asks /\ r.at = "publish" /\ r.result = a.result /\ r.name = a.name
    BY <2>1 DEF Asks, ModLabels
  <2>3. ask' = [ask EXCEPT ![t] = r] BY <1>0, <1>3, <2>1, ModTyped DEF Asks, Goto_
  <2>4. count < MaxModules /\ tab[count + 1].name = a.name BY <1>3, <1>a DEF Knows
  <2>5. count + 1 \in Slots BY <1>a, <2>4 DEF Slots
  <2>6. tab[count + 1] \in [name : Name \cup {None}, syms : BOOLEAN] BY <2>5 DEF ModInv, ModTypes
  <2>7. PICK s \in BOOLEAN : s = TRUE OBVIOUS
  <2>8. [tab[count + 1] EXCEPT !.syms = s] = [name |-> a.name, syms |-> s]
    <3>1. PICK x \in [name : Name \cup {None}, syms : BOOLEAN] : x = tab[count + 1] BY <2>6
    <3>2. [x EXCEPT !.syms = s] = [name |-> x.name, syms |-> s] OBVIOUS
    <3> QED BY <2>4, <3>1, <3>2
  <2>9. tab' = [tab EXCEPT ![count + 1] = [name |-> a.name, syms |-> s]] BY <1>3, <2>7, <2>8
  <2> QED BY <1>b, <2>2, <2>3, <2>4, <2>7, <2>9, EntryWritten
<1>4. CASE Open(t) /\ ~(count < MaxModules /\ a.name \in Openable)
  <2>1. Goto_(t, "unlock") /\ tab' = tab BY <1>0, <1>4 DEF Open
  <2>2. a.name \notin Complete \/ count = MaxModules BY <1>4, <1>a, ModAssumption
  <2> QED BY <1>1, <2>1, <2>2
<1>5. CASE OpenSym(t) /\ a.name \notin Complete
  <2>1. Goto_(t, "unlock") /\ tab' = tab BY <1>0, <1>5 DEF OpenSym
  <2> QED BY <1>1, <1>5, <2>1
<1> QED BY <1>0, <1>2, <1>3, <1>4, <1>5 DEF Open, OpenSym

LEMMA PublishInv == ASSUME ModInv, NEW t \in Asker, Publish(t) PROVE ModInv'
<1>0. PICK a \in Asks : a = ask[t] BY ModTyped
<1>a. /\ Knows(a) /\ (a.at \in {"again", "open", "syms", "publish", "unlock"} <=> lock = t)
      /\ count \in Nat /\ count <= MaxModules /\ MaxModules \in Nat
      /\ a.at = "publish" /\ count' = count + 1 /\ tab' = tab /\ lock' = lock
  BY <1>0, ModTyped DEF Publish
<1>b. /\ lock = t /\ a.result = 0 /\ Absent(a.name, count + 1) /\ count < MaxModules
      /\ tab[count + 1].name = a.name /\ tab[count + 1].syms
  BY <1>a DEF Knows
<1>c. PICK r : r = [a EXCEPT !.at = "unlock", !.result = count + 1] OBVIOUS
<1>d. /\ r.at = "unlock" /\ r.result = count + 1 /\ r.name = a.name
      /\ r \in [at : ModLabels, name : Name \cup {None}, i : Nat \ {0}, result : 0..count']
  <2>1. count + 1 \in 0..count' /\ "unlock" \in ModLabels BY <1>a DEF ModLabels
  <2>2. /\ a.name \in Name \cup {None} /\ a.i \in Nat \ {0}
        /\ r = [at |-> "unlock", name |-> a.name, i |-> a.i, result |-> count + 1]
    BY <1>c DEF Asks
  <2> QED BY <2>1, <2>2
<1>e. ask' = [ask EXCEPT ![t] = r] BY <1>0, <1>c, ModTyped DEF Asks, Publish
<1>f. 0..count \subseteq 0..count' BY <1>a
<1>g. /\ ask' \in [Asker -> [at : ModLabels, name : Name \cup {None}, i : Nat \ {0}, result : 0..count']]
      /\ ask'[t] = r /\ \A u \in Asker : u # t => ask'[u] = ask[u]
  BY <1>d, <1>e, <1>f DEF ModInv, ModTypes
<1>1. ModTypes' BY <1>a, <1>b, <1>g DEF ModInv, ModTypes
<1>2. Entries'
  <2>1. \A i \in 1..count' : i \in 1..count \/ i = count + 1 BY <1>a
  <2>2. \A i \in 1..count : tab[i].name # a.name
    <3>1. \A i \in 1..count : i < count + 1 BY <1>a
    <3> QED BY <1>b, <3>1 DEF Absent
  <2> QED BY <1>a, <1>b, <2>1, <2>2 DEF ModInv, Entries
<1>3. HasLock' BY <1>a, <1>b, <1>d, <1>g DEF ModInv, HasLock
<1>4. ASSUME NEW u \in Asker, u # t
      PROVE  /\ ask'[u].at \in {"look", "lock", "idle"}
             /\ ask'[u].result # 0 => tab'[ask'[u].result].name = ask'[u].name
             /\ ask'[u].at \in {"look", "lock"} => ask'[u].result = 0
             /\ ask'[u].at = "idle" /\ ask'[u].name # None /\ ask'[u].result = 0 =>
                   ask'[u].name \notin Complete
  <2>1. PICK b \in Asks : b = ask[u] /\ b = ask'[u] BY <1>g, <1>4, ModTyped
  <2>2. Knows(b) /\ b.at \notin {"again", "open", "syms", "publish", "unlock"} BY <1>4, <1>b, <2>1, ModTyped
  <2>3. b.at \in {"look", "lock", "idle"} BY <2>2 DEF Asks, ModLabels
  <2> QED BY <1>a, <1>b, <2>1, <2>2, <2>3 DEF Knows
<1>5. Progress'
  <2> SUFFICES ASSUME NEW u \in Asker PROVE Knows(ask[u])' BY DEF Progress
  <2>1. CASE u = t BY <1>a, <1>b, <1>d, <1>g, <2>1 DEF Knows
  <2>2. CASE u # t BY <1>4, <2>2 DEF Knows
  <2> QED BY <2>1, <2>2
<1> QED BY <1>1, <1>2, <1>3, <1>5 DEF ModInv

LEMMA ModNextInv == ModInv /\ [ModNext]_modVars => ModInv'
<1> SUFFICES ASSUME ModInv, [ModNext]_modVars PROVE ModInv' OBVIOUS
<1>1. CASE UNCHANGED modVars
  BY <1>1 DEF modVars, ModInv, ModTypes, Entries, HasLock, Progress, Knows, Absent
<1>2. ASSUME NEW t \in Asker, ModStep(t) PROVE ModInv'
  <2>1. CASE Look_(t) BY <2>1, SearchInv DEF Look_
  <2>2. CASE LookAgain(t) BY <2>2, SearchInv DEF LookAgain
  <2>3. CASE SpinLock(t) \/ SpinUnlock(t) BY <2>3, SpinInv
  <2>4. CASE Open(t) \/ OpenSym(t) BY <2>4, OpenInv
  <2>5. CASE Publish(t) BY <2>5, PublishInv
  <2> QED BY <1>2, <2>1, <2>2, <2>3, <2>4, <2>5 DEF ModStep
<1>3. ASSUME NEW t \in Asker, NEW n \in Name, Query(t, n) PROVE ModInv' BY <1>3, QueryInv
<1> QED BY <1>1, <1>2, <1>3 DEF ModNext

\* ztask_module_query, from any number of threads: a module has one entry, an entry
\* that is found without the lock is complete, and no query fails for a module that
\* can be opened while there is room.
THEOREM ModulesHaveOneEntry == ModSpec => []OneEntryEach
<1>1. ModInit => ModInv BY ModInitInv
<1>2. ModInv /\ [ModNext]_modVars => ModInv' BY ModNextInv
<1>3. ModInv => OneEntryEach
  <2> SUFFICES ASSUME ModInv PROVE OneEntryEach OBVIOUS
  <2>1. \A i, j \in 1..count : tab[i].name = tab[j].name => i = j BY DEF ModInv, Entries
  <2>2. ASSUME NEW t \in Asker, ask[t].at = "idle", ask[t].name # None
        PROVE  IF ask[t].result # 0
               THEN tab[ask[t].result].name = ask[t].name /\ tab[ask[t].result].syms
               ELSE ask[t].name \notin Complete \/ count = MaxModules
    <3>1. PICK a \in Asks : a = ask[t] BY ModTyped
    <3>2. Knows(a) /\ a.result \in 0..count /\ count \in Nat BY <3>1, ModTyped DEF Asks
    <3>3. a.result # 0 => a.result \in 1..count BY <3>2
    <3>4. a.result # 0 => tab[a.result].syms BY <3>3 DEF ModInv, Entries
    <3> QED BY <2>2, <3>1, <3>2, <3>4 DEF Knows
  <2> QED BY <2>1, <2>2 DEF OneEntryEach
<1> QED BY <1>1, <1>2, <1>3, PTL DEF ModSpec
-----------------------------------------------------------------------------
(* The debug channel.                                                      *)

OpenEnds == {e \in End : box[e] = "open"}

ChanTypes ==
    /\ chan \in [ref : 0..2, list : Seq(Nat), alive : BOOLEAN]
    /\ box \in [End -> {"none", "open", "freeing", "closed"}]
    /\ sent \in Nat /\ got \in Seq(Nat)

\* channel->ref counts the ends that are open.
EndsCounted ==
    /\ chan.ref = 0 => OpenEnds = {}
    /\ chan.ref = 1 => \E a \in End : OpenEnds = {a}
    /\ chan.ref = 2 => \E a, b \in End : a # b /\ OpenEnds = {a, b}
    /\ \A e \in End : box[e] = "freeing" => chan.ref = 0
    /\ ~chan.alive => chan.ref = 0

\* Read and listed commands are those that were written.
AllInOrder ==
    /\ \A i \in 1..Len(got) : got[i] = i
    /\ chan.ref # 0 => /\ \A i \in 1..Len(chan.list) : chan.list[i] = Len(got) + i
                       /\ sent = Len(got) + Len(chan.list)

ChanInv == ChanTypes /\ EndsCounted /\ AllInOrder

LEMMA ChanInitInv == ChanInit => ChanInv
<1> SUFFICES ASSUME ChanInit PROVE ChanInv OBVIOUS
<1>0. /\ chan = [ref |-> 1, list |-> << >>, alive |-> TRUE]
      /\ box = [e \in End |-> IF e = Agent THEN "open" ELSE "none"]
      /\ sent = 0 /\ got = << >>
  BY DEF ChanInit
<1>1. Agent \in End BY ChanAssumption DEF Agent
<1>2. << >> \in Seq(Nat) /\ Len(<< >>) = 0 OBVIOUS
<1>3. /\ chan \in [ref : 0..2, list : Seq(Nat), alive : BOOLEAN]
      /\ chan.ref = 1 /\ chan.list = << >> /\ chan.alive
  BY <1>0, <1>2
<1>4. ChanTypes BY <1>0, <1>2, <1>3 DEF ChanTypes
<1>5. OpenEnds = {Agent} BY <1>0, <1>1 DEF OpenEnds
<1>6. EndsCounted BY <1>0, <1>1, <1>3, <1>5 DEF EndsCounted
<1>7. AllInOrder BY <1>0, <1>2, <1>3 DEF AllInOrder
<1> QED BY <1>4, <1>6, <1>7 DEF ChanInv

\* The fields of the channel, one by one.
LEMMA ChanTyped ==
    ASSUME ChanInv
    PROVE  /\ chan.ref \in {0, 1, 2} /\ chan.list \in Seq(Nat) /\ chan.alive \in BOOLEAN
           /\ box \in [End -> {"none", "open", "freeing", "closed"}]
           /\ sent \in Nat /\ got \in Seq(Nat)
  BY DEF ChanInv, ChanTypes

LEMMA ConnectInv == ASSUME ChanInv, NEW e \in End, Connect(e) PROVE ChanInv'
<1>0. box[e] = "none" /\ sent' = sent /\ got' = got BY DEF Connect
<1>1. CASE chan.ref = 1
  <2>1. chan' = [chan EXCEPT !.ref = 2] /\ box' = [box EXCEPT ![e] = "open"] BY <1>1 DEF Connect
  <2>2. chan' \in [ref : 0..2, list : Seq(Nat), alive : BOOLEAN] BY <2>1 DEF ChanInv, ChanTypes
  <2>3. chan'.ref = 2 /\ chan'.list = chan.list BY <2>1 DEF ChanInv, ChanTypes
  <2>4. chan'.alive = chan.alive BY <2>1 DEF ChanInv, ChanTypes
  <2>5. chan.alive BY <1>1 DEF ChanInv, EndsCounted
  <2>6. /\ box' \in [End -> {"none", "open", "freeing", "closed"}] /\ box'[e] = "open"
        /\ \A d \in End : d # e => box'[d] = box[d]
    BY <2>1, ChanTyped
  <2>7. PICK a \in End : OpenEnds = {a} BY <1>1 DEF ChanInv, EndsCounted
  <2>8. a # e /\ OpenEnds' = {a, e} BY <1>0, <2>6, <2>7 DEF OpenEnds
  <2>9. \A d \in End : box'[d] # "freeing" BY <1>1, <2>6 DEF ChanInv, EndsCounted
  <2>10. EndsCounted' BY <2>3, <2>4, <2>5, <2>8, <2>9 DEF EndsCounted
  <2>11. AllInOrder' BY <1>0, <1>1, <2>3 DEF ChanInv, AllInOrder
  <2>12. ChanTypes' BY <1>0, <2>2, <2>6 DEF ChanInv, ChanTypes
  <2> QED BY <2>10, <2>11, <2>12 DEF ChanInv
<1>2. CASE chan.ref # 1
  <2>1. chan' = chan /\ box' = [box EXCEPT ![e] = "closed"] BY <1>2 DEF Connect
  <2>2. /\ box' \in [End -> {"none", "open", "freeing", "closed"}] /\ box'[e] = "closed"
        /\ \A d \in End : d # e => box'[d] = box[d]
    BY <2>1, ChanTyped
  <2>3. OpenEnds' = OpenEnds BY <1>0, <2>2 DEF OpenEnds
  <2>4. \A d \in End : box'[d] = "freeing" => box[d] = "freeing" BY <2>2
  <2>5. EndsCounted' BY <2>1, <2>3, <2>4 DEF ChanInv, EndsCounted
  <2>6. AllInOrder' BY <1>0, <2>1 DEF ChanInv, AllInOrder
  <2>7. ChanTypes' BY <1>0, <2>1, <2>2 DEF ChanInv, ChanTypes
  <2> QED BY <2>5, <2>6, <2>7 DEF ChanInv
<1> QED BY <1>1, <1>2

\* An open end finds the channel alive and counted.
LEMMA OpenCounted == ASSUME ChanInv, NEW e \in End, box[e] = "open"
                     PROVE  chan.ref \in {1, 2} /\ chan.alive /\ \A d \in End : box[d] # "freeing"
<1>1. e \in OpenEnds BY DEF OpenEnds
<1>2. chan.ref # 0 BY <1>1 DEF ChanInv, EndsCounted
<1> QED BY <1>2, ChanTyped DEF ChanInv, EndsCounted

LEMMA WriteInv == ASSUME ChanInv, NEW e \in End, Write(e) PROVE ChanInv'
<1>0. /\ box[e] = "open" /\ sent' = sent + 1 /\ box' = box /\ got' = got
      /\ chan' = [chan EXCEPT !.list = Append(chan.list, sent + 1)]
  BY DEF Write
<1>1. PICK l, m : l = chan.list /\ m = Append(l, sent + 1) OBVIOUS
<1>2. sent + 1 \in Nat /\ l \in Seq(Nat) BY <1>1, ChanTyped
<1>3. /\ m \in Seq(Nat) /\ Len(m) = Len(l) + 1 /\ m[Len(l) + 1] = sent + 1 /\ Len(l) \in Nat
      /\ \A i \in 1..Len(l) : m[i] = l[i]
  BY <1>1, <1>2
<1>4. chan' = [chan EXCEPT !.list = m] BY <1>0, <1>1
<1>5. chan' \in [ref : 0..2, list : Seq(Nat), alive : BOOLEAN] BY <1>3, <1>4 DEF ChanInv, ChanTypes
<1>6. chan'.list = m /\ chan'.ref = chan.ref BY <1>4 DEF ChanInv, ChanTypes
<1>7. chan'.alive = chan.alive BY <1>4 DEF ChanInv, ChanTypes
<1>8. ChanTypes' BY <1>0, <1>2, <1>5 DEF ChanInv, ChanTypes
<1>9. EndsCounted' BY <1>0, <1>6, <1>7 DEF ChanInv, EndsCounted, OpenEnds
<1>10. AllInOrder'
  <2>1. chan.ref # 0 BY <1>0, OpenCounted
  <2>2. sent = Len(got) + Len(l) /\ Len(got) \in Nat /\ \A i \in 1..Len(l) : l[i] = Len(got) + i
    BY <1>1, <2>1, ChanTyped DEF ChanInv, AllInOrder
  <2>3. \A i \in 1..(Len(l) + 1) : i \in 1..Len(l) \/ i = Len(l) + 1 BY <1>3
  <2>4. ASSUME NEW i \in 1..Len(m) PROVE m[i] = Len(got) + i
    <3>1. CASE i \in 1..Len(l) BY <1>3, <2>2, <3>1
    <3>2. CASE i = Len(l) + 1 BY <1>3, <2>2, <3>2
    <3> QED BY <1>3, <2>3, <3>1, <3>2
  <2>5. sent' = Len(got) + Len(m) BY <1>0, <1>3, <2>2
  <2> QED BY <1>0, <1>6, <2>4, <2>5 DEF ChanInv, AllInOrder
<1> QED BY <1>8, <1>9, <1>10 DEF ChanInv

LEMMA ReadInv == ASSUME ChanInv, NEW e \in End, Read(e) PROVE ChanInv'
<1>0. /\ box[e] = "open" /\ chan.list # << >> /\ sent' = sent /\ box' = box
      /\ got' = Append(got, Head(chan.list)) /\ chan' = [chan EXCEPT !.list = Tail(chan.list)]
  BY DEF Read
<1>1. PICK l, m : l = chan.list /\ m = Tail(l) OBVIOUS
<1>2. l \in Seq(Nat) /\ l # << >> /\ got \in Seq(Nat) /\ Len(got) \in Nat BY <1>0, <1>1, ChanTyped
<1>3. /\ m \in Seq(Nat) /\ Len(m) = Len(l) - 1 /\ Len(l) \in Nat /\ Len(l) >= 1 /\ Head(l) = l[1]
      /\ l[1] \in Nat /\ \A i \in 1..Len(m) : m[i] = l[i + 1]
  BY <1>1, <1>2
<1>4. chan' = [chan EXCEPT !.list = m] BY <1>0, <1>1
<1>5. chan' \in [ref : 0..2, list : Seq(Nat), alive : BOOLEAN] BY <1>3, <1>4 DEF ChanInv, ChanTypes
<1>6. chan'.list = m /\ chan'.ref = chan.ref BY <1>4 DEF ChanInv, ChanTypes
<1>7. chan'.alive = chan.alive BY <1>4 DEF ChanInv, ChanTypes
<1>8. /\ got' \in Seq(Nat) /\ Len(got') = Len(got) + 1 /\ got'[Len(got) + 1] = l[1]
      /\ \A i \in 1..Len(got) : got'[i] = got[i]
  BY <1>0, <1>1, <1>2, <1>3
<1>9. ChanTypes' BY <1>0, <1>5, <1>8 DEF ChanInv, ChanTypes
<1>10. EndsCounted' BY <1>0, <1>6, <1>7 DEF ChanInv, EndsCounted, OpenEnds
<1>11. AllInOrder'
  <2>1. chan.ref # 0 BY <1>0, OpenCounted
  <2>2. sent = Len(got) + Len(l) /\ \A i \in 1..Len(l) : l[i] = Len(got) + i
    BY <1>1, <2>1 DEF ChanInv, AllInOrder
  <2>3. l[1] = Len(got) + 1
    <3>1. 1 \in 1..Len(l) BY <1>3
    <3> QED BY <2>2, <3>1
  <2>4. \A i \in 1..Len(got') : got'[i] = i
    <3>1. \A i \in 1..Len(got) : got[i] = i BY DEF ChanInv, AllInOrder
    <3>2. \A i \in 1..(Len(got) + 1) : i \in 1..Len(got) \/ i = Len(got) + 1 BY <1>2
    <3> QED BY <1>8, <2>3, <3>1, <3>2
  <2>5. \A i \in 1..Len(m) : m[i] = Len(got') + i
    <3>1. \A i \in 1..Len(m) : i + 1 \in 1..Len(l) /\ i \in Nat BY <1>3
    <3> QED BY <1>2, <1>3, <1>8, <2>2, <3>1
  <2>6. sent' = Len(got') + Len(m) BY <1>0, <1>2, <1>3, <1>8, <2>2
  <2> QED BY <1>6, <2>4, <2>5, <2>6 DEF AllInOrder
<1> QED BY <1>9, <1>10, <1>11 DEF ChanInv

LEMMA ReleaseInv == ASSUME ChanInv, NEW e \in End, Release(e) PROVE ChanInv'
<1>a. PICK l, s : /\ l = (IF chan.ref = 1 THEN << >> ELSE chan.list)
                  /\ s = (IF chan.ref = 1 THEN "freeing" ELSE "closed")
  OBVIOUS
<1>0. /\ box[e] = "open" /\ sent' = sent /\ got' = got
      /\ chan' = [chan EXCEPT !.ref = chan.ref - 1, !.list = l]
      /\ box' = [box EXCEPT ![e] = s]
  BY <1>a DEF Release
<1>1. chan.ref \in {1, 2} /\ chan.alive /\ \A d \in End : box[d] # "freeing" BY <1>0, OpenCounted
<1>2. l \in Seq(Nat) /\ s \in {"freeing", "closed"} BY <1>a, ChanTyped
<1>3. PICK n \in 0..2 : n = chan.ref - 1 BY <1>1
<1>4. chan' \in [ref : 0..2, list : Seq(Nat), alive : BOOLEAN] BY <1>0, <1>2, <1>3 DEF ChanInv, ChanTypes
<1>5. chan'.list = l /\ chan'.ref = n BY <1>0, <1>3 DEF ChanInv, ChanTypes
<1>6. chan'.alive = chan.alive BY <1>0 DEF ChanInv, ChanTypes
<1>7. /\ box' \in [End -> {"none", "open", "freeing", "closed"}] /\ box'[e] = s
      /\ \A d \in End : d # e => box'[d] = box[d]
  BY <1>0, <1>2, ChanTyped
<1>8. e \in OpenEnds /\ OpenEnds' = OpenEnds \ {e} BY <1>0, <1>2, <1>7 DEF OpenEnds
<1>9. EndsCounted'
  <2>1. CASE chan.ref = 1
    <3>1. n = 0 BY <1>3, <2>1
    <3>2. OpenEnds' = {} BY <1>8, <2>1 DEF ChanInv, EndsCounted
    <3> QED BY <1>5, <3>1, <3>2 DEF EndsCounted
  <2>2. CASE chan.ref = 2
    <3>1. n = 1 /\ s = "closed" BY <1>3, <1>a, <2>2
    <3>2. \E a \in End : OpenEnds' = {a} BY <1>8, <2>2 DEF ChanInv, EndsCounted
    <3>3. \A d \in End : box'[d] # "freeing" BY <1>1, <1>7, <3>1
    <3> QED BY <1>1, <1>5, <1>6, <3>1, <3>2, <3>3 DEF EndsCounted
  <2> QED BY <1>1, <2>1, <2>2
<1>10. AllInOrder'
  <2>1. chan.ref # 1 => n # 0 /\ l = chan.list BY <1>1, <1>3, <1>a
  <2>2. chan.ref = 1 => n = 0 BY <1>3
  <2> QED BY <1>0, <1>1, <1>5, <2>1, <2>2 DEF ChanInv, AllInOrder
<1>11. ChanTypes' BY <1>0, <1>4, <1>7 DEF ChanInv, ChanTypes
<1> QED BY <1>9, <1>10, <1>11 DEF ChanInv

LEMMA FreeInv == ASSUME ChanInv, NEW e \in End, Free(e) PROVE ChanInv'
<1>0. /\ box[e] = "freeing" /\ sent' = sent /\ got' = got
      /\ chan' = [chan EXCEPT !.alive = FALSE] /\ box' = [box EXCEPT ![e] = "closed"]
  BY DEF Free
<1>1. chan.ref = 0 BY <1>0 DEF ChanInv, EndsCounted
<1>2. chan' \in [ref : 0..2, list : Seq(Nat), alive : BOOLEAN]
  <2>1. PICK f \in BOOLEAN : f = FALSE OBVIOUS
  <2>2. chan' = [chan EXCEPT !.alive = f] BY <1>0, <2>1
  <2> QED BY <2>2 DEF ChanInv, ChanTypes
<1>3. chan'.list = chan.list /\ chan'.ref = chan.ref BY <1>0 DEF ChanInv, ChanTypes
<1>4. /\ box' \in [End -> {"none", "open", "freeing", "closed"}] /\ box'[e] = "closed"
      /\ \A d \in End : d # e => box'[d] = box[d]
  BY <1>0, ChanTyped
<1>5. OpenEnds' = OpenEnds BY <1>0, <1>4 DEF OpenEnds
<1>6. OpenEnds = {} BY <1>1 DEF ChanInv, EndsCounted
<1>7. EndsCounted' BY <1>1, <1>3, <1>5, <1>6 DEF EndsCounted
<1>8. AllInOrder' BY <1>0, <1>1, <1>3 DEF ChanInv, AllInOrder
<1>9. ChanTypes' BY <1>0, <1>2, <1>4 DEF ChanInv, ChanTypes
<1> QED BY <1>7, <1>8, <1>9 DEF ChanInv

LEMMA ChanNextInv == ChanInv /\ [ChanNext]_chanVars => ChanInv'
<1> SUFFICES ASSUME ChanInv, [ChanNext]_chanVars PROVE ChanInv' OBVIOUS
<1>1. CASE UNCHANGED chanVars
  <2>0. chan' = chan /\ box' = box /\ sent' = sent /\ got' = got BY <1>1 DEF chanVars
  <2>1. ChanTypes' BY <2>0 DEF ChanInv, ChanTypes
  <2>2. EndsCounted' BY <2>0 DEF ChanInv, EndsCounted, OpenEnds
  <2>3. AllInOrder' BY <2>0 DEF ChanInv, AllInOrder
  <2> QED BY <2>1, <2>2, <2>3 DEF ChanInv
<1>2. ASSUME NEW e \in End, Connect(e) \/ Write(e) \/ Read(e) \/ Release(e) \/ Free(e) PROVE ChanInv'
  BY <1>2, ConnectInv, WriteInv, ReadInv, ReleaseInv, FreeInv
<1> QED BY <1>1, <1>2 DEF ChanNext

\* lua-debugchannel.c, with any number of services that try to connect and ends that
\* leave in any order: at most two ends are open, none when the channel is freed, and
\* the commands are read in the order in which they were written, each once.
THEOREM ChannelIsKept == ChanSpec => []ChannelKept
<1>1. ChanInit => ChanInv BY ChanInitInv
<1>2. ChanInv /\ [ChanNext]_chanVars => ChanInv' BY ChanNextInv
<1>3. ChanInv => ChannelKept
  <2> SUFFICES ASSUME ChanInv PROVE ChannelKept OBVIOUS
  <2>1. ~chan.alive => OpenEnds = {} BY DEF ChanInv, EndsCounted
  <2>2. \A a, b, c \in OpenEnds : a = b \/ b = c \/ a = c BY ChanTyped DEF ChanInv, EndsCounted
  <2>3. TwoEnds BY <2>1, <2>2 DEF TwoEnds, OpenEnds
  <2>4. DOMAIN got = 1..Len(got) BY ChanTyped
  <2>5. CommandsInOrder BY <2>4 DEF ChanInv, AllInOrder, CommandsInOrder
  <2> QED BY <2>3, <2>5 DEF ChannelKept
<1> QED BY <1>1, <1>2, <1>3, PTL DEF ChanSpec

-----------------------------------------------------------------------------
(* The watch over endless callbacks.                                       *)

MonTypes ==
    /\ sm \in [version : Nat, check : Nat, source : Service \cup {0}, destination : Service \cup {0}]
    /\ worker \in [at : {"idle", "noted", "marked", "callback", "cleared", "unmarked"},
                   from : Service \cup {0}, to : Service \cup {0}]
    /\ watch \in [at : {"sleep", "seen", "report", "name"}, source : Service \cup {0, NotRead},
                  destination : Service \cup {0, NotRead}]
    /\ endless \in [Service -> BOOLEAN]
    /\ ghost \in [since : 0..2, moved : BOOLEAN]

\* Source and destination are noted before the callback and until it has returned.
Marked ==
    /\ sm.source = IF worker.at \in {"noted", "marked", "callback"} THEN worker.from ELSE 0
    /\ sm.destination = IF worker.at \in {"marked", "callback", "cleared"} THEN worker.to ELSE 0

\* Until the first check of a callback the count is a new one.
Noticed ==
    /\ sm.check <= sm.version
    /\ worker.at \in {"callback", "cleared"} /\ ghost.since = 0 => sm.check < sm.version

\* A check that found the old count, and that the worker did not step into, was not
\* the first one of the callback; and what it has read since is what is noted.
Undisturbed ==
    watch.at # "sleep" /\ ghost.moved = FALSE =>
        /\ worker.at \in {"callback", "cleared"} => ghost.since = 2
        /\ watch.at \in {"report", "name"} => sm.destination # 0
        /\ watch.source \in {NotRead, sm.source}
        /\ watch.destination \in {NotRead, sm.destination}

\* Nothing has been read for a report that is not being written.
Fresh == watch.at # "name" => watch.source = NotRead /\ watch.destination = NotRead

MonInv == MonTypes /\ Marked /\ Noticed /\ Undisturbed /\ Fresh

LEMMA MonInitInv == MonInit => MonInv
  BY DEF MonInit, MonInv, MonTypes, Marked, Noticed, Undisturbed, Fresh, NoReport

LEMMA MonNextInv == MonInv /\ [MonNext]_monVars => MonInv'
<1> SUFFICES ASSUME MonInv, [MonNext]_monVars PROVE MonInv' OBVIOUS
<1> USE DEF MonInv, MonTypes, Marked, Noticed, Undisturbed, Fresh, NoReport, NotRead
<1>1. ASSUME NEW f \in Service, NEW s \in Service, Dispatch(f, s) PROVE MonInv' BY <1>1 DEF Dispatch
<1>2. ASSUME NEW s \in Service, Ask(s) PROVE MonInv' BY <1>2 DEF Ask
<1>3. CASE Mark BY <1>3 DEF Mark, WorkerGoes
<1>4. CASE MarkCount BY <1>4 DEF MarkCount, WorkerGoes
<1>5. CASE Return BY <1>5 DEF Return, WorkerGoes
<1>6. CASE Unmark BY <1>6 DEF Unmark, WorkerGoes
<1>7. CASE UnmarkCount BY <1>7 DEF UnmarkCount, WorkerGoes
<1>8. CASE Check BY <1>8 DEF Check
<1>9. CASE Look BY <1>9 DEF Look
<1>10. CASE Report BY <1>10 DEF Report
<1>11. CASE ReadSource BY <1>11 DEF ReadSource
<1>12. CASE ReadDestination BY <1>12 DEF ReadDestination
<1>13. CASE Log BY <1>13 DEF Log
<1>14. CASE UNCHANGED monVars BY <1>14 DEF monVars
<1> QED BY <1>1, <1>2, <1>3, <1>4, <1>5, <1>6, <1>7, <1>8, <1>9, <1>10, <1>11, <1>12, <1>13, <1>14
        DEF MonNext, WatchStep, WorkerRuns

\* ztask_monitor.c, for every set of services and any number of callbacks: a report that
\* the worker did not step into names the service whose callback has been running since
\* the check before, or is about to be called, and the source of its message.
THEOREM ReportsAreHonest == MonSpec => [][HonestReport]_monVars
<1>1. MonInv /\ [MonNext]_monVars => [HonestReport]_monVars
  <2> SUFFICES ASSUME MonInv, MonNext, ~ghost.moved PROVE HonestReport
    BY DEF HonestReport
  <2> USE DEF MonInv, MonTypes, Marked, Undisturbed, Fresh
  <2>1. ASSUME NEW s \in Service, ~endless[s], endless'[s] PROVE Watched(s)
    <3>1. CASE Report
      <4>1. s = sm.destination /\ watch.at = "report" BY <2>1, <3>1 DEF Report
      <4>2. s # 0 BY MonitorAssumption
      <4> QED BY <4>1, <4>2 DEF Watched
    <3>2. ASSUME NEW x \in Service, Ask(x) PROVE FALSE
      BY <2>1, <3>2 DEF Ask
    <3>3. CASE endless' = endless BY <2>1, <3>3
    <3> QED BY <3>1, <3>2, <3>3 DEF MonNext, WatchStep, WorkerRuns, WorkerGoes, Dispatch, Mark, MarkCount,
               Return, Unmark, UnmarkCount, Check, Look, ReadSource, ReadDestination, Log
  <2>2. ASSUME watch.at = "name", watch'.at = "sleep"
        PROVE  Watched(watch.destination) /\ watch.source = IF worker.at = "cleared" THEN 0 ELSE worker.from
    <3>1. Log
      BY <2>2 DEF MonNext, WatchStep, WorkerRuns, WorkerGoes, Dispatch, Ask, Mark, MarkCount,
                  Return, Unmark, UnmarkCount, Check, Look, Report, ReadSource, ReadDestination
    <3>2. NotRead \notin {watch.source, watch.destination} BY <3>1 DEF Log
    <3>3. watch.source = sm.source /\ watch.destination = sm.destination /\ sm.destination # 0
      BY <2>2, <3>2
    <3> QED BY <2>2, <3>3 DEF Watched
  <2> QED BY <2>1, <2>2 DEF HonestReport
<1> QED BY <1>1, MonInitInv, MonNextInv, PTL DEF MonSpec

-----------------------------------------------------------------------------
(* The mutex on which workers sleep.                                       *)
\* The state without the bound on m->sleep, which follows from Sleeping.
PoolShape ==
    /\ work \in 0..arrived /\ arrived \in 0..MaxArrive
    /\ alive \in BOOLEAN /\ quit \in BOOLEAN
    /\ mutex \in Worker \cup {NoThread}
    /\ posted \in 0..MaxPosted
    /\ wpc \in [Worker -> {"top", "dispatch", "run", "lock", "wait", "unlock", "exit"}]
    /\ spc \in [Sender -> {"tick", "abort", "exit", "poll", "wake", "post"}]

\* The holder of the mutex is the worker that sleeps or is about to unlock.
Holder == \A w \in Worker : wpc[w] \in {"wait", "unlock"} <=> mutex = w

\* m->sleep is 1 while the mutex is held, and 0 otherwise.
Sleeping == sleep = IF mutex = NoThread THEN 0 ELSE 1

PoolInv == PoolShape /\ Holder /\ Sleeping

-----------------------------------------------------------------------------

LEMMA PoolInitInv == PoolInit => PoolInv
<1> SUFFICES ASSUME PoolInit PROVE PoolInv OBVIOUS
<1> USE WorkerPoolAssumption DEF PoolInit
<1>1. alive \in BOOLEAN /\ quit \in BOOLEAN BY ZenonT(20)
<1>2. /\ work \in 0..arrived /\ arrived \in 0..MaxArrive
      /\ posted \in 0..MaxPosted
  OBVIOUS
<1>3. /\ mutex \in Worker \cup {NoThread}
      /\ wpc \in [Worker -> {"top", "dispatch", "run", "lock", "wait", "unlock", "exit"}]
  OBVIOUS
<1>4. spc \in [Sender -> {"tick", "abort", "exit", "poll", "wake", "post"}]
  BY DEF Home
<1>5. PoolShape BY <1>1, <1>2, <1>3, <1>4, Zenon DEF PoolShape
<1>6. Holder BY DEF Holder
<1>7. Sleeping BY DEF Sleeping
<1> QED BY <1>5, <1>6, <1>7 DEF PoolInv

\* A step of a worker.
LEMMA WorkerInv ==
    ASSUME PoolInv, NEW w \in Worker,
           WorkerStep(w) \/ CallbackSends(w) \/ CallbackEndsAll(w)
    PROVE  PoolInv'
<1> USE WorkerPoolAssumption DEF PoolInv, PoolShape, Holder, Sleeping
<1>1. CASE LoopTest(w) BY <1>1 DEF LoopTest, WGoto
<1>2. CASE TakeWork(w) BY <1>2 DEF TakeWork, WGoto
<1>3. CASE NoWork(w) BY <1>3 DEF NoWork, WGoto
<1>4. CASE CallbackReturns(w) BY <1>4 DEF CallbackReturns, WGoto
<1>5. CASE GoToSleep(w)
  <2>1. wpc' \in [Worker -> {"top", "dispatch", "run", "lock", "wait", "unlock", "exit"}]
    BY <1>5 DEF GoToSleep, WGoto
  <2> QED BY <1>5, <2>1 DEF GoToSleep, WGoto
<1>6. CASE WakeUp(w) BY <1>6 DEF WakeUp, WGoto
<1>7. CASE UnlockMutex(w) BY <1>7 DEF UnlockMutex, WGoto
<1>8. CASE CallbackSends(w) BY <1>8 DEF CallbackSends, Arrive
<1>9. CASE CallbackEndsAll(w) BY <1>9 DEF CallbackEndsAll
<1> QED BY <1>1, <1>2, <1>3, <1>4, <1>5, <1>6, <1>7, <1>8, <1>9 DEF WorkerStep

\* A step of a thread that wakes workers leaves them and the mutex alone.
LEMMA SenderInv ==
    ASSUME PoolInv,
           \/ TimerStep \/ TimerFires
           \/ \E s \in Sender : Post(s)
           \/ \E i \in Io : IoWakeup(i) \/ IoEvent(i)
    PROVE  PoolInv'
<1> USE WorkerPoolAssumption DEF PoolInv, PoolShape, Holder, Sleeping, Sender
<1>1. CASE TimerTick BY <1>1 DEF TimerTick, SGoto
<1>2. CASE TimerQuits BY <1>2 DEF TimerQuits, SGoto
<1>3. CASE TimerFires BY <1>3 DEF TimerFires, Arrive
<1>4. ASSUME NEW s \in Sender, Post(s) PROVE PoolInv'
  BY <1>4 DEF Post, Signal, SGoto, Home
<1>5. ASSUME NEW i \in Io, IoWakeup(i) PROVE PoolInv' BY <1>5 DEF IoWakeup, SGoto
<1>6. ASSUME NEW i \in Io, IoEvent(i) PROVE PoolInv' BY <1>6 DEF IoEvent, Arrive, SGoto
<1> QED BY <1>1, <1>2, <1>3, <1>4, <1>5, <1>6 DEF TimerStep

LEMMA PoolNextInv == PoolInv /\ [PoolNext]_poolVars => PoolInv'
<1>1. PoolInv /\ UNCHANGED poolVars => PoolInv' BY DEF PoolInv, PoolShape, Holder, Sleeping, poolVars
<1> QED BY <1>1, WorkerInv, SenderInv DEF PoolNext

\* The count that OneSleeper speaks of.
LEMMA SleepersCounted ==
    ASSUME PoolInv
    PROVE  sleep = Cardinality({w \in Worker : wpc[w] \in {"wait", "unlock"}})
<1> DEFINE S == {w \in Worker : wpc[w] \in {"wait", "unlock"}}
<1>1. CASE mutex = NoThread
  <2>1. S = {} BY <1>1, WorkerPoolAssumption DEF PoolInv, Holder
  <2> QED BY <1>1, <2>1, FS_EmptySet DEF PoolInv, Sleeping
<1>2. CASE mutex # NoThread
  <2>1. mutex \in Worker BY <1>2 DEF PoolInv, PoolShape
  <2>2. S = {mutex} BY <2>1 DEF PoolInv, Holder
  <2> QED BY <1>2, <2>2, FS_Singleton DEF PoolInv, Sleeping
<1> QED BY <1>1, <1>2

\* Since ztask_cond_wait keeps the mutex, m->sleep counts the sleeping workers
\* exactly and is never more than 1, for every set of workers and senders.
THEOREM PoolHasOneSleeper == PoolSpec => []OneSleeper
<1>1. PoolInv => OneSleeper
  <2> SUFFICES ASSUME PoolInv PROVE OneSleeper OBVIOUS
  <2>1. Count \in Nat \ {0}
    <3>1. Count \in Nat BY WorkerPoolAssumption, FS_CardinalityType DEF Count
    <3>2. Count # 0 BY WorkerPoolAssumption, FS_EmptySet DEF Count
    <3> QED BY <3>1, <3>2
  <2>2. sleep \in 0..Count BY <2>1 DEF PoolInv, Sleeping
  <2>3. work \in 0..MaxArrive BY WorkerPoolAssumption DEF PoolInv, PoolShape
  <2>4. PoolTypeOK BY <2>2, <2>3 DEF PoolInv, PoolShape, PoolTypeOK
  <2> QED BY <2>4, SleepersCounted DEF OneSleeper, PoolInv, Holder
<1> QED BY <1>1, PoolInitInv, PoolNextInv, PTL DEF PoolSpec

-----------------------------------------------------------------------------
(* A message queue.                                                        *)
\* Every cell between head and tail holds a message.
Written == \A i \in 0..(Length - 1) : queue[Cell(i)] \in Msg

QueueInv == QueueTypeOK /\ NoLostWork /\ Written

-----------------------------------------------------------------------------

\* The remainder in expand_queue wraps at most once.
LEMMA ModOnce ==
    ASSUME NEW c \in Nat \ {0}, NEW x \in Nat, x < 2 * c
    PROVE  x % c = IF x < c THEN x ELSE x - c
  OBVIOUS

\* The loop of ztask_mq_pop: a threshold that is not passed stays; otherwise the
\* doubling ends at the first threshold that is not passed.
RaisedRight(r, t, len) ==
    /\ r \in Nat
    /\ len <= t => r = t
    /\ len > t /\ t > 0 => len <= r /\ r < 2 * len

\* One round of the loop.
Longer(x, len) == IF len > x THEN 2 * x ELSE x

LEMMA RaisedForm ==
    ASSUME threshold \in Nat, NEW len \in Nat
    PROVE  RaisedRight(Raised(len), threshold, len)
<1>1. PICK t \in Nat : t = threshold OBVIOUS
<1> DEFINE step == [k \in 1..len |-> [x \in Nat |-> Longer(x, len)]]
<1>2. step \in [1..len -> [Nat -> Nat]] BY DEF Longer
<1>3. PICK f \in [0..len -> Nat] : f[0] = t /\ \A k \in 1..len : f[k] = step[k][f[k - 1]]
  <2> HIDE DEF step
  <2>1. PICK st, N : st = step /\ N = Nat OBVIOUS
  <2>2. HasRun(len, N, t, st) BY <1>2, <2>1, Rounds
  <2> QED BY <2>1, <2>2 DEF HasRun
<1>4. \A k \in 1..len : f[k] = Longer(f[k - 1], len)
  <2> SUFFICES ASSUME NEW k \in 1..len PROVE f[k] = Longer(f[k - 1], len) OBVIOUS
  <2>1. k - 1 \in 0..len OBVIOUS
  <2>2. f[k - 1] \in Nat BY <2>1, <1>3
  <2> QED BY <1>3, <2>2
<1> HIDE DEF step
<1>5. f = [k \in 0..len |-> IF k = 0 THEN t ELSE Longer(f[k - 1], len)]
  <2>1. ASSUME NEW k \in 0..len PROVE f[k] = IF k = 0 THEN t ELSE Longer(f[k - 1], len)
    <3>1. k # 0 => k \in 1..len OBVIOUS
    <3> QED BY <1>3, <1>4, <3>1
  <2> QED BY <1>3, <2>1
<1> DEFINE g == CHOOSE e : e = [k \in 0..len |-> IF k = 0 THEN t ELSE Longer(e[k - 1], len)]
<1>6. g = [k \in 0..len |-> IF k = 0 THEN t ELSE Longer(g[k - 1], len)] BY Zenon, <1>5
<1>7. Raised(len) = g[len] BY <1>1 DEF Raised, Longer
<1> HIDE DEF g
<1>8. PICK e : e = g OBVIOUS
<1>9. e = [k \in 0..len |-> IF k = 0 THEN t ELSE Longer(e[k - 1], len)] BY <1>6, <1>8
<1>10. 0 \in 0..len /\ \A k \in 1..len : k \in 0..len /\ k # 0 OBVIOUS
<1>11. e[0] = t /\ \A k \in 1..len : e[k] = Longer(e[k - 1], len) BY <1>9, <1>10
<1> DEFINE Sofar(x, k) == /\ x \in Nat /\ x >= t /\ (len <= t => x = t)
                          /\ x = t \/ x < 2 * len
                          /\ x >= len \/ x >= t + k \/ t = 0
           G == {k \in 0..len : Sofar(e[k], k)}
<1>12. 0 \in G
  <2>1. Sofar(t, 0) OBVIOUS
  <2> HIDE DEF Sofar
  <2> QED BY <1>10, <1>11, <2>1
<1>13. ASSUME NEW k \in 1..len, k - 1 \in G PROVE k \in G
  <2>1. PICK x : x = e[k - 1] OBVIOUS
  <2>2. Sofar(x, k - 1) BY <1>13, <2>1
  <2>3. Sofar(Longer(x, len), k) BY <2>2 DEF Longer
  <2> HIDE DEF Sofar
  <2> QED BY <1>10, <1>11, <2>1, <2>3
<1>14. len \in G
  <2> HIDE DEF G
  <2>1. \A k \in 0..len : k \in G BY <1>12, <1>13, EveryRound
  <2> QED BY <2>1
<1>15. PICK r : r = Raised(len) OBVIOUS
<1>16. r = e[len] BY <1>7, <1>8, <1>15
<1>17. Sofar(r, len) BY <1>14, <1>16
<1>18. RaisedRight(r, t, len) BY <1>17 DEF RaisedRight
<1> QED BY <1>1, <1>15, <1>18

\* The length ztask_mq_length computes is never the capacity: a full ring is
\* expanded at once, so head = tail only means empty.
LEMMA LengthType ==
    ASSUME QueueTypeOK
    PROVE  /\ Length \in 0..(cap - 1)
           /\ Length = 0 <=> head = tail
  BY DEF QueueTypeOK, Length

\* Where the i-th oldest message is.
LEMMA CellForm ==
    ASSUME QueueTypeOK, NEW i \in 0..(cap - 1)
    PROVE  /\ Cell(i) = IF head + i < cap THEN head + i ELSE head + i - cap
           /\ Cell(i) \in 0..(cap - 1)
<1> DEFINE x == head + i
<1>1. x \in Nat /\ x < 2 * cap /\ cap \in Nat \ {0} BY DEF QueueTypeOK
<1>2. x % cap = IF x < cap THEN x ELSE x - cap
  <2> HIDE DEF x
  <2> QED BY <1>1, ModOnce
<1>3. Cell(i) = IF x < cap THEN x ELSE x - cap BY <1>2 DEF Cell
<1> QED BY <1>1, <1>3 DEF QueueTypeOK

\* The index behind the last message is the tail.
LEMMA TailCell ==
    ASSUME QueueTypeOK
    PROVE  Cell(Length) = tail
<1>1. Length \in 0..(cap - 1) BY LengthType
<1>2. Cell(Length) = IF head + Length < cap THEN head + Length
                                            ELSE head + Length - cap
  BY <1>1, CellForm
<1> QED BY <1>2 DEF QueueTypeOK, Length

-----------------------------------------------------------------------------

\* ztask_mq_push adds exactly its message, behind the others, whether or not
\* the ring has to be expanded.
LEMMA StoreAppends ==
    ASSUME QueueTypeOK, NEW m \in Msg, Store(m)
    PROVE  /\ cap' \in Nat \ {0}
           /\ head' \in 0..(cap' - 1)
           /\ tail' \in 0..(cap' - 1)
           /\ queue' \in [0..(cap' - 1) -> Msg \cup {NoMsg}]
           /\ Length' = Length + 1
           /\ \A i \in 0..Length :
                 queue'[Cell(i)'] = IF i < Length THEN queue[Cell(i)] ELSE m
<1> DEFINE q == [queue EXCEPT ![tail] = m]
<1> DEFINE t == Wrap(tail + 1)
<1>0. /\ Length \in 0..(cap - 1)
      /\ Cell(Length) = tail
      /\ \A i \in 0..(cap - 1) :
            /\ Cell(i) = IF head + i < cap THEN head + i ELSE head + i - cap
            /\ Cell(i) \in 0..(cap - 1)
  BY LengthType, TailCell, CellForm
<1>1. q \in [0..(cap - 1) -> Msg \cup {NoMsg}] BY DEF QueueTypeOK
<1>2. \A i \in 0..Length : q[Cell(i)] = IF i < Length THEN queue[Cell(i)] ELSE m
  <2>1. q[tail] = m BY DEF QueueTypeOK
  <2>2. ASSUME NEW i \in 0..(Length - 1) PROVE Cell(i) # tail
    <3>1. i \in 0..(cap - 1) /\ i < Length BY <1>0, <2>2 DEF QueueTypeOK
    <3>2. Cell(i) = IF head + i < cap THEN head + i ELSE head + i - cap
      BY <1>0, <3>1
    <3> QED BY <3>1, <3>2 DEF QueueTypeOK, Length
  <2>3. \A i \in 0..(Length - 1) : q[Cell(i)] = queue[Cell(i)]
    BY <1>0, <2>2 DEF QueueTypeOK
  <2> QED BY <1>0, <2>1, <2>3
<1>3. CASE t = head
  <2>1. /\ queue' = Expanded(q) /\ head' = 0 /\ tail' = cap /\ cap' = 2 * cap
    BY <1>3 DEF Store
  <2>2. Length = cap - 1 BY <1>3 DEF QueueTypeOK, Length, Wrap
  <2>3. Length' = cap BY <2>1 DEF QueueTypeOK, Length
  <2>4. \A i \in 0..(cap - 1) : queue'[i] = q[Cell(i)]
    BY <2>1 DEF Expanded, QueueTypeOK
  <2>5. queue' \in [0..(cap' - 1) -> Msg \cup {NoMsg}]
    <3>1. \A i \in 0..(2 * cap - 1) :
             (IF i < cap THEN q[Cell(i)] ELSE NoMsg) \in Msg \cup {NoMsg}
      BY <1>0, <1>1 DEF QueueTypeOK
    <3> QED BY <2>1, <3>1 DEF Expanded
  <2>6. \A i \in 0..(cap - 1) : Cell(i)' = i
    <3> SUFFICES ASSUME NEW i \in 0..(cap - 1) PROVE (0 + i) % (2 * cap) = i
      BY <2>1 DEF Cell
    <3>1. i \in Nat /\ 2 * cap \in Nat \ {0} /\ i < 2 * cap BY DEF QueueTypeOK
    <3>2. i % (2 * cap) = IF i < 2 * cap THEN i ELSE i - 2 * cap
      BY <3>1, ModOnce
    <3> QED BY <3>1, <3>2
  <2>7. \A i \in 0..Length :
           queue'[Cell(i)'] = IF i < Length THEN queue[Cell(i)] ELSE m
    BY <1>2, <2>2, <2>4, <2>6 DEF QueueTypeOK
  <2>8. /\ cap' \in Nat \ {0} /\ head' \in 0..(cap' - 1)
        /\ tail' \in 0..(cap' - 1) /\ Length' = Length + 1
    BY <2>1, <2>2, <2>3 DEF QueueTypeOK
  <2> QED BY <2>5, <2>7, <2>8
<1>4. CASE t # head
  <2>1. queue' = q /\ tail' = t /\ cap' = cap /\ head' = head
    BY <1>4 DEF Store
  <2>2. tail' \in 0..(cap' - 1) BY <2>1 DEF QueueTypeOK, Wrap
  <2>3. Length' = Length + 1 BY <1>4, <2>1 DEF QueueTypeOK, Length, Wrap
  <2>4. \A i \in 0..Length : Cell(i)' = Cell(i) BY <2>1 DEF Cell
  <2>5. \A i \in 0..Length :
           queue'[Cell(i)'] = IF i < Length THEN queue[Cell(i)] ELSE m
    BY <1>2, <2>1, <2>4
  <2> QED BY <1>1, <2>1, <2>2, <2>3, <2>5 DEF QueueTypeOK
<1> QED BY <1>3, <1>4

\* ztask_mq_pop moves the head past the message it returns and leaves the
\* others where they are.
LEMMA PopShifts ==
    ASSUME QueueTypeOK, PopMessage
    PROVE  /\ head' \in 0..(cap - 1)
           /\ Length > 0
           /\ Length' = Length - 1
           /\ Cell(0) = head
           /\ \A i \in 0..(Length - 2) : Cell(i)' = Cell(i + 1)
<1>1. /\ Length \in 0..(cap - 1) /\ Length > 0
      /\ \A i \in 0..(cap - 1) :
            /\ Cell(i) = IF head + i < cap THEN head + i ELSE head + i - cap
            /\ Cell(i) \in 0..(cap - 1)
  BY LengthType, CellForm DEF PopMessage
<1>2. head' = Wrap(head + 1) /\ tail' = tail /\ cap' = cap BY DEF PopMessage
<1>3. head' \in 0..(cap - 1) BY <1>2 DEF QueueTypeOK, Wrap
<1>4. Length' = Length - 1 BY <1>1, <1>2 DEF QueueTypeOK, Length, Wrap
<1>5. Cell(0) = head BY <1>1 DEF QueueTypeOK
<1>6. ASSUME NEW i \in 0..(Length - 2) PROVE Cell(i)' = Cell(i + 1)
  <2>1. PICK h \in 0..(cap - 1) : h = head' BY <1>3
  <2>2. i \in Nat /\ i + 1 \in 0..(cap - 1) BY <1>1, <1>6 DEF QueueTypeOK
  <2>3. (h + i) % cap = IF h + i < cap THEN h + i ELSE h + i - cap
    <3> DEFINE x == h + i
    <3>1. x \in Nat /\ x < 2 * cap /\ cap \in Nat \ {0} BY <2>2 DEF QueueTypeOK
    <3> HIDE DEF x
    <3>2. x % cap = IF x < cap THEN x ELSE x - cap BY <3>1, ModOnce
    <3> QED BY <2>2, <3>1, <3>2 DEF x, QueueTypeOK
  <2>4. Cell(i)' = (h + i) % cap BY <1>2, <2>1 DEF Cell
  <2>5. Cell(i + 1) = IF head + (i + 1) < cap THEN head + (i + 1)
                                              ELSE head + (i + 1) - cap
    BY <1>1, <2>2
  <2>6. h = IF head + 1 >= cap THEN 0 ELSE head + 1 BY <1>2, <2>1 DEF Wrap
  <2> QED BY <2>2, <2>3, <2>4, <2>5, <2>6 DEF QueueTypeOK
<1> QED BY <1>1, <1>3, <1>4, <1>5, <1>6

-----------------------------------------------------------------------------

LEMMA QueueInitInv == QueueInit => QueueInv
<1> SUFFICES ASSUME QueueInit PROVE QueueInv OBVIOUS
<1>1. QueueTypeOK BY MessageQueueAssumption DEF QueueInit, QueueTypeOK
<1>2. Length = 0 BY DEF QueueInit, Length
<1> QED BY <1>1, <1>2 DEF QueueInit, QueueInv, NoLostWork, Written

LEMMA PushInv ==
    ASSUME QueueInv, NEW m \in Msg, Push(m)
    PROVE  QueueInv'
<1> USE DEF QueueInv
<1>1. Store(m) BY DEF Push
<1>2. QueueTypeOK' BY <1>1, StoreAppends DEF Push, QueueTypeOK
<1>3. NoLostWork' BY DEF Push, NoLostWork, QueueTypeOK
<1>4. Written'
  <2>1. Length \in Nat /\ Length' = Length + 1
    BY <1>1, LengthType, StoreAppends
  <2>2. \A i \in 0..Length : queue'[Cell(i)'] \in Msg
    BY <1>1, <2>1, StoreAppends DEF Written
  <2> QED BY <2>1, <2>2 DEF Written
<1> QED BY <1>2, <1>3, <1>4

\* The length that is left after a pop, against the threshold.
LEMMA PopRaises ==
    ASSUME QueueTypeOK, PopMessage
    PROVE  \E len \in Nat : /\ RaisedRight(threshold', threshold, len)
                            /\ overload' = IF threshold' = threshold THEN overload ELSE len
<1>1. PICK len : len = IF tail - head' < 0 THEN tail - head' + cap ELSE tail - head' OBVIOUS
<1>2. len \in Nat
  <2>1. PICK h \in 0..(cap - 1) : h = head' BY DEF PopMessage, Wrap, QueueTypeOK
  <2>2. (IF tail - h < 0 THEN tail - h + cap ELSE tail - h) \in Nat
    BY DEF QueueTypeOK
  <2> QED BY <1>1, <2>1, <2>2
<1>3. threshold' = Raised(len) /\ overload' = IF threshold' = threshold THEN overload ELSE len
  BY <1>1 DEF PopMessage
<1>4. threshold \in Nat BY DEF QueueTypeOK
<1>5. RaisedRight(Raised(len), threshold, len) BY <1>2, <1>4, RaisedForm
<1> QED BY <1>2, <1>3, <1>5

LEMMA PopMessageInv ==
    ASSUME QueueInv, PopMessage
    PROVE  QueueInv'
<1> USE DEF QueueInv
<1>1. /\ Length \in 0..(cap - 1) /\ Length > 0 /\ Length' = Length - 1
      /\ head' \in 0..(cap - 1) /\ Cell(0) = head
      /\ \A i \in 0..(Length - 2) : Cell(i)' = Cell(i + 1)
  BY LengthType, PopShifts
<1>2. popped' \in Msg
  <2>1. 0 \in 0..(Length - 1) BY <1>1 DEF QueueTypeOK
  <2> QED BY <1>1, <2>1 DEF Written, PopMessage
<1>3. threshold' \in Nat /\ overload' \in Nat BY PopRaises DEF QueueTypeOK, RaisedRight
<1>4. QueueTypeOK' BY <1>1, <1>2, <1>3 DEF PopMessage, QueueTypeOK
<1>5. NoLostWork' BY DEF PopMessage, NoLostWork
<1>6. Written'
  <2>1. \A i \in 0..(Length - 2) : queue'[Cell(i)'] = queue[Cell(i + 1)]
    BY <1>1 DEF PopMessage
  <2>2. \A i \in 0..(Length - 2) : queue[Cell(i + 1)] \in Msg
    BY <1>1 DEF Written
  <2> QED BY <1>1, <2>1, <2>2 DEF Written
<1> QED BY <1>4, <1>5, <1>6

\* The other operations leave the ring alone.
LEMMA RingUnchangedInv ==
    ASSUME QueueInv, UNCHANGED ring,
           PopEmpty \/ ReadOverload \/ TakeFromGlobal \/ PutIntoGlobal
                    \/ UNCHANGED queueVars
    PROVE  QueueInv'
<1> USE DEF QueueInv
<1>1. Length' = Length BY DEF Length, ring
<1>2. \A i \in 0..(Length - 1) : Cell(i)' = Cell(i) BY DEF Cell, ring
<1>3. Written' BY <1>1, <1>2 DEF Written, ring
<1>4. QueueTypeOK'
  <2>1. CASE PopEmpty BY <2>1, MessageQueueAssumption DEF QueueTypeOK, ring, PopEmpty
  <2>2. CASE ReadOverload BY <2>2 DEF QueueTypeOK, ring, ReadOverload
  <2>3. CASE TakeFromGlobal BY <2>3 DEF QueueTypeOK, ring, TakeFromGlobal
  <2>4. CASE PutIntoGlobal BY <2>4 DEF QueueTypeOK, ring, PutIntoGlobal
  <2>5. CASE UNCHANGED queueVars BY <2>5 DEF QueueTypeOK, queueVars
  <2> QED BY <2>1, <2>2, <2>3, <2>4, <2>5
<1>5. NoLostWork'
  <2>1. Length = 0 <=> head = tail BY LengthType
  <2> QED
    BY <1>1, <2>1 DEF NoLostWork, PopEmpty, ReadOverload, TakeFromGlobal,
                      PutIntoGlobal, queueVars
<1> QED BY <1>3, <1>4, <1>5

LEMMA QueueNextInv == QueueInv /\ [QueueNext]_queueVars => QueueInv'
<1> SUFFICES ASSUME QueueInv, [QueueNext]_queueVars PROVE QueueInv' OBVIOUS
<1>1. ASSUME NEW m \in Msg, Push(m) PROVE QueueInv' BY <1>1, PushInv
<1>2. CASE PopMessage BY <1>2, PopMessageInv
<1>3. CASE PopEmpty BY <1>3, RingUnchangedInv DEF PopEmpty, ring
<1>4. CASE ReadOverload BY <1>4, RingUnchangedInv DEF ReadOverload
<1>5. CASE TakeFromGlobal BY <1>5, RingUnchangedInv DEF TakeFromGlobal
<1>6. CASE PutIntoGlobal BY <1>6, RingUnchangedInv DEF PutIntoGlobal
<1>7. CASE UNCHANGED queueVars BY <1>7, RingUnchangedInv DEF queueVars, ring
<1> QED BY <1>1, <1>2, <1>3, <1>4, <1>5, <1>6, <1>7 DEF QueueNext

\* For every initial capacity, threshold base and message set, the indices
\* of the ring stay in bounds and its fields keep their types, through wraps
\* and expansions (ztask_mq_push, ztask_mq_pop, expand_queue).
THEOREM QueueIsTyped == QueueSpec => []QueueTypeOK
<1>1. QueueInv => QueueTypeOK BY DEF QueueInv
<1> QED BY <1>1, QueueInitInv, QueueNextInv, PTL DEF QueueSpec

\* For every such instance also a queue that nobody holds is empty and has its
\* in_global flag clear (ztask_mq_push, ztask_mq_pop).
THEOREM QueueSafe == QueueSpec => [](QueueTypeOK /\ NoLostWork)
<1>1. QueueInv => QueueTypeOK /\ NoLostWork BY DEF QueueInv
<1> QED BY <1>1, QueueInitInv, QueueNextInv, PTL DEF QueueSpec

-----------------------------------------------------------------------------

\* A warning reports a length above the threshold that stood before, which is at
\* least MQ_OVERLOAD; the threshold is raised to that length, and no doubling further.
WarningFits ==
    overload # 0 => /\ OverloadBase < overload
                    /\ overload <= threshold /\ threshold < 2 * overload

\* The threshold is never below MQ_OVERLOAD and never below a length that was reported
\* since the queue was empty; a warning that waits is of a longer queue still.
WarningsFit ==
    /\ threshold >= OverloadBase /\ warned <= threshold
    /\ WarningFits /\ (overload # 0 => warned < overload)

LEMMA WarningsKept ==
    ASSUME QueueInv, WarningsFit, [QueueNext]_queueVars
    PROVE  WarningsFit' /\ (warned' # 0 /\ warned' # warned => warned' > warned)
<1> USE MessageQueueAssumption DEF QueueInv, QueueTypeOK, WarningsFit, WarningFits
<1>1. CASE PopMessage
  <2>1. PICK len \in Nat : /\ RaisedRight(threshold', threshold, len)
                          /\ overload' = IF threshold' = threshold THEN overload ELSE len
    BY <1>1, PopRaises
  <2>2. warned' = warned /\ overload = 0 BY <1>1 DEF PopMessage
  <2> QED BY <2>1, <2>2 DEF RaisedRight
<1>2. CASE PopEmpty BY <1>2 DEF PopEmpty
<1>3. CASE ReadOverload BY <1>3 DEF ReadOverload
<1>4. ASSUME threshold' = threshold, overload' = overload, warned' = warned
      PROVE  WarningsFit' /\ (warned' # 0 /\ warned' # warned => warned' > warned)
  BY <1>4
<1>5. CASE (\E m \in Msg : Push(m)) \/ TakeFromGlobal \/ PutIntoGlobal \/ UNCHANGED queueVars
  BY <1>4, <1>5 DEF Push, TakeFromGlobal, PutIntoGlobal, queueVars
<1> QED BY <1>1, <1>2, <1>3, <1>5 DEF QueueNext

\* For every MQ_OVERLOAD and every history of pushes and pops, the warnings of
\* ztask_mq_pop are of lengths above the threshold that stood, the threshold is raised
\* just far enough, and until the queue is empty each warning is of a longer queue.
THEOREM WarningsAreHonest == QueueSpec => OverloadHonest
<1>1. QueueInit => WarningsFit BY MessageQueueAssumption DEF QueueInit, WarningsFit, WarningFits
<1>2. QueueInv /\ WarningsFit /\ [QueueNext]_queueVars => WarningsFit' BY WarningsKept
<1>3. QueueInv /\ WarningsFit /\ [QueueNext]_queueVars
         => [warned' # 0 /\ warned' # warned => warned' > warned]_queueVars
  BY WarningsKept
<1>4. WarningsFit => WarningFits BY DEF WarningsFit
<1> QED BY <1>1, <1>2, <1>3, <1>4, QueueInitInv, QueueNextInv, PTL DEF QueueSpec, OverloadHonest, WarningFits

-----------------------------------------------------------------------------
(* The ring implements a queue.                                            *)

LEMMA PushRefines ==
    ASSUME QueueInv, NEW m \in Msg, Push(m)
    PROVE  Abstract!FifoPush(m)
<1>1. QueueTypeOK /\ Store(m) /\ popped' = popped BY DEF QueueInv, Push
<1>2. /\ Length \in Nat /\ Length' = Length + 1
      /\ \A i \in 0..Length :
            queue'[Cell(i)'] = IF i < Length THEN queue[Cell(i)] ELSE m
  BY <1>1, LengthType, StoreAppends
<1>3. Contents' = [i \in 1..(Length + 1) |-> queue'[Cell(i - 1)']]
  BY <1>2 DEF Contents
<1>4. Append(Contents, m)
         = [i \in 1..(Length + 1) |-> IF i <= Length THEN queue[Cell(i - 1)] ELSE m]
  BY <1>2 DEF Contents
<1>5. ASSUME NEW i \in 1..(Length + 1)
      PROVE  queue'[Cell(i - 1)'] = IF i <= Length THEN queue[Cell(i - 1)] ELSE m
  <2>1. i - 1 \in 0..Length /\ (i - 1 < Length <=> i <= Length) BY <1>2, <1>5
  <2> QED BY <1>2, <2>1
<1>6. Contents' = Append(Contents, m) BY <1>3, <1>4, <1>5
<1> QED BY <1>1, <1>6 DEF Abstract!FifoPush

LEMMA PopRefines ==
    ASSUME QueueInv, PopMessage
    PROVE  Abstract!FifoPop
<1>1. /\ Length \in Nat /\ Length > 0 /\ Length' = Length - 1
      /\ Cell(0) = head
      /\ \A i \in 0..(Length - 2) : Cell(i)' = Cell(i + 1)
  BY LengthType, PopShifts DEF QueueInv
<1>2. queue' = queue /\ popped' = queue[head] BY DEF PopMessage
<1>3. Contents # << >> BY <1>1 DEF Contents
<1>4. popped' = Head(Contents) BY <1>1, <1>2 DEF Contents
<1>5. Contents' = Tail(Contents)
  <2>1. Contents' = [i \in 1..(Length - 1) |-> queue[Cell(i - 1)']]
    BY <1>1, <1>2 DEF Contents
  <2>2. Tail(Contents) = [i \in 1..(Length - 1) |-> queue[Cell(i)]]
    BY <1>1 DEF Contents
  <2>3. ASSUME NEW i \in 1..(Length - 1) PROVE Cell(i - 1)' = Cell(i)
    <3>1. i - 1 \in 0..(Length - 2) /\ (i - 1) + 1 = i BY <1>1, <2>3
    <3> QED BY <1>1, <3>1
  <2> QED BY <2>1, <2>2, <2>3
<1> QED BY <1>3, <1>4, <1>5 DEF Abstract!FifoPop

\* The ring buffer implements a first-in first-out queue for every initial
\* capacity: ztask_mq_push appends its message, expanding or not, and
\* ztask_mq_pop returns the oldest one or reports the queue empty.
THEOREM QueueIsFifo == QueueSpec => ImplementsFifo
<1>1. QueueInit => Abstract!FifoInit
  <2> SUFFICES ASSUME QueueInit PROVE Abstract!FifoInit OBVIOUS
  <2>1. Length = 0 BY DEF QueueInit, Length
  <2>2. Contents = << >> BY <2>1 DEF Contents
  <2> QED BY <2>2 DEF QueueInit, Abstract!FifoInit
<1>2. QueueInv /\ [QueueNext]_queueVars => [Abstract!FifoNext]_(Abstract!fifoVars)
  <2> SUFFICES ASSUME QueueInv, [QueueNext]_queueVars
               PROVE  Abstract!FifoNext \/ UNCHANGED <<Contents, popped>>
    BY DEF Abstract!fifoVars
  <2>1. ASSUME NEW m \in Msg, Push(m) PROVE Abstract!FifoNext
    BY <2>1, PushRefines DEF Abstract!FifoNext
  <2>2. CASE PopMessage BY <2>2, PopRefines DEF Abstract!FifoNext
  <2>3. ASSUME UNCHANGED ring PROVE Contents' = Contents
    <3>1. Length' = Length BY <2>3 DEF Length, ring
    <3>2. \A i \in 1..Length : Cell(i - 1)' = Cell(i - 1) BY <2>3 DEF Cell, ring
    <3> QED BY <2>3, <3>1, <3>2 DEF Contents, ring
  <2>4. CASE PopEmpty
    <3>1. Length = 0 BY <2>4, LengthType DEF PopEmpty, QueueInv
    <3>2. Contents = << >> BY <3>1 DEF Contents
    <3>3. Contents' = Contents BY <2>3, <2>4 DEF PopEmpty, ring
    <3> QED BY <2>4, <3>2, <3>3 DEF PopEmpty, Abstract!FifoNext, Abstract!FifoPopEmpty
  <2>5. CASE ReadOverload \/ TakeFromGlobal \/ PutIntoGlobal
    BY <2>3, <2>5 DEF ReadOverload, TakeFromGlobal, PutIntoGlobal
  <2>6. CASE UNCHANGED queueVars BY <2>3, <2>6 DEF queueVars, ring
  <2> QED BY <2>1, <2>2, <2>4, <2>5, <2>6 DEF QueueNext
<1> QED BY <1>1, <1>2, QueueInitInv, QueueNextInv, PTL DEF QueueSpec, ImplementsFifo, Abstract!FifoSpec
=============================================================================
