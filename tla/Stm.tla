-------------------------------- MODULE Stm --------------------------------
(***************************************************************************)
(* stm (lua-stm.c): an object that one service writes and others read.     *)
(* The object lives as long as the writer or a reader has it, a copy of    *)
(* the value as long as the object or a reader has it.  The object is      *)
(* guarded by the read-write lock, taken here step by step; the body of a  *)
(* critical section, the unlocking and what follows are steps of their     *)
(* own.                                                                    *)
(***************************************************************************)
EXTENDS RWLock, Sequences

CONSTANTS Writer,    \* the thread of the service that has the writer's end
          MaxCopies  \* bound: copies that are ever made

ASSUME StmAssumption == Writer \in Thread /\ MaxCopies \in Nat \ {0}

VARIABLES obj,   \* ref, copy (0: NULL), freed
          copies,\* references of the copies made so far
          task   \* what each thread does: op, at, mine (a copy that it took)
                 \* and its end of the object: none, sent, open

stmVars == <<write, read, pc, obj, copies, task>>

Readers_ == Thread \ {Writer}
Idle == [op |-> "none", at |-> "done", mine |-> 0]

\* stm_new, lnewwriter
StmInit ==
    /\ Init
    /\ obj = [ref |-> 1, copy |-> 1, freed |-> FALSE]
    /\ copies = <<1>>
    /\ task = [t \in Thread |-> [run |-> Idle, last |-> 0, end |-> IF t = Writer THEN "open" ELSE "none"]]

Run(t) == task[t].run
Begin(t, op, mine) ==
    /\ Run(t) = Idle /\ task[t].end = "open"
    /\ task' = [task EXCEPT ![t].run = [op |-> op, at |-> "lock", mine |-> mine]]

\* Mutant: a copy is freed by whoever comes to release it.
ReleaseCopy_Always(cs, c) == IF c = 0 THEN cs ELSE [cs EXCEPT ![c] = 0]

\* stm_releasecopy: 0 references, it is freed.
ReleaseCopy(cs, c) == IF c = 0 THEN cs ELSE [cs EXCEPT ![c] = @ - 1]

\* lcopy, stm_grab for a reader r that gets the pointer in a message.
LCopy(r) ==
    /\ r \in Readers_ /\ task[r].end = "none"
    /\ Begin(Writer, "grab", 0) /\ CallReadLock(Writer) /\ UNCHANGED <<obj, copies>>
\* lupdate, stm_update: the copy is made before the lock is taken.
LUpdate ==
    /\ Len(copies) < MaxCopies
    /\ Begin(Writer, "update", Len(copies) + 1) /\ CallWriteLock(Writer)
    /\ copies' = Append(copies, 1) /\ UNCHANGED obj
\* ldeletewriter, stm_release
LDeleteWriter == Begin(Writer, "release", 0) /\ CallWriteLock(Writer) /\ UNCHANGED <<obj, copies>>
\* lnewreader: the message arrives.
LNewReader(r) ==
    /\ task[r].end = "sent" /\ task' = [task EXCEPT ![r].end = "open"]
    /\ UNCHANGED <<write, read, pc, obj, copies>>
\* lread, stm_copy
LRead(r) == r \in Readers_ /\ Begin(r, "read", 0) /\ CallReadLock(r) /\ UNCHANGED <<obj, copies>>
\* ldeletereader, stm_releasereader
LDeleteReader(r) == r \in Readers_ /\ Begin(r, "delete", 0) /\ CallReadLock(r) /\ UNCHANGED <<obj, copies>>

\* The steps of rwlock_rlock and rwlock_wlock.
Locking(t) ==
    /\ SeeNoWriter(t) \/ Announce(t) \/ CheckWriter(t) \/ Withdraw(t) \/ RaiseFlag(t) \/ SeeNoReader(t)
    /\ UNCHANGED <<obj, copies, task>>

InSection(t, op) == pc[t] \in {"reading", "writing"} /\ Run(t).op = op /\ Run(t).at = "lock"
Then(t, at) == [task EXCEPT ![t].run.at = at]

\* stm_grab; the pointer goes to one of the readers that have none.
GrabBody(t) ==
    /\ InSection(t, "grab")
    /\ obj' = [obj EXCEPT !.ref = @ + 1]
    /\ task' = Then(t, "unlock")
    /\ UNCHANGED <<write, read, pc, copies>>
\* stm_copy: take the copy that there is.
ReadBody(t) ==
    /\ InSection(t, "read")
    /\ copies' = IF obj.copy = 0 THEN copies ELSE [copies EXCEPT ![obj.copy] = @ + 1]
    /\ task' = [task EXCEPT ![t].run.at = "unlock", ![t].run.mine = obj.copy]
    /\ UNCHANGED <<write, read, pc, obj>>
\* stm_update: exchange the copies.
UpdateBody(t) ==
    /\ InSection(t, "update")
    /\ obj' = [obj EXCEPT !.copy = Run(t).mine]
    /\ task' = [task EXCEPT ![t].run.at = "unlock", ![t].run.mine = obj.copy]
    /\ UNCHANGED <<write, read, pc, copies>>

\* Mutant: the writer frees the object whoever has it.
ReleaseBody_Free(t) ==
    /\ InSection(t, "release")
    /\ copies' = ReleaseCopy(copies, obj.copy)
    /\ obj' = [ref |-> obj.ref - 1, copy |-> 0, freed |-> TRUE]
    /\ task' = [task EXCEPT ![t].run = Idle, ![t].end = "closed"]
    /\ UNCHANGED <<write, read, pc>>

\* Mutant: the copy that the object has is not released with it.
ReleaseBody_Leak(t) ==
    /\ InSection(t, "release")
    /\ obj' = [ref |-> obj.ref - 1, copy |-> 0, freed |-> obj.ref = 1]
    /\ task' = IF obj.ref > 1 THEN Then(t, "unlock") ELSE [task EXCEPT ![t].run = Idle, ![t].end = "closed"]
    /\ UNCHANGED <<write, read, pc, copies>>

\* stm_release: free the object, with the lock still taken, if nobody has it.
ReleaseBody(t) ==
    /\ InSection(t, "release")
    /\ copies' = ReleaseCopy(copies, obj.copy)
    /\ obj' = [ref |-> obj.ref - 1, copy |-> 0, freed |-> obj.ref = 1]
    /\ task' = IF obj.ref > 1 THEN Then(t, "unlock") ELSE [task EXCEPT ![t].run = Idle, ![t].end = "closed"]
    /\ UNCHANGED <<write, read, pc>>
\* stm_releasereader: the last reader frees the object and does not unlock.
DeleteBody(t) ==
    /\ InSection(t, "delete")
    /\ obj' = [obj EXCEPT !.ref = @ - 1, !.freed = obj.ref = 1]
    /\ task' = Then(t, IF obj.ref > 1 THEN "unlock" ELSE "after")
    /\ UNCHANGED <<write, read, pc, copies>>

\* rwlock_runlock, rwlock_wunlock, and what is left to do.
Unlock(t) ==
    /\ Run(t).at = "unlock"
    /\ ReadUnlock(t) \/ WriteUnlock(t)
    /\ \/ Run(t).op \in {"update", "read", "delete"} /\ task' = Then(t, "after")
       \/ Run(t).op = "release" /\ task' = [task EXCEPT ![t].run = Idle, ![t].end = "closed"]
       \/ /\ Run(t).op = "grab"
          /\ \E r \in Readers_ : task[r].end = "none" /\ task' = [task EXCEPT ![t].run = Idle, ![r].end = "sent"]
    /\ UNCHANGED <<obj, copies>>
After(t) ==
    /\ Run(t).at = "after"
    /\ \/ Run(t).op = "update" /\ copies' = ReleaseCopy(copies, Run(t).mine)
          /\ task' = [task EXCEPT ![t].run = Idle]
       \* lread: the same copy as last time is given back, another one takes its place.
       \/ /\ Run(t).op = "read"
          /\ copies' = ReleaseCopy(copies, task[t].last)
          /\ task' = [task EXCEPT ![t].run = Idle, ![t].last = Run(t).mine]
       \/ Run(t).op = "delete" /\ copies' = ReleaseCopy(copies, task[t].last)
          /\ task' = [task EXCEPT ![t].run = Idle, ![t].last = 0, ![t].end = "closed"]
    /\ UNCHANGED <<write, read, pc, obj>>

StmStep(t) == \/ Locking(t) \/ GrabBody(t) \/ ReadBody(t) \/ UpdateBody(t) \/ ReleaseBody(t) \/ DeleteBody(t)
              \/ Unlock(t) \/ After(t)
StmNext == \/ \E r \in Thread : LCopy(r) \/ LNewReader(r) \/ LRead(r) \/ LDeleteReader(r)
           \/ LUpdate \/ LDeleteWriter
           \/ \E t \in Thread : StmStep(t)
StmSpec == StmInit /\ [][StmNext]_stmVars

-----------------------------------------------------------------------------
\* The copies that a thread has.
Has(t, c) == (IF task[t].last = c THEN 1 ELSE 0) + (IF Run(t).mine = c THEN 1 ELSE 0)

\* The pointers of threads to the copy c: the first and the second of each.
Holders(c) == {h \in Thread \X {1, 2} : Has(h[1], c) >= h[2]}

\* A copy has as many references as there are pointers to it: none of them ever
\* leads to a freed copy, and one that nobody can reach has been freed.
CopiesCounted ==
    \A c \in DOMAIN copies :
        copies[c] = Cardinality(Holders(c)) + (IF obj.copy = c THEN 1 ELSE 0)

\* When the object is freed, nobody can start anything with it any more, and of
\* those that are inside, the only ones are readers that have given up their
\* reference and are about to unlock: stm_releasereader frees the object under a
\* read lock that others may hold as well.
FreedLast ==
    obj.freed =>
        /\ obj.copy = 0 /\ \A t \in Thread : task[t].end = "open" => Run(t).op = "delete"
        /\ \A t \in Thread : Run(t).op # "none" => Run(t).at = "after" \/ (Run(t).op = "delete" /\ Run(t).at = "unlock")

\* When all ends are closed, the object and all copies are freed.
AllFreed ==
    (\A t \in Thread : task[t].end \in {"closed", "none"}) => obj.freed /\ \A c \in DOMAIN copies : copies[c] = 0

\* The reference counts of an object and its copies are exact under every
\* interleaving of the lock: nothing is freed while somebody can use it, and
\* everything in the end.
CountsExact == TypeOK /\ CopiesCounted /\ FreedLast /\ AllFreed
=============================================================================
