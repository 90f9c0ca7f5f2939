------------------------------ MODULE Modules ------------------------------
(***************************************************************************)
(* The table of modules (ztask_module.c).  A query looks without the lock, *)
(* then with it, and opens the module if it is not there; an entry counts  *)
(* when count is incremented.  The stores reach other threads in the order *)
(* of the code.                                                            *)
(***************************************************************************)
EXTENDS Integers, Sequences

CONSTANTS Asker,      \* threads
          Name,       \* names of modules
          Openable,   \* those that can be opened
          Complete,   \* those of them that export _init
          MaxModules  \* MAX_MODULE_TYPE

VARIABLES tab,    \* the entries: name, symbols loaded
          count,
          lock,   \* the thread that has the spinlock
          ask     \* each thread: at, name, i (the place of the search), result

modVars == <<tab, count, lock, ask>>

None == "none"
Slots == 1..MaxModules

ASSUME ModAssumption ==
    /\ None \notin Asker
    /\ Complete \subseteq Openable
    /\ MaxModules \in Nat

ModInit ==
    /\ tab = [i \in Slots |-> [name |-> None, syms |-> FALSE]]
    /\ count = 0
    /\ lock = None
    /\ ask = [t \in Asker |-> [at |-> "idle", name |-> None, i |-> 1, result |-> 0]]

Goto_(t, at) == ask' = [ask EXCEPT ![t].at = at]

\* ztask_module_query
Query(t, n) ==
    /\ ask[t].at = "idle"
    /\ ask' = [ask EXCEPT ![t] = [at |-> "look", name |-> n, i |-> 1, result |-> 0]]
    /\ UNCHANGED <<tab, count, lock>>

\* _query: one entry at a time, count read each time round.
Search(t, miss) ==
    \/ ask[t].i > count /\ Goto_(t, miss)
    \/ /\ ask[t].i <= count
       /\ ask' = IF tab[ask[t].i].name = ask[t].name
                 THEN [ask EXCEPT ![t].result = ask[t].i, ![t].at = IF ask[t].at = "look" THEN "idle" ELSE "unlock"]
                 ELSE [ask EXCEPT ![t].i = @ + 1]
Look_(t) == ask[t].at = "look" /\ Search(t, "lock") /\ UNCHANGED <<tab, count, lock>>
SpinLock(t) ==
    /\ ask[t].at = "lock" /\ lock = None /\ lock' = t
    /\ ask' = [ask EXCEPT ![t].at = "again", ![t].i = 1] /\ UNCHANGED <<tab, count>>

\* Mutant: no second look.
LookAgain_Not(t) == ask[t].at = "again" /\ Goto_(t, "open") /\ UNCHANGED <<tab, count, lock>>

LookAgain(t) == ask[t].at = "again" /\ Search(t, "open") /\ UNCHANGED <<tab, count, lock>>
\* _try_open: the entry behind the last one gets name and library.
Open(t) ==
    /\ ask[t].at = "open"
    /\ IF count < MaxModules /\ ask[t].name \in Openable
       THEN tab' = [tab EXCEPT ![count + 1] = [name |-> ask[t].name, syms |-> FALSE]] /\ Goto_(t, "syms")
       ELSE tab' = tab /\ Goto_(t, "unlock")
    /\ UNCHANGED <<count, lock>>
\* open_sym
OpenSym(t) ==
    /\ ask[t].at = "syms"
    /\ IF ask[t].name \in Complete
       THEN tab' = [tab EXCEPT ![count + 1].syms = TRUE] /\ Goto_(t, "publish")
       ELSE tab' = tab /\ Goto_(t, "unlock")
    /\ UNCHANGED <<count, lock>>
Publish(t) ==
    /\ ask[t].at = "publish"
    /\ count' = count + 1
    /\ ask' = [ask EXCEPT ![t].at = "unlock", ![t].result = count + 1]
    /\ UNCHANGED <<tab, lock>>
SpinUnlock(t) == ask[t].at = "unlock" /\ lock' = None /\ Goto_(t, "idle") /\ UNCHANGED <<tab, count>>

ModStep(t) == Look_(t) \/ SpinLock(t) \/ LookAgain(t) \/ Open(t) \/ OpenSym(t) \/ Publish(t) \/ SpinUnlock(t)
ModNext == \E t \in Asker : ModStep(t) \/ \E n \in Name : Query(t, n)
ModSpec == ModInit /\ [][ModNext]_modVars

-----------------------------------------------------------------------------
\* ztask_module.c: a module has one entry, and a query gives the entry of its name, complete with
\* its functions; if it gives none, the module cannot be opened or the table is full.
OneEntryEach ==
    /\ \A i, j \in 1..count : tab[i].name = tab[j].name => i = j
    /\ \A t \in Asker :
        LET a == ask[t] IN
        a.at = "idle" /\ a.name # None =>
            IF a.result # 0 THEN tab[a.result].name = a.name /\ tab[a.result].syms
            ELSE a.name \notin Complete \/ count = MaxModules
=============================================================================
