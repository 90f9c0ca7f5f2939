---------------------------- MODULE HandleStorage ----------------------------
(***************************************************************************)
(* The handle storage of ztask_handle.c: an open table that maps the       *)
(* handle of a service to its context and doubles when it is full, and a   *)
(* sorted array of local names.  Its operations run under one read-write   *)
(* lock, so each critical section is one step.                             *)
(*                                                                         *)
(* Outside the lock, ztask_context_new stores the handle it was given into *)
(* ctx->handle after ztask_handle_register has unlocked, and               *)
(* ztask_handle_retireall reads a slot and retires what it saw in separate *)
(* critical sections.                                                      *)
(***************************************************************************)
EXTENDS Integers, Sequences, SequencesExt, FiniteSets

CONSTANTS Ctxs,        \* contexts; a freed one may be allocated again
          NULL,        \* an empty slot
          Names,       \* local names, ordered by strcmp
          Space,       \* HANDLE_MASK + 1
          Harbor,      \* s->harbor: 0 for a node without a harbor id
          DefaultSize, \* DEFAULT_SLOT_SIZE
          DefaultCap,  \* the first name_cap
          MaxLaunching \* threads inside ztask_context_new at the same time

\* Sizes of a table that is indexed by masking a handle, up to HANDLE_MASK + 1.
Powers == {1, 2, 4, 8, 16, 32, 64, 128, 256, 512, 1024, 2048, 4096, 8192, 16384,
           32768, 65536, 131072, 262144, 524288, 1048576, 2097152, 4194304, 8388608,
           16777216}

ASSUME HandleAssumption ==
    /\ NULL \notin Ctxs /\ IsFiniteSet(Ctxs)
    /\ Names \subseteq Int
    /\ DefaultSize \in Powers
    /\ \E p \in Powers : Space = DefaultSize * p
    /\ Harbor \in {Space * k : k \in 0..255}
    /\ DefaultCap \in Nat \ {0}
    /\ MaxLaunching \in Nat \ {0}

VARIABLES slotSize,    \* s->slot_size
          slot,        \* s->slot
          handleIndex, \* s->handle_index
          name,        \* s->name, the first name_count entries
          nameCap,     \* s->name_cap
          handle,      \* ctx->handle, 0 until register returned
          given,       \* handles that register returned and nobody stored yet
          asserted,    \* assert(new_slot[hash] == NULL) failed: abort
          scan,        \* ztask_handle_retireall: program counter, i and whether n > 0
          bound,       \* ghost: the handle that each name stands for, or 0
          targets      \* ghost: contexts the present pass must find

vars == <<slotSize, slot, handleIndex, name, nameCap, handle, given, asserted,
          scan, bound, targets>>
tableVars == <<slotSize, slot, handleIndex, handle, given, asserted>>
nameVars == <<name, nameCap, bound>>
scanVars == <<scan, targets>>

Slots == 0..(slotSize - 1)
Handles == {Harbor + k : k \in 0..(Space - 1)}
Stored == {c \in Ctxs : \E i \in Slots : slot[i] = c}
Launching == {c \in Ctxs : given[c] # -1}

-----------------------------------------------------------------------------

\* ztask_handle_grab: the context a handle leads to.
Grab(h) == LET c == slot[h % slotSize] IN
           IF c # NULL /\ handle[c] = h THEN c ELSE NULL

\* Mutant: the new place is the old one.
NewPlace_Same(i) == i

\* Where slot i goes when the table doubles.
NewPlace(i) == handle[slot[i]] % (2 * slotSize)

\* The table after doubling, and whether two contexts met in a slot of it.
Grown == [k \in 0..(2 * slotSize - 1) |->
            IF \E i \in Slots : NewPlace(i) = k
            THEN slot[CHOOSE i \in Slots : NewPlace(i) = k] ELSE NULL]
GrowClashes == \E i, j \in Slots : i # j /\ NewPlace(i) = NewPlace(j)

\* Mutant: handles grow beyond HANDLE_MASK.
Candidate_Unmasked(i) == i + handleIndex

\* The i-th handle that register tries.
Candidate(i) == (i + handleIndex) % Space

\* The first free handle in a table of size n, which has a free slot.
FreeHandle(tab, n) ==
    Candidate(CHOOSE i \in 0..(n - 1) :
                /\ tab[Candidate(i) % n] = NULL
                /\ \A j \in 0..(i - 1) : tab[Candidate(j) % n] # NULL)

\* One round of the binary search for name n over the interval from begin to
\* end, counted from 1.  It stops where it meets n, or where n belongs.
Halve(n, s) ==
    IF s.found \/ s.begin > s.end THEN s
    ELSE LET mid == ((s.begin - 1) + (s.end - 1)) \div 2 + 1 IN
         IF name[mid].name = n THEN [begin |-> mid, end |-> s.end, found |-> TRUE]
         ELSE IF name[mid].name < n THEN [begin |-> mid + 1, end |-> s.end, found |-> FALSE]
         ELSE [begin |-> s.begin, end |-> mid - 1, found |-> FALSE]

\* The loop of findname and _insert_name; count rounds are enough to end it.
Search(n) ==
    LET round[k \in 0..Len(name)] ==
            IF k = 0 THEN [begin |-> 1, end |-> Len(name), found |-> FALSE]
            ELSE Halve(n, round[k - 1])
    IN  round[Len(name)]

\* ztask_handle_findname
FindName(n) == IF Search(n).found THEN name[Search(n).begin].handle ELSE 0

-----------------------------------------------------------------------------

\* ztask_handle_init
Init ==
    /\ slotSize = DefaultSize
    /\ slot = [i \in 0..(DefaultSize - 1) |-> NULL]
    /\ handleIndex = 1
    /\ name = << >>
    /\ nameCap = DefaultCap
    /\ handle = [c \in Ctxs |-> 0]
    /\ given = [c \in Ctxs |-> -1]
    /\ asserted = FALSE
    /\ scan = [pc |-> "off", i |-> 0, some |-> FALSE, handle |-> 0]
    /\ bound = [n \in Names |-> 0]
    /\ targets = {}

\* ctx enters the free slot of table tab that register found.
Enter(c, tab, n) ==
    LET h == FreeHandle(tab, n) IN
    /\ slot' = [tab EXCEPT ![h % n] = c]
    /\ slotSize' = n
    /\ handleIndex' = h + 1
    /\ given' = [given EXCEPT ![c] = h + Harbor]
    /\ handle' = [handle EXCEPT ![c] = 0]

\* ztask_handle_register for a context just allocated, its handle set to 0
\* first.  The assertion on the size of the table bounds its growth; the one
\* on the new slots ends the process when it fails.
Register(c) ==
    /\ ~asserted
    /\ c \notin Stored \cup Launching
    /\ Cardinality(Launching) < MaxLaunching
    /\ \/ /\ \E i \in Slots : slot[i] = NULL
          /\ Enter(c, slot, slotSize)
          /\ UNCHANGED asserted
       \/ /\ \A i \in Slots : slot[i] # NULL
          /\ 2 * slotSize <= Space
          /\ asserted' = GrowClashes
          /\ Enter(c, Grown, 2 * slotSize)
    /\ UNCHANGED <<nameVars, scanVars>>

\* ztask_context_new stores the handle it was given.
StoreHandle(c) ==
    /\ ~asserted
    /\ given[c] # -1
    /\ handle' = [handle EXCEPT ![c] = given[c]]
    /\ given' = [given EXCEPT ![c] = -1]
    /\ UNCHANGED <<slotSize, slot, handleIndex, asserted, nameVars, scanVars>>

\* Mutant: the loop over the names stops after the first match.
Remaining_First(h) ==
    LET hits == {i \in DOMAIN name : name[i].handle = h} IN
    IF hits = {} THEN name
    ELSE RemoveAt(name, CHOOSE i \in hits : \A j \in hits : i <= j)

\* The names that a retired handle leaves: the loop copies the others down.
Remaining(h) ==
    LET kept[i \in 0..Len(name)] ==
            IF i = 0 THEN << >>
            ELSE IF name[i].handle = h THEN kept[i - 1] ELSE Append(kept[i - 1], name[i])
    IN  kept[Len(name)]

\* ztask_handle_retire: empty the slot and drop every name of the handle.
RetireEffect(h) ==
    IF Grab(h) # NULL
    THEN /\ slot' = [slot EXCEPT ![h % slotSize] = NULL]
         /\ name' = Remaining(h)
         /\ bound' = [n \in Names |-> IF bound[n] = h THEN 0 ELSE bound[n]]
         /\ targets' = targets \ {Grab(h)}
         /\ UNCHANGED <<slotSize, handleIndex, handle, given, asserted, nameCap>>
    ELSE UNCHANGED <<tableVars, nameVars, targets>>

\* KILL or EXIT, or the end of a launch that failed.
Retire(h) ==
    /\ ~asserted
    /\ Grab(h) # NULL
    /\ RetireEffect(h)
    /\ UNCHANGED scan

\* ztask_handle_namehandle for a handle that some service had: REG by its
\* owner, who may have been retired meanwhile, or NAME by anybody.  A name
\* that is taken stays as it is.
NameHandle(n, h) ==
    /\ ~asserted
    /\ LET s == Search(n) IN
       /\ ~s.found
       /\ name' = InsertAt(name, s.begin, [name |-> n, handle |-> h])
       /\ nameCap' = IF Len(name) >= nameCap THEN 2 * nameCap ELSE nameCap
    /\ bound' = [bound EXCEPT ![n] = IF @ = 0 THEN h ELSE @]
    /\ UNCHANGED <<tableVars, scanVars>>

\* Contexts that a pass which begins now must find.
Findables == {c \in Stored : handle[c] # 0}

\* ztask_handle_retireall (ABORT) begins.
RetireAll ==
    /\ ~asserted
    /\ scan.pc = "off"
    /\ scan' = [pc |-> "read", i |-> 0, some |-> FALSE, handle |-> 0]
    /\ targets' = Findables
    /\ UNCHANGED <<tableVars, nameVars>>

\* Mutant: the table is taken to have its first size.
ScanEnd_Default == DefaultSize

\* The loop's bound, read again before every slot.
ScanEnd == slotSize

\* Read the handle in a slot under the read lock.
ReadSlot ==
    LET c == slot[scan.i] IN
    /\ ~asserted
    /\ scan.pc = "read" /\ scan.i < ScanEnd
    /\ scan' = IF c = NULL \/ handle[c] = 0
               THEN [scan EXCEPT !.i = @ + 1]
               ELSE [scan EXCEPT !.pc = "retire", !.handle = handle[c]]
    /\ UNCHANGED <<tableVars, nameVars, targets>>

\* Retire the handle that was read.
RetireSlot ==
    /\ ~asserted
    /\ scan.pc = "retire"
    /\ RetireEffect(scan.handle)
    /\ scan' = [pc |-> "read", i |-> scan.i + 1, handle |-> 0,
                some |-> scan.some \/ Grab(scan.handle) # NULL]

\* A pass that retired nothing is the last.
EndPass ==
    /\ ~asserted
    /\ scan.pc = "read" /\ scan.i >= ScanEnd
    /\ scan' = [pc |-> IF scan.some THEN "read" ELSE "off",
                i |-> 0, some |-> FALSE, handle |-> 0]
    /\ targets' = IF scan.some THEN Findables ELSE {}
    /\ UNCHANGED <<tableVars, nameVars>>

Next == \/ \E c \in Ctxs : Register(c) \/ StoreHandle(c)
        \/ \E h \in Handles : Retire(h)
        \/ \E n \in Names, c \in Ctxs : handle[c] # 0 /\ NameHandle(n, handle[c])
        \/ RetireAll \/ ReadSlot \/ RetireSlot \/ EndPass

Spec == Init /\ [][Next]_vars

-----------------------------------------------------------------------------

\* Types of struct handle_storage: the table has room for every handle it can
\* be indexed with, and the names fit into their array.
TypeOK ==
    /\ slotSize \in Nat \ {0} /\ \E p \in Powers : Space = slotSize * p
    /\ slot \in [Slots -> Ctxs \cup {NULL}]
    /\ handleIndex \in 1..Space
    /\ name \in Seq([name : Names, handle : Handles]) /\ Len(name) <= nameCap
    /\ handle \in [Ctxs -> Handles \cup {0}]
    /\ given \in [Ctxs -> Handles \cup {-1}]
    /\ asserted \in BOOLEAN
    /\ scan \in [pc : {"off", "read", "retire"}, i : 0..slotSize,
                 some : BOOLEAN, handle : Handles \cup {0}]
    /\ bound \in [Names -> Handles \cup {0}]
    /\ targets \subseteq Ctxs

\* Every stored context whose handle is set is found by it, through any number
\* of doublings, wraps of the index and retirements, and by no other handle;
\* so no two living services share a handle.
Findable ==
    /\ TypeOK
    /\ \A c \in Findables :
          /\ Grab(handle[c]) = c
          /\ Cardinality({i \in Slots : slot[i] = c}) = 1

\* The binary search finds exactly the names that were given and whose service
\* was not retired since, with the handle they were first given to.
NamesAgree ==
    /\ \A n \in Names : FindName(n) = bound[n]
    /\ Len(name) = Cardinality({n \in Names : bound[n] # 0})

\* When ztask_handle_retireall returns, no service that was there when its last
\* pass began is left, although the table may have doubled while it scanned.
RetireAllComplete ==
    [][scan.pc = "read" /\ scan'.pc = "off" => targets = {}]_vars

\* assert(new_slot[hash] == NULL) never fails when the table doubles.
NewSlotFree == ~asserted
=============================================================================
