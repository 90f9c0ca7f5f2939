------------------------ MODULE HandleStorageProofs -------------------------
(***************************************************************************)
(* The handle storage is right for every number of contexts and names,     *)
(* every handle space and every first size of the table, through any       *)
(* number of doublings and wraps of the index.                             *)
(*                                                                         *)
(* The table is only right as long as it does not double while a context   *)
(* is in it whose handle ztask_context_new has not stored yet; a run of    *)
(* MCHandleStorage shows what happens otherwise.  QuietGrowth says that it *)
(* never does.  It is so whenever one thread at a time launches services.  *)
(*                                                                         *)
(* That a context is found by its handle follows from Placed: the key of   *)
(* every context in the table, masked by the present size, is its slot.    *)
(* That the binary search agrees with the names given needs them sorted.   *)
(***************************************************************************)
EXTENDS HandleStorage, ProofLemmas, FiniteSetTheorems, TLAPS

QuietStep == slotSize' # slotSize => Launching = {}
QuietGrowth == [][QuietStep]_vars

\* The handle that a context has, or that it will have.
Key(c) == IF given[c] # -1 THEN given[c] ELSE handle[c]

\* Every context is in the slot that its key leads to.
Placed ==
    /\ \A i \in Slots, c \in Ctxs : slot[i] = c => Key(c) % slotSize = i
    /\ \A c \in Ctxs : given[c] # -1 => handle[c] = 0
    /\ ~asserted

\* A pass of ztask_handle_retireall that has retired nothing has not passed any
\* context that it must find.
Scanning ==
    /\ targets \subseteq Findables
    /\ scan.pc = "retire" => scan.i < slotSize
    /\ scan.pc # "off" /\ ~scan.some =>
          \A c \in targets :
             /\ handle[c] % slotSize >= scan.i
             /\ scan.pc = "retire" /\ handle[c] % slotSize = scan.i =>
                   handle[c] = scan.handle

\* The names are sorted, and those that stand for a handle.
Named ==
    /\ nameCap \in Nat \ {0}
    /\ \A i, j \in DOMAIN name : i < j => name[i].name < name[j].name
    /\ \A i \in DOMAIN name : bound[name[i].name] = name[i].handle /\ name[i].handle # 0
    /\ \A n \in Names : bound[n] # 0 => \E i \in DOMAIN name : name[i].name = n

\* The types of the table and of the array of names.
TableTypes ==
    /\ slotSize \in Nat \ {0} /\ \E p \in Powers : Space = slotSize * p
    /\ slot \in [Slots -> Ctxs \cup {NULL}]
    /\ handleIndex \in 1..Space
    /\ handle \in [Ctxs -> Handles \cup {0}]
    /\ given \in [Ctxs -> Handles \cup {-1}]
    /\ asserted \in BOOLEAN
    /\ scan \in [pc : {"off", "read", "retire"}, i : 0..slotSize,
                 some : BOOLEAN, handle : Handles \cup {0}]
    /\ targets \subseteq Ctxs
NameTypes ==
    /\ name \in Seq([name : Names, handle : Handles]) /\ Len(name) <= nameCap
    /\ bound \in [Names -> Handles \cup {0}]

Inv == TypeOK /\ Placed /\ Scanning /\ Named

-----------------------------------------------------------------------------
(* Remainders.                                                             *)

\* The remainder by a multiple of the divisor loses nothing.
LEMMA ModMod ==
    ASSUME NEW n \in Nat, n > 0, NEW q \in Nat, q > 0, NEW x \in Int, NEW s, s = n * q
    PROVE  s \in Nat /\ s > 0 /\ x % s \in 0..(s - 1) /\ (x % s) % n = x % n
<1>1. s \in Nat /\ s > 0 OBVIOUS
<1>2. ASSUME NEW d \in Int, NEW r \in Int, x = s * d + r PROVE x % n = r % n
  <2>1. s * d = n * (q * d) /\ q * d \in Int OBVIOUS
  <2>2. \A w \in Int : (n * w + r) % n = r % n BY ModPlus
  <2> QED BY <1>2, <2>1, <2>2
<1>3. x \div s \in Int /\ x % s \in 0..(s - 1) /\ x = s * (x \div s) + (x % s)
  BY <1>1, DivMod
<1>4. x % s \in Int BY <1>1, <1>3
<1> QED BY <1>1, <1>2, <1>3, <1>4

LEMMA ModDouble ==
    ASSUME NEW n \in Nat, n > 0, NEW x \in Int
    PROVE  x % (2 * n) \in 0..(2 * n - 1) /\ (x % (2 * n)) % n = x % n
<1>1. 2 \in Nat /\ 2 > 0 /\ 2 * n = n * 2 OBVIOUS
<1>2. ASSUME NEW s, s = n * 2 PROVE x % s \in 0..(s - 1) /\ (x % s) % n = x % n
  BY <1>1, <1>2, ModMod
<1> QED BY <1>1, <1>2

LEMMA Middle ==
    ASSUME NEW b \in Int, NEW e \in Int, b <= e, NEW m, m = ((b - 1) + (e - 1)) \div 2 + 1
    PROVE  m \in Int /\ b <= m /\ m <= e
<1>1. PICK x \in Int : x = (b - 1) + (e - 1) OBVIOUS
<1>2. PICK q \in Int, r \in 0..1 : x = 2 * q + r /\ m = q + 1
  <2>1. 2 \in Nat /\ 2 > 0 OBVIOUS
  <2>2. x = 2 * (x \div 2) + (x % 2) /\ x % 2 \in 0..(2 - 1) /\ x \div 2 \in Int
    BY <2>1, DivMod
  <2>3. m = (x \div 2) + 1 BY <1>1
  <2> QED BY <2>2, <2>3
<1>3. ASSUME NEW q_1 \in Int, NEW r_1 \in Int, 0 <= r_1, r_1 <= 1, (b - 1) + (e - 1) = 2 * q_1 + r_1
      PROVE  b <= q_1 + 1 /\ q_1 + 1 <= e
  BY <1>3
<1> QED BY <1>1, <1>2, <1>3

LEMMA Halved == ASSUME NEW p \in Powers, p # 1 PROVE \E r \in Powers : p = 2 * r
  BY DEF Powers

LEMMA PowersPositive == ASSUME NEW p \in Powers PROVE p \in Nat /\ p > 0
  BY DEF Powers

-----------------------------------------------------------------------------
(* Handles and slots.                                                      *)

LEMMA Sizes ==
    ASSUME NEW n \in Nat \ {0}, NEW p \in Powers, Space = n * p
    PROVE  /\ Space \in Nat /\ Space > 0 /\ Harbor \in Nat
           /\ \A x \in Nat : x % Space \in 0..(Space - 1) /\ (x % Space) % n = x % n
           /\ \A x \in Nat : x % n \in 0..(n - 1) /\ (x + Harbor) % n = x % n
           /\ Handles \subseteq Nat /\ -1 \notin Handles
<1>0. n \in Nat /\ n > 0 OBVIOUS
<1>1. p \in Nat /\ p > 0 BY PowersPositive
<1>2. \A x \in Int : /\ Space \in Nat /\ Space > 0
                     /\ x % Space \in 0..(Space - 1) /\ (x % Space) % n = x % n
  <2> SUFFICES ASSUME NEW x \in Int
               PROVE  /\ Space \in Nat /\ Space > 0
                      /\ x % Space \in 0..(Space - 1) /\ (x % Space) % n = x % n
    OBVIOUS
  <2> QED BY <1>0, <1>1, ModMod
<1>3. Space \in Nat /\ Space > 0 BY <1>2
<1>4. PICK k \in 0..255 : Harbor = Space * k BY HandleAssumption
<1>5. Harbor = n * (p * k) /\ p * k \in Int BY <1>1, <1>4
<1>6. Harbor \in Nat BY <1>3, <1>4
<1>7. \A x \in Nat : (x + Harbor) % n = x % n
  <2> SUFFICES ASSUME NEW x \in Nat PROVE (x + Harbor) % n = x % n OBVIOUS
  <2>0. x \in Int OBVIOUS
  <2>1. \A w \in Int : (n * w + x) % n = x % n
    <3> SUFFICES ASSUME NEW w \in Int PROVE (n * w + x) % n = x % n OBVIOUS
    <3> QED BY <1>0, <2>0, ModPlus
  <2>2. (Harbor + x) % n = x % n BY <1>5, <2>1
  <2> QED BY <1>6, <2>2
<1>8. \A x \in Nat : x % n \in 0..(n - 1) BY <1>0, DivMod
<1>9. Handles \subseteq Nat BY <1>3, <1>6 DEF Handles
<1>10. -1 \notin Handles BY <1>9
<1>11. \A x \in Nat : x % Space \in 0..(Space - 1) /\ (x % Space) % n = x % n
  <2> SUFFICES ASSUME NEW x \in Nat
               PROVE  x % Space \in 0..(Space - 1) /\ (x % Space) % n = x % n
    OBVIOUS
  <2>1. x \in Int OBVIOUS
  <2> QED BY <1>2, <2>1
<1> QED BY <1>3, <1>6, <1>7, <1>8, <1>9, <1>10, <1>11

\* ztask_handle_register finds a handle when the table has a free slot.
LEMMA FreeHandleFound ==
    ASSUME NEW n \in Nat \ {0}, NEW p \in Powers, Space = n * p, handleIndex \in Nat,
           NEW tab, NEW k \in 0..(n - 1), tab[k] = NULL
    PROVE  FreeHandle(tab, n) \in 0..(Space - 1) /\ tab[FreeHandle(tab, n) % n] = NULL
<1> DEFINE T == {i \in 0..(n - 1) : tab[Candidate(i) % n] = NULL}
<1>1. PICK i \in 0..(n - 1) : (i + handleIndex) % n = k
  <2> DEFINE d == (k - handleIndex) \div n
  <2> DEFINE i == (k - handleIndex) % n
  <2>1. k - handleIndex = n * d + i /\ i \in 0..(n - 1) /\ d \in Int BY DivMod
  <2>2. i + handleIndex = n * (-d) + k /\ -d \in Int
    <3> HIDE DEF d, i
    <3> QED BY <2>1
  <2>3. \A w \in Int : (n * w + k) % n = k BY ModUnique
  <2> HIDE DEF d, i
  <2>4. (i + handleIndex) % n = k BY <2>2, <2>3
  <2> QED BY <2>1, <2>4
<1>2. \A j \in 0..(n - 1) : Candidate(j) \in 0..(Space - 1)
                            /\ Candidate(j) % n = (j + handleIndex) % n
  <2> SUFFICES ASSUME NEW j \in 0..(n - 1)
               PROVE  /\ Candidate(j) \in 0..(Space - 1)
                      /\ Candidate(j) % n = (j + handleIndex) % n
    OBVIOUS
  <2>1. j + handleIndex \in Nat OBVIOUS
  <2> QED BY <2>1, Sizes DEF Candidate
<1>3. i \in T BY <1>1, <1>2
<1>a. T \in SUBSET Nat OBVIOUS
<1>4. PICK m \in T : \A j \in T : m <= j
  <2> HIDE DEF T
  <2> QED BY <1>3, <1>a, LeastElement
<1>5. /\ tab[Candidate(m) % n] = NULL /\ m \in 0..(n - 1)
      /\ \A j \in 0..(m - 1) : tab[Candidate(j) % n] # NULL
  BY <1>4
<1> DEFINE P(i_1) == /\ tab[Candidate(i_1) % n] = NULL
                     /\ \A j \in 0..(i_1 - 1) : tab[Candidate(j) % n] # NULL
<1>6. PICK f \in 0..(n - 1) : P(f) /\ FreeHandle(tab, n) = Candidate(f)
  <2>1. (CHOOSE i_1 \in 0..(n - 1) : P(i_1)) \in 0..(n - 1) /\ P(CHOOSE i_1 \in 0..(n - 1) : P(i_1))
    BY <1>5, Zenon
  <2> QED BY <2>1, Zenon DEF FreeHandle
<1> QED BY <1>2, <1>6

LEMMA TableSizes ==
    ASSUME TypeOK
    PROVE  /\ Space \in Nat /\ Space > 0 /\ Harbor \in Nat /\ slotSize \in Nat /\ slotSize > 0
           /\ \A x \in Nat : x % slotSize \in Slots
           /\ Handles \subseteq Nat /\ -1 \notin Handles
           /\ \A c \in Ctxs : Key(c) \in Nat /\ handle[c] \in Nat
<1>1. PICK p \in Powers : Space = slotSize * p BY DEF TypeOK
<1>2. slotSize \in Nat \ {0} BY DEF TypeOK
<1>3. /\ Space \in Nat /\ Space > 0 /\ Harbor \in Nat
      /\ \A x \in Nat : x % slotSize \in 0..(slotSize - 1)
      /\ Handles \subseteq Nat /\ -1 \notin Handles
  BY <1>1, <1>2, Sizes
<1>4. \A c \in Ctxs : given[c] \in Handles \cup {-1} /\ handle[c] \in Handles \cup {0}
  BY DEF TypeOK
<1>5. \A c \in Ctxs : handle[c] \in Nat /\ (given[c] # -1 => given[c] \in Nat)
  <2>1. \A h \in Handles : h \in Nat BY <1>3
  <2> SUFFICES ASSUME NEW c \in Ctxs
               PROVE  handle[c] \in Nat /\ (given[c] # -1 => given[c] \in Nat)
    OBVIOUS
  <2>2. handle[c] \in Handles \/ handle[c] = 0 BY <1>4
  <2>3. given[c] # -1 => given[c] \in Handles BY <1>4
  <2>4. 0 \in Nat OBVIOUS
  <2> QED BY <2>1, <2>2, <2>3, <2>4
<1> QED BY <1>2, <1>3, <1>5 DEF Slots, Key

\* A context that has its handle is found by it, and is in one slot.
LEMMA Found ==
    ASSUME TypeOK, Placed, NEW c \in Findables
    PROVE  /\ c \in Ctxs /\ handle[c] \in Nat /\ handle[c] # 0 /\ given[c] = -1
           /\ handle[c] % slotSize \in Slots /\ slot[handle[c] % slotSize] = c
           /\ \A i \in Slots : slot[i] = c => i = handle[c] % slotSize
           /\ Grab(handle[c]) = c
<1>1. c \in Ctxs /\ handle[c] # 0 BY DEF Findables, Stored
<1>2. PICK i \in Slots : slot[i] = c BY DEF Findables, Stored
<1>3. given[c] = -1 BY <1>1 DEF Placed
<1>4. Key(c) = handle[c] BY <1>3 DEF Key
<1>5. \A j \in Slots : slot[j] = c => j = handle[c] % slotSize BY <1>1, <1>4 DEF Placed
<1>6. handle[c] \in Nat BY <1>1, TableSizes
<1>7. slot[handle[c] % slotSize] = c /\ handle[c] % slotSize \in Slots BY <1>2, <1>5
<1>8. c # NULL BY <1>1, HandleAssumption
<1> QED BY <1>1, <1>3, <1>5, <1>6, <1>7, <1>8 DEF Grab

\* Every context is placed in table tab, and c is not in it.
PlacedIn(tab, n, c) ==
    /\ \A i \in 0..(n - 1) : tab[i] # c
    /\ \A i \in 0..(n - 1), d \in Ctxs : tab[i] = d => Key(d) % n = i

\* What ztask_handle_register does to a table that has a free slot.
LEMMA EnterKeeps ==
    ASSUME TypeOK, NEW n \in Nat \ {0}, NEW p \in Powers, Space = n * p,
           NEW tab \in [0..(n - 1) -> Ctxs \cup {NULL}], NEW k \in 0..(n - 1), tab[k] = NULL,
           NEW c \in Ctxs, Enter(c, tab, n)
    PROVE  /\ slotSize' = n
           /\ slot' \in [0..(n - 1) -> Ctxs \cup {NULL}]
           /\ handleIndex' \in 1..Space
           /\ handle' \in [Ctxs -> Handles \cup {0}]
           /\ given' \in [Ctxs -> Handles \cup {-1}]
           /\ PlacedIn(tab, n, c) =>
                 \A i \in 0..(n - 1), d \in Ctxs : slot'[i] = d => Key(d)' % n = i
           /\ \A i \in 0..(n - 1) : tab[i] # NULL => slot'[i] = tab[i]
           /\ \A d \in Ctxs \ {c} : handle'[d] = handle[d] /\ given'[d] = given[d]
           /\ handle'[c] = 0
<1> PICK h : h = FreeHandle(tab, n) OBVIOUS
<1>a. handleIndex \in Nat BY DEF TypeOK
<1>1. h \in 0..(Space - 1) /\ tab[h % n] = NULL BY <1>a, FreeHandleFound
<1>0. /\ slot' = [tab EXCEPT ![h % n] = c]
      /\ slotSize' = n
      /\ handleIndex' = h + 1
      /\ given' = [given EXCEPT ![c] = h + Harbor]
      /\ handle' = [handle EXCEPT ![c] = 0]
  BY DEF Enter
<1>b. Space \in Nat /\ Space > 0 /\ Harbor \in Nat /\ -1 \notin Handles BY Sizes
<1>2. h \in Nat BY <1>1, <1>b
<1>3. h % n \in 0..(n - 1) /\ (h + Harbor) % n = h % n BY <1>2, Sizes
<1>4. h + Harbor \in Handles BY <1>1, <1>b DEF Handles
<1>5. handleIndex' \in 1..Space BY <1>0, <1>1, <1>b
<1>6. handle \in [Ctxs -> Handles \cup {0}] /\ given \in [Ctxs -> Handles \cup {-1}]
  BY DEF TypeOK
<1>7. handle' \in [Ctxs -> Handles \cup {0}] /\ given' \in [Ctxs -> Handles \cup {-1}]
  BY <1>0, <1>4, <1>6
<1>8. slot' \in [0..(n - 1) -> Ctxs \cup {NULL}] BY <1>0, <1>3
<1>9. \A d \in Ctxs \ {c} : handle'[d] = handle[d] /\ given'[d] = given[d] BY <1>0, <1>6
<1>10. handle'[c] = 0 /\ given'[c] = h + Harbor BY <1>0, <1>6
<1>11. \A i \in 0..(n - 1) : slot'[i] = IF i = h % n THEN c ELSE tab[i] BY <1>0, <1>3
<1>12. \A i \in 0..(n - 1) : tab[i] # NULL => slot'[i] = tab[i] BY <1>1, <1>11
<1>13. \A d \in Ctxs \ {c} : Key(d)' = Key(d) BY <1>9 DEF Key
<1>14. given'[c] # -1 BY <1>10, <1>4, <1>b
<1>15. Key(c)' = h + Harbor BY <1>10, <1>14 DEF Key
<1>16. ASSUME \A i \in 0..(n - 1) : tab[i] # c,
              \A i \in 0..(n - 1), d \in Ctxs : tab[i] = d => Key(d) % n = i,
              NEW i \in 0..(n - 1), NEW d \in Ctxs, slot'[i] = d
       PROVE  Key(d)' % n = i
  <2>1. CASE i = h % n
    <3>1. d = c BY <1>11, <1>16, <2>1
    <3> QED BY <3>1, <1>15, <1>3, <2>1
  <2>2. CASE i # h % n
    <3>1. tab[i] = d BY <1>11, <1>16, <2>2
    <3>2. d # c BY <3>1, <1>16
    <3>3. Key(d) % n = i BY <3>1, <1>16
    <3> QED BY <3>2, <3>3, <1>13
  <2> QED BY <2>1, <2>2
<1> QED BY <1>0, <1>5, <1>7, <1>8, <1>9, <1>10, <1>11, <1>12, <1>16 DEF PlacedIn

\* The table that ztask_handle_register builds has a free slot, even if contexts
\* met in it.
LEMMA GrownTyped ==
    ASSUME TypeOK, \A i \in Slots : slot[i] # NULL, 2 * slotSize <= Space
    PROVE  /\ 2 * slotSize \in Nat \ {0} /\ \E r \in Powers : Space = (2 * slotSize) * r
           /\ Grown \in [0..(2 * slotSize - 1) -> Ctxs \cup {NULL}]
           /\ \E k \in 0..(2 * slotSize - 1) : Grown[k] = NULL
<1> PICK n \in Nat \ {0} : n = slotSize BY DEF TypeOK
<1>a. n \in Nat /\ n > 0 OBVIOUS
<1>1. PICK p \in Powers : Space = n * p BY DEF TypeOK
<1>2. p # 1
  <2>1. Space \in Nat BY TableSizes
  <2> SUFFICES ASSUME p = 1 PROVE FALSE OBVIOUS
  <2> QED BY <1>1, <1>a
<1>3. PICK r \in Powers : p = 2 * r BY <1>2, Halved
<1>4. r \in Nat /\ r > 0 BY PowersPositive
<1>5. Space = (2 * n) * r BY <1>1, <1>3, <1>4
<1>6. \A i \in 0..(n - 1) : slot[i] \in Ctxs /\ handle[slot[i]] \in Nat
  <2>1. \A i \in 0..(n - 1) : slot[i] \in Ctxs BY DEF Slots, TypeOK
  <2> QED BY <2>1, TableSizes
<1>7. \A i \in 0..(n - 1) : NewPlace(i) \in 0..(2 * n - 1)
  <2> SUFFICES ASSUME NEW i \in 0..(n - 1) PROVE NewPlace(i) \in 0..(2 * n - 1) OBVIOUS
  <2>1. handle[slot[i]] \in Int BY <1>6
  <2> QED BY <2>1, <1>a, ModDouble DEF NewPlace
<1>8. \A k \in 0..(2 * n - 1) :
         /\ Grown[k] \in Ctxs \cup {NULL}
         /\ Grown[k] # NULL => \E i \in 0..(n - 1) : NewPlace(i) = k
  <2> SUFFICES ASSUME NEW k \in 0..(2 * n - 1)
               PROVE  /\ Grown[k] \in Ctxs \cup {NULL}
                      /\ Grown[k] # NULL => \E i \in 0..(n - 1) : NewPlace(i) = k
    OBVIOUS
  <2>1. CASE \E i \in Slots : NewPlace(i) = k
    <3>1. PICK j \in Slots : Grown[k] = slot[j] BY <2>1 DEF Grown
    <3> QED BY <2>1, <3>1, <1>6 DEF Slots
  <2>2. CASE ~(\E i \in Slots : NewPlace(i) = k)
    <3>1. Grown[k] = NULL BY <2>2 DEF Grown
    <3> QED BY <3>1
  <2> QED BY <2>1, <2>2
<1>9. Grown \in [0..(2 * n - 1) -> Ctxs \cup {NULL}]
  <2>1. Grown = [k \in 0..(2 * n - 1) |-> Grown[k]] BY DEF Grown
  <2> QED BY <2>1, <1>8
\* n contexts cannot fill 2n slots.
<1>10. \E k \in 0..(2 * n - 1) : Grown[k] = NULL
  <2> SUFFICES ASSUME \A k \in 0..(2 * n - 1) : Grown[k] # NULL PROVE FALSE OBVIOUS
  <2>1. PICK f : f = [i \in 0..(n - 1) |-> NewPlace(i)] OBVIOUS
  <2>2. f \in [0..(n - 1) -> 0..(2 * n - 1)] BY <2>1, <1>7
  <2>3. \A k \in 0..(2 * n - 1) : \E i \in 0..(n - 1) : f[i] = k BY <2>1, <1>8
  <2>4. f \in Surjection(0..(n - 1), 0..(2 * n - 1)) BY <2>2, <2>3 DEF Surjection
  <2>5. /\ IsFiniteSet(0..(n - 1)) /\ Cardinality(0..(n - 1)) = n
        /\ Cardinality(0..(2 * n - 1)) = 2 * n
    <3>1. 0 \in Int /\ n - 1 \in Int /\ 2 * n - 1 \in Int /\ ~(0 > n - 1) /\ ~(0 > 2 * n - 1)
      BY <1>a
    <3> QED BY <3>1, <1>a, FS_Interval
  <2>6. Cardinality(0..(2 * n - 1)) <= Cardinality(0..(n - 1)) BY <2>4, <2>5, FS_Surjection
  <2> QED BY <2>5, <2>6, <1>a
<1> QED BY <1>a, <1>5, <1>9, <1>10

\* The table that ztask_handle_register builds when the old one is full and every
\* context in it has its handle.
LEMMA GrownRight ==
    ASSUME TypeOK, Placed, Launching = {}, \A i \in Slots : slot[i] # NULL, 2 * slotSize <= Space
    PROVE  /\ 2 * slotSize \in Nat \ {0} /\ \E r \in Powers : Space = (2 * slotSize) * r
           /\ ~GrowClashes
           /\ Grown \in [0..(2 * slotSize - 1) -> Ctxs \cup {NULL}]
           /\ \E k \in 0..(2 * slotSize - 1) : Grown[k] = NULL
           /\ \A k \in 0..(2 * slotSize - 1), d \in Ctxs :
                 Grown[k] = d => Key(d) % (2 * slotSize) = k /\ \E i \in Slots : slot[i] = d
           /\ \A i \in Slots : \E k \in 0..(2 * slotSize - 1) :
                 Grown[k] = slot[i] /\ Key(slot[i]) % (2 * slotSize) = k
<1> PICK n \in Nat \ {0} : n = slotSize BY DEF TypeOK
<1>a. n \in Nat /\ n > 0 OBVIOUS
<1>1. /\ 2 * n \in Nat \ {0} /\ \E r \in Powers : Space = (2 * n) * r
      /\ Grown \in [0..(2 * n - 1) -> Ctxs \cup {NULL}]
      /\ \E k \in 0..(2 * n - 1) : Grown[k] = NULL
  BY GrownTyped
<1>6. \A x \in Nat : x % (2 * n) \in 0..(2 * n - 1) /\ (x % (2 * n)) % n = x % n
  <2> SUFFICES ASSUME NEW x \in Nat
               PROVE  x % (2 * n) \in 0..(2 * n - 1) /\ (x % (2 * n)) % n = x % n
    OBVIOUS
  <2>1. x \in Int OBVIOUS
  <2> QED BY <1>a, <2>1, ModDouble
<1>7. \A i \in 0..(n - 1) : /\ slot[i] \in Ctxs /\ handle[slot[i]] \in Nat
                            /\ Key(slot[i]) = handle[slot[i]] /\ handle[slot[i]] % n = i
  <2> SUFFICES ASSUME NEW i \in 0..(n - 1)
               PROVE  /\ slot[i] \in Ctxs /\ handle[slot[i]] \in Nat
                      /\ Key(slot[i]) = handle[slot[i]] /\ handle[slot[i]] % n = i
    OBVIOUS
  <2>1. slot[i] \in Ctxs BY DEF Slots, TypeOK
  <2>2. given[slot[i]] = -1 BY <2>1 DEF Launching
  <2>3. Key(slot[i]) = handle[slot[i]] BY <2>2 DEF Key
  <2>4. handle[slot[i]] \in Nat BY <2>1, TableSizes
  <2>5. Key(slot[i]) % n = i BY <2>1 DEF Placed, Slots
  <2> QED BY <2>1, <2>3, <2>4, <2>5
<1>8. \A i \in 0..(n - 1) : NewPlace(i) \in 0..(2 * n - 1) /\ NewPlace(i) % n = i
  BY <1>6, <1>7 DEF NewPlace
<1>9. ~GrowClashes BY <1>8 DEF GrowClashes, Slots
<1>10. ASSUME NEW k \in 0..(2 * n - 1), NEW i \in 0..(n - 1), NewPlace(i) = k
       PROVE  Grown[k] = slot[i]
  <2>1. \A j \in 0..(n - 1) : NewPlace(j) = k => j = i BY <1>8, <1>10
  <2>2. (CHOOSE j \in 0..(n - 1) : NewPlace(j) = k) = i BY <2>1, <1>10
  <2> QED BY <2>2, <1>10 DEF Grown, Slots
<1>11. \A k \in 0..(2 * n - 1) :
          Grown[k] # NULL => \E i \in 0..(n - 1) : NewPlace(i) = k /\ Grown[k] = slot[i]
  <2> SUFFICES ASSUME NEW k \in 0..(2 * n - 1), Grown[k] # NULL
               PROVE  \E i \in 0..(n - 1) : NewPlace(i) = k /\ Grown[k] = slot[i]
    OBVIOUS
  <2>1. PICK i \in 0..(n - 1) : NewPlace(i) = k BY DEF Grown, Slots
  <2> QED BY <2>1, <1>10
<1>12. \A i \in 0..(n - 1) : \E k \in 0..(2 * n - 1) :
          Grown[k] = slot[i] /\ Key(slot[i]) % (2 * n) = k
  <2> SUFFICES ASSUME NEW i \in 0..(n - 1)
               PROVE  \E k \in 0..(2 * n - 1) :
                         Grown[k] = slot[i] /\ Key(slot[i]) % (2 * n) = k
    OBVIOUS
  <2>1. NewPlace(i) \in 0..(2 * n - 1) /\ NewPlace(i) = Key(slot[i]) % (2 * n)
    BY <1>7, <1>8 DEF NewPlace
  <2> QED BY <2>1, <1>10
<1>13. \A k \in 0..(2 * n - 1), d \in Ctxs :
          Grown[k] = d => Key(d) % (2 * n) = k /\ \E i \in 0..(n - 1) : slot[i] = d
  <2> SUFFICES ASSUME NEW k \in 0..(2 * n - 1), NEW d \in Ctxs, Grown[k] = d
               PROVE  Key(d) % (2 * n) = k /\ \E i \in 0..(n - 1) : slot[i] = d
    OBVIOUS
  <2>1. Grown[k] # NULL BY HandleAssumption
  <2>2. PICK i \in 0..(n - 1) : NewPlace(i) = k /\ Grown[k] = slot[i] BY <2>1, <1>11
  <2> QED BY <2>2, <1>7 DEF NewPlace
<1> QED BY <1>1, <1>9, <1>12, <1>13 DEF Slots

-----------------------------------------------------------------------------
(* The table, operation by operation.                                      *)

\* What a pass of ztask_handle_retireall knows survives a step of another thread.
LEMMA ScanKept ==
    ASSUME TypeOK, Placed, Scanning, UNCHANGED scan,
           slotSize' = slotSize \/ slotSize' = 2 * slotSize,
           targets' \subseteq targets, targets' \subseteq Findables',
           \A c \in targets : handle'[c] = handle[c]
    PROVE  /\ Scanning' /\ targets' \subseteq Ctxs
           /\ scan' \in [pc : {"off", "read", "retire"}, i : 0..slotSize',
                         some : BOOLEAN, handle : Handles \cup {0}]
<1> PICK n \in Nat \ {0} : n = slotSize BY DEF TypeOK
<1>0. n \in Nat /\ n > 0 OBVIOUS
<1>1. \A c \in targets : c \in Ctxs /\ handle[c] \in Nat BY Found DEF Scanning
<1>2. \A x \in Nat : /\ x % n \in 0..(n - 1) /\ x % (2 * n) \in 0..(2 * n - 1)
                     /\ (x % (2 * n)) % n = x % n
  <2> SUFFICES ASSUME NEW x \in Nat
               PROVE  /\ x % n \in 0..(n - 1) /\ x % (2 * n) \in 0..(2 * n - 1)
                      /\ (x % (2 * n)) % n = x % n
    OBVIOUS
  <2>1. x \in Int OBVIOUS
  <2> QED BY <1>0, <2>1, ModDouble, DivMod
<1>3. \A x \in Nat : x % slotSize' >= x % n
                     /\ (x % slotSize' < n => x % slotSize' = x % n)
  <2> SUFFICES ASSUME NEW x \in Nat
               PROVE  x % slotSize' >= x % n /\ (x % slotSize' < n => x % slotSize' = x % n)
    OBVIOUS
  <2>a. CASE slotSize' = n
    <3>1. PICK y \in 0..(n - 1) : y = x % n BY <1>2
    <3> QED BY <2>a, <3>1
  <2> SUFFICES ASSUME slotSize' = 2 * n
               PROVE  /\ x % (2 * n) >= x % n
                      /\ (x % (2 * n) < n => x % (2 * n) = x % n)
    BY <2>a
  <2>1. PICK y \in 0..(2 * n - 1) : y = x % (2 * n) BY <1>2
  <2>2. y % n = x % n BY <1>2, <2>1
  <2>3. CASE y < n
    <3>1. y % n = y
      <4>1. y \in 0..(n - 1) BY <2>3, <1>0
      <4>2. (n * 0 + y) % n = y BY <4>1, <1>0, ModUnique
      <4> QED BY <4>2
    <3> QED BY <3>1, <2>1, <2>2
  <2>4. CASE y >= n
    <3>1. x % n < n BY <1>2
    <3> QED BY <3>1, <2>1, <2>4, <1>2
  <2> QED BY <2>1, <2>3, <2>4
<1>4. scan \in [pc : {"off", "read", "retire"}, i : 0..n,
                some : BOOLEAN, handle : Handles \cup {0}]
  BY DEF TypeOK
<1>5. scan' \in [pc : {"off", "read", "retire"}, i : 0..slotSize',
                 some : BOOLEAN, handle : Handles \cup {0}]
  BY <1>4, <1>0
<1>6. scan.pc = "retire" => scan.i < n BY DEF Scanning
<1>7. scan'.pc = "retire" => scan'.i < slotSize' BY <1>4, <1>6
<1>8. ASSUME scan'.pc # "off", ~scan'.some, NEW c \in targets'
      PROVE  /\ handle'[c] % slotSize' >= scan'.i
             /\ scan'.pc = "retire" /\ handle'[c] % slotSize' = scan'.i =>
                   handle'[c] = scan'.handle
  <2>1. PICK x \in Nat : x = handle[c] /\ x = handle'[c] BY <1>1
  <2>2. /\ x % n >= scan.i
        /\ scan.pc = "retire" /\ x % n = scan.i => x = scan.handle
    BY <2>1, <1>8 DEF Scanning
  <2>3. x % slotSize' >= x % n BY <1>3
  <2>4. x % slotSize' >= scan.i
    <3>1. x % n \in Nat /\ x % slotSize' \in Nat
      BY <1>2, <1>0
    <3>2. scan.i \in Nat BY <1>4
    <3> QED BY <3>1, <3>2, <2>2, <2>3
  <2>5. ASSUME scan.pc = "retire", x % slotSize' = scan.i PROVE x = scan.handle
    <3>1. x % slotSize' < n BY <2>5, <1>6
    <3> QED BY <3>1, <2>2, <2>5, <1>3
  <2> QED BY <2>1, <2>4, <2>5
<1> QED BY <1>5, <1>7, <1>8, <1>1 DEF Scanning

LEMMA RegisterTable ==
    ASSUME Inv, NEW c \in Ctxs, Register(c), slotSize' # slotSize => Launching = {}
    PROVE  TableTypes' /\ Placed' /\ Scanning'
<1>0. /\ ~asserted /\ c \notin Stored /\ c \notin Launching
      /\ \/ /\ \E i \in Slots : slot[i] = NULL
            /\ Enter(c, slot, slotSize)
            /\ UNCHANGED asserted
         \/ /\ \A i \in Slots : slot[i] # NULL
            /\ 2 * slotSize <= Space
            /\ asserted' = GrowClashes
            /\ Enter(c, Grown, 2 * slotSize)
      /\ UNCHANGED <<scan, targets>>
  BY DEF Register, scanVars
<1>a. TypeOK /\ Placed /\ Scanning BY DEF Inv
<1>b. given[c] = -1 /\ \A i \in Slots : slot[i] # c BY <1>0 DEF Launching, Stored
<1>c. PICK n \in Nat \ {0} : n = slotSize BY <1>a DEF TypeOK
<1>d. \A d \in Ctxs : d # NULL BY HandleAssumption
\* What is common to both branches.
<1>1. ASSUME NEW m \in Nat \ {0}, \E p \in Powers : Space = m * p,
             m = slotSize \/ m = 2 * slotSize, asserted' = FALSE,
             NEW tab \in [0..(m - 1) -> Ctxs \cup {NULL}], \E k \in 0..(m - 1) : tab[k] = NULL,
             \A i \in 0..(m - 1), d \in Ctxs : tab[i] = d => Key(d) % m = i,
             \A i \in 0..(m - 1) : tab[i] # c,
             \A i \in Slots : slot[i] # NULL => \E k \in 0..(m - 1) : tab[k] = slot[i],
             Enter(c, tab, m)
      PROVE  TableTypes' /\ Placed' /\ Scanning'
  <2>1. PICK p \in Powers : Space = m * p BY <1>1
  <2>2. PICK k \in 0..(m - 1) : tab[k] = NULL BY <1>1
  <2>3. /\ slotSize' = m
        /\ slot' \in [0..(m - 1) -> Ctxs \cup {NULL}]
        /\ handleIndex' \in 1..Space
        /\ handle' \in [Ctxs -> Handles \cup {0}]
        /\ given' \in [Ctxs -> Handles \cup {-1}]
        /\ \A i \in 0..(m - 1), d \in Ctxs : slot'[i] = d => Key(d)' % m = i
        /\ \A i \in 0..(m - 1) : tab[i] # NULL => slot'[i] = tab[i]
        /\ \A d \in Ctxs \ {c} : handle'[d] = handle[d] /\ given'[d] = given[d]
        /\ handle'[c] = 0
    <3>1. PlacedIn(tab, m, c) BY <1>1 DEF PlacedIn
    <3> QED BY <1>1, <2>1, <2>2, <3>1, <1>a, EnterKeeps
  <2>4. Placed'
    <3>1. \A d \in Ctxs : given'[d] # -1 => handle'[d] = 0 BY <2>3, <1>a DEF Placed
    <3>2. \A i \in 0..(slotSize' - 1), d \in Ctxs : slot'[i] = d => Key(d)' % slotSize' = i
      BY <2>3
    <3>3. asserted' = FALSE BY <1>1
    <3> QED BY <3>1, <3>2, <3>3 DEF Placed, Slots
  <2>5. ASSUME NEW d \in targets PROVE d \in Ctxs /\ d # c /\ handle'[d] = handle[d] /\ d \in Findables'
    <3>1. d \in Ctxs /\ handle[d] # 0 /\ \E i \in Slots : slot[i] = d
      BY <1>a DEF Scanning, Findables, Stored
    <3>2. PICK i \in Slots : slot[i] = d BY <3>1
    <3>3. PICK j \in 0..(m - 1) : tab[j] = d BY <3>1, <3>2, <1>1, <1>d
    <3>4. slot'[j] = d BY <2>3, <3>3, <3>1, <1>d
    <3>5. d # c BY <1>b, <3>2
    <3>6. handle'[d] = handle[d] BY <3>1, <3>5, <2>3
    <3> QED BY <3>1, <3>4, <3>5, <3>6, <2>3 DEF Findables, Stored, Slots
  <2>6. /\ Scanning' /\ targets' \subseteq Ctxs
        /\ scan' \in [pc : {"off", "read", "retire"}, i : 0..slotSize',
                      some : BOOLEAN, handle : Handles \cup {0}]
    <3>1. targets' \subseteq targets /\ targets' \subseteq Findables' BY <1>0, <2>5
    <3>2. slotSize' = slotSize \/ slotSize' = 2 * slotSize BY <1>1, <2>3
    <3>3. \A d \in targets : handle'[d] = handle[d] BY <2>5
    <3> QED BY <3>1, <3>2, <3>3, <1>0, <1>a, ScanKept
  <2>7. TableTypes'
    <3>1. asserted' \in BOOLEAN BY <1>1
    <3> QED BY <3>1, <2>1, <2>3, <2>6 DEF TableTypes, Slots
  <2> QED BY <2>4, <2>6, <2>7
<1>2. CASE \E i \in Slots : slot[i] = NULL
  <2>1. Enter(c, slot, slotSize) /\ UNCHANGED asserted BY <1>0, <1>2
  <2>2. asserted' = FALSE BY <2>1, <1>0, <1>a DEF TypeOK
  <2>3. slot \in [0..(n - 1) -> Ctxs \cup {NULL}] /\ \E p \in Powers : Space = n * p
    BY <1>a, <1>c DEF TypeOK, Slots
  <2>4. \A i \in 0..(n - 1), d \in Ctxs : slot[i] = d => Key(d) % n = i
    BY <1>a, <1>c DEF Placed, Slots
  <2> QED BY <1>1, <1>2, <1>b, <1>c, <2>1, <2>2, <2>3, <2>4 DEF Slots
<1>3. CASE \A i \in Slots : slot[i] # NULL
  <2>1. /\ 2 * slotSize <= Space /\ asserted' = GrowClashes
        /\ Enter(c, Grown, 2 * slotSize)
    BY <1>0, <1>3
  <2>2. slotSize' = 2 * slotSize BY <2>1 DEF Enter
  <2>3. Launching = {}
    <3>1. slotSize' # slotSize BY <2>2, <1>c
    <3> QED BY <3>1
  <2>4. /\ 2 * slotSize \in Nat \ {0} /\ \E r \in Powers : Space = (2 * slotSize) * r
        /\ ~GrowClashes
        /\ Grown \in [0..(2 * slotSize - 1) -> Ctxs \cup {NULL}]
        /\ \E k \in 0..(2 * slotSize - 1) : Grown[k] = NULL
        /\ \A k \in 0..(2 * slotSize - 1), d \in Ctxs :
              Grown[k] = d => Key(d) % (2 * slotSize) = k /\ \E i \in Slots : slot[i] = d
        /\ \A i \in Slots : \E k \in 0..(2 * slotSize - 1) :
              Grown[k] = slot[i] /\ Key(slot[i]) % (2 * slotSize) = k
    BY <1>3, <1>a, <2>1, <2>3, GrownRight
  <2>5. asserted' = FALSE BY <2>1, <2>4
  <2>6. \A k \in 0..(2 * slotSize - 1) : Grown[k] # c BY <2>4, <1>b
  <2>7. PICK m, tab : m = 2 * slotSize /\ tab = Grown OBVIOUS
  <2>8. /\ m \in Nat \ {0} /\ \E p \in Powers : Space = m * p
        /\ tab \in [0..(m - 1) -> Ctxs \cup {NULL}]
        /\ \E k \in 0..(m - 1) : tab[k] = NULL
        /\ \A i \in 0..(m - 1), d \in Ctxs : tab[i] = d => Key(d) % m = i
    BY <2>4, <2>7
  <2>9. /\ \A i \in 0..(m - 1) : tab[i] # c
        /\ \A i \in Slots : slot[i] # NULL => \E k \in 0..(m - 1) : tab[k] = slot[i]
        /\ Enter(c, tab, m)
    BY <2>1, <2>4, <2>6, <2>7
  <2> QED BY <1>1, <2>5, <2>7, <2>8, <2>9
<1> QED BY <1>2, <1>3

LEMMA StoreTable ==
    ASSUME Inv, NEW c \in Ctxs, StoreHandle(c)
    PROVE  TableTypes' /\ Placed' /\ Scanning' /\ slotSize' = slotSize
<1>0. /\ given[c] # -1
      /\ handle' = [handle EXCEPT ![c] = given[c]]
      /\ given' = [given EXCEPT ![c] = -1]
      /\ UNCHANGED <<slotSize, slot, handleIndex, asserted, scan, targets>>
  BY DEF StoreHandle, scanVars
<1>a. TypeOK /\ Placed /\ Scanning BY DEF Inv
<1>b. /\ slot \in [Slots -> Ctxs \cup {NULL}]
      /\ handle \in [Ctxs -> Handles \cup {0}]
      /\ given \in [Ctxs -> Handles \cup {-1}]
  BY <1>a DEF TypeOK
<1>1. handle[c] = 0 BY <1>0, <1>a DEF Placed
<1>2. handle'[c] = given[c] /\ given'[c] = -1 BY <1>0, <1>b
<1>3. \A d \in Ctxs \ {c} : handle'[d] = handle[d] /\ given'[d] = given[d] BY <1>0, <1>b
<1>4. \A d \in Ctxs : Key(d)' = Key(d) BY <1>0, <1>2, <1>3 DEF Key
<1>5. Placed'
  <2>1. \A i \in Slots, d \in Ctxs : slot[i] = d => Key(d)' % slotSize = i
    BY <1>4, <1>a DEF Placed
  <2>2. \A d \in Ctxs : given'[d] # -1 => handle'[d] = 0 BY <1>2, <1>3, <1>a DEF Placed
  <2>3. ~asserted' BY <1>0, <1>a DEF Placed
  <2> QED BY <1>0, <2>1, <2>2, <2>3 DEF Placed, Slots
<1>6. ASSUME NEW d \in targets PROVE handle'[d] = handle[d] /\ d \in Findables'
  <2>1. d \in Ctxs /\ handle[d] # 0 /\ \E i \in Slots : slot[i] = d
    BY <1>a DEF Scanning, Findables, Stored
  <2>2. d # c BY <1>1, <2>1
  <2> QED BY <2>1, <2>2, <1>0, <1>3 DEF Findables, Stored, Slots
<1>7. /\ Scanning' /\ targets' \subseteq Ctxs
      /\ scan' \in [pc : {"off", "read", "retire"}, i : 0..slotSize',
                    some : BOOLEAN, handle : Handles \cup {0}]
  <2>1. targets' \subseteq targets /\ targets' \subseteq Findables' BY <1>0, <1>6
  <2>2. slotSize' = slotSize \/ slotSize' = 2 * slotSize BY <1>0
  <2>3. UNCHANGED scan BY <1>0
  <2> QED BY <2>1, <2>2, <2>3, <1>6, <1>a, ScanKept
<1>8. TableTypes'
  <2>1. handle' \in [Ctxs -> Handles \cup {0}] /\ given' \in [Ctxs -> Handles \cup {-1}]
    BY <1>0, <1>b
  <2>2. /\ slotSize \in Nat \ {0} /\ \E p \in Powers : Space = slotSize * p
        /\ handleIndex \in 1..Space /\ asserted \in BOOLEAN
    BY <1>a DEF TypeOK
  <2>3. /\ slotSize' \in Nat \ {0} /\ \E p \in Powers : Space = slotSize' * p
        /\ slot' \in [Slots' -> Ctxs \cup {NULL}]
        /\ handleIndex' \in 1..Space
    BY <1>0, <1>b, <2>2 DEF Slots
  <2>4. asserted' \in BOOLEAN BY <1>0, <2>2
  <2> QED BY <2>1, <2>3, <2>4, <1>7 DEF TableTypes
<1> QED BY <1>0, <1>5, <1>7, <1>8

\* What ztask_handle_retire does to the table, called by a service or by
\* ztask_handle_retireall.
LEMMA RetireSlots ==
    ASSUME Inv, NEW h \in Nat, RetireEffect(h)
    PROVE  /\ UNCHANGED <<slotSize, handleIndex, handle, given, asserted>>
           /\ slot' \in [Slots -> Ctxs \cup {NULL}]
           /\ Placed'
           /\ targets' \subseteq targets /\ targets' \subseteq Findables'
           /\ Grab(h) = NULL => UNCHANGED <<slot, targets>>
<1>a. TypeOK /\ Placed /\ Scanning BY DEF Inv
<1>b. slot \in [Slots -> Ctxs \cup {NULL}] BY <1>a DEF TypeOK
<1>c. \A d \in Ctxs : d # NULL BY HandleAssumption
<1>1. CASE Grab(h) = NULL
  <2>1. UNCHANGED <<slotSize, slot, handleIndex, handle, given, asserted, targets>>
    BY <1>1 DEF RetireEffect, tableVars
  <2>2. Placed'
    <3>1. UNCHANGED <<slotSize, slot, handle, given>> BY <2>1
    <3>2. \A d \in Ctxs : Key(d)' = Key(d) BY <3>1 DEF Key
    <3>3. ~asserted' BY <2>1, <1>a DEF Placed
    <3>4. \A i \in Slots, d \in Ctxs : slot[i] = d => Key(d)' % slotSize = i
      BY <3>2, <1>a DEF Placed
    <3>5. \A d \in Ctxs : given[d] # -1 => handle[d] = 0 BY <1>a DEF Placed
    <3> QED BY <3>1, <3>3, <3>4, <3>5 DEF Placed, Slots
  <2>3. targets' \subseteq Findables'
    <3>1. targets \subseteq Findables BY <1>a DEF Scanning
    <3> QED BY <2>1, <3>1 DEF Findables, Stored, Slots
  <2> QED BY <2>1, <2>2, <2>3, <1>b
<1>2. CASE Grab(h) # NULL
  <2> PICK g : g = Grab(h) OBVIOUS
  <2>1. g # NULL /\ g = slot[h % slotSize] BY <1>2 DEF Grab
  <2>2. /\ slot' = [slot EXCEPT ![h % slotSize] = NULL]
        /\ targets' = targets \ {g}
        /\ UNCHANGED <<slotSize, handleIndex, handle, given, asserted>>
    BY <1>2 DEF RetireEffect
  <2>3. h % slotSize \in Slots BY <1>a, TableSizes
  <2>4. slot' \in [Slots -> Ctxs \cup {NULL}] BY <2>2, <1>b
  <2>5. \A i \in Slots : slot'[i] = IF i = h % slotSize THEN NULL ELSE slot[i]
    BY <2>2, <1>b
  <2>6. Placed'
    <3>1. UNCHANGED <<slotSize, handle, given>> BY <2>2
    <3>2. \A d \in Ctxs : Key(d)' = Key(d) BY <3>1 DEF Key
    <3>3. ~asserted' BY <2>2, <1>a DEF Placed
    <3>4. \A i \in Slots, d \in Ctxs : slot'[i] = d => Key(d)' % slotSize = i
      BY <3>2, <2>5, <1>c, <1>a DEF Placed
    <3>5. \A d \in Ctxs : given[d] # -1 => handle[d] = 0 BY <1>a DEF Placed
    <3> QED BY <3>1, <3>3, <3>4, <3>5 DEF Placed, Slots
  <2>7. ASSUME NEW d \in targets \ {g} PROVE d \in Findables'
    <3>1. d \in Ctxs /\ handle[d] # 0 /\ \E i \in Slots : slot[i] = d
      BY <1>a DEF Scanning, Findables, Stored
    <3>2. PICK i \in Slots : slot[i] = d BY <3>1
    <3>3. i # h % slotSize BY <3>2, <2>1
    <3>4. slot'[i] = d BY <3>2, <3>3, <2>5
    <3> QED BY <3>1, <3>4, <2>2 DEF Findables, Stored, Slots
  <2> QED BY <1>2, <2>2, <2>4, <2>6, <2>7
<1> QED BY <1>1, <1>2

\* The part of TableTypes that every operation but ztask_handle_register keeps.
LEMMA TypesKept ==
    ASSUME TypeOK, UNCHANGED <<slotSize, handleIndex, handle, given, asserted>>,
           slot' \in [Slots -> Ctxs \cup {NULL}], targets' \subseteq Ctxs,
           scan' \in [pc : {"off", "read", "retire"}, i : 0..slotSize,
                      some : BOOLEAN, handle : Handles \cup {0}]
    PROVE  TableTypes'
<1>1. /\ slotSize \in Nat \ {0} /\ \E p \in Powers : Space = slotSize * p
      /\ handleIndex \in 1..Space /\ asserted \in BOOLEAN
      /\ handle \in [Ctxs -> Handles \cup {0}]
      /\ given \in [Ctxs -> Handles \cup {-1}]
  BY DEF TypeOK
<1>2. /\ slotSize' \in Nat \ {0} /\ \E p \in Powers : Space = slotSize' * p
      /\ handleIndex' \in 1..Space
      /\ handle' \in [Ctxs -> Handles \cup {0}]
      /\ given' \in [Ctxs -> Handles \cup {-1}]
  BY <1>1
<1>3. asserted' \in BOOLEAN BY <1>1
<1>4. /\ slot' \in [Slots' -> Ctxs \cup {NULL}]
      /\ scan' \in [pc : {"off", "read", "retire"}, i : 0..slotSize',
                    some : BOOLEAN, handle : Handles \cup {0}]
  BY DEF Slots
<1> QED BY <1>2, <1>3, <1>4 DEF TableTypes

LEMMA RetireTable ==
    ASSUME Inv, NEW h \in Handles, Retire(h)
    PROVE  TableTypes' /\ Placed' /\ Scanning' /\ slotSize' = slotSize
<1>a. TypeOK /\ Placed /\ Scanning BY DEF Inv
<1>1. RetireEffect(h) /\ UNCHANGED scan BY DEF Retire
<1>2. h \in Nat BY <1>a, TableSizes
<1>3. /\ UNCHANGED <<slotSize, handleIndex, handle, given, asserted>>
      /\ slot' \in [Slots -> Ctxs \cup {NULL}]
      /\ Placed'
      /\ targets' \subseteq targets /\ targets' \subseteq Findables'
  BY <1>1, <1>2, RetireSlots
<1>4. /\ Scanning' /\ targets' \subseteq Ctxs
      /\ scan' \in [pc : {"off", "read", "retire"}, i : 0..slotSize',
                    some : BOOLEAN, handle : Handles \cup {0}]
  <2>1. slotSize' = slotSize \/ slotSize' = 2 * slotSize BY <1>3
  <2>2. \A d \in targets : handle'[d] = handle[d] BY <1>3
  <2> QED BY <2>1, <2>2, <1>1, <1>3, <1>a, ScanKept
<1>5. TableTypes' BY <1>3, <1>4, <1>a, TypesKept
<1> QED BY <1>3, <1>4, <1>5

\* The table is left alone.
LEMMA SamePlaces ==
    ASSUME Inv, UNCHANGED tableVars
    PROVE  /\ slot' \in [Slots -> Ctxs \cup {NULL}] /\ Placed' /\ Findables' = Findables
           /\ UNCHANGED <<slotSize, handleIndex, handle, given, asserted>>
<1>0. UNCHANGED <<slotSize, slot, handleIndex, handle, given, asserted>> BY DEF tableVars
<1>a. TypeOK /\ Placed BY DEF Inv
<1>1. slot' \in [Slots -> Ctxs \cup {NULL}] BY <1>0, <1>a DEF TypeOK
<1>2. Placed'
  <2>1. UNCHANGED <<slotSize, slot, handle, given>> BY <1>0
  <2>2. \A d \in Ctxs : Key(d)' = Key(d) BY <2>1 DEF Key
  <2>3. ~asserted' BY <1>0, <1>a DEF Placed
  <2>4. \A i \in Slots, d \in Ctxs : slot[i] = d => Key(d)' % slotSize = i
    BY <2>2, <1>a DEF Placed
  <2>5. \A d \in Ctxs : given[d] # -1 => handle[d] = 0 BY <1>a DEF Placed
  <2> QED BY <2>1, <2>3, <2>4, <2>5 DEF Placed, Slots
<1>3. Findables' = Findables BY <1>0 DEF Findables, Stored, Slots
<1> QED BY <1>0, <1>1, <1>2, <1>3

LEMMA OtherTable ==
    ASSUME Inv, UNCHANGED <<tableVars, scanVars>>
    PROVE  TableTypes' /\ Placed' /\ Scanning' /\ slotSize' = slotSize
<1>a. TypeOK /\ Placed /\ Scanning BY DEF Inv
<1>0. UNCHANGED tableVars /\ UNCHANGED scan /\ UNCHANGED targets BY DEF scanVars
<1>1. /\ slot' \in [Slots -> Ctxs \cup {NULL}] /\ Placed' /\ Findables' = Findables
      /\ UNCHANGED <<slotSize, handleIndex, handle, given, asserted>>
  BY <1>0, SamePlaces
<1>2. /\ Scanning' /\ targets' \subseteq Ctxs
      /\ scan' \in [pc : {"off", "read", "retire"}, i : 0..slotSize',
                    some : BOOLEAN, handle : Handles \cup {0}]
  <2>1. slotSize' = slotSize \/ slotSize' = 2 * slotSize BY <1>1
  <2>2. targets' \subseteq targets /\ targets' \subseteq Findables'
    BY <1>0, <1>1, <1>a DEF Scanning
  <2>3. \A d \in targets : handle'[d] = handle[d] BY <1>1
  <2> QED BY <2>1, <2>2, <2>3, <1>0, <1>a, ScanKept
<1>3. TableTypes' BY <1>1, <1>2, <1>a, TypesKept
<1> QED BY <1>1, <1>2, <1>3

\* A pass begins: every context that must be found is still ahead.
LEMMA PassBegins ==
    ASSUME Inv, UNCHANGED tableVars,
           scan' = [pc |-> "read", i |-> 0, some |-> FALSE, handle |-> 0],
           targets' = Findables
    PROVE  TableTypes' /\ Placed' /\ Scanning' /\ slotSize' = slotSize
<1>a. TypeOK /\ Placed /\ Scanning BY DEF Inv
<1>1. /\ slot' \in [Slots -> Ctxs \cup {NULL}] /\ Placed' /\ Findables' = Findables
      /\ UNCHANGED <<slotSize, handleIndex, handle, given, asserted>>
  BY SamePlaces
<1>2. slotSize \in Nat /\ slotSize > 0 BY <1>a, TableSizes
<1>3. targets' \subseteq Ctxs BY DEF Findables, Stored
<1>4. scan' \in [pc : {"off", "read", "retire"}, i : 0..slotSize,
                 some : BOOLEAN, handle : Handles \cup {0}]
  BY <1>2
<1>5. TableTypes' BY <1>1, <1>3, <1>4, <1>a, TypesKept
<1>6. \A c \in targets' : handle'[c] % slotSize' >= 0
  <2> SUFFICES ASSUME NEW c \in Findables PROVE handle[c] % slotSize >= 0 BY <1>1
  <2>1. handle[c] % slotSize \in Slots BY <1>a, Found
  <2> QED BY <2>1, <1>2 DEF Slots
<1>7. Scanning' BY <1>1, <1>6 DEF Scanning
<1> QED BY <1>1, <1>5, <1>7

LEMMA ReadTable ==
    ASSUME Inv, ReadSlot
    PROVE  TableTypes' /\ Placed' /\ Scanning' /\ slotSize' = slotSize
<1> PICK c : c = slot[scan.i] OBVIOUS
<1>0. /\ scan.pc = "read" /\ scan.i < slotSize
      /\ scan' = IF c = NULL \/ handle[c] = 0
                 THEN [scan EXCEPT !.i = @ + 1]
                 ELSE [scan EXCEPT !.pc = "retire", !.handle = handle[c]]
      /\ UNCHANGED tableVars /\ UNCHANGED targets
  BY DEF ReadSlot, ScanEnd
<1>a. TypeOK /\ Placed /\ Scanning BY DEF Inv
<1>1. /\ slot' \in [Slots -> Ctxs \cup {NULL}] /\ Placed' /\ Findables' = Findables
      /\ UNCHANGED <<slotSize, handleIndex, handle, given, asserted>>
  BY <1>0, SamePlaces
<1>2. slotSize \in Nat /\ slotSize > 0 BY <1>a, TableSizes
<1>b. /\ scan \in [pc : {"off", "read", "retire"}, i : 0..slotSize,
                   some : BOOLEAN, handle : Handles \cup {0}]
      /\ targets \subseteq Ctxs
      /\ slot \in [Slots -> Ctxs \cup {NULL}]
      /\ handle \in [Ctxs -> Handles \cup {0}]
  BY <1>a DEF TypeOK
<1>3. scan.i \in Slots BY <1>0, <1>2, <1>b DEF Slots
<1>4. c \in Ctxs \cup {NULL} BY <1>3, <1>b
\* The context that must be found in this slot, if any, is c.
<1>5. ASSUME NEW t \in targets, handle[t] % slotSize = scan.i
      PROVE  t = c /\ t \in Ctxs /\ handle[t] # 0
  <2>1. t \in Findables BY <1>a DEF Scanning
  <2>2. t \in Ctxs /\ handle[t] # 0 /\ slot[handle[t] % slotSize] = t BY <2>1, <1>a, Found
  <2> QED BY <2>2, <1>5
<1>6. \A t \in targets : handle[t] % slotSize \in Nat
  <2> SUFFICES ASSUME NEW t \in targets PROVE handle[t] % slotSize \in Nat OBVIOUS
  <2>1. t \in Findables BY <1>a DEF Scanning
  <2>2. handle[t] % slotSize \in Slots BY <2>1, <1>a, Found
  <2> QED BY <2>2, <1>2 DEF Slots
<1>7. \A t \in targets : ~scan.some => handle[t] % slotSize >= scan.i
  BY <1>0, <1>a DEF Scanning
<1>8. targets' \subseteq Findables' BY <1>0, <1>1, <1>a DEF Scanning
<1>9. CASE c = NULL \/ handle[c] = 0
  <2>1. scan' = [scan EXCEPT !.i = @ + 1] BY <1>0, <1>9
  <2>2. scan' \in [pc : {"off", "read", "retire"}, i : 0..slotSize,
                   some : BOOLEAN, handle : Handles \cup {0}]
    BY <2>1, <1>0, <1>b, <1>2
  <2>3. scan'.pc = "read" /\ scan'.i = scan.i + 1 /\ scan'.some = scan.some
    BY <2>1, <1>0, <1>b
  <2>4. TableTypes' BY <2>2, <1>0, <1>1, <1>b, <1>a, TypesKept
  <2>5. ASSUME NEW t \in targets, ~scan.some PROVE handle[t] % slotSize >= scan.i + 1
    <3>1. handle[t] % slotSize # scan.i BY <1>5, <1>9, HandleAssumption
    <3>2. handle[t] % slotSize >= scan.i BY <1>7, <2>5
    <3>3. scan.i \in Nat BY <1>b
    <3> QED BY <3>1, <3>2, <3>3, <1>6
  <2>6. Scanning' BY <1>0, <1>1, <1>8, <2>3, <2>5 DEF Scanning
  <2> QED BY <1>1, <2>4, <2>6
<1>10. CASE ~(c = NULL \/ handle[c] = 0)
  <2>1. scan' = [scan EXCEPT !.pc = "retire", !.handle = handle[c]] BY <1>0, <1>10
  <2>2. handle[c] \in Handles \cup {0} BY <1>10, <1>4, <1>b
  <2>3. scan' \in [pc : {"off", "read", "retire"}, i : 0..slotSize,
                   some : BOOLEAN, handle : Handles \cup {0}]
    BY <2>1, <2>2, <1>b
  <2>4. /\ scan'.pc = "retire" /\ scan'.i = scan.i /\ scan'.some = scan.some
        /\ scan'.handle = handle[c]
    BY <2>1, <1>b
  <2>5. TableTypes' BY <2>3, <1>0, <1>1, <1>b, <1>a, TypesKept
  <2>6. \A t \in targets : handle[t] % slotSize = scan.i => handle[t] = handle[c] BY <1>5
  <2>7. Scanning' BY <1>0, <1>1, <1>7, <1>8, <2>4, <2>6 DEF Scanning
  <2> QED BY <1>1, <2>5, <2>7
<1> QED BY <1>9, <1>10

LEMMA RetireSlotTable ==
    ASSUME Inv, RetireSlot
    PROVE  TableTypes' /\ Placed' /\ Scanning' /\ slotSize' = slotSize
<1> PICK h : h = scan.handle OBVIOUS
<1>a. TypeOK /\ Placed /\ Scanning BY DEF Inv
<1>0. /\ scan.pc = "retire" /\ RetireEffect(h)
      /\ scan' = [pc |-> "read", i |-> scan.i + 1, handle |-> 0,
                  some |-> scan.some \/ Grab(h) # NULL]
  BY DEF RetireSlot
<1>b. /\ scan \in [pc : {"off", "read", "retire"}, i : 0..slotSize,
                   some : BOOLEAN, handle : Handles \cup {0}]
      /\ targets \subseteq Ctxs
  BY <1>a DEF TypeOK
<1>c. slotSize \in Nat /\ slotSize > 0 BY <1>a, TableSizes
<1>1. h \in Nat
  <2>1. \A x \in Handles : x \in Nat BY <1>a, TableSizes
  <2>2. h \in Handles \/ h = 0 BY <1>b
  <2>3. 0 \in Nat OBVIOUS
  <2> QED BY <2>1, <2>2, <2>3
<1>2. /\ UNCHANGED <<slotSize, handleIndex, handle, given, asserted>>
      /\ slot' \in [Slots -> Ctxs \cup {NULL}]
      /\ Placed'
      /\ targets' \subseteq targets /\ targets' \subseteq Findables'
      /\ Grab(h) = NULL => UNCHANGED <<slot, targets>>
  BY <1>0, <1>1, RetireSlots
<1>3. scan.i < slotSize BY <1>0, <1>a DEF Scanning
<1>4. scan' \in [pc : {"off", "read", "retire"}, i : 0..slotSize,
                 some : BOOLEAN, handle : Handles \cup {0}]
  <2>1. (scan.some \/ Grab(h) # NULL) \in BOOLEAN BY <1>b
  <2>2. scan.i + 1 \in 0..slotSize BY <1>3, <1>b, <1>c
  <2>3. 0 \in Handles \cup {0} OBVIOUS
  <2> QED BY <1>0, <2>1, <2>2, <2>3
<1>5. TableTypes' BY <1>2, <1>4, <1>b, <1>a, TypesKept
<1>6. scan'.pc = "read" /\ scan'.i = scan.i + 1 /\ scan'.some = (scan.some \/ Grab(h) # NULL)
  BY <1>0
<1>7. ASSUME ~scan'.some, NEW t \in targets PROVE handle[t] % slotSize >= scan.i + 1
  <2>1. ~scan.some /\ Grab(h) = NULL BY <1>6, <1>7
  <2>2. t \in Findables BY <1>a DEF Scanning
  <2>3. handle[t] % slotSize \in Slots /\ Grab(handle[t]) = t /\ t \in Ctxs BY <2>2, <1>a, Found
  <2>4. /\ handle[t] % slotSize >= scan.i
        /\ handle[t] % slotSize = scan.i => handle[t] = h
    BY <2>1, <1>0, <1>a DEF Scanning
  <2>5. handle[t] # h BY <2>1, <2>3, HandleAssumption
  <2>6. handle[t] % slotSize \in Nat /\ scan.i \in Nat BY <2>3, <1>b, <1>c DEF Slots
  <2> QED BY <2>4, <2>5, <2>6
<1>8. Scanning' BY <1>2, <1>6, <1>7 DEF Scanning
<1> QED BY <1>2, <1>5, <1>8

LEMMA EndTable ==
    ASSUME Inv, EndPass
    PROVE  /\ TableTypes' /\ Placed' /\ Scanning' /\ slotSize' = slotSize
           /\ ~scan.some => targets = {}
<1>a. TypeOK /\ Placed /\ Scanning BY DEF Inv
<1>b. scan.some \in BOOLEAN /\ scan.i \in Nat BY <1>a DEF TypeOK
<1>0. /\ scan.pc = "read" /\ scan.i >= slotSize
      /\ scan' = [pc |-> IF scan.some THEN "read" ELSE "off",
                  i |-> 0, some |-> FALSE, handle |-> 0]
      /\ targets' = IF scan.some THEN Findables ELSE {}
      /\ UNCHANGED tableVars
  BY DEF EndPass, ScanEnd
<1>1. CASE scan.some
  <2>1. scan' = [pc |-> "read", i |-> 0, some |-> FALSE, handle |-> 0] /\ targets' = Findables
    BY <1>0, <1>1
  <2> QED BY <1>0, <1>1, <2>1, PassBegins
<1>2. CASE ~scan.some
  <2>1. scan' = [pc |-> "off", i |-> 0, some |-> FALSE, handle |-> 0] /\ targets' = {}
    BY <1>0, <1>2
  <2>2. /\ slot' \in [Slots -> Ctxs \cup {NULL}] /\ Placed' /\ Findables' = Findables
        /\ UNCHANGED <<slotSize, handleIndex, handle, given, asserted>>
    BY <1>0, SamePlaces
  <2>3. slotSize \in Nat /\ slotSize > 0 BY <1>a, TableSizes
  <2>4. scan' \in [pc : {"off", "read", "retire"}, i : 0..slotSize,
                   some : BOOLEAN, handle : Handles \cup {0}]
    BY <2>1, <2>3
  <2>5. TableTypes' BY <2>1, <2>2, <2>4, <1>a, TypesKept
  <2>6. Scanning' BY <2>1 DEF Scanning
  <2>7. ASSUME NEW t \in targets PROVE FALSE
    <3>1. t \in Findables BY <1>a DEF Scanning
    <3>2. handle[t] % slotSize \in Slots BY <3>1, <1>a, Found
    <3>3. handle[t] % slotSize >= scan.i BY <1>0, <1>2, <1>a DEF Scanning
    <3> QED BY <3>2, <3>3, <1>0, <1>b, <2>3 DEF Slots
  <2> QED BY <2>2, <2>5, <2>6, <2>7
<1> QED BY <1>1, <1>2

-----------------------------------------------------------------------------
(* The loops over the names.                                               *)

\* The loop of ztask_handle_retire over the names, round by round.
LEMMA RemainingRounds ==
    ASSUME NEW R, NEW h, name \in Seq(R)
    PROVE  \E f : /\ \A i \in 0..Len(name) : f[i] \in Seq(R)
                  /\ f[0] = << >>
                  /\ \A i \in 1..Len(name) :
                        f[i] = IF name[i].handle = h THEN f[i - 1]
                               ELSE Append(f[i - 1], name[i])
                  /\ Remaining(h) = f[Len(name)]
<1> DEFINE step == [i \in 1..Len(name) |-> [s \in Seq(R) |->
                      IF name[i].handle = h THEN s ELSE Append(s, name[i])]]
<1>0. Len(name) \in Nat OBVIOUS
<1>1. step \in [1..Len(name) -> [Seq(R) -> Seq(R)]]
  <2>1. ASSUME NEW i \in 1..Len(name), NEW s \in Seq(R)
        PROVE  (IF name[i].handle = h THEN s ELSE Append(s, name[i])) \in Seq(R)
    <3>1. name[i] \in R OBVIOUS
    <3> QED BY <3>1
  <2> QED BY <2>1
<1>2. << >> \in Seq(R) OBVIOUS
<1>3. PICK f \in [0..Len(name) -> Seq(R)] :
          f[0] = << >> /\ \A i \in 1..Len(name) : f[i] = step[i][f[i - 1]]
  <2> HIDE DEF step
  <2>1. PICK L, S, s0 : L = Len(name) /\ S = Seq(R) /\ s0 = << >> OBVIOUS
  <2>2. L \in Nat /\ s0 \in S /\ step \in [1..L -> [S -> S]] BY <1>0, <1>1, <1>2, <2>1
  <2>3. HasRun(L, S, s0, step) BY <2>2, Rounds
  <2> QED BY <2>1, <2>3 DEF HasRun
<1>4. \A i \in 1..Len(name) : f[i] = IF name[i].handle = h THEN f[i - 1]
                                     ELSE Append(f[i - 1], name[i])
  <2> SUFFICES ASSUME NEW i \in 1..Len(name)
               PROVE  f[i] = IF name[i].handle = h THEN f[i - 1]
                             ELSE Append(f[i - 1], name[i])
    OBVIOUS
  <2>1. i - 1 \in 0..Len(name) BY <1>0
  <2>2. f[i - 1] \in Seq(R) BY <2>1
  <2> QED BY <1>3, <2>2
<1>5. f = [i \in 0..Len(name) |->
             IF i = 0 THEN << >>
             ELSE IF name[i].handle = h THEN f[i - 1] ELSE Append(f[i - 1], name[i])]
  <2>1. ASSUME NEW i \in 0..Len(name)
        PROVE  f[i] = IF i = 0 THEN << >>
                      ELSE IF name[i].handle = h THEN f[i - 1] ELSE Append(f[i - 1], name[i])
    <3>1. i # 0 => i \in 1..Len(name) BY <1>0
    <3> HIDE DEF step
    <3> QED BY <1>3, <1>4, <3>1
  <2> QED BY <2>1
<1> DEFINE g == CHOOSE k : k = [i \in 0..Len(name) |->
             IF i = 0 THEN << >>
             ELSE IF name[i].handle = h THEN k[i - 1] ELSE Append(k[i - 1], name[i])]
<1>6. g = [i \in 0..Len(name) |->
             IF i = 0 THEN << >>
             ELSE IF name[i].handle = h THEN g[i - 1] ELSE Append(g[i - 1], name[i])]
  BY <1>5, Zenon
<1>7. Remaining(h) = g[Len(name)] BY Zenon DEF Remaining
<1> HIDE DEF g, step
<1>8. g[0] = << >> /\ \A i \in 1..Len(name) : g[i] = IF name[i].handle = h THEN g[i - 1]
                                                     ELSE Append(g[i - 1], name[i])
  <2>1. PICK e : e = g OBVIOUS
  <2>2. e = [i \in 0..Len(name) |->
             IF i = 0 THEN << >>
             ELSE IF name[i].handle = h THEN e[i - 1] ELSE Append(e[i - 1], name[i])]
    BY <1>6, <2>1
  <2>3. 0 \in 0..Len(name) /\ \A i \in 1..Len(name) : i \in 0..Len(name) /\ i # 0 BY <1>0
  <2>4. e[0] = << >> BY <2>2, <2>3
  <2>5. \A i \in 1..Len(name) : e[i] = IF name[i].handle = h THEN e[i - 1]
                                       ELSE Append(e[i - 1], name[i])
    BY <2>2, <2>3
  <2> QED BY <2>1, <2>4, <2>5
<1> DEFINE T == {i \in 0..Len(name) : g[i] \notin Seq(R)}
<1>9. T = {}
  <2> SUFFICES ASSUME T # {} PROVE FALSE OBVIOUS
  <2>1. T \in SUBSET Nat BY <1>0
  <2>2. PICK m \in T : \A k \in T : m <= k
    <3> HIDE DEF T
    <3> QED BY <2>1, LeastElement
  <2>3. m \in 0..Len(name) /\ g[m] \notin Seq(R) OBVIOUS
  <2>4. m # 0 BY <2>3, <1>2, <1>8
  <2>5. m - 1 \in 0..Len(name) /\ m \in 1..Len(name) /\ ~(m <= m - 1) BY <2>3, <2>4, <1>0
  <2>6. g[m - 1] \in Seq(R) BY <2>2, <2>5
  <2>7. name[m] \in R BY <2>5
  <2>8. Append(g[m - 1], name[m]) \in Seq(R) BY <2>6, <2>7
  <2>9. g[m] = g[m - 1] \/ g[m] = Append(g[m - 1], name[m]) BY <2>5, <1>8
  <2> QED BY <2>3, <2>6, <2>8, <2>9
<1> QED BY <1>7, <1>8, <1>9

Record == [name : Names, handle : Handles]
Sorted(s) == \A a, b \in 1..Len(s) : a < b => s[a].name < s[b].name

\* What the loop of ztask_handle_retire has copied after i names.
KeptSoFar(s, i, h) ==
    /\ s \in Seq(Record) /\ Len(s) <= i /\ Sorted(s)
    /\ \A j \in 1..Len(s) : \E k \in 1..i : s[j] = name[k] /\ name[k].handle # h
    /\ \A k \in 1..i : name[k].handle # h => \E j \in 1..Len(s) : s[j] = name[k]

LEMMA KeptStep ==
    ASSUME name \in Seq(Record), Sorted(name), NEW h, NEW i \in 1..Len(name), NEW s,
           KeptSoFar(s, i - 1, h)
    PROVE  /\ name[i].handle = h => KeptSoFar(s, i, h)
           /\ name[i].handle # h => KeptSoFar(Append(s, name[i]), i, h)
<1>0. i \in Nat /\ i > 0 /\ i <= Len(name) /\ Len(name) \in Nat OBVIOUS
<1>1. /\ s \in Seq(Record) /\ Len(s) <= i - 1 /\ Len(s) \in Nat
      /\ \A a, b \in 1..Len(s) : a < b => s[a].name < s[b].name
      /\ \A j \in 1..Len(s) : \E k \in 1..(i - 1) : s[j] = name[k] /\ name[k].handle # h
      /\ \A k \in 1..(i - 1) : name[k].handle # h => \E j \in 1..Len(s) : s[j] = name[k]
  <2>1. PICK p : p = i - 1 OBVIOUS
  <2>2. KeptSoFar(s, p, h) BY <2>1
  <2>3. s \in Seq(Record) /\ Len(s) <= p /\ Sorted(s) BY <2>2, Zenon DEF KeptSoFar
  <2>4. \A j \in 1..Len(s) : \E k \in 1..p : s[j] = name[k] /\ name[k].handle # h
    BY <2>2, Zenon DEF KeptSoFar
  <2>5. \A k \in 1..p : name[k].handle # h => \E j \in 1..Len(s) : s[j] = name[k]
    BY <2>2, Zenon DEF KeptSoFar
  <2>6. \A a, b \in 1..Len(s) : a < b => s[a].name < s[b].name BY <2>3, Zenon DEF Sorted
  <2>7. Len(s) \in Nat BY <2>3
  <2> QED BY <2>1, <2>3, <2>4, <2>5, <2>6, <2>7, Zenon
<1>2. \A k \in 1..i : k \in 1..(i - 1) \/ k = i BY <1>0
<1>3. \A k \in 1..(i - 1) : k \in 1..i BY <1>0
<1>4. ASSUME name[i].handle = h PROVE KeptSoFar(s, i, h)
  <2>1. Len(s) <= i BY <1>0, <1>1
  <2>2. \A j \in 1..Len(s) : \E k \in 1..i : s[j] = name[k] /\ name[k].handle # h
    BY <1>1, <1>3
  <2>3. \A k \in 1..i : name[k].handle # h => \E j \in 1..Len(s) : s[j] = name[k]
    BY <1>1, <1>2, <1>4
  <2> QED BY <1>1, <2>1, <2>2, <2>3 DEF KeptSoFar, Sorted
<1>5. ASSUME name[i].handle # h PROVE KeptSoFar(Append(s, name[i]), i, h)
  <2>0. name[i] \in Record BY <1>0
  <2>1. PICK t : t = Append(s, name[i]) OBVIOUS
  <2>2. /\ t \in Seq(Record) /\ Len(t) = Len(s) + 1 /\ t[Len(s) + 1] = name[i]
        /\ \A j \in 1..Len(s) : t[j] = s[j]
    BY <1>1, <2>0, <2>1
  <2>3. \A j \in 1..Len(t) : j \in 1..Len(s) \/ j = Len(s) + 1 BY <1>1, <2>2
  <2>4. /\ \A j \in 1..Len(s) : j \in 1..Len(t)
        /\ Len(s) + 1 \in 1..Len(t) /\ i \in 1..i
    BY <1>0, <1>1, <2>2
  <2>5. Len(t) <= i BY <1>0, <1>1, <2>2
  <2>6. ASSUME NEW j \in 1..Len(t)
        PROVE  \E k \in 1..i : t[j] = name[k] /\ name[k].handle # h
    <3>1. CASE j \in 1..Len(s)
      <4>1. PICK k \in 1..(i - 1) : s[j] = name[k] /\ name[k].handle # h BY <1>1, <3>1
      <4>2. t[j] = name[k] /\ name[k].handle # h BY <2>2, <3>1, <4>1
      <4> QED BY <1>3, <4>1, <4>2
    <3>2. CASE j = Len(s) + 1 BY <1>5, <2>2, <2>4, <3>2
    <3> QED BY <2>3, <3>1, <3>2
  <2>7. ASSUME NEW k \in 1..i, name[k].handle # h
        PROVE  \E j \in 1..Len(t) : t[j] = name[k]
    <3>1. CASE k \in 1..(i - 1)
      <4>1. PICK j \in 1..Len(s) : s[j] = name[k] BY <1>1, <2>7, <3>1
      <4>2. t[j] = name[k] BY <2>2, <4>1
      <4> QED BY <2>4, <4>1, <4>2
    <3>2. CASE k = i BY <2>2, <2>4, <3>2
    <3> QED BY <1>2, <3>1, <3>2
  <2>8. ASSUME NEW a \in 1..Len(t), NEW b \in 1..Len(t), a < b
        PROVE  t[a].name < t[b].name
    <3>1. a \in 1..Len(s) BY <1>1, <2>2, <2>8
    <3>2. CASE b \in 1..Len(s) BY <1>1, <2>2, <2>8, <3>1, <3>2
    <3>3. CASE b = Len(s) + 1
      <4>1. PICK k \in 1..(i - 1) : s[a] = name[k] BY <1>1, <3>1
      <4>2. k \in 1..Len(name) /\ k < i BY <1>0
      <4>3. name[k].name < name[i].name BY <4>2 DEF Sorted
      <4> QED BY <2>2, <3>1, <3>3, <4>1, <4>3
    <3> QED BY <2>3, <3>2, <3>3
  <2>9. Sorted(t) BY <2>8 DEF Sorted
  <2> QED BY <2>1, <2>2, <2>5, <2>6, <2>7, <2>9 DEF KeptSoFar
<1> QED BY <1>4, <1>5

\* ztask_handle_retire keeps exactly the names of other handles, in order.
LEMMA RemainingRight ==
    ASSUME name \in Seq(Record), Sorted(name), NEW h
    PROVE  KeptSoFar(Remaining(h), Len(name), h)
<1>0. Len(name) \in Nat OBVIOUS
<1>1. PICK f : /\ \A i \in 0..Len(name) : f[i] \in Seq(Record)
               /\ f[0] = << >>
               /\ \A i \in 1..Len(name) :
                     f[i] = IF name[i].handle = h THEN f[i - 1]
                            ELSE Append(f[i - 1], name[i])
               /\ Remaining(h) = f[Len(name)]
  BY RemainingRounds
<1> DEFINE T == {i \in 0..Len(name) : ~KeptSoFar(f[i], i, h)}
<1>2. T = {}
  <2> SUFFICES ASSUME T # {} PROVE FALSE OBVIOUS
  <2>1. T \in SUBSET Nat BY <1>0
  <2>2. PICK m \in T : \A k \in T : m <= k
    <3> HIDE DEF T
    <3> QED BY <2>1, LeastElement
  <2>3. m \in 0..Len(name) /\ ~KeptSoFar(f[m], m, h) OBVIOUS
  <2>4. m # 0
    <3>1. KeptSoFar(<< >>, 0, h)
      <4>1. << >> \in Seq(Record) /\ Len(<< >>) = 0 OBVIOUS
      <4>2. \A j \in 1..0 : FALSE OBVIOUS
      <4> QED BY <4>1, <4>2 DEF KeptSoFar, Sorted
    <3> QED BY <3>1, <2>3, <1>1
  <2>5. m - 1 \in 0..Len(name) /\ m \in 1..Len(name) /\ ~(m <= m - 1) BY <2>3, <2>4, <1>0
  <2>6. KeptSoFar(f[m - 1], m - 1, h) BY <2>2, <2>5
  <2>7. /\ name[m].handle = h => KeptSoFar(f[m - 1], m, h)
        /\ name[m].handle # h => KeptSoFar(Append(f[m - 1], name[m]), m, h)
    BY <2>5, <2>6, KeptStep
  <2> QED BY <2>3, <2>5, <2>7, <1>1
<1>3. Len(name) \in 0..Len(name) BY <1>0
<1> QED BY <1>1, <1>2, <1>3

Interval == [begin : Int, end : Int, found : BOOLEAN]

\* The binary search, round by round.
LEMMA SearchRounds ==
    ASSUME NEW n, Len(name) \in Nat
    PROVE  \E f : /\ f[0] = [begin |-> 1, end |-> Len(name), found |-> FALSE]
                  /\ \A i \in 1..Len(name) : f[i] = Halve(n, f[i - 1])
                  /\ Search(n) = f[Len(name)]
<1> DEFINE s0 == [begin |-> 1, end |-> Len(name), found |-> FALSE]
<1> DEFINE step == [i \in 1..Len(name) |-> [s \in Interval |-> Halve(n, s)]]
<1>1. \A s \in Interval : Halve(n, s) \in Interval
  <2> SUFFICES ASSUME NEW s \in Interval PROVE Halve(n, s) \in Interval OBVIOUS
  <2>1. PICK mid \in Int : mid = ((s.begin - 1) + (s.end - 1)) \div 2 + 1 BY DEF Interval
  <2>2. \/ Halve(n, s) = s
        \/ Halve(n, s) = [begin |-> mid, end |-> s.end, found |-> TRUE]
        \/ Halve(n, s) = [begin |-> mid + 1, end |-> s.end, found |-> FALSE]
        \/ Halve(n, s) = [begin |-> s.begin, end |-> mid - 1, found |-> FALSE]
    BY <2>1 DEF Halve
  <2>3. s.begin \in Int /\ s.end \in Int BY DEF Interval
  <2>4. /\ [begin |-> mid, end |-> s.end, found |-> TRUE] \in Interval
        /\ [begin |-> mid + 1, end |-> s.end, found |-> FALSE] \in Interval
        /\ [begin |-> s.begin, end |-> mid - 1, found |-> FALSE] \in Interval
    BY <2>3 DEF Interval
  <2> QED BY <2>2, <2>4
<1>2. step \in [1..Len(name) -> [Interval -> Interval]] BY <1>1
<1>3. s0 \in Interval BY DEF Interval
<1>4. PICK f \in [0..Len(name) -> Interval] :
          f[0] = s0 /\ \A i \in 1..Len(name) : f[i] = step[i][f[i - 1]]
  <2> HIDE DEF step, s0
  <2>1. PICK L, S, z, st : L = Len(name) /\ S = Interval /\ z = s0 /\ st = step OBVIOUS
  <2>2. L \in Nat /\ z \in S /\ st \in [1..L -> [S -> S]] BY <1>2, <1>3, <2>1
  <2>3. HasRun(L, S, z, st) BY <2>2, Rounds
  <2> QED BY <2>1, <2>3 DEF HasRun
<1>5. \A i \in 1..Len(name) : f[i] = Halve(n, f[i - 1])
  <2> SUFFICES ASSUME NEW i \in 1..Len(name) PROVE f[i] = Halve(n, f[i - 1]) OBVIOUS
  <2>1. i - 1 \in 0..Len(name) OBVIOUS
  <2>2. f[i - 1] \in Interval BY <2>1
  <2> QED BY <1>4, <2>2
<1>6. f = [k \in 0..Len(name) |->
             IF k = 0 THEN [begin |-> 1, end |-> Len(name), found |-> FALSE]
             ELSE Halve(n, f[k - 1])]
  <2>1. ASSUME NEW k \in 0..Len(name)
        PROVE  f[k] = IF k = 0 THEN s0 ELSE Halve(n, f[k - 1])
    <3>1. k # 0 => k \in 1..Len(name) OBVIOUS
    <3> HIDE DEF step, s0
    <3> QED BY <1>4, <1>5, <3>1
  <2> QED BY <2>1
<1> DEFINE g == CHOOSE r : r = [k \in 0..Len(name) |->
             IF k = 0 THEN [begin |-> 1, end |-> Len(name), found |-> FALSE]
             ELSE Halve(n, r[k - 1])]
<1>7. g = [k \in 0..Len(name) |->
             IF k = 0 THEN [begin |-> 1, end |-> Len(name), found |-> FALSE]
             ELSE Halve(n, g[k - 1])]
  BY <1>6, Zenon
<1>8. Search(n) = g[Len(name)] BY Zenon DEF Search
<1> HIDE DEF g, step
<1>9. g[0] = s0 /\ \A k \in 1..Len(name) : g[k] = Halve(n, g[k - 1])
  <2>1. PICK e : e = g OBVIOUS
  <2>2. e = [k \in 0..Len(name) |-> IF k = 0 THEN s0 ELSE Halve(n, e[k - 1])] BY <1>7, <2>1
  <2>3. 0 \in 0..Len(name) /\ \A i \in 1..Len(name) : i \in 0..Len(name) /\ i # 0 OBVIOUS
  <2> HIDE DEF s0
  <2>4. e[0] = s0 BY <2>2, <2>3
  <2>5. \A k \in 1..Len(name) : e[k] = Halve(n, e[k - 1]) BY <2>2, <2>3
  <2> QED BY <2>1, <2>4, <2>5
<1> QED BY <1>8, <1>9

\* What is known of the interval after k rounds.
Narrowed(n, s, k) ==
    /\ s \in Interval /\ 1 <= s.begin /\ s.end <= Len(name) /\ s.begin <= s.end + 1
    /\ s.found => s.begin <= Len(name) /\ name[s.begin].name = n
    /\ ~s.found => /\ s.end - s.begin + 1 <= Len(name) - k
                   /\ \A i \in 1..Len(name) : /\ i < s.begin => name[i].name < n
                                              /\ s.end < i => n < name[i].name

LEMMA HalveRight ==
    ASSUME name \in Seq(Record), Sorted(name), NEW n \in Int, NEW k \in 1..Len(name), NEW s,
           Narrowed(n, s, k - 1)
    PROVE  Narrowed(n, Halve(n, s), k)
<1>0. Len(name) \in Nat /\ \A i \in 1..Len(name) : name[i].name \in Int
  <2>1. Len(name) \in Nat /\ \A i \in 1..Len(name) : name[i] \in Record OBVIOUS
  <2>2. \A r \in Record : r.name \in Names BY DEF Record
  <2>3. \A x \in Names : x \in Int BY HandleAssumption
  <2> QED BY <2>1, <2>2, <2>3
<1>1. /\ s.begin \in Int /\ s.end \in Int /\ s.found \in BOOLEAN /\ s \in Interval
      /\ 1 <= s.begin /\ s.end <= Len(name) /\ s.begin <= s.end + 1
  BY DEF Narrowed, Interval
<1>2. CASE s.found
  <2>1. Halve(n, s) = s BY <1>2 DEF Halve
  <2> QED BY <1>2, <2>1 DEF Narrowed
<1>3. CASE ~s.found /\ s.begin > s.end
  <2>1. Halve(n, s) = s BY <1>3 DEF Halve
  <2>2. s.end - s.begin + 1 <= Len(name) - k BY <1>0, <1>1, <1>3
  <2> QED BY <1>3, <2>1, <2>2 DEF Narrowed
<1>4. CASE ~s.found /\ ~(s.begin > s.end)
  <2> PICK b, e, mid : b = s.begin /\ e = s.end /\ mid = ((b - 1) + (e - 1)) \div 2 + 1
    OBVIOUS
  <2>1. b \in Int /\ e \in Int /\ 1 <= b /\ b <= e /\ e <= Len(name) BY <1>1, <1>4
  <2>2. mid \in Int /\ b <= mid /\ mid <= e BY <2>1, Middle
  <2>3. mid \in 1..Len(name) BY <2>1, <2>2, <1>0
  <2>4. /\ e - b + 1 <= Len(name) - (k - 1)
        /\ \A i \in 1..Len(name) : /\ i < b => name[i].name < n
                                   /\ e < i => n < name[i].name
    BY <1>4 DEF Narrowed
  <2>5. \A i \in 1..Len(name) : /\ i < mid => name[i].name < name[mid].name
                                /\ mid < i => name[mid].name < name[i].name
    BY <2>3 DEF Sorted
  <2>6. name[mid].name \in Int BY <2>3, <1>0
  <2>a. PICK L \in Nat : L = Len(name) BY <1>0
  <2>b. k \in Int /\ e <= L /\ e - b + 1 <= L - (k - 1) BY <2>1, <2>4, <2>a
  <2>7. CASE name[mid].name = n
    <3>1. PICK r : r = [begin |-> mid, end |-> e, found |-> TRUE] OBVIOUS
    <3>2. Halve(n, s) = r BY <1>4, <2>7, <3>1 DEF Halve
    <3>3. r \in Interval /\ r.begin = mid /\ r.end = e /\ r.found BY <2>1, <2>2, <3>1 DEF Interval
    <3>4. 1 <= mid /\ mid <= Len(name) /\ mid <= e + 1 BY <2>1, <2>2, <2>3
    <3> QED BY <2>1, <2>7, <3>2, <3>3, <3>4 DEF Narrowed
  <2>8. CASE name[mid].name < n
    <3>1. PICK r : r = [begin |-> mid + 1, end |-> e, found |-> FALSE] OBVIOUS
    <3>2. Halve(n, s) = r BY <1>4, <2>6, <2>8, <3>1 DEF Halve
    <3>3. r \in Interval /\ r.begin = mid + 1 /\ r.end = e /\ ~r.found
      BY <2>1, <2>2, <3>1 DEF Interval
    <3>4. 1 <= mid + 1 /\ mid + 1 <= e + 1 /\ e - (mid + 1) + 1 <= Len(name) - k
      <4>1. 1 <= mid + 1 /\ mid + 1 <= e + 1 BY <2>1, <2>2
      <4>2. e - (mid + 1) + 1 <= L - k BY <2>1, <2>2, <2>b
      <4> QED BY <4>1, <4>2, <2>a
    <3>5. \A i \in 1..Len(name) : /\ i < mid + 1 => name[i].name < n
                                  /\ e < i => n < name[i].name
      <4> SUFFICES ASSUME NEW i \in 1..Len(name), i < mid + 1 PROVE name[i].name < n BY <2>4
      <4>1. i = mid \/ i < mid BY <2>2
      <4>2. name[i].name \in Int BY <1>0
      <4> QED BY <4>1, <4>2, <2>5, <2>6, <2>8
    <3> QED BY <2>1, <3>2, <3>3, <3>4, <3>5 DEF Narrowed
  <2>9. CASE n < name[mid].name
    <3>1. PICK r : r = [begin |-> b, end |-> mid - 1, found |-> FALSE] OBVIOUS
    <3>2. Halve(n, s) = r BY <1>4, <2>6, <2>9, <3>1 DEF Halve
    <3>3. r \in Interval /\ r.begin = b /\ r.end = mid - 1 /\ ~r.found
      BY <2>1, <2>2, <3>1 DEF Interval
    <3>4. mid - 1 <= Len(name) /\ b <= (mid - 1) + 1 /\ (mid - 1) - b + 1 <= Len(name) - k
      <4>1. mid - 1 <= L /\ b <= (mid - 1) + 1 BY <2>1, <2>2, <2>b
      <4>2. (mid - 1) - b + 1 <= L - k BY <2>1, <2>2, <2>b
      <4> QED BY <4>1, <4>2, <2>a
    <3>5. \A i \in 1..Len(name) : /\ i < b => name[i].name < n
                                  /\ mid - 1 < i => n < name[i].name
      <4> SUFFICES ASSUME NEW i \in 1..Len(name), mid - 1 < i PROVE n < name[i].name BY <2>4
      <4>1. i = mid \/ mid < i BY <2>2
      <4>2. name[i].name \in Int BY <1>0
      <4> QED BY <4>1, <4>2, <2>5, <2>6, <2>9
    <3> QED BY <2>1, <3>2, <3>3, <3>4, <3>5 DEF Narrowed
  <2> QED BY <2>6, <2>7, <2>8, <2>9
<1> QED BY <1>1, <1>2, <1>3, <1>4

\* findname and the search of _insert_name meet the name if it is there, and
\* the place where it belongs otherwise.
LEMMA SearchRight ==
    ASSUME name \in Seq(Record), Sorted(name), NEW n \in Int
    PROVE  /\ Search(n).found \in BOOLEAN /\ Search(n).begin \in 1..(Len(name) + 1)
           /\ Search(n).found => /\ Search(n).begin \in 1..Len(name)
                                 /\ name[Search(n).begin].name = n
           /\ ~Search(n).found =>
                 \A i \in 1..Len(name) : /\ i < Search(n).begin => name[i].name < n
                                         /\ Search(n).begin <= i => n < name[i].name
<1>0. Len(name) \in Nat OBVIOUS
<1>1. PICK f : /\ f[0] = [begin |-> 1, end |-> Len(name), found |-> FALSE]
               /\ \A i \in 1..Len(name) : f[i] = Halve(n, f[i - 1])
               /\ Search(n) = f[Len(name)]
  BY <1>0, SearchRounds
<1> DEFINE T == {i \in 0..Len(name) : ~Narrowed(n, f[i], i)}
<1>2. T = {}
  <2> SUFFICES ASSUME T # {} PROVE FALSE OBVIOUS
  <2>1. T \in SUBSET Nat BY <1>0
  <2>2. PICK m \in T : \A k \in T : m <= k
    <3> HIDE DEF T
    <3> QED BY <2>1, LeastElement
  <2>3. m \in 0..Len(name) /\ ~Narrowed(n, f[m], m) OBVIOUS
  <2>4. m # 0
    <3>1. PICK s : s = [begin |-> 1, end |-> Len(name), found |-> FALSE] OBVIOUS
    <3>2. s \in Interval /\ s.begin = 1 /\ s.end = Len(name) /\ ~s.found
      BY <1>0, <3>1 DEF Interval
    <3>3. Len(name) <= Len(name) /\ 1 <= Len(name) + 1 /\ Len(name) - 1 + 1 <= Len(name) - 0
      BY <1>0
    <3>4. \A i \in 1..Len(name) : ~(i < 1) /\ ~(Len(name) < i) BY <1>0
    <3>5. Narrowed(n, s, 0) BY <3>2, <3>3, <3>4 DEF Narrowed
    <3> QED BY <1>1, <2>3, <3>1, <3>5
  <2>5. m - 1 \in 0..Len(name) /\ m \in 1..Len(name) /\ ~(m <= m - 1) BY <2>3, <2>4, <1>0
  <2>6. Narrowed(n, f[m - 1], m - 1) BY <2>2, <2>5
  <2>7. Narrowed(n, Halve(n, f[m - 1]), m) BY <2>5, <2>6, HalveRight
  <2> QED BY <2>3, <2>5, <2>7, <1>1
<1>3. PICK s : s = Search(n) OBVIOUS
<1>4. Narrowed(n, s, Len(name))
  <2>1. Len(name) \in 0..Len(name) BY <1>0
  <2> QED BY <1>1, <1>2, <1>3, <2>1
<1>5. /\ s.begin \in Int /\ s.end \in Int /\ s.found \in BOOLEAN
      /\ 1 <= s.begin /\ s.end <= Len(name) /\ s.begin <= s.end + 1
  BY <1>4 DEF Narrowed, Interval
<1>6. ASSUME s.found PROVE s.begin \in 1..Len(name) /\ name[s.begin].name = n
  BY <1>0, <1>4, <1>5, <1>6 DEF Narrowed
<1>7. ASSUME ~s.found, NEW i \in 1..Len(name)
      PROVE  (i < s.begin => name[i].name < n) /\ (s.begin <= i => n < name[i].name)
  <2>1. s.end - s.begin + 1 <= 0 BY <1>0, <1>4, <1>7 DEF Narrowed
  <2>2. s.begin <= i => s.end < i BY <1>5, <2>1
  <2> QED BY <1>4, <1>7, <2>2 DEF Narrowed
<1>8. s.begin \in 1..(Len(name) + 1) BY <1>0, <1>5
<1> QED BY <1>3, <1>5, <1>6, <1>7, <1>8

-----------------------------------------------------------------------------
(* The names, operation by operation.                                      *)

Inserted(t, s, i, e) ==
    /\ t \in Seq(Record) /\ Len(t) = Len(s) + 1
    /\ \A j \in 1..(Len(s) + 1) :
          t[j] = IF j < i THEN s[j] ELSE IF j = i THEN e ELSE s[j - 1]

\* _insert_name moves the names behind the new one up by one.
LEMMA InsertAtRight ==
    ASSUME NEW s \in Seq(Record), NEW i \in 1..(Len(s) + 1), NEW e \in Record
    PROVE  Inserted(InsertAt(s, i, e), s, i, e)
<1>0. Len(s) \in Nat /\ i \in Int /\ 1 <= i /\ i <= Len(s) + 1 OBVIOUS
<1>1. PICK a : a = SubSeq(s, 1, i - 1) OBVIOUS
<1>2. PICK b : b = SubSeq(s, i, Len(s)) OBVIOUS
<1>3. a \in Seq(Record) /\ Len(a) = i - 1 /\ \A j \in 1..(i - 1) : a[j] = s[j] BY <1>0, <1>1
<1>4. /\ b \in Seq(Record) /\ Len(b) = Len(s) - i + 1
      /\ \A j \in 1..(Len(s) - i + 1) : b[j] = s[i + j - 1]
  BY <1>0, <1>2
<1>5. PICK c : c = a \o <<e>> OBVIOUS
<1>6. /\ c \in Seq(Record) /\ Len(c) = i /\ c[i] = e
      /\ \A j \in 1..(i - 1) : c[j] = a[j]
  BY <1>0, <1>3, <1>5
<1>7. PICK t : t = c \o b OBVIOUS
<1>8. /\ t \in Seq(Record) /\ Len(t) = Len(s) + 1
      /\ \A j \in 1..i : t[j] = c[j]
      /\ \A j \in (i + 1)..(Len(s) + 1) : t[j] = b[j - i]
  BY <1>0, <1>4, <1>6, <1>7
<1>9. t = InsertAt(s, i, e) BY <1>1, <1>2, <1>5, <1>7 DEF InsertAt
<1>10. ASSUME NEW j \in 1..(Len(s) + 1)
       PROVE  t[j] = IF j < i THEN s[j] ELSE IF j = i THEN e ELSE s[j - 1]
  <2>1. CASE j < i
    <3>1. j \in 1..(i - 1) /\ j \in 1..i BY <1>0, <2>1
    <3> QED BY <2>1, <3>1, <1>3, <1>6, <1>8
  <2>2. CASE j = i
    <3>1. j \in 1..i /\ ~(j < i) BY <1>0, <2>2
    <3> QED BY <2>2, <3>1, <1>6, <1>8
  <2>3. CASE j > i
    <3>1. /\ j \in (i + 1)..(Len(s) + 1) /\ j - i \in 1..(Len(s) - i + 1)
          /\ i + (j - i) - 1 = j - 1 /\ ~(j < i) /\ j # i
      BY <1>0, <2>3
    <3>2. t[j] = b[j - i] BY <3>1, <1>8
    <3>3. b[j - i] = s[i + (j - i) - 1] BY <3>1, <1>4
    <3> QED BY <3>1, <3>2, <3>3
  <2> QED BY <1>0, <2>1, <2>2, <2>3
<1> QED BY <1>8, <1>9, <1>10 DEF Inserted

LEMMA NamesTyped ==
    ASSUME TypeOK, Named
    PROVE  /\ name \in Seq(Record) /\ Sorted(name) /\ Len(name) \in Nat /\ Len(name) <= nameCap
           /\ bound \in [Names -> Handles \cup {0}] /\ nameCap \in Nat \ {0}
           /\ DOMAIN name = 1..Len(name)
           /\ \A i \in 1..Len(name) : /\ name[i] \in Record
                                      /\ name[i].name \in Names /\ name[i].handle \in Handles
                                      /\ bound[name[i].name] = name[i].handle
                                      /\ name[i].handle # 0
           /\ \A n \in Names : bound[n] # 0 => \E i \in 1..Len(name) : name[i].name = n
           /\ Names \subseteq Int
<1>1. /\ name \in Seq(Record) /\ Len(name) <= nameCap
      /\ bound \in [Names -> Handles \cup {0}] /\ nameCap \in Nat \ {0}
  BY DEF TypeOK, Named, Record
<1>2. DOMAIN name = 1..Len(name) /\ Len(name) \in Nat BY <1>1
<1>3. \A i \in 1..Len(name) : name[i] \in Record BY <1>1
<1>4. \A r \in Record : r.name \in Names /\ r.handle \in Handles BY DEF Record
<1>5. Sorted(name) BY <1>2 DEF Named, Sorted
<1>6. \A i \in 1..Len(name) : bound[name[i].name] = name[i].handle /\ name[i].handle # 0
  BY <1>2 DEF Named
<1>7. \A n \in Names : bound[n] # 0 => \E i \in 1..Len(name) : name[i].name = n
  BY <1>2 DEF Named
<1>8. Names \subseteq Int BY HandleAssumption
<1> QED BY <1>1, <1>2, <1>3, <1>4, <1>5, <1>6, <1>7, <1>8

\* The other way round, for the next state.
LEMMA NamesFrom ==
    ASSUME NEW s, name' = s, s \in Seq(Record), Sorted(s), Len(s) <= nameCap',
           bound' \in [Names -> Handles \cup {0}], nameCap' \in Nat \ {0},
           \A i \in 1..Len(s) : bound'[s[i].name] = s[i].handle /\ s[i].handle # 0,
           \A n \in Names : bound'[n] # 0 => \E i \in 1..Len(s) : s[i].name = n
    PROVE  NameTypes' /\ Named'
<1>1. NameTypes' BY DEF NameTypes, Record
<1>2. DOMAIN s = 1..Len(s) OBVIOUS
<1>3. Named' BY <1>2 DEF Named, Sorted
<1> QED BY <1>1, <1>3

LEMMA RetireNames ==
    ASSUME TypeOK, Named, NEW h, RetireEffect(h)
    PROVE  NameTypes' /\ Named'
<1>0. /\ name \in Seq(Record) /\ Sorted(name) /\ Len(name) \in Nat /\ Len(name) <= nameCap
      /\ bound \in [Names -> Handles \cup {0}] /\ nameCap \in Nat \ {0}
      /\ \A i \in 1..Len(name) : /\ name[i].name \in Names
                                 /\ bound[name[i].name] = name[i].handle
                                 /\ name[i].handle # 0
      /\ \A n \in Names : bound[n] # 0 => \E i \in 1..Len(name) : name[i].name = n
  BY NamesTyped
<1>1. CASE Grab(h) = NULL
  <2>1. UNCHANGED <<name, nameCap, bound>> BY <1>1 DEF RetireEffect, nameVars
  <2> QED BY <1>0, <2>1, NamesFrom
<1>2. CASE Grab(h) # NULL
  <2>1. /\ name' = Remaining(h) /\ UNCHANGED nameCap
        /\ bound' = [n \in Names |-> IF bound[n] = h THEN 0 ELSE bound[n]]
    BY <1>2 DEF RetireEffect
  <2>2. PICK s : s = Remaining(h) OBVIOUS
  <2>3. KeptSoFar(s, Len(name), h) BY <1>0, <2>2, RemainingRight
  <2>4. /\ s \in Seq(Record) /\ Len(s) <= Len(name) /\ Sorted(s)
        /\ \A j \in 1..Len(s) : \E k \in 1..Len(name) : s[j] = name[k] /\ name[k].handle # h
        /\ \A k \in 1..Len(name) : name[k].handle # h => \E j \in 1..Len(s) : s[j] = name[k]
    BY <2>3, Zenon DEF KeptSoFar
  <2>5. \A n \in Names : bound'[n] = IF bound[n] = h THEN 0 ELSE bound[n] BY <2>1
  <2>6. bound' \in [Names -> Handles \cup {0}] BY <2>1, <1>0
  <2>7. Len(s) <= nameCap' /\ nameCap' \in Nat \ {0}
    <3>1. Len(s) \in Nat BY <2>4
    <3> QED BY <3>1, <2>1, <2>4, <1>0
  <2>8. ASSUME NEW j \in 1..Len(s) PROVE bound'[s[j].name] = s[j].handle /\ s[j].handle # 0
    <3>1. PICK k \in 1..Len(name) : s[j] = name[k] /\ name[k].handle # h BY <2>4
    <3> QED BY <3>1, <2>5, <1>0
  <2>9. ASSUME NEW n \in Names, bound'[n] # 0 PROVE \E j \in 1..Len(s) : s[j].name = n
    <3>1. bound[n] # h /\ bound[n] # 0 BY <2>5, <2>9
    <3>2. PICK k \in 1..Len(name) : name[k].name = n BY <3>1, <1>0
    <3>3. name[k].handle # h BY <3>1, <3>2, <1>0
    <3> QED BY <3>2, <3>3, <2>4
  <2> QED BY <2>1, <2>2, <2>4, <2>6, <2>7, <2>8, <2>9, NamesFrom
<1> QED BY <1>1, <1>2

LEMMA NameNames ==
    ASSUME TypeOK, Named, NEW n \in Names, NEW h \in Handles, h # 0, NameHandle(n, h)
    PROVE  NameTypes' /\ Named'
<1>0. /\ name \in Seq(Record) /\ Sorted(name) /\ Len(name) \in Nat /\ Len(name) <= nameCap
      /\ bound \in [Names -> Handles \cup {0}] /\ nameCap \in Nat \ {0}
      /\ Names \subseteq Int
      /\ \A i \in 1..Len(name) : /\ name[i].name \in Names
                                 /\ bound[name[i].name] = name[i].handle
                                 /\ name[i].handle # 0
      /\ \A m \in Names : bound[m] # 0 => \E i \in 1..Len(name) : name[i].name = m
  BY NamesTyped
<1>1. PICK p, e : p = Search(n).begin /\ e = [name |-> n, handle |-> h] OBVIOUS
<1>2. /\ ~Search(n).found
      /\ name' = InsertAt(name, p, e)
      /\ nameCap' = (IF Len(name) >= nameCap THEN 2 * nameCap ELSE nameCap)
      /\ bound' = [bound EXCEPT ![n] = IF @ = 0 THEN h ELSE @]
  BY <1>1 DEF NameHandle
<1>3. n \in Int BY <1>0
<1>4. /\ p \in 1..(Len(name) + 1)
      /\ \A i \in 1..Len(name) : /\ i < p => name[i].name < n
                                 /\ p <= i => n < name[i].name
  BY <1>0, <1>1, <1>2, <1>3, SearchRight
<1>5. e \in Record /\ e.name = n /\ e.handle = h BY <1>1 DEF Record
<1>6. PICK s : s = InsertAt(name, p, e) OBVIOUS
<1>7. /\ s \in Seq(Record) /\ Len(s) = Len(name) + 1
      /\ \A j \in 1..(Len(name) + 1) :
            s[j] = IF j < p THEN name[j] ELSE IF j = p THEN e ELSE name[j - 1]
  <2>1. Inserted(InsertAt(name, p, e), name, p, e) BY <1>0, <1>4, <1>5, InsertAtRight
  <2> QED BY <1>6, <2>1 DEF Inserted
<1>8. \A i \in 1..Len(name) : name[i].name \in Int /\ name[i].name # n
  <2> SUFFICES ASSUME NEW i \in 1..Len(name) PROVE name[i].name \in Int /\ name[i].name # n
    OBVIOUS
  <2>1. name[i].name \in Int BY <1>0
  <2>2. i < p \/ p <= i BY <1>4
  <2> QED BY <2>1, <2>2, <1>3, <1>4
<1>9. bound[n] = 0 BY <1>0, <1>8
<1>10. /\ bound' \in [Names -> Handles \cup {0}] /\ bound'[n] = h
       /\ \A m \in Names \ {n} : bound'[m] = bound[m]
  BY <1>0, <1>2, <1>9
<1>11. Len(s) <= nameCap' /\ nameCap' \in Nat \ {0}
  <2>1. nameCap \in Nat /\ nameCap >= 1 /\ Len(name) \in Nat /\ Len(name) <= nameCap BY <1>0
  <2> QED BY <1>2, <1>7, <2>1
<1>12. \A j \in 1..Len(s) : j # p => \E i \in 1..Len(name) :
          s[j] = name[i] /\ (j < p => i = j) /\ (p < j => i = j - 1)
  <2> SUFFICES ASSUME NEW j \in 1..Len(s), j # p
               PROVE  \E i \in 1..Len(name) :
                         s[j] = name[i] /\ (j < p => i = j) /\ (p < j => i = j - 1)
    OBVIOUS
  <2>1. CASE j < p
    <3>1. j \in 1..Len(name) BY <2>1, <1>0, <1>4, <1>7
    <3>2. s[j] = name[j] BY <2>1, <1>7
    <3>3. ~(p < j) BY <2>1, <1>4
    <3> QED BY <3>1, <3>2, <3>3
  <2>2. CASE p < j
    <3>1. j - 1 \in 1..Len(name) /\ ~(j < p) BY <2>2, <1>0, <1>4, <1>7
    <3>2. s[j] = name[j - 1] BY <3>1, <1>7
    <3> QED BY <3>1, <3>2
  <2> QED BY <2>1, <2>2, <1>4
<1>13. p \in 1..Len(s) /\ s[p] = e BY <1>0, <1>4, <1>7
<1>14. ASSUME NEW j \in 1..Len(s) PROVE bound'[s[j].name] = s[j].handle /\ s[j].handle # 0
  <2>1. CASE j = p BY <2>1, <1>13, <1>5, <1>10
  <2>2. CASE j # p
    <3>1. PICK i \in 1..Len(name) : s[j] = name[i] BY <2>2, <1>12
    <3> QED BY <3>1, <1>0, <1>8, <1>10
  <2> QED BY <2>1, <2>2
<1>15. ASSUME NEW m \in Names, bound'[m] # 0 PROVE \E j \in 1..Len(s) : s[j].name = m
  <2>1. CASE m = n BY <2>1, <1>13, <1>5
  <2>2. CASE m # n
    <3>1. PICK i \in 1..Len(name) : name[i].name = m BY <2>2, <1>15, <1>10, <1>0
    <3>2. CASE i < p
      <4>1. i \in 1..(Len(name) + 1) BY <1>0
      <4> QED BY <3>1, <3>2, <4>1, <1>7
    <3>3. CASE ~(i < p)
      <4>1. /\ i + 1 \in 1..(Len(name) + 1) /\ ~(i + 1 < p) /\ i + 1 # p /\ (i + 1) - 1 = i
        BY <1>0, <1>4, <3>3
      <4>2. s[i + 1] = name[i] BY <4>1, <1>7
      <4> QED BY <3>1, <4>1, <4>2, <1>7
    <3> QED BY <3>2, <3>3
  <2> QED BY <2>1, <2>2
<1>16. ASSUME NEW a \in 1..Len(s), NEW b \in 1..Len(s), a < b PROVE s[a].name < s[b].name
  <2>0. a \in Int /\ b \in Int /\ p \in Int BY <1>4
  <2>1. CASE a = p
    <3>1. PICK i \in 1..Len(name) : s[b] = name[i] /\ i = b - 1 BY <1>12, <1>16, <2>0, <2>1
    <3>2. p <= i BY <3>1, <1>16, <2>0, <2>1
    <3> QED BY <2>1, <3>1, <3>2, <1>4, <1>5, <1>13
  <2>2. CASE b = p
    <3>1. PICK i \in 1..Len(name) : s[a] = name[i] /\ i = a BY <1>12, <1>16, <2>0, <2>2
    <3> QED BY <2>2, <3>1, <1>4, <1>5, <1>13, <1>16
  <2>3. CASE a # p /\ b # p
    <3>1. PICK i \in 1..Len(name) : s[a] = name[i] /\ (a < p => i = a) /\ (p < a => i = a - 1)
      BY <1>12, <2>3
    <3>2. PICK j \in 1..Len(name) : s[b] = name[j] /\ (b < p => j = b) /\ (p < b => j = b - 1)
      BY <1>12, <2>3
    <3>3. i < j BY <1>16, <2>0, <2>3, <3>1, <3>2
    <3> QED BY <3>1, <3>2, <3>3, <1>0 DEF Sorted
  <2> QED BY <2>1, <2>2, <2>3
<1>17. Sorted(s) BY <1>16 DEF Sorted
<1> QED BY <1>2, <1>6, <1>7, <1>10, <1>11, <1>14, <1>15, <1>17, NamesFrom

\* The names are left alone.
LEMMA SameNames == ASSUME TypeOK, Named, UNCHANGED nameVars PROVE NameTypes' /\ Named'
<1>1. UNCHANGED <<name, nameCap, bound>> BY DEF nameVars
<1> QED BY <1>1, NamesTyped, NamesFrom

LEMMA NextNames == ASSUME TypeOK, Named, [Next]_vars PROVE NameTypes' /\ Named'
<1>1. ASSUME UNCHANGED nameVars PROVE NameTypes' /\ Named' BY <1>1, SameNames
<1>2. ASSUME NEW h, RetireEffect(h) PROVE NameTypes' /\ Named' BY <1>2, RetireNames
<1>3. ASSUME NEW n \in Names, NEW c \in Ctxs, handle[c] # 0, NameHandle(n, handle[c])
      PROVE  NameTypes' /\ Named'
  <2>1. PICK h : h = handle[c] OBVIOUS
  <2>2. h \in Handles /\ h # 0 /\ NameHandle(n, h) BY <1>3, <2>1 DEF TypeOK
  <2> QED BY <2>2, NameNames
<1>4. ASSUME \/ \E c \in Ctxs : Register(c) \/ StoreHandle(c)
             \/ RetireAll \/ ReadSlot \/ EndPass \/ UNCHANGED vars
      PROVE  UNCHANGED nameVars
  BY <1>4 DEF Register, StoreHandle, RetireAll, ReadSlot, EndPass, vars, nameVars
<1>5. ASSUME NEW h, Retire(h) PROVE NameTypes' /\ Named' BY <1>2, <1>5 DEF Retire
<1>6. ASSUME RetireSlot PROVE NameTypes' /\ Named'
  <2>1. PICK h : h = scan.handle /\ RetireEffect(h) BY <1>6 DEF RetireSlot
  <2> QED BY <1>2, <2>1
<1> QED BY <1>1, <1>3, <1>4, <1>5, <1>6 DEF Next

-----------------------------------------------------------------------------
(* The invariant.                                                          *)

LEMMA TypesSplit == TypeOK <=> TableTypes /\ NameTypes
  BY DEF TypeOK, TableTypes, NameTypes

LEMMA InitInv == Init => Inv
<1> SUFFICES ASSUME Init PROVE Inv OBVIOUS
<1>0. /\ slotSize = DefaultSize
      /\ slot = [i \in 0..(DefaultSize - 1) |-> NULL]
      /\ handleIndex = 1 /\ name = << >> /\ nameCap = DefaultCap
      /\ handle = [c \in Ctxs |-> 0] /\ given = [c \in Ctxs |-> -1]
      /\ asserted = FALSE
      /\ scan = [pc |-> "off", i |-> 0, some |-> FALSE, handle |-> 0]
      /\ bound = [n \in Names |-> 0] /\ targets = {}
  BY DEF Init
<1>1. DefaultSize \in Nat /\ DefaultSize > 0 BY HandleAssumption, PowersPositive
<1>2. PICK p \in Powers : Space = DefaultSize * p BY HandleAssumption
<1>3. Space \in Nat /\ Space > 0 BY <1>1, <1>2, Sizes
<1>4. TableTypes
  <2>1. slotSize \in Nat \ {0} /\ \E q \in Powers : Space = slotSize * q BY <1>0, <1>1, <1>2
  <2>2. slot \in [Slots -> Ctxs \cup {NULL}] BY <1>0 DEF Slots
  <2>3. handleIndex \in 1..Space BY <1>0, <1>3
  <2>4. handle \in [Ctxs -> Handles \cup {0}] /\ given \in [Ctxs -> Handles \cup {-1}]
    BY <1>0
  <2>5. scan \in [pc : {"off", "read", "retire"}, i : 0..slotSize,
                  some : BOOLEAN, handle : Handles \cup {0}]
    BY <1>0, <1>1
  <2>6. asserted \in BOOLEAN /\ targets \subseteq Ctxs BY <1>0
  <2> QED BY <2>1, <2>2, <2>3, <2>4, <2>5, <2>6 DEF TableTypes
<1>5. nameCap \in Nat \ {0} BY <1>0, HandleAssumption
<1>6. NameTypes BY <1>0, <1>5 DEF NameTypes
<1>7. Placed
  <2>1. \A i \in Slots, c \in Ctxs : slot[i] # c BY <1>0, HandleAssumption DEF Slots
  <2> QED BY <1>0, <2>1 DEF Placed
<1>8. Scanning BY <1>0 DEF Scanning
<1>9. Named
  <2>1. DOMAIN name = {} BY <1>0
  <2> QED BY <1>0, <1>5, <2>1 DEF Named
<1> QED BY <1>4, <1>6, <1>7, <1>8, <1>9, TypesSplit DEF Inv

LEMMA NextInv == ASSUME Inv, [Next]_vars, [QuietStep]_vars PROVE Inv'
<1>a. TypeOK /\ Named BY DEF Inv
<1>b. NameTypes' /\ Named' BY <1>a, NextNames
<1> SUFFICES TableTypes' /\ Placed' /\ Scanning'
  <2>1. TypeOK' <=> TableTypes' /\ NameTypes' BY DEF TypeOK, TableTypes, NameTypes
  <2> QED BY <1>b, <2>1 DEF Inv
<1>0. CASE UNCHANGED vars
  <2>1. UNCHANGED <<tableVars, scanVars>> BY <1>0 DEF vars, tableVars, scanVars
  <2> QED BY <2>1, OtherTable
<1>1. ASSUME NEW c \in Ctxs, Register(c) PROVE TableTypes' /\ Placed' /\ Scanning'
  <2>1. QuietStep BY DEF QuietStep, vars
  <2> QED BY <1>1, <2>1, RegisterTable DEF QuietStep
<1>2. ASSUME NEW c \in Ctxs, StoreHandle(c) PROVE TableTypes' /\ Placed' /\ Scanning'
  BY <1>2, StoreTable
<1>3. ASSUME NEW h \in Handles, Retire(h) PROVE TableTypes' /\ Placed' /\ Scanning'
  BY <1>3, RetireTable
<1>4. ASSUME NEW n, NEW h, NameHandle(n, h) PROVE TableTypes' /\ Placed' /\ Scanning'
  <2>1. UNCHANGED <<tableVars, scanVars>> BY <1>4 DEF NameHandle
  <2> QED BY <2>1, OtherTable
<1>5. ASSUME RetireAll PROVE TableTypes' /\ Placed' /\ Scanning'
  <2>1. /\ UNCHANGED tableVars /\ targets' = Findables
        /\ scan' = [pc |-> "read", i |-> 0, some |-> FALSE, handle |-> 0]
    BY <1>5 DEF RetireAll
  <2> QED BY <2>1, PassBegins
<1>6. ASSUME ReadSlot PROVE TableTypes' /\ Placed' /\ Scanning' BY <1>6, ReadTable
<1>7. ASSUME RetireSlot PROVE TableTypes' /\ Placed' /\ Scanning' BY <1>7, RetireSlotTable
<1>8. ASSUME EndPass PROVE TableTypes' /\ Placed' /\ Scanning' BY <1>8, EndTable
<1> QED BY <1>0, <1>1, <1>2, <1>3, <1>4, <1>5, <1>6, <1>7, <1>8 DEF Next

LEMMA AlwaysInv == Spec /\ QuietGrowth => []Inv
<1>1. Init => Inv BY InitInv
<1>2. Inv /\ [Next]_vars /\ [QuietStep]_vars => Inv' BY NextInv
<1> QED BY <1>1, <1>2, PTL DEF Spec, QuietGrowth

-----------------------------------------------------------------------------
(* What the storage promises.                                              *)

\* One thread at a time in ztask_context_new: nobody is in there when the table
\* doubles, for it is that thread that doubles it.
LEMMA OneLauncherIsQuiet == ASSUME MaxLaunching = 1 PROVE Spec => QuietGrowth
<1>1. ASSUME [Next]_vars PROVE [QuietStep]_vars
  <2>1. ASSUME NEW c \in Ctxs, Register(c) PROVE QuietStep
    <3>1. Cardinality(Launching) < 1 BY <2>1 DEF Register
    <3>2. IsFiniteSet(Launching)
      <4>1. Launching \subseteq Ctxs /\ IsFiniteSet(Ctxs) BY HandleAssumption DEF Launching
      <4> QED BY <4>1, FS_Subset
    <3>3. Cardinality(Launching) \in Nat BY <3>2, FS_CardinalityType
    <3>4. Cardinality(Launching) = 0 BY <3>1, <3>3
    <3>5. Launching = {} BY <3>2, <3>4, FS_EmptySet
    <3> QED BY <3>5 DEF QuietStep
  <2>2. ASSUME NEW c \in Ctxs, StoreHandle(c) PROVE slotSize' = slotSize
    BY <2>2 DEF StoreHandle
  <2>3. ASSUME NEW h, RetireEffect(h) PROVE slotSize' = slotSize
    BY <2>3 DEF RetireEffect, tableVars
  <2>4. ASSUME NEW n, NEW h, NameHandle(n, h) PROVE slotSize' = slotSize
    BY <2>4 DEF NameHandle, tableVars
  <2>5. ASSUME RetireAll \/ ReadSlot \/ EndPass PROVE slotSize' = slotSize
    BY <2>5 DEF RetireAll, ReadSlot, EndPass, tableVars
  <2>6. ASSUME NEW h, Retire(h) PROVE slotSize' = slotSize BY <2>3, <2>6 DEF Retire
  <2>7. ASSUME RetireSlot PROVE slotSize' = slotSize BY <2>3, <2>7 DEF RetireSlot
  <2> QED BY <1>1, <2>1, <2>2, <2>4, <2>5, <2>6, <2>7 DEF Next, QuietStep
<1> QED BY <1>1, PTL DEF Spec, QuietGrowth

\* ztask_handle_grab finds every service by its handle, and each handle leads to
\* one service.
THEOREM ServicesAreFound == Spec /\ QuietGrowth => []Findable
<1>1. Inv => Findable
  <2> SUFFICES ASSUME Inv PROVE Findable OBVIOUS
  <2>0. TypeOK /\ Placed BY DEF Inv
  <2>1. ASSUME NEW c \in Findables
        PROVE  Grab(handle[c]) = c /\ Cardinality({i \in Slots : slot[i] = c}) = 1
    <3>1. /\ Grab(handle[c]) = c
          /\ handle[c] % slotSize \in Slots /\ slot[handle[c] % slotSize] = c
          /\ \A i \in Slots : slot[i] = c => i = handle[c] % slotSize
      BY <2>0, Found
    <3>2. {i \in Slots : slot[i] = c} = {handle[c] % slotSize} BY <3>1
    <3> QED BY <3>1, <3>2, FS_Singleton
  <2> QED BY <2>0, <2>1 DEF Findable
<1> QED BY <1>1, AlwaysInv, PTL

\* assert(new_slot[hash] == NULL) holds in a doubling that is quiet: the places of
\* contexts that have their handles differ.
LEMMA DoublingIsSafe == Spec /\ QuietGrowth => []NewSlotFree
<1>1. Inv => NewSlotFree BY DEF Inv, Placed, NewSlotFree
<1> QED BY <1>1, AlwaysInv, PTL

\* ztask_handle_retireall returns only when no service is left of those that were
\* there when its last pass began.
THEOREM NobodySurvivesRetireAll == Spec /\ QuietGrowth => RetireAllComplete
<1>1. ASSUME Inv, [Next]_vars PROVE [scan.pc = "read" /\ scan'.pc = "off" => targets = {}]_vars
  <2> SUFFICES ASSUME Next, scan.pc = "read", scan'.pc = "off" PROVE targets = {}
    BY <1>1
  <2>1. ASSUME UNCHANGED scan PROVE FALSE BY <2>1
  <2>2. CASE EndPass
    <3>1. ~scan.some BY <2>2 DEF EndPass
    <3> QED BY <1>1, <2>2, <3>1, EndTable
  <2>3. ASSUME ReadSlot PROVE FALSE
    <3>1. scan'.pc \in {"read", "retire"}
      <4>1. scan \in [pc : {"off", "read", "retire"}, i : 0..slotSize,
                      some : BOOLEAN, handle : Handles \cup {0}]
        BY <1>1 DEF Inv, TypeOK
      <4> QED BY <4>1, <2>3 DEF ReadSlot
    <3> QED BY <3>1
  <2>4. ASSUME RetireSlot PROVE FALSE BY <2>4 DEF RetireSlot
  <2>5. ASSUME RetireAll PROVE FALSE BY <2>5 DEF RetireAll
  <2>6. ASSUME NEW c, Register(c) \/ StoreHandle(c) PROVE FALSE
    BY <2>1, <2>6 DEF Register, StoreHandle, scanVars
  <2>7. ASSUME NEW h, Retire(h) PROVE FALSE BY <2>1, <2>7 DEF Retire
  <2>8. ASSUME NEW n, NEW h, NameHandle(n, h) PROVE FALSE
    BY <2>1, <2>8 DEF NameHandle, scanVars
  <2> QED BY <2>2, <2>3, <2>4, <2>5, <2>6, <2>7, <2>8 DEF Next
<1> QED BY <1>1, AlwaysInv, PTL DEF Spec, RetireAllComplete

\* A program that launches services from one thread at a time needs no
\* hypothesis: its services are found, the assertion of register holds in every
\* doubling, and ztask_handle_retireall leaves nobody behind.
THEOREM OneLauncherIsSafe ==
    ASSUME MaxLaunching = 1
    PROVE  Spec => [](Findable /\ NewSlotFree) /\ RetireAllComplete
<1> QED BY OneLauncherIsQuiet, ServicesAreFound, DoublingIsSafe, NobodySurvivesRetireAll, PTL

-----------------------------------------------------------------------------
(* The names and the types do not depend on QuietGrowth.                   *)

Typed ==
    /\ TypeOK
    /\ scan.pc = "retire" => scan.i < slotSize
    /\ Named

LEMMA RegisterTypes ==
    ASSUME TypeOK, NEW c \in Ctxs, Register(c), scan.pc = "retire" => scan.i < slotSize
    PROVE  TableTypes' /\ (scan'.pc = "retire" => scan'.i < slotSize')
<1>0. /\ \/ /\ \E i \in Slots : slot[i] = NULL
            /\ Enter(c, slot, slotSize)
            /\ UNCHANGED asserted
         \/ /\ \A i \in Slots : slot[i] # NULL
            /\ 2 * slotSize <= Space
            /\ asserted' = GrowClashes
            /\ Enter(c, Grown, 2 * slotSize)
      /\ UNCHANGED <<scan, targets>>
  BY DEF Register, scanVars
<1>a. PICK n \in Nat \ {0} : n = slotSize BY DEF TypeOK
<1>b. /\ scan \in [pc : {"off", "read", "retire"}, i : 0..n,
                   some : BOOLEAN, handle : Handles \cup {0}]
      /\ targets \subseteq Ctxs
  BY <1>a DEF TypeOK
\* What is common to both branches.
<1>1. ASSUME NEW m \in Nat \ {0}, \E p \in Powers : Space = m * p, m = n \/ m = 2 * n,
             asserted' \in BOOLEAN, NEW tab \in [0..(m - 1) -> Ctxs \cup {NULL}],
             \E k \in 0..(m - 1) : tab[k] = NULL, Enter(c, tab, m)
      PROVE  TableTypes' /\ (scan'.pc = "retire" => scan'.i < slotSize')
  <2>1. PICK p \in Powers : Space = m * p BY <1>1
  <2>2. PICK k \in 0..(m - 1) : tab[k] = NULL BY <1>1
  <2>3. /\ slotSize' = m
        /\ slot' \in [0..(m - 1) -> Ctxs \cup {NULL}]
        /\ handleIndex' \in 1..Space
        /\ handle' \in [Ctxs -> Handles \cup {0}]
        /\ given' \in [Ctxs -> Handles \cup {-1}]
    BY <1>1, <2>1, <2>2, EnterKeeps
  <2>4. scan' \in [pc : {"off", "read", "retire"}, i : 0..slotSize',
                   some : BOOLEAN, handle : Handles \cup {0}]
    BY <1>0, <1>1, <1>b, <2>3
  <2>5. scan'.pc = "retire" => scan'.i < slotSize' BY <1>0, <1>1, <1>a, <1>b, <2>3
  <2>6. targets' \subseteq Ctxs BY <1>0, <1>b
  <2>7. TableTypes' BY <1>1, <2>1, <2>3, <2>4, <2>6 DEF TableTypes, Slots
  <2> QED BY <2>5, <2>7
<1>2. CASE \E i \in Slots : slot[i] = NULL
  <2>1. Enter(c, slot, n) /\ UNCHANGED asserted BY <1>0, <1>2, <1>a
  <2>2. /\ asserted' \in BOOLEAN /\ slot \in [0..(n - 1) -> Ctxs \cup {NULL}]
        /\ \E p \in Powers : Space = n * p
    BY <1>a, <2>1 DEF TypeOK, Slots
  <2>3. \E k \in 0..(n - 1) : slot[k] = NULL BY <1>2, <1>a DEF Slots
  <2> QED BY <1>1, <2>1, <2>2, <2>3
<1>3. CASE \A i \in Slots : slot[i] # NULL
  <2>1. /\ 2 * slotSize <= Space /\ asserted' = GrowClashes
        /\ Enter(c, Grown, 2 * slotSize)
    BY <1>0, <1>3
  <2>2. asserted' \in BOOLEAN BY <2>1 DEF GrowClashes
  <2>3. PICK m, tab : m = 2 * slotSize /\ tab = Grown OBVIOUS
  <2>4. /\ m \in Nat \ {0} /\ \E p \in Powers : Space = m * p
        /\ tab \in [0..(m - 1) -> Ctxs \cup {NULL}]
        /\ \E k \in 0..(m - 1) : tab[k] = NULL
    BY <1>3, <2>1, <2>3, GrownTyped
  <2>5. Enter(c, tab, m) /\ m = 2 * n BY <2>1, <2>3, <1>a
  <2> QED BY <1>1, <2>2, <2>4, <2>5
<1> QED BY <1>2, <1>3

LEMMA OtherTypes ==
    ASSUME TypeOK, scan.pc = "retire" => scan.i < slotSize, [Next]_vars
    PROVE  \/ \E c \in Ctxs : Register(c)
           \/ TableTypes' /\ (scan'.pc = "retire" => scan'.i < slotSize')
<1> DEFINE Scans == [pc : {"off", "read", "retire"}, i : 0..slotSize,
                     some : BOOLEAN, handle : Handles \cup {0}]
<1> DEFINE Goal == TableTypes' /\ (scan'.pc = "retire" => scan'.i < slotSize')
<1>0. /\ scan \in Scans /\ targets \subseteq Ctxs
      /\ slot \in [Slots -> Ctxs \cup {NULL}]
      /\ handle \in [Ctxs -> Handles \cup {0}]
      /\ given \in [Ctxs -> Handles \cup {-1}]
      /\ Findables \subseteq Ctxs
      /\ slotSize \in Nat /\ slotSize > 0
  BY DEF TypeOK, Findables, Stored
\* Steps that change neither slotSize, handle nor given.
<1>1. ASSUME UNCHANGED <<slotSize, handleIndex, handle, given, asserted>>,
             slot' \in [Slots -> Ctxs \cup {NULL}], targets' \subseteq Ctxs,
             scan' \in Scans, scan'.pc = "retire" => scan'.i < slotSize
      PROVE  Goal
  BY <1>1, TypesKept
<1>2. ASSUME NEW h, RetireEffect(h)
      PROVE  /\ UNCHANGED <<slotSize, handleIndex, handle, given, asserted>>
             /\ slot' \in [Slots -> Ctxs \cup {NULL}] /\ targets' \subseteq Ctxs
  <2>1. CASE Grab(h) = NULL
    <3>1. UNCHANGED <<slotSize, slot, handleIndex, handle, given, asserted, targets>>
      BY <1>2, <2>1 DEF RetireEffect, tableVars
    <3> QED BY <3>1, <1>0
  <2>2. CASE Grab(h) # NULL
    <3>1. /\ UNCHANGED <<slotSize, handleIndex, handle, given, asserted>>
          /\ slot' = [slot EXCEPT ![h % slotSize] = NULL]
          /\ targets' = targets \ {Grab(h)}
      BY <1>2, <2>2 DEF RetireEffect
    <3> QED BY <3>1, <1>0
  <2> QED BY <2>1, <2>2
<1>3. ASSUME UNCHANGED tableVars
      PROVE  /\ UNCHANGED <<slotSize, handleIndex, handle, given, asserted>>
             /\ slot' \in [Slots -> Ctxs \cup {NULL}]
  BY <1>0, <1>3 DEF tableVars
<1>4. ASSUME UNCHANGED tableVars, UNCHANGED scanVars PROVE Goal
  <2>1. UNCHANGED scan /\ UNCHANGED targets BY <1>4 DEF scanVars
  <2> QED BY <1>0, <1>1, <1>3, <1>4, <2>1
<1>5. ASSUME NEW c \in Ctxs, StoreHandle(c) PROVE Goal
  <2>1. /\ given[c] # -1
        /\ handle' = [handle EXCEPT ![c] = given[c]]
        /\ given' = [given EXCEPT ![c] = -1]
        /\ UNCHANGED <<slotSize, slot, handleIndex, asserted, scan, targets>>
    BY <1>5 DEF StoreHandle, scanVars
  <2>2. handle' \in [Ctxs -> Handles \cup {0}] /\ given' \in [Ctxs -> Handles \cup {-1}]
    BY <2>1, <1>0
  <2>3. /\ slotSize \in Nat \ {0} /\ \E p \in Powers : Space = slotSize * p
        /\ handleIndex \in 1..Space /\ asserted \in BOOLEAN
    BY DEF TypeOK
  <2>4. asserted' \in BOOLEAN BY <2>1, <2>3
  <2>5. /\ slotSize' \in Nat \ {0} /\ \E p \in Powers : Space = slotSize' * p
        /\ slot' \in [Slots' -> Ctxs \cup {NULL}]
        /\ handleIndex' \in 1..Space /\ targets' \subseteq Ctxs
    BY <1>0, <2>1, <2>3 DEF Slots
  <2>6. scan' \in [pc : {"off", "read", "retire"}, i : 0..slotSize',
                   some : BOOLEAN, handle : Handles \cup {0}]
    BY <1>0, <2>1
  <2>7. TableTypes' BY <2>2, <2>4, <2>5, <2>6 DEF TableTypes
  <2> QED BY <2>1, <2>7
<1>6. ASSUME NEW h, Retire(h) PROVE Goal
  <2>1. RetireEffect(h) /\ UNCHANGED scan BY <1>6 DEF Retire
  <2> QED BY <1>0, <1>1, <1>2, <2>1
<1>7. ASSUME NEW n, NEW h, NameHandle(n, h) PROVE Goal
  <2>1. UNCHANGED tableVars /\ UNCHANGED scanVars BY <1>7 DEF NameHandle
  <2> QED BY <1>4, <2>1
<1>8. ASSUME RetireAll \/ EndPass PROVE Goal
  <2>1. UNCHANGED tableVars BY <1>8 DEF RetireAll, EndPass
  <2>2. targets' = Findables \/ targets' = {} BY <1>8 DEF RetireAll, EndPass
  <2>3. \E q \in {"off", "read"} : scan' = [pc |-> q, i |-> 0, some |-> FALSE, handle |-> 0]
    BY <1>8 DEF RetireAll, EndPass
  <2>4. scan' \in Scans /\ scan'.pc # "retire" BY <2>3, <1>0
  <2>5. targets' \subseteq Ctxs BY <2>2, <1>0
  <2> QED BY <1>1, <1>3, <2>1, <2>4, <2>5
<1>9. ASSUME ReadSlot PROVE Goal
  <2> PICK c : c = slot[scan.i] OBVIOUS
  <2>1. /\ scan.pc = "read" /\ scan.i < slotSize
        /\ scan' = IF c = NULL \/ handle[c] = 0
                   THEN [scan EXCEPT !.i = @ + 1]
                   ELSE [scan EXCEPT !.pc = "retire", !.handle = handle[c]]
        /\ UNCHANGED tableVars /\ UNCHANGED targets
    BY <1>9 DEF ReadSlot, ScanEnd
  <2>2. scan.i \in Slots BY <2>1, <1>0 DEF Slots
  <2>3. c \in Ctxs \cup {NULL} BY <2>2, <1>0
  <2>4. scan' \in Scans /\ (scan'.pc = "retire" => scan'.i < slotSize)
    <3>1. CASE c = NULL \/ handle[c] = 0
      <4>1. scan' = [scan EXCEPT !.i = @ + 1] BY <2>1, <3>1
      <4> QED BY <4>1, <2>1, <1>0
    <3>2. CASE ~(c = NULL \/ handle[c] = 0)
      <4>1. scan' = [scan EXCEPT !.pc = "retire", !.handle = handle[c]] BY <2>1, <3>2
      <4>2. handle[c] \in Handles \cup {0} BY <3>2, <2>3, <1>0
      <4> QED BY <4>1, <4>2, <2>1, <1>0
    <3> QED BY <3>1, <3>2
  <2>5. targets' \subseteq Ctxs BY <2>1, <1>0
  <2> QED BY <1>1, <1>3, <2>1, <2>4, <2>5
<1>10. ASSUME RetireSlot PROVE Goal
  <2> PICK h : h = scan.handle OBVIOUS
  <2>1. /\ scan.pc = "retire" /\ RetireEffect(h)
        /\ scan' = [pc |-> "read", i |-> scan.i + 1, handle |-> 0,
                    some |-> scan.some \/ Grab(h) # NULL]
    BY <1>10 DEF RetireSlot
  <2>2. (scan.some \/ Grab(h) # NULL) \in BOOLEAN BY <1>0
  <2>3. scan.i + 1 \in 0..slotSize BY <2>1, <1>0
  <2>4. 0 \in Handles \cup {0} OBVIOUS
  <2>5. scan' \in Scans /\ scan'.pc = "read" BY <2>1, <2>2, <2>3, <2>4
  <2> QED BY <1>1, <1>2, <2>1, <2>5
<1>11. CASE UNCHANGED vars
  <2>1. UNCHANGED tableVars /\ UNCHANGED scanVars BY <1>11 DEF vars, tableVars, scanVars
  <2> QED BY <1>4, <2>1
<1> QED BY <1>5, <1>6, <1>7, <1>8, <1>9, <1>10, <1>11 DEF Next

LEMMA AlwaysTyped == Spec => []Typed
<1>1. Init => Typed BY InitInv DEF Inv, Scanning, Typed
<1>2. ASSUME Typed, [Next]_vars PROVE Typed'
  <2>0. TypeOK /\ Named /\ (scan.pc = "retire" => scan.i < slotSize) BY <1>2 DEF Typed
  <2>1. NameTypes' /\ Named' BY <1>2, <2>0, NextNames
  <2>2. TableTypes' /\ (scan'.pc = "retire" => scan'.i < slotSize')
    <3>1. CASE \E c \in Ctxs : Register(c) BY <2>0, <3>1, RegisterTypes
    <3>2. CASE ~(\E c \in Ctxs : Register(c)) BY <1>2, <2>0, <3>2, OtherTypes
    <3> QED BY <3>1, <3>2
  <2>3. TypeOK' <=> TableTypes' /\ NameTypes' BY DEF TypeOK, TableTypes, NameTypes
  <2> QED BY <2>1, <2>2, <2>3 DEF Typed
<1> QED BY <1>1, <1>2, PTL DEF Spec

\* The table and the array of names stay well formed, whoever launches services.
THEOREM StorageIsTyped == Spec => []TypeOK
<1>1. Typed => TypeOK BY DEF Typed
<1> QED BY <1>1, AlwaysTyped, PTL

\* The binary search finds exactly the names that are given.
THEOREM NamesAreFound == Spec => []NamesAgree
<1>1. Typed => NamesAgree
  <2> SUFFICES ASSUME Typed PROVE NamesAgree OBVIOUS
  <2>0. /\ name \in Seq(Record) /\ Sorted(name) /\ Len(name) \in Nat
        /\ Names \subseteq Int
        /\ \A i \in 1..Len(name) : /\ name[i].name \in Names
                                   /\ bound[name[i].name] = name[i].handle
                                   /\ name[i].handle # 0
        /\ \A n \in Names : bound[n] # 0 => \E i \in 1..Len(name) : name[i].name = n
    BY NamesTyped DEF Typed
  <2>1. ASSUME NEW n \in Names PROVE FindName(n) = bound[n]
    <3>0. n \in Int BY <2>0
    <3>1. /\ Search(n).found \in BOOLEAN /\ Search(n).begin \in 1..(Len(name) + 1)
          /\ Search(n).found => /\ Search(n).begin \in 1..Len(name)
                                /\ name[Search(n).begin].name = n
          /\ ~Search(n).found =>
                \A i \in 1..Len(name) : /\ i < Search(n).begin => name[i].name < n
                                        /\ Search(n).begin <= i => n < name[i].name
      BY <2>0, <3>0, SearchRight
    <3>2. CASE Search(n).found
      <4>1. FindName(n) = name[Search(n).begin].handle BY <3>2 DEF FindName
      <4> QED BY <4>1, <3>1, <3>2, <2>0
    <3>3. CASE ~Search(n).found
      <4>1. FindName(n) = 0 BY <3>3 DEF FindName
      <4>2. ASSUME NEW i \in 1..Len(name), name[i].name = n PROVE FALSE
        <5>1. i < Search(n).begin \/ Search(n).begin <= i BY <3>1
        <5>2. n < n BY <5>1, <3>1, <3>3, <4>2
        <5> QED BY <5>2, <3>0
      <4>3. bound[n] = 0 BY <4>2, <2>0
      <4> QED BY <4>1, <4>3
    <3> QED BY <3>2, <3>3
  <2>2. Len(name) = Cardinality({n \in Names : bound[n] # 0})
    <3> DEFINE S == {n \in Names : bound[n] # 0}
    <3> DEFINE f == [i \in 1..Len(name) |-> name[i].name]
    <3>1. f \in [1..Len(name) -> S] BY <2>0
    <3>2. \A n \in S : \E i \in 1..Len(name) : f[i] = n BY <2>0
    <3>3. IsInjective(f)
      <4> SUFFICES ASSUME NEW a \in 1..Len(name), NEW b \in 1..Len(name),
                          name[a].name = name[b].name
                   PROVE  a = b
        BY DEF IsInjective
      <4>1. name[a].name \in Int BY <2>0
      <4>2. ~(a < b) /\ ~(b < a) BY <4>1, <2>0 DEF Sorted
      <4> QED BY <4>2
    <3> HIDE DEF S, f
    <3>4. f \in Bijection(1..Len(name), S) BY <3>1, <3>2, <3>3 DEF Bijection, Injection, Surjection
    <3>5. ExistsBijection(1..Len(name), S) BY <3>4 DEF ExistsBijection
    <3>6. Cardinality(S) = Len(name) BY <3>5, <2>0, FS_CountingElements
    <3> QED BY <3>6 DEF S
  <2> QED BY <2>1, <2>2 DEF NamesAgree
<1> QED BY <1>1, AlwaysTyped, PTL
=============================================================================
