----------------------------- MODULE SncProofs -----------------------------
(***************************************************************************)
(* What a C service keeps about its coroutines is exact for every number   *)
(* of coroutines, waits, requests and lists of the wheel, as long as the   *)
(* sessions do not start again at 1 (MaxCo <= MaxSession: the code makes   *)
(* INT_MAX of them).                                                       *)
(*                                                                         *)
(* TreeIsExact is not inductive.  Sessions are never given twice (Born),   *)
(* so the tree has at most one place for each.  The chain of coroutines    *)
(* that resumed one another has none twice and none that ended (Chained):  *)
(* otherwise the end of one would take another's place out of the tree.    *)
(* The timer that ztask_timeout_del removes is one of the coroutine that   *)
(* runs, so it walks only while one does (Walking).                        *)
(*                                                                         *)
(* OwnAnswers needs to know of every response on the way whom it is for    *)
(* (Addressed), and that a coroutine without timeouts has at most one, and *)
(* none while it runs (Single).                                            *)
(***************************************************************************)
EXTENDS Snc, ProofLemmas, FiniteSetTheorems, TLAPS

Timed == {"call_s", "yield_s", "sleep"}

CoTypes ==
    /\ sessionId \in Nat /\ tree \in [Sessions -> 0..MaxCo] /\ sess \in [Co -> 0..MaxSession]
    /\ status \in [Co -> {"none", "ready", "running", "suspend"}]
    /\ stack \in Seq(Co) /\ wait \in [Co -> 0..MaxWait]
    /\ kind \in [Co -> {"none", "call", "call_s", "yield", "yield_s", "sleep"}]
    /\ timed \in [Co -> SUBSET (1..MaxWait)]

\* Coroutines are made in order, each once, and get the next session.
Born ==
    /\ sessionId <= MaxCo
    /\ \A c \in Co : /\ c <= sessionId <=> (status[c] # "none" \/ wait[c] > 0)
                     /\ sess[c] = IF c <= sessionId THEN c ELSE 0

Stored ==
    /\ \A s \in Sessions : tree[s] = IF s \in Live THEN s ELSE 0
    /\ tasks = Cardinality(Live)

Chained ==
    /\ \A c \in Range(stack) : status[c] \in {"running", "suspend"}
    /\ IsInjective(stack)

\* timed has the waits with a timeout.
Marked ==
    /\ \A c \in Co : \A w \in timed[c] : w <= wait[c]
    /\ \A c \in Co : kind[c] \in {"yield_s", "call_s"} => timed[c] # {}

CoPart == CoTypes /\ Born /\ Stored /\ Chained /\ Marked

DelPart ==
    /\ tlock \in BOOLEAN /\ hung \in BOOLEAN /\ walk \in 0..Cells
    /\ phase \in {"test", "walk", "unlink", "end"} /\ raced \in BOOLEAN
    /\ others \subseteq 1..Cells /\ set \in 0..MaxOther
    /\ reqs \in 0..MaxReq
    /\ walk # 0 => stack # << >>

\* A sequence of events has one of session s; none, or at most one, for
\* coroutine c.
Has(q, s) == \E e \in Range(q) : e.type = "resp" /\ e.session = s
NoneIn(q, c) == \A e \in Range(q) : e.co # c
OneIn(q, c) == \A j, k \in DOMAIN q : q[j].co = c /\ q[k].co = c => j = k

\* The same of a message queue b, a wheel w and a set a of requests.
EvSets(b, w, a) == b \in Seq(Events) /\ w \in [1..Cells -> Seq(Events)] /\ a \subseteq Events
AllIn(b, w, a) == Range(b) \cup a \cup UNION {Range(w[i]) : i \in 1..Cells}
TimerIn(b, w, s) == Has(b, s) \/ \E i \in 1..Cells : Has(w[i], s)
Nothing(b, w, a, c) == /\ NoneIn(b, c) /\ \A i \in 1..Cells : NoneIn(w[i], c)
                       /\ \A e \in a : e.co # c
One(b, w, a, c) ==
    /\ OneIn(b, c) /\ \A i \in 1..Cells : OneIn(w[i], c)
    /\ \A i, j \in 1..Cells : i # j => NoneIn(w[i], c) \/ NoneIn(w[j], c)
    /\ NoneIn(b, c) \/ \A i \in 1..Cells : NoneIn(w[i], c)
    /\ \A d, e \in a : d.co = c /\ e.co = c => d = e
    /\ (\A e \in a : e.co # c) \/ (NoneIn(b, c) /\ \A i \in 1..Cells : NoneIn(w[i], c))

\* e is for a coroutine that was made; if that lives, e is for its present
\* wait, or the coroutine had a timeout not later than the wait of e.
Good(e) ==
    \/ e.type = "req" /\ e.co = 0
    \/ /\ e.type = "resp" /\ e.co \in 1..sessionId /\ e.session = e.co
       /\ status[e.co] # "none" =>
            \/ \E w \in timed[e.co] : w <= e.wait
            \/ timed[e.co] = {} /\ e.wait = wait[e.co]

Addressed == \A e \in AllIn(box, wheel, asked) : Good(e)

\* c waits; for a response; for a time.
Sleeps(c) == status[c] = "suspend" /\ c \notin Range(stack)
Waits(c) == (status[c] = "ready" \/ Sleeps(c)) /\ kind[c] # "yield"

TimerReady == \A c \in Co : ~raced /\ Sleeps(c) /\ kind[c] \in Timed => TimerIn(box, wheel, c)

Single ==
    \A c \in Co : status[c] # "none" /\ timed[c] = {} =>
        /\ One(box, wheel, asked, c)
        /\ ~Waits(c) => Nothing(box, wheel, asked, c)

EvPart == EvSets(box, wheel, asked) /\ Addressed /\ TimerReady /\ Single

SncInv == CoPart /\ DelPart /\ EvPart

-----------------------------------------------------------------------------
(* Queues.                                                                 *)

LEMMA AppendQ ==
    ASSUME NEW S, NEW q \in Seq(S), NEW e \in S, NEW c
    PROVE  /\ Append(q, e) \in Seq(S)
           /\ Range(Append(q, e)) = Range(q) \cup {e}
           /\ OneIn(q, c) /\ (e.co # c \/ NoneIn(q, c)) => OneIn(Append(q, e), c)
<1>1. Append(q, e) \in Seq(S) /\ Len(q) \in Nat /\ DOMAIN q = 1..Len(q) OBVIOUS
<1>2. PICK r : r = Append(q, e) OBVIOUS
<1>3. /\ DOMAIN r = 1..(Len(q) + 1) /\ r[Len(q) + 1] = e
      /\ \A k \in 1..Len(q) : r[k] = q[k]
  BY <1>1, <1>2
<1>4. Range(r) = Range(q) \cup {e}
  <2>1. ASSUME NEW x \in Range(r) PROVE x \in Range(q) \cup {e}
    <3>1. PICK k \in 1..(Len(q) + 1) : x = r[k] BY <1>3, <2>1 DEF Range
    <3>2. k \in 1..Len(q) \/ k = Len(q) + 1 BY <1>1
    <3> QED BY <1>1, <1>3, <3>1, <3>2 DEF Range
  <2>2. ASSUME NEW x \in Range(q) PROVE x \in Range(r)
    <3>1. PICK k \in 1..Len(q) : x = q[k] BY <1>1, <2>2 DEF Range
    <3>2. k \in 1..(Len(q) + 1) /\ r[k] = x BY <1>1, <1>3, <3>1
    <3> QED BY <1>3, <3>2 DEF Range
  <2>3. e \in Range(r)
    <3>1. Len(q) + 1 \in 1..(Len(q) + 1) BY <1>1
    <3> QED BY <1>3, <3>1 DEF Range
  <2> QED BY <2>1, <2>2, <2>3
<1>5. ASSUME OneIn(q, c), e.co # c \/ NoneIn(q, c) PROVE OneIn(r, c)
  <2> SUFFICES ASSUME NEW j \in DOMAIN r, NEW k \in DOMAIN r, r[j].co = c, r[k].co = c
               PROVE  j = k
    BY DEF OneIn
  <2>1. j \in 1..Len(q) \/ j = Len(q) + 1 BY <1>1, <1>3
  <2>2. k \in 1..Len(q) \/ k = Len(q) + 1 BY <1>1, <1>3
  <2>3. ASSUME NEW i \in 1..Len(q), r[i].co = c PROVE e.co # c
    <3>1. q[i].co = c /\ q[i] \in Range(q) BY <1>1, <1>3, <2>3 DEF Range
    <3> QED BY <1>5, <3>1 DEF NoneIn
  <2> QED BY <1>1, <1>3, <1>5, <2>1, <2>2, <2>3 DEF OneIn
<1> QED BY <1>1, <1>2, <1>4, <1>5

LEMMA TailQ ==
    ASSUME NEW S, NEW q \in Seq(S), q # << >>, NEW c
    PROVE  /\ Tail(q) \in Seq(S) /\ Head(q) \in S
           /\ Range(q) = Range(Tail(q)) \cup {Head(q)}
           /\ OneIn(q, c) => OneIn(Tail(q), c)
           /\ OneIn(q, c) /\ Head(q).co = c => NoneIn(Tail(q), c)
<1>1. /\ Tail(q) \in Seq(S) /\ Head(q) \in S /\ Len(q) \in Nat /\ Len(q) > 0
      /\ DOMAIN q = 1..Len(q) /\ Head(q) = q[1]
  OBVIOUS
<1>2. PICK r : r = Tail(q) OBVIOUS
<1>3. DOMAIN r = 1..(Len(q) - 1) /\ \A k \in 1..(Len(q) - 1) : r[k] = q[k + 1] BY <1>1, <1>2
<1>4. Range(q) = Range(r) \cup {q[1]}
  <2>1. ASSUME NEW x \in Range(q) PROVE x \in Range(r) \cup {q[1]}
    <3>1. PICK k \in 1..Len(q) : x = q[k] BY <1>1, <2>1 DEF Range
    <3>2. CASE k = 1 BY <3>1, <3>2
    <3>3. CASE k # 1
      <4>1. k - 1 \in 1..(Len(q) - 1) /\ r[k - 1] = q[k] BY <1>1, <1>3, <3>3
      <4> QED BY <1>3, <3>1, <4>1 DEF Range
    <3> QED BY <3>2, <3>3
  <2>2. ASSUME NEW x \in Range(r) PROVE x \in Range(q)
    <3>1. PICK k \in 1..(Len(q) - 1) : x = r[k] BY <1>3, <2>2 DEF Range
    <3>2. k + 1 \in 1..Len(q) /\ q[k + 1] = x BY <1>1, <1>3, <3>1
    <3> QED BY <1>1, <3>2 DEF Range
  <2>3. q[1] \in Range(q)
    <3>1. 1 \in 1..Len(q) BY <1>1
    <3> QED BY <1>1, <3>1 DEF Range
  <2> QED BY <2>1, <2>2, <2>3
<1>5. ASSUME OneIn(q, c) PROVE OneIn(r, c)
  <2> SUFFICES ASSUME NEW j \in DOMAIN r, NEW k \in DOMAIN r, r[j].co = c, r[k].co = c
               PROVE  j = k
    BY DEF OneIn
  <2>1. j + 1 \in DOMAIN q /\ k + 1 \in DOMAIN q /\ q[j + 1].co = c /\ q[k + 1].co = c BY <1>1, <1>3
  <2>2. j + 1 = k + 1 BY <1>5, <2>1 DEF OneIn
  <2> QED BY <1>1, <1>3, <2>2
<1>6. ASSUME OneIn(q, c), q[1].co = c PROVE NoneIn(r, c)
  <2> SUFFICES ASSUME NEW x \in Range(r), x.co = c PROVE FALSE BY DEF NoneIn
  <2>1. PICK k \in 1..(Len(q) - 1) : x = r[k] BY <1>3 DEF Range
  <2>2. k + 1 \in DOMAIN q /\ 1 \in DOMAIN q /\ q[k + 1].co = c BY <1>1, <1>3, <2>1
  <2>3. k + 1 = 1 BY <1>6, <2>2 DEF OneIn
  <2> QED BY <2>1, <2>3
<1> QED BY <1>1, <1>2, <1>4, <1>5, <1>6

LEMMA ConcatQ ==
    ASSUME NEW S, NEW p \in Seq(S), NEW q \in Seq(S), NEW c
    PROVE  /\ p \o q \in Seq(S)
           /\ Range(p \o q) = Range(p) \cup Range(q)
           /\ OneIn(p, c) /\ OneIn(q, c) /\ (NoneIn(p, c) \/ NoneIn(q, c)) => OneIn(p \o q, c)
<1>1. /\ p \o q \in Seq(S) /\ Len(p) \in Nat /\ Len(q) \in Nat
      /\ DOMAIN p = 1..Len(p) /\ DOMAIN q = 1..Len(q)
  OBVIOUS
<1>2. PICK r : r = p \o q OBVIOUS
<1>3. /\ DOMAIN r = 1..(Len(p) + Len(q))
      /\ \A k \in 1..Len(p) : r[k] = p[k]
      /\ \A k \in 1..Len(q) : r[Len(p) + k] = q[k]
  BY <1>1, <1>2
<1>4. ASSUME NEW k \in 1..(Len(p) + Len(q))
      PROVE  \/ k \in 1..Len(p) /\ r[k] = p[k]
             \/ k - Len(p) \in 1..Len(q) /\ r[k] = q[k - Len(p)]
  <2>1. CASE k <= Len(p) BY <1>1, <1>3, <2>1
  <2>2. CASE k > Len(p)
    <3>1. k - Len(p) \in 1..Len(q) /\ Len(p) + (k - Len(p)) = k BY <1>1, <2>2
    <3> QED BY <1>3, <3>1
  <2> QED BY <1>1, <2>1, <2>2
<1>5. Range(r) = Range(p) \cup Range(q)
  <2>1. ASSUME NEW x \in Range(r) PROVE x \in Range(p) \cup Range(q)
    <3>1. PICK k \in 1..(Len(p) + Len(q)) : x = r[k] BY <1>3, <2>1 DEF Range
    <3> QED BY <1>1, <1>4, <3>1 DEF Range
  <2>2. ASSUME NEW x \in Range(p) PROVE x \in Range(r)
    <3>1. PICK k \in 1..Len(p) : x = p[k] BY <1>1, <2>2 DEF Range
    <3>2. k \in DOMAIN r /\ r[k] = x BY <1>1, <1>3, <3>1
    <3> QED BY <3>2 DEF Range
  <2>3. ASSUME NEW x \in Range(q) PROVE x \in Range(r)
    <3>1. PICK k \in 1..Len(q) : x = q[k] BY <1>1, <2>3 DEF Range
    <3>2. Len(p) + k \in DOMAIN r /\ r[Len(p) + k] = x BY <1>1, <1>3, <3>1
    <3> QED BY <3>2 DEF Range
  <2> QED BY <2>1, <2>2, <2>3
<1>6. ASSUME OneIn(p, c), OneIn(q, c), NoneIn(p, c) \/ NoneIn(q, c) PROVE OneIn(r, c)
  <2> SUFFICES ASSUME NEW j \in DOMAIN r, NEW k \in DOMAIN r, r[j].co = c, r[k].co = c
               PROVE  j = k
    BY DEF OneIn
  <2>1. j \in 1..(Len(p) + Len(q)) /\ k \in 1..(Len(p) + Len(q)) BY <1>3
  <2>2. CASE NoneIn(p, c)
    <3>1. ASSUME NEW i \in 1..(Len(p) + Len(q)), r[i].co = c
          PROVE  i - Len(p) \in 1..Len(q) /\ q[i - Len(p)].co = c
      <4>1. i \in 1..Len(p) => p[i].co # c BY <1>1, <2>2 DEF NoneIn, Range
      <4> QED BY <1>4, <3>1, <4>1
    <3>2. j - Len(p) = k - Len(p) BY <1>1, <1>6, <2>1, <3>1 DEF OneIn
    <3> QED BY <1>1, <2>1, <3>2
  <2>3. CASE NoneIn(q, c)
    <3>1. ASSUME NEW i \in 1..(Len(p) + Len(q)), r[i].co = c
          PROVE  i \in 1..Len(p) /\ p[i].co = c
      <4>1. i - Len(p) \in 1..Len(q) => q[i - Len(p)].co # c BY <1>1, <2>3 DEF NoneIn, Range
      <4> QED BY <1>4, <3>1, <4>1
    <3> QED BY <1>1, <1>6, <2>1, <3>1 DEF OneIn
  <2> QED BY <1>6, <2>2, <2>3
<1> QED BY <1>1, <1>2, <1>5, <1>6

LEMMA RemoveQ ==
    ASSUME NEW S, NEW q \in Seq(S), NEW m \in DOMAIN q, NEW c
    PROVE  /\ RemoveAt(q, m) \in Seq(S)
           /\ Range(q) = Range(RemoveAt(q, m)) \cup {q[m]}
           /\ OneIn(q, c) => OneIn(RemoveAt(q, m), c)
<1>1. Len(q) \in Nat /\ DOMAIN q = 1..Len(q) /\ m \in 1..Len(q) OBVIOUS
<1>2. PICK a : a = SubSeq(q, 1, m - 1) OBVIOUS
<1>3. PICK b : b = SubSeq(q, m + 1, Len(q)) OBVIOUS
<1>4. /\ a \in Seq(S) /\ Len(a) = m - 1 /\ \A k \in 1..(m - 1) : a[k] = q[k]
  BY <1>1, <1>2
<1>5. /\ b \in Seq(S) /\ Len(b) = Len(q) - m /\ \A k \in 1..(Len(q) - m) : b[k] = q[m + k]
  BY <1>1, <1>3
<1>6. RemoveAt(q, m) = a \o b BY <1>2, <1>3 DEF RemoveAt
<1>7. PICK r : r = a \o b OBVIOUS
<1>8. /\ r \in Seq(S) /\ DOMAIN r = 1..(Len(q) - 1)
      /\ \A k \in 1..(Len(q) - 1) : r[k] = IF k < m THEN q[k] ELSE q[k + 1]
  <2>1. r \in Seq(S) BY <1>4, <1>5, <1>7
  <2>2. Len(r) = Len(q) - 1
    <3>0. a \in Seq(S) /\ b \in Seq(S) BY <1>4, <1>5
    <3>1. Len(r) = Len(a) + Len(b) BY <1>7, <3>0
    <3> QED BY <1>1, <1>4, <1>5, <3>1
  <2>3. ASSUME NEW k \in 1..(Len(q) - 1) PROVE r[k] = IF k < m THEN q[k] ELSE q[k + 1]
    <3>1. CASE k < m BY <1>1, <1>4, <1>5, <1>7, <3>1
    <3>2. CASE ~(k < m)
      <4>1. k - (m - 1) \in 1..(Len(q) - m) /\ m + (k - (m - 1)) = k + 1 BY <1>1, <3>2
      <4>2. r[k] = b[k - (m - 1)] BY <1>1, <1>4, <1>5, <1>7, <3>2
      <4> QED BY <1>5, <3>2, <4>1, <4>2
    <3> QED BY <3>1, <3>2
  <2> QED BY <2>1, <2>2, <2>3
<1>9. Range(q) = Range(r) \cup {q[m]}
  <2>1. ASSUME NEW x \in Range(q) PROVE x \in Range(r) \cup {q[m]}
    <3>1. PICK k \in 1..Len(q) : x = q[k] BY <1>1, <2>1 DEF Range
    <3>2. CASE k < m
      <4>1. k \in DOMAIN r /\ r[k] = x BY <1>1, <1>8, <3>1, <3>2
      <4> QED BY <4>1 DEF Range
    <3>3. CASE k > m
      <4>1. k - 1 \in 1..(Len(q) - 1) /\ ~(k - 1 < m) /\ (k - 1) + 1 = k BY <1>1, <3>3
      <4>2. k - 1 \in DOMAIN r /\ r[k - 1] = x BY <1>8, <3>1, <4>1
      <4> QED BY <4>2 DEF Range
    <3> QED BY <1>1, <3>1, <3>2, <3>3
  <2>2. ASSUME NEW x \in Range(r) PROVE x \in Range(q)
    <3>1. PICK k \in 1..(Len(q) - 1) : x = r[k] BY <1>8, <2>2 DEF Range
    <3>2. k \in 1..Len(q) /\ k + 1 \in 1..Len(q) BY <1>1
    <3> QED BY <1>1, <1>8, <3>1, <3>2 DEF Range
  <2> QED BY <1>1, <2>1, <2>2 DEF Range
<1>10. ASSUME OneIn(q, c) PROVE OneIn(r, c)
  <2> SUFFICES ASSUME NEW j \in DOMAIN r, NEW k \in DOMAIN r, r[j].co = c, r[k].co = c
               PROVE  j = k
    BY DEF OneIn
  <2>1. PICK x : x = IF j < m THEN j ELSE j + 1 OBVIOUS
  <2>2. PICK y : y = IF k < m THEN k ELSE k + 1 OBVIOUS
  <2>3. x \in DOMAIN q /\ r[j] = q[x] BY <1>1, <1>8, <2>1
  <2>4. y \in DOMAIN q /\ r[k] = q[y] BY <1>1, <1>8, <2>2
  <2>5. x = y BY <1>10, <2>3, <2>4 DEF OneIn
  <2> QED BY <1>1, <1>8, <2>1, <2>2, <2>5
<1> QED BY <1>6, <1>7, <1>8, <1>9, <1>10

\* The chain of coroutines: one is resumed, or the running one stops.
LEMMA PushStack ==
    ASSUME NEW S, NEW q \in Seq(S), NEW d \in S
    PROVE  /\ Append(q, d) \in Seq(S) /\ Append(q, d) # << >>
           /\ Range(Append(q, d)) = Range(q) \cup {d}
           /\ ~Contains(q, d) /\ IsInjective(q) => IsInjective(Append(q, d))
<1>1. Append(q, d) \in Seq(S) /\ Append(q, d) # << >>
  <2>1. Append(q, d) \in Seq(S) /\ Len(Append(q, d)) = Len(q) + 1 /\ Len(q) \in Nat OBVIOUS
  <2>2. Len(Append(q, d)) # 0 BY <2>1
  <2>3. Len(<< >>) = 0 OBVIOUS
  <2> QED BY <2>1, <2>2, <2>3
<1>2. Range(Append(q, d)) = Range(q) \cup {d} BY AppendQ
<1>3. PICK r : r = Append(q, d) OBVIOUS
<1>4. /\ Len(q) \in Nat /\ DOMAIN q = 1..Len(q)
      /\ DOMAIN r = 1..(Len(q) + 1) /\ r[Len(q) + 1] = d
      /\ \A k \in 1..Len(q) : r[k] = q[k]
  BY <1>3
<1>5. ASSUME ~Contains(q, d), IsInjective(q), NEW i \in DOMAIN r, NEW j \in DOMAIN r, r[i] = r[j]
      PROVE  i = j
  <2>1. \A k \in 1..Len(q) : r[k] # d BY <1>4, <1>5 DEF Contains
  <2>2. i \in 1..Len(q) \/ i = Len(q) + 1 BY <1>4
  <2>3. j \in 1..Len(q) \/ j = Len(q) + 1 BY <1>4
  <2> QED BY <1>4, <1>5, <2>1, <2>2, <2>3 DEF IsInjective
<1> QED BY <1>1, <1>2, <1>3, <1>5 DEF IsInjective

LEMMA Below == \A n \in Nat : \A k \in 1..(n - 1) : k \in 1..n /\ k # n
  OBVIOUS

LEMMA PopStack ==
    ASSUME NEW S, NEW q \in Seq(S), q # << >>, IsInjective(q)
    PROVE  /\ Front(q) \in Seq(S) /\ Last(q) \in S /\ Last(q) \in Range(q)
           /\ Range(Front(q)) = Range(q) \ {Last(q)}
           /\ IsInjective(Front(q))
<1>1. Len(q) \in Nat /\ Len(q) > 0 /\ DOMAIN q = 1..Len(q) /\ Len(q) \in 1..Len(q) OBVIOUS
<1>2. PICK r : r = Front(q) OBVIOUS
<1>3. r \in Seq(S) /\ DOMAIN r = 1..(Len(q) - 1) /\ \A k \in 1..(Len(q) - 1) : r[k] = q[k]
  BY <1>1, <1>2 DEF Front
<1>4. Last(q) = q[Len(q)] BY DEF Last
<1>5. Range(r) = Range(q) \ {q[Len(q)]}
  <2>1. ASSUME NEW x \in Range(r) PROVE x \in Range(q) /\ x # q[Len(q)]
    <3>1. PICK k \in 1..(Len(q) - 1) : x = r[k] BY <1>3, <2>1 DEF Range
    <3>2. k \in 1..Len(q) /\ k # Len(q) BY <1>1, <3>1, Below
    <3>3. x = q[k] BY <1>3, <3>1
    <3> QED BY <1>1, <3>2, <3>3 DEF Range, IsInjective
  <2>2. ASSUME NEW x \in Range(q), x # q[Len(q)] PROVE x \in Range(r)
    <3>1. PICK k \in 1..Len(q) : x = q[k] BY <1>1, <2>2 DEF Range
    <3>2. k \in DOMAIN r /\ r[k] = x BY <1>1, <1>3, <2>2, <3>1
    <3> QED BY <3>2 DEF Range
  <2> QED BY <2>1, <2>2
<1>6. ASSUME NEW i \in DOMAIN r, NEW j \in DOMAIN r, r[i] = r[j] PROVE i = j
  <2>1. i \in DOMAIN q /\ j \in DOMAIN q BY <1>1, <1>3
  <2> QED BY <1>3, <1>6, <2>1 DEF IsInjective
<1>7. q[Len(q)] \in S /\ q[Len(q)] \in Range(q) BY <1>1 DEF Range
<1>8. IsInjective(r) BY <1>6 DEF IsInjective
<1> QED BY <1>2, <1>3, <1>4, <1>5, <1>7, <1>8

-----------------------------------------------------------------------------
(* The message queue b, the wheel w and the requests a, as events come and *)
(* go.                                                                     *)

Kept(b, w, a, b2, w2, a2, c) == /\ One(b, w, a, c) => One(b2, w2, a2, c)
                                /\ Nothing(b, w, a, c) => Nothing(b2, w2, a2, c)

LEMMA AddBox ==
    ASSUME NEW b, NEW w, NEW a, EvSets(b, w, a), NEW e \in Events, NEW c
    PROVE  /\ EvSets(Append(b, e), w, a)
           /\ AllIn(Append(b, e), w, a) = AllIn(b, w, a) \cup {e}
           /\ TimerIn(b, w, c) => TimerIn(Append(b, e), w, c)
           /\ e.type = "resp" /\ e.session = c => TimerIn(Append(b, e), w, c)
           /\ e.co # c => Kept(b, w, a, Append(b, e), w, a, c)
           /\ Nothing(b, w, a, c) => One(Append(b, e), w, a, c)
<1>1. b \in Seq(Events) BY DEF EvSets
<1>2. PICK q : q = Append(b, e) OBVIOUS
<1>3. q \in Seq(Events) /\ Range(q) = Range(b) \cup {e} BY <1>1, <1>2, AppendQ
<1>4. EvSets(q, w, a) BY <1>3 DEF EvSets
<1>5. AllIn(q, w, a) = AllIn(b, w, a) \cup {e} BY <1>3 DEF AllIn
<1>6. TimerIn(b, w, c) => TimerIn(q, w, c) BY <1>3 DEF TimerIn, Has
<1>7. e.type = "resp" /\ e.session = c => TimerIn(q, w, c) BY <1>3 DEF TimerIn, Has
<1>8. OneIn(b, c) /\ (e.co # c \/ NoneIn(b, c)) => OneIn(q, c) BY <1>1, <1>2, AppendQ
<1>9. e.co # c => (NoneIn(q, c) <=> NoneIn(b, c)) BY <1>3 DEF NoneIn
<1>10. e.co # c => Kept(b, w, a, q, w, a, c) BY <1>8, <1>9 DEF Kept, One, Nothing
<1>11. \A r : NoneIn(r, c) => OneIn(r, c) BY DEF NoneIn, OneIn, Range
<1>12. Nothing(b, w, a, c) => One(q, w, a, c) BY <1>8, <1>11 DEF One, Nothing
<1> QED BY <1>2, <1>4, <1>5, <1>6, <1>7, <1>10, <1>12

\* w with e at the end of list n.
Put(w, n, e) == [w EXCEPT ![n] = Append(@, e)]

LEMMA AddWheel ==
    ASSUME NEW b, NEW w, NEW a, EvSets(b, w, a), NEW e \in Events, NEW c, NEW n \in 1..Cells,
           NEW v, v = Put(w, n, e)
    PROVE  /\ EvSets(b, v, a)
           /\ AllIn(b, v, a) = AllIn(b, w, a) \cup {e}
           /\ TimerIn(b, w, c) => TimerIn(b, v, c)
           /\ e.type = "resp" /\ e.session = c => TimerIn(b, v, c)
           /\ e.co # c => Kept(b, w, a, b, v, a, c)
           /\ Nothing(b, w, a, c) => One(b, v, a, c)
<1>1. w \in [1..Cells -> Seq(Events)] BY DEF EvSets
<1>3. v \in [1..Cells -> Seq(Events)] BY <1>1 DEF Put
<1>4. v[n] = Append(w[n], e) /\ \A i \in 1..Cells : i # n => v[i] = w[i] BY <1>1 DEF Put
<1>5. Range(v[n]) = Range(w[n]) \cup {e}
  <2>1. w[n] \in Seq(Events) BY <1>1
  <2>2. PICK q : q = w[n] OBVIOUS
  <2>3. q \in Seq(Events) BY <2>1, <2>2
  <2>4. Range(Append(q, e)) = Range(q) \cup {e} BY <2>3, AppendQ
  <2> QED BY <1>4, <2>2, <2>4
<1>6. EvSets(b, v, a) BY <1>3 DEF EvSets
<1>7. AllIn(b, v, a) = AllIn(b, w, a) \cup {e}
  <2>1. \A x : (\E i \in 1..Cells : x \in Range(v[i]))
                 <=> (\E i \in 1..Cells : x \in Range(w[i])) \/ x = e
    BY <1>4, <1>5
  <2> QED BY <2>1 DEF AllIn
<1>8. TimerIn(b, w, c) => TimerIn(b, v, c) BY <1>4, <1>5 DEF TimerIn, Has
<1>9. e.type = "resp" /\ e.session = c => TimerIn(b, v, c) BY <1>5 DEF TimerIn, Has
<1>10. OneIn(w[n], c) /\ (e.co # c \/ NoneIn(w[n], c)) => OneIn(v[n], c) BY <1>1, <1>4, AppendQ
<1>11. e.co # c => \A i \in 1..Cells : NoneIn(v[i], c) <=> NoneIn(w[i], c)
  BY <1>4, <1>5 DEF NoneIn
<1>12. e.co # c => \A i \in 1..Cells : OneIn(w[i], c) => OneIn(v[i], c) BY <1>4, <1>10
<1>13. e.co # c => Kept(b, w, a, b, v, a, c) BY <1>11, <1>12 DEF Kept, One, Nothing
<1>14. \A r : NoneIn(r, c) => OneIn(r, c) BY DEF NoneIn, OneIn, Range
<1>15. ASSUME Nothing(b, w, a, c) PROVE One(b, v, a, c)
  <2>1. NoneIn(b, c) /\ (\A i \in 1..Cells : NoneIn(w[i], c)) /\ \A x \in a : x.co # c
    BY <1>15 DEF Nothing
  <2>2. \A i \in 1..Cells : OneIn(v[i], c) BY <1>4, <1>10, <1>14, <2>1
  <2>3. \A i \in 1..Cells : i # n => NoneIn(v[i], c) BY <1>4, <2>1
  <2> QED BY <1>14, <2>1, <2>2, <2>3 DEF One
<1> QED BY <1>6, <1>7, <1>8, <1>9, <1>13, <1>15

LEMMA AddAsked ==
    ASSUME NEW b, NEW w, NEW a, EvSets(b, w, a), NEW e \in Events, NEW c
    PROVE  /\ EvSets(b, w, a \cup {e})
           /\ AllIn(b, w, a \cup {e}) = AllIn(b, w, a) \cup {e}
           /\ e.co # c => Kept(b, w, a, b, w, a \cup {e}, c)
           /\ Nothing(b, w, a, c) => One(b, w, a \cup {e}, c)
<1>1. EvSets(b, w, a \cup {e}) BY DEF EvSets
<1>2. AllIn(b, w, a \cup {e}) = AllIn(b, w, a) \cup {e} BY DEF AllIn
<1>3. e.co # c => Kept(b, w, a, b, w, a \cup {e}, c) BY DEF Kept, One, Nothing
<1>4. \A r : NoneIn(r, c) => OneIn(r, c) BY DEF NoneIn, OneIn, Range
<1>5. Nothing(b, w, a, c) => One(b, w, a \cup {e}, c) BY <1>4 DEF One, Nothing
<1> QED BY <1>1, <1>2, <1>3, <1>5

\* The parts of these that are about no coroutine.
LEMMA BoxSets ==
    ASSUME NEW b, NEW w, NEW a, EvSets(b, w, a), NEW e \in Events
    PROVE  EvSets(Append(b, e), w, a) /\ AllIn(Append(b, e), w, a) = AllIn(b, w, a) \cup {e}
<1>1. PICK c : c = 0 OBVIOUS
<1> QED BY <1>1, AddBox

LEMMA WheelSets ==
    ASSUME NEW b, NEW w, NEW a, EvSets(b, w, a), NEW e \in Events, NEW n \in 1..Cells
    PROVE  EvSets(b, Put(w, n, e), a) /\ AllIn(b, Put(w, n, e), a) = AllIn(b, w, a) \cup {e}
<1>1. PICK c : c = 0 OBVIOUS
<1> QED BY <1>1, AddWheel

LEMMA AskedSets ==
    ASSUME NEW b, NEW w, NEW a, EvSets(b, w, a), NEW e \in Events
    PROVE  EvSets(b, w, a \cup {e}) /\ AllIn(b, w, a \cup {e}) = AllIn(b, w, a) \cup {e}
  BY DEF EvSets, AllIn

LEMMA DropBox ==
    ASSUME NEW b, NEW w, NEW a, EvSets(b, w, a), b # << >>, NEW c
    PROVE  /\ EvSets(Tail(b), w, a) /\ Head(b) \in Events /\ Head(b) \in AllIn(b, w, a)
           /\ AllIn(Tail(b), w, a) \subseteq AllIn(b, w, a)
           /\ TimerIn(b, w, c) /\ ~(Head(b).type = "resp" /\ Head(b).session = c)
                => TimerIn(Tail(b), w, c)
           /\ Kept(b, w, a, Tail(b), w, a, c)
           /\ One(b, w, a, c) /\ Head(b).co = c => Nothing(Tail(b), w, a, c)
<1>1. b \in Seq(Events) BY DEF EvSets
<1>2. PICK q : q = Tail(b) OBVIOUS
<1>3. PICK h : h = Head(b) OBVIOUS
<1>4. q \in Seq(Events) /\ h \in Events /\ Range(b) = Range(q) \cup {h}
  BY <1>1, <1>2, <1>3, TailQ
<1>5. OneIn(b, c) => OneIn(q, c) BY <1>1, <1>2, TailQ
<1>6. OneIn(b, c) /\ h.co = c => NoneIn(q, c) BY <1>1, <1>2, <1>3, TailQ
<1>7. EvSets(q, w, a) BY <1>4 DEF EvSets
<1>8. AllIn(q, w, a) \subseteq AllIn(b, w, a) /\ h \in AllIn(b, w, a) BY <1>4 DEF AllIn
<1>9. TimerIn(b, w, c) /\ ~(h.type = "resp" /\ h.session = c) => TimerIn(q, w, c)
  BY <1>4 DEF TimerIn, Has
<1>10. NoneIn(b, c) => NoneIn(q, c) BY <1>4 DEF NoneIn
<1>11. Kept(b, w, a, q, w, a, c) BY <1>5, <1>10 DEF Kept, One, Nothing
<1>12. h.co = c => ~NoneIn(b, c) BY <1>4 DEF NoneIn
<1>13. One(b, w, a, c) /\ h.co = c => Nothing(q, w, a, c) BY <1>6, <1>12 DEF One, Nothing
<1> QED BY <1>2, <1>3, <1>4, <1>7, <1>8, <1>9, <1>11, <1>13

LEMMA DropTimer ==
    ASSUME NEW b, NEW w, NEW a, EvSets(b, w, a), NEW n \in 1..Cells, NEW m \in DOMAIN w[n], NEW c
    PROVE  /\ EvSets(b, [w EXCEPT ![n] = RemoveAt(@, m)], a)
           /\ AllIn(b, [w EXCEPT ![n] = RemoveAt(@, m)], a) \subseteq AllIn(b, w, a)
           /\ TimerIn(b, w, c) /\ w[n][m].session # c
                => TimerIn(b, [w EXCEPT ![n] = RemoveAt(@, m)], c)
           /\ Kept(b, w, a, b, [w EXCEPT ![n] = RemoveAt(@, m)], a, c)
<1>1. w \in [1..Cells -> Seq(Events)] BY DEF EvSets
<1>2. PICK q : q = w[n] OBVIOUS
<1>3. q \in Seq(Events) /\ m \in DOMAIN q BY <1>1, <1>2
<1>4. PICK r : r = RemoveAt(q, m) OBVIOUS
<1>5. r \in Seq(Events) /\ Range(q) = Range(r) \cup {q[m]} BY <1>3, <1>4, RemoveQ
<1>6. OneIn(q, c) => OneIn(r, c) BY <1>3, <1>4, RemoveQ
<1>7. PICK v : v = [w EXCEPT ![n] = r] OBVIOUS
<1>8. v = [w EXCEPT ![n] = RemoveAt(@, m)] BY <1>1, <1>2, <1>4, <1>7
<1>9. v \in [1..Cells -> Seq(Events)] /\ v[n] = r /\ \A i \in 1..Cells : i # n => v[i] = w[i]
  BY <1>1, <1>5, <1>7
<1>10. EvSets(b, v, a) BY <1>9 DEF EvSets
<1>11. \A i \in 1..Cells : Range(v[i]) \subseteq Range(w[i]) BY <1>2, <1>5, <1>9
<1>12. AllIn(b, v, a) \subseteq AllIn(b, w, a) BY <1>11 DEF AllIn
<1>13. TimerIn(b, w, c) /\ q[m].session # c => TimerIn(b, v, c)
  BY <1>2, <1>5, <1>9 DEF TimerIn, Has
<1>14. \A i \in 1..Cells : NoneIn(w[i], c) => NoneIn(v[i], c) BY <1>11 DEF NoneIn
<1>15. \A i \in 1..Cells : OneIn(w[i], c) => OneIn(v[i], c) BY <1>2, <1>6, <1>9
<1>16. Kept(b, w, a, b, v, a, c) BY <1>14, <1>15 DEF Kept, One, Nothing
<1> QED BY <1>2, <1>8, <1>10, <1>12, <1>13, <1>16

LEMMA MoveTimers ==
    ASSUME NEW b, NEW w, NEW a, EvSets(b, w, a), NEW n \in 1..Cells, NEW c
    PROVE  /\ EvSets(b \o w[n], [w EXCEPT ![n] = << >>], a)
           /\ AllIn(b \o w[n], [w EXCEPT ![n] = << >>], a) \subseteq AllIn(b, w, a)
           /\ TimerIn(b, w, c) => TimerIn(b \o w[n], [w EXCEPT ![n] = << >>], c)
           /\ Kept(b, w, a, b \o w[n], [w EXCEPT ![n] = << >>], a, c)
<1>1. w \in [1..Cells -> Seq(Events)] /\ b \in Seq(Events) BY DEF EvSets
<1>2. PICK q : q = w[n] OBVIOUS
<1>3. q \in Seq(Events) BY <1>1, <1>2
<1>4. PICK r : r = b \o q OBVIOUS
<1>5. r \in Seq(Events) /\ Range(r) = Range(b) \cup Range(q) BY <1>1, <1>3, <1>4, ConcatQ
<1>6. OneIn(b, c) /\ OneIn(q, c) /\ (NoneIn(b, c) \/ NoneIn(q, c)) => OneIn(r, c)
  BY <1>1, <1>3, <1>4, ConcatQ
<1>7. PICK v : v = [w EXCEPT ![n] = << >>] OBVIOUS
<1>8. /\ v \in [1..Cells -> Seq(Events)] /\ v[n] = << >> /\ Range(v[n]) = {}
      /\ \A i \in 1..Cells : i # n => v[i] = w[i]
  <2>1. << >> \in Seq(Events) /\ Range(<< >>) = {} BY DEF Range
  <2> QED BY <1>1, <1>7, <2>1
<1>9. EvSets(r, v, a) BY <1>5, <1>8 DEF EvSets
<1>10. AllIn(r, v, a) \subseteq AllIn(b, w, a)
  <2>1. \A i \in 1..Cells : Range(v[i]) \subseteq Range(w[i]) BY <1>8
  <2> QED BY <1>2, <1>5, <2>1 DEF AllIn
<1>11. TimerIn(b, w, c) => TimerIn(r, v, c)
  <2>1. Has(b, c) => Has(r, c) BY <1>5 DEF Has
  <2>2. Has(w[n], c) => Has(r, c) BY <1>2, <1>5 DEF Has
  <2> QED BY <1>8, <2>1, <2>2 DEF TimerIn
<1>12. (NoneIn(r, c) <=> NoneIn(b, c) /\ NoneIn(q, c)) /\ NoneIn(v[n], c) /\ OneIn(v[n], c)
  BY <1>5, <1>8 DEF NoneIn, OneIn
<1>13. Kept(b, w, a, r, v, a, c)
  <2>1. ASSUME Nothing(b, w, a, c) PROVE Nothing(r, v, a, c)
    BY <1>2, <1>8, <1>12, <2>1 DEF Nothing
  <2>2. ASSUME One(b, w, a, c) PROVE One(r, v, a, c)
    <3>1. OneIn(r, c) BY <1>2, <1>6, <2>2 DEF One
    <3>2. \A i \in 1..Cells : OneIn(v[i], c) BY <1>8, <1>12, <2>2 DEF One
    <3>3. \A i, j \in 1..Cells : i # j => NoneIn(v[i], c) \/ NoneIn(v[j], c)
      BY <1>8, <1>12, <2>2 DEF One
    <3>4. NoneIn(r, c) \/ \A i \in 1..Cells : NoneIn(v[i], c)
      <4>1. CASE ~NoneIn(q, c) BY <1>2, <1>8, <1>12, <2>2, <4>1 DEF One
      <4>2. CASE NoneIn(q, c) /\ NoneIn(b, c) BY <1>12, <4>2
      <4>3. CASE NoneIn(q, c) /\ ~NoneIn(b, c) BY <1>8, <1>12, <2>2, <4>3 DEF One
      <4> QED BY <4>1, <4>2, <4>3
    <3>5. \A d, e \in a : d.co = c /\ e.co = c => d = e BY <2>2 DEF One
    <3>6. (\A e \in a : e.co # c) \/ (NoneIn(r, c) /\ \A i \in 1..Cells : NoneIn(v[i], c))
      BY <1>2, <1>8, <1>12, <2>2 DEF One
    <3> QED BY <3>1, <3>2, <3>3, <3>4, <3>5, <3>6 DEF One
  <2> QED BY <2>1, <2>2 DEF Kept
<1> QED BY <1>2, <1>4, <1>7, <1>9, <1>10, <1>11, <1>13

LEMMA MoveList ==
    ASSUME NEW b, NEW w, NEW a, EvSets(b, w, a), NEW n \in 1..Cells, NEW m \in 1..Cells, m # n, NEW c
    PROVE  /\ EvSets(b, [w EXCEPT ![m] = @ \o w[n], ![n] = << >>], a)
           /\ AllIn(b, [w EXCEPT ![m] = @ \o w[n], ![n] = << >>], a) \subseteq AllIn(b, w, a)
           /\ TimerIn(b, w, c) => TimerIn(b, [w EXCEPT ![m] = @ \o w[n], ![n] = << >>], c)
           /\ Kept(b, w, a, b, [w EXCEPT ![m] = @ \o w[n], ![n] = << >>], a, c)
<1>1. w \in [1..Cells -> Seq(Events)] /\ b \in Seq(Events) BY DEF EvSets
<1>2. PICK q : q = w[n] OBVIOUS
<1>3. PICK p : p = w[m] OBVIOUS
<1>4. q \in Seq(Events) /\ p \in Seq(Events) BY <1>1, <1>2, <1>3
<1>5. PICK r : r = p \o q OBVIOUS
<1>6. r \in Seq(Events) /\ Range(r) = Range(p) \cup Range(q) BY <1>4, <1>5, ConcatQ
<1>7. OneIn(p, c) /\ OneIn(q, c) /\ (NoneIn(p, c) \/ NoneIn(q, c)) => OneIn(r, c)
  BY <1>4, <1>5, ConcatQ
<1>8. PICK v : v = [w EXCEPT ![m] = r, ![n] = << >>] OBVIOUS
<1>9. v = [w EXCEPT ![m] = @ \o w[n], ![n] = << >>] BY <1>1, <1>2, <1>3, <1>5, <1>8
<1>10. /\ v \in [1..Cells -> Seq(Events)] /\ v[n] = << >> /\ v[m] = r /\ Range(v[n]) = {}
       /\ \A i \in 1..Cells : i # n /\ i # m => v[i] = w[i]
  <2>1. << >> \in Seq(Events) /\ Range(<< >>) = {} BY DEF Range
  <2> QED BY <1>1, <1>6, <1>8, <2>1
<1>11. EvSets(b, v, a) BY <1>10 DEF EvSets
<1>12. AllIn(b, v, a) \subseteq AllIn(b, w, a)
  <2>1. \A i \in 1..Cells : Range(v[i]) \subseteq UNION {Range(w[k]) : k \in 1..Cells}
    BY <1>2, <1>3, <1>6, <1>10
  <2> QED BY <2>1 DEF AllIn
<1>13. TimerIn(b, w, c) => TimerIn(b, v, c)
  <2>1. Has(w[n], c) \/ Has(w[m], c) => Has(v[m], c) BY <1>2, <1>3, <1>6, <1>10 DEF Has
  <2> QED BY <1>10, <2>1 DEF TimerIn
<1>14. (NoneIn(r, c) <=> NoneIn(p, c) /\ NoneIn(q, c)) /\ NoneIn(v[n], c) /\ OneIn(v[n], c)
  BY <1>6, <1>10 DEF NoneIn, OneIn
<1>15. (\A i \in 1..Cells : NoneIn(w[i], c)) => \A i \in 1..Cells : NoneIn(v[i], c)
  BY <1>2, <1>3, <1>10, <1>14
<1>16. ASSUME One(b, w, a, c) PROVE One(b, v, a, c)
  <2>1. NoneIn(p, c) \/ NoneIn(q, c) BY <1>2, <1>3, <1>16 DEF One
  <2>2. OneIn(r, c) BY <1>2, <1>3, <1>7, <1>16, <2>1 DEF One
  <2>3. \A i \in 1..Cells : OneIn(v[i], c) BY <1>10, <1>14, <1>16, <2>2 DEF One
  <2>4. ASSUME NEW i \in 1..Cells, NEW j \in 1..Cells, i # j PROVE NoneIn(v[i], c) \/ NoneIn(v[j], c)
    <3>1. \A k \in 1..Cells : k # m => NoneIn(w[k], c) \/ NoneIn(p, c) BY <1>3, <1>16 DEF One
    <3>2. \A k \in 1..Cells : k # n => NoneIn(w[k], c) \/ NoneIn(q, c) BY <1>2, <1>16 DEF One
    <3>3. NoneIn(w[i], c) \/ NoneIn(w[j], c) BY <1>16, <2>4 DEF One
    <3>4. \A k \in 1..Cells : k # m /\ k # n => v[k] = w[k] BY <1>10
    <3>5. CASE i = n \/ j = n BY <1>14, <3>5
    <3>6. CASE i # n /\ j # n /\ i # m /\ j # m BY <3>3, <3>4, <3>6
    <3>7. CASE i = m /\ j # n
      <4>1. v[j] = w[j] /\ v[i] = r BY <1>10, <2>4, <3>7
      <4> QED BY <1>14, <2>1, <2>4, <3>1, <3>2, <3>7, <4>1
    <3>8. CASE j = m /\ i # n
      <4>1. v[i] = w[i] /\ v[j] = r BY <1>10, <2>4, <3>8
      <4> QED BY <1>14, <2>1, <2>4, <3>1, <3>2, <3>8, <4>1
    <3> QED BY <3>5, <3>6, <3>7, <3>8
  <2> QED BY <1>15, <1>16, <2>3, <2>4 DEF One
<1>17. Nothing(b, w, a, c) => Nothing(b, v, a, c) BY <1>15 DEF Nothing
<1>18. Kept(b, w, a, b, v, a, c) BY <1>16, <1>17 DEF Kept
<1> QED BY <1>9, <1>11, <1>12, <1>13, <1>18

LEMMA MoveAnswer ==
    ASSUME NEW b, NEW w, NEW a, EvSets(b, w, a), NEW e \in a, NEW f \in BOOLEAN, NEW c
    PROVE  /\ EvSets(Append(b, [e EXCEPT !.full = f]), w, a \ {e})
           /\ AllIn(Append(b, [e EXCEPT !.full = f]), w, a \ {e})
                \subseteq AllIn(b, w, a) \cup {[e EXCEPT !.full = f]}
           /\ TimerIn(b, w, c) => TimerIn(Append(b, [e EXCEPT !.full = f]), w, c)
           /\ Kept(b, w, a, Append(b, [e EXCEPT !.full = f]), w, a \ {e}, c)
<1>1. e \in Events /\ EvSets(b, w, a \ {e}) BY DEF EvSets
<1>2. PICK x : x = [e EXCEPT !.full = f] OBVIOUS
<1>3. x \in Events /\ x.co = e.co BY <1>1, <1>2 DEF Events
<1>4. PICK p : p = a \ {e} OBVIOUS
<1>5. EvSets(b, w, p) BY <1>1, <1>4
<1>6. PICK q : q = Append(b, x) OBVIOUS
<1>7. EvSets(q, w, p) /\ AllIn(q, w, p) = AllIn(b, w, p) \cup {x}
  BY <1>3, <1>5, <1>6, AddBox
<1>8. AllIn(q, w, p) \subseteq AllIn(b, w, a) \cup {x} BY <1>4, <1>7 DEF AllIn
<1>9. TimerIn(b, w, c) => TimerIn(q, w, c) BY <1>3, <1>5, <1>6, AddBox
<1>10. Kept(b, w, a, b, w, p, c) BY <1>4 DEF Kept, One, Nothing
<1>11. CASE e.co # c
  <2>1. Kept(b, w, p, q, w, p, c) BY <1>3, <1>5, <1>6, <1>11, AddBox
  <2>2. Kept(b, w, a, q, w, p, c) BY <1>10, <2>1 DEF Kept
  <2> QED BY <1>2, <1>4, <1>6, <1>7, <1>8, <1>9, <2>2
<1>12. CASE e.co = c
  <2>1. ~Nothing(b, w, a, c) BY <1>12 DEF Nothing
  <2>2. One(b, w, a, c) => Nothing(b, w, p, c) BY <1>4, <1>12 DEF One, Nothing
  <2>3. Nothing(b, w, p, c) => One(q, w, p, c) BY <1>3, <1>5, <1>6, AddBox
  <2>4. Kept(b, w, a, q, w, p, c) BY <2>1, <2>2, <2>3 DEF Kept
  <2> QED BY <1>2, <1>4, <1>6, <1>7, <1>8, <1>9, <2>4
<1> QED BY <1>11, <1>12

-----------------------------------------------------------------------------
(* Steps that leave the coroutines alone.                                  *)

LEMMA CoSame == ASSUME CoPart, UNCHANGED coVars PROVE CoPart'
  BY DEF CoPart, coVars, CoTypes, Born, Stored, Chained, Marked, Live

LEMMA GoodSame ==
    ASSUME UNCHANGED <<sessionId, status, timed, wait>>, NEW CONSTANT e, Good(e)
    PROVE  Good(e)'
  BY DEF Good

LEMMA EventsOnly ==
    ASSUME SncInv, UNCHANGED coVars, raced => raced', EvSets(box', wheel', asked'),
           \A e \in AllIn(box', wheel', asked') : e \in AllIn(box, wheel, asked) \/ Good(e),
           \A d \in Co : Kept(box, wheel, asked, box', wheel', asked', d),
           \A d \in Co : ~raced' /\ Sleeps(d) /\ TimerIn(box, wheel, d) => TimerIn(box', wheel', d)
    PROVE  EvPart'
<1>0. UNCHANGED <<sessionId, status, timed, wait, kind, stack>> BY DEF coVars
<1>1. Addressed'
  <2> SUFFICES ASSUME NEW CONSTANT e \in AllIn(box', wheel', asked') PROVE Good(e)' BY DEF Addressed
  <2>1. Good(e) BY DEF SncInv, EvPart, Addressed
  <2> QED BY <1>0, <2>1, GoodSame
<1>2. \A d \in Co : (Sleeps(d)' <=> Sleeps(d)) /\ (Waits(d)' <=> Waits(d)) BY <1>0 DEF Sleeps, Waits
<1>3. TimerReady' BY <1>0, <1>2 DEF SncInv, EvPart, TimerReady
<1>4. Single' BY <1>0, <1>2 DEF SncInv, EvPart, Single, Kept
<1> QED BY <1>1, <1>3, <1>4 DEF EvPart

LEMMA RequestInv == ASSUME SncInv, RequestArrives PROVE SncInv'
<1>a. /\ reqs < MaxReq /\ reqs' = reqs + 1 /\ box' = Append(box, Request)
      /\ UNCHANGED coVars /\ asked' = asked /\ wheel' = wheel /\ tlock' = tlock
      /\ walk' = walk /\ phase' = phase /\ hung' = hung /\ stack' = stack
      /\ raced' = raced /\ others' = others /\ set' = set
  BY DEF RequestArrives, coVars, timerVars, delVars
<1>b. EvSets(box, wheel, asked) /\ reqs \in 0..MaxReq BY DEF SncInv, EvPart, DelPart
<1>c. Request \in Events /\ Request.co = 0 /\ Good(Request)
  BY SncAssumption DEF Events, Request, Good
<1>d. \A d \in Co : d # 0 BY SncAssumption DEF Co
<1>1. CoPart' BY <1>a, CoSame DEF SncInv
<1>2. DelPart'
  <2>1. reqs' \in 0..MaxReq BY <1>a, <1>b, SncAssumption
  <2> QED BY <1>a, <2>1 DEF SncInv, DelPart
<1>3. EvPart'
  <2>0. PICK e : e = Request OBVIOUS
  <2>1. EvSets(box', wheel', asked') /\ AllIn(box', wheel', asked') = AllIn(box, wheel, asked) \cup {e}
    BY <1>a, <1>b, <1>c, <2>0, AddBox
  <2>2. ASSUME NEW d \in Co
        PROVE  /\ Kept(box, wheel, asked, box', wheel', asked', d)
               /\ TimerIn(box, wheel, d) => TimerIn(box', wheel', d)
    BY <1>a, <1>b, <1>c, <1>d, <2>0, AddBox
  <2> QED BY <1>a, <1>c, <2>0, <2>1, <2>2, EventsOnly
<1> QED BY <1>1, <1>2, <1>3 DEF SncInv

LEMMA StartFailsInv == ASSUME SncInv, StartFails PROVE SncInv'
<1>a. /\ box # << >> /\ Head(box).type # "resp" /\ box' = Tail(box)
      /\ UNCHANGED coVars /\ asked' = asked /\ wheel' = wheel /\ tlock' = tlock
      /\ walk' = walk /\ phase' = phase /\ hung' = hung /\ stack' = stack /\ reqs' = reqs
      /\ raced' = raced /\ others' = others /\ set' = set
  BY DEF StartFails, coVars, timerVars, delVars
<1>b. EvSets(box, wheel, asked) BY DEF SncInv, EvPart
<1>1. CoPart' BY <1>a, CoSame DEF SncInv
<1>2. DelPart' BY <1>a DEF SncInv, DelPart
<1>3. EvPart'
  <2>1. EvSets(box', wheel', asked') /\ AllIn(box', wheel', asked') \subseteq AllIn(box, wheel, asked)
    BY <1>a, <1>b, DropBox
  <2>2. ASSUME NEW d \in Co
        PROVE  /\ Kept(box, wheel, asked, box', wheel', asked', d)
               /\ TimerIn(box, wheel, d) => TimerIn(box', wheel', d)
    BY <1>a, <1>b, DropBox
  <2> QED BY <1>a, <2>1, <2>2, EventsOnly
<1> QED BY <1>1, <1>2, <1>3 DEF SncInv

LEMMA SpinInv ==
    ASSUME SncInv, (\E c \in Co : SpinForTimer(c)) \/ SpinEnds PROVE SncInv'
<1>a. /\ UNCHANGED coVars /\ box' = box /\ asked' = asked /\ wheel' = wheel /\ tlock' = tlock
      /\ walk' = walk /\ phase' = phase /\ hung' \in BOOLEAN /\ stack' = stack /\ reqs' = reqs
      /\ raced' = raced /\ others' = others /\ set' = set
  BY DEF SpinForTimer, SpinEnds, coVars, timerVars
<1>1. CoPart' BY <1>a, CoSame DEF SncInv
<1>2. DelPart' BY <1>a DEF SncInv, DelPart
<1>3. \A d \in Co : Kept(box, wheel, asked, box', wheel', asked', d) BY <1>a DEF Kept
<1>4. EvPart' BY <1>a, <1>3, EventsOnly DEF SncInv, EvPart
<1> QED BY <1>1, <1>2, <1>4 DEF SncInv

\* The steps of ztask_timeout_del that leave the lists alone.
Walks == DelTest \/ DelFind \/ DelNotFound \/ DelLock

LEMMA WalksInv == ASSUME SncInv, Walks PROVE SncInv'
<1>a. /\ UNCHANGED coVars /\ box' = box /\ asked' = asked /\ wheel' = wheel
      /\ hung' = hung /\ stack' = stack /\ reqs' = reqs /\ others' = others /\ set' = set
  BY DEF Walks, DelTest, DelFind, DelNotFound, DelLock, coVars, timerVars
<1>b. /\ tlock \in BOOLEAN /\ walk \in 0..Cells /\ phase \in {"test", "walk", "unlink", "end"}
      /\ stack # << >> /\ walk # 0 /\ raced \in BOOLEAN
  BY DEF SncInv, DelPart, Walks, DelTest, DelFind, DelNotFound, DelLock
<1>1. CoPart' BY <1>a, CoSame DEF SncInv
<1>2. tlock' \in BOOLEAN /\ raced' \in BOOLEAN /\ (raced => raced')
  BY <1>b DEF Walks, DelTest, DelFind, DelNotFound, DelLock, timerVars
<1>3. walk' \in 0..Cells
  <2>1. NextList(walk) \in 0..Cells BY <1>b, SncAssumption DEF NextList
  <2> QED BY <1>b, <2>1 DEF Walks, DelTest, DelFind, DelNotFound, DelLock
<1>4. phase' \in {"test", "walk", "unlink", "end"}
  BY <1>b DEF Walks, DelTest, DelFind, DelNotFound, DelLock
<1>5. DelPart' BY <1>a, <1>b, <1>2, <1>3, <1>4 DEF SncInv, DelPart
<1>6. \A d \in Co : Kept(box, wheel, asked, box', wheel', asked', d) BY <1>a DEF Kept
<1>7. EvPart' BY <1>2, <1>a, <1>6, EventsOnly DEF SncInv, EvPart
<1> QED BY <1>1, <1>5, <1>7 DEF SncInv

\* The running coroutine lives, under its own number.
LEMMA RunningLives ==
    ASSUME SncInv, stack # << >>
    PROVE  /\ Running \in Co /\ Running \in Range(stack) /\ Running = Last(stack)
           /\ status[Running] \in {"running", "suspend"} /\ sess[Running] = Running
<1>1. stack \in Seq(Co) /\ IsInjective(stack) BY DEF SncInv, CoPart, CoTypes, Chained
<1>2. Running = Last(stack) BY DEF Running
<1>3. Running \in Co /\ Running \in Range(stack) BY <1>1, <1>2, PopStack
<1>4. status[Running] \in {"running", "suspend"} BY <1>3 DEF SncInv, CoPart, Chained
<1> QED BY <1>2, <1>3, <1>4 DEF SncInv, CoPart, Born

LEMMA UnlinkInv == ASSUME SncInv, DelUnlink PROVE SncInv'
<1> PICK n : n = walk OBVIOUS
<1> PICK m : m = FirstMatch(walk) OBVIOUS
<1>a. /\ UNCHANGED coVars /\ box' = box /\ asked' = asked
      /\ wheel' = IF Matches(n) = {} THEN wheel ELSE [wheel EXCEPT ![n] = RemoveAt(@, m)]
      /\ walk' = 0 /\ phase' = "test"
      /\ tlock' = tlock /\ hung' = hung /\ stack' = stack /\ reqs' = reqs
      /\ raced' = raced /\ others' = others /\ set' = set
  BY DEF DelUnlink, coVars
<1>b. EvSets(box, wheel, asked) /\ stack # << >> /\ n \in 1..Cells
  BY SncAssumption DEF SncInv, EvPart, DelPart, DelUnlink
<1>d. Running \in Range(stack) /\ sess[Running] = Running BY <1>b, RunningLives
<1>1. CoPart' BY <1>a, CoSame DEF SncInv
<1>2. DelPart' BY <1>a, SncAssumption DEF SncInv, DelPart
<1>3. CASE Matches(n) = {}
  <2>1. wheel' = wheel BY <1>a, <1>3
  <2>2. \A d \in Co : Kept(box, wheel, asked, box', wheel', asked', d) BY <1>a, <2>1 DEF Kept
  <2>3. EvPart' BY <1>a, <1>b, <2>1, <2>2, EventsOnly
  <2> QED BY <1>1, <1>2, <2>3 DEF SncInv
<1>4. CASE Matches(n) # {}
  <2>1. m \in DOMAIN wheel[n] /\ wheel[n][m].session = sess[Running]
    <3>1. wheel[n] \in Seq(Events) BY <1>b DEF EvSets
    <3>2. Matches(n) \in SUBSET Nat BY <3>1 DEF Matches
    <3>3. \E k \in Matches(n) : \A j \in Matches(n) : k <= j BY <1>4, <3>2, LeastElement
    <3>4. m \in Matches(n) BY <3>3 DEF FirstMatch
    <3> QED BY <3>4 DEF Matches
  <2>2. wheel' = [wheel EXCEPT ![n] = RemoveAt(@, m)] /\ box' = box /\ asked' = asked BY <1>a, <1>4
  <2>3. EvSets(box', wheel', asked') /\ AllIn(box', wheel', asked') \subseteq AllIn(box, wheel, asked)
    BY <1>b, <2>1, <2>2, DropTimer
  <2>4. ASSUME NEW d \in Co
        PROVE  /\ Kept(box, wheel, asked, box', wheel', asked', d)
               /\ Sleeps(d) /\ TimerIn(box, wheel, d) => TimerIn(box', wheel', d)
    <3>1. Kept(box, wheel, asked, box', wheel', asked', d) BY <1>b, <2>1, <2>2, DropTimer
    <3>2. Sleeps(d) => wheel[n][m].session # d BY <1>d, <2>1 DEF Sleeps
    <3>3. wheel[n][m].session # d /\ TimerIn(box, wheel, d) => TimerIn(box', wheel', d)
      BY <1>b, <2>1, <2>2, DropTimer
    <3> QED BY <3>1, <3>2, <3>3
  <2>5. EvPart' BY <1>a, <2>3, <2>4, EventsOnly
  <2> QED BY <1>1, <1>2, <2>5 DEF SncInv
<1> QED BY <1>3, <1>4

\* Another service sets or deletes a timer.
LEMMA OtherInv ==
    ASSUME SncInv, NEW i \in 1..Cells, OtherSets(i) \/ OtherDeletes(i) PROVE SncInv'
<1>a. /\ UNCHANGED coVars /\ box' = box /\ asked' = asked /\ wheel' = wheel /\ tlock' \in BOOLEAN
      /\ walk' = walk /\ phase' = phase /\ hung' = hung /\ stack' = stack /\ reqs' = reqs
  BY DEF OtherSets, OtherDeletes, coVars, SncInv, DelPart
<1>b. raced \in BOOLEAN /\ others \subseteq 1..Cells /\ set \in 0..MaxOther BY DEF SncInv, DelPart
<1>c. raced' \in BOOLEAN /\ (raced => raced')
  BY <1>b DEF OtherSets, OtherDeletes, Touch, Walking
<1>d. others' \subseteq 1..Cells BY <1>b DEF OtherSets, OtherDeletes
<1>e. set' \in 0..MaxOther
  <2>1. (set < MaxOther /\ set' = set + 1) \/ set' = set BY DEF OtherSets, OtherDeletes
  <2>2. MaxOther \in Nat BY SncAssumption
  <2> QED BY <1>b, <2>1, <2>2
<1>1. CoPart' BY <1>a, CoSame DEF SncInv
<1>2. DelPart' BY <1>a, <1>c, <1>d, <1>e DEF SncInv, DelPart
<1>3. \A d \in Co : Kept(box, wheel, asked, box', wheel', asked', d) BY <1>a DEF Kept
<1>4. EvPart' BY <1>a, <1>c, <1>3, EventsOnly DEF SncInv, EvPart
<1> QED BY <1>1, <1>2, <1>4 DEF SncInv

LEMMA LoseInv ==
    ASSUME SncInv, NEW n \in 1..Cells, NEW m \in DOMAIN wheel[n], Lose(n, m) PROVE SncInv'
<1>a. /\ UNCHANGED coVars /\ box' = box /\ asked' = asked /\ raced
      /\ wheel' = [wheel EXCEPT ![n] = RemoveAt(@, m)]
      /\ walk' = walk /\ phase' = phase /\ tlock' = tlock /\ hung' = hung /\ stack' = stack
      /\ reqs' = reqs /\ raced' = raced /\ others' = others /\ set' = set
  BY DEF Lose, coVars, delVars
<1>b. EvSets(box, wheel, asked) BY DEF SncInv, EvPart
<1>1. CoPart' BY <1>a, CoSame DEF SncInv
<1>2. DelPart' BY <1>a DEF SncInv, DelPart
<1>3. EvSets(box', wheel', asked') /\ AllIn(box', wheel', asked') \subseteq AllIn(box, wheel, asked)
  BY <1>a, <1>b, DropTimer
<1>4. \A d \in Co : Kept(box, wheel, asked, box', wheel', asked', d) BY <1>a, <1>b, DropTimer
<1>5. EvPart' BY <1>a, <1>3, <1>4, EventsOnly
<1> QED BY <1>1, <1>2, <1>5 DEF SncInv

LEMMA ExpireInv == ASSUME SncInv, NEW n \in 1..Cells, Expire(n) PROVE SncInv'
<1>a. /\ UNCHANGED coVars /\ asked' = asked
      /\ box' = box \o wheel[n] /\ wheel' = [wheel EXCEPT ![n] = << >>]
      /\ walk' = walk /\ phase' = phase
      /\ tlock' = tlock /\ hung' = hung /\ stack' = stack /\ reqs' = reqs
      /\ others' = others \ {n} /\ set' = set /\ raced' = (raced \/ Walking(n))
  BY DEF Expire, Touch, coVars
<1>b. EvSets(box, wheel, asked) BY DEF SncInv, EvPart
<1>c. raced' \in BOOLEAN /\ (raced => raced') BY <1>a
<1>1. CoPart' BY <1>a, CoSame DEF SncInv
<1>2. DelPart' BY <1>a, <1>c DEF SncInv, DelPart
<1>3. EvPart'
  <2>1. EvSets(box', wheel', asked') /\ AllIn(box', wheel', asked') \subseteq AllIn(box, wheel, asked)
    BY <1>a, <1>b, MoveTimers
  <2>2. ASSUME NEW d \in Co
        PROVE  /\ Kept(box, wheel, asked, box', wheel', asked', d)
               /\ TimerIn(box, wheel, d) => TimerIn(box', wheel', d)
    BY <1>a, <1>b, MoveTimers
  <2> QED BY <1>a, <1>c, <2>1, <2>2, EventsOnly
<1> QED BY <1>1, <1>2, <1>3 DEF SncInv

LEMMA CascadeInv ==
    ASSUME SncInv, NEW n \in 1..Cells, NEW m \in 1..Cells, Cascade(n, m) PROVE SncInv'
<1>a. /\ UNCHANGED coVars /\ asked' = asked /\ box' = box /\ m # n
      /\ wheel' = [wheel EXCEPT ![m] = @ \o wheel[n], ![n] = << >>]
      /\ walk' = walk /\ phase' = phase
      /\ tlock' = tlock /\ hung' = hung /\ stack' = stack /\ reqs' = reqs
      /\ others' = others /\ set' = set /\ raced' = (raced \/ Walking(n) \/ Walking(m))
  BY DEF Cascade, coVars
<1>b. EvSets(box, wheel, asked) BY DEF SncInv, EvPart
<1>c. raced' \in BOOLEAN /\ (raced => raced') BY <1>a
<1>1. CoPart' BY <1>a, CoSame DEF SncInv
<1>2. DelPart' BY <1>a, <1>c DEF SncInv, DelPart
<1>3. EvPart'
  <2>1. EvSets(box', wheel', asked') /\ AllIn(box', wheel', asked') \subseteq AllIn(box, wheel, asked)
    BY <1>a, <1>b, MoveList
  <2>2. ASSUME NEW d \in Co
        PROVE  /\ Kept(box, wheel, asked, box', wheel', asked', d)
               /\ TimerIn(box, wheel, d) => TimerIn(box', wheel', d)
    BY <1>a, <1>b, MoveList
  <2> QED BY <1>a, <1>c, <2>1, <2>2, EventsOnly
<1> QED BY <1>1, <1>2, <1>3 DEF SncInv

LEMMA AnswerInv ==
    ASSUME SncInv, NEW e \in asked, NEW f \in BOOLEAN, Answer(e, f) PROVE SncInv'
<1>a. /\ UNCHANGED coVars /\ wheel' = wheel
      /\ box' = Append(box, [e EXCEPT !.full = f]) /\ asked' = asked \ {e}
      /\ walk' = walk /\ phase' = phase
      /\ tlock' = tlock /\ hung' = hung /\ stack' = stack /\ reqs' = reqs
      /\ raced' = raced /\ others' = others /\ set' = set
  BY DEF Answer, coVars, delVars, timerVars
<1>b. EvSets(box, wheel, asked) BY DEF SncInv, EvPart
<1>c. Good([e EXCEPT !.full = f])
  <2>1. Good(e) /\ e \in Events BY <1>b DEF SncInv, EvPart, Addressed, AllIn, EvSets
  <2>2. PICK x : x = [e EXCEPT !.full = f] OBVIOUS
  <2>3. x.type = e.type /\ x.co = e.co /\ x.session = e.session /\ x.wait = e.wait
    BY <2>1, <2>2 DEF Events
  <2>4. Good(x) BY <2>1, <2>3 DEF Good
  <2> QED BY <2>2, <2>4
<1>1. CoPart' BY <1>a, CoSame DEF SncInv
<1>2. DelPart' BY <1>a DEF SncInv, DelPart
<1>3. EvPart'
  <2>1. /\ EvSets(box', wheel', asked')
        /\ AllIn(box', wheel', asked') \subseteq AllIn(box, wheel, asked) \cup {[e EXCEPT !.full = f]}
    BY <1>a, <1>b, MoveAnswer
  <2>2. ASSUME NEW d \in Co
        PROVE  /\ Kept(box, wheel, asked, box', wheel', asked', d)
               /\ TimerIn(box, wheel, d) => TimerIn(box', wheel', d)
    BY <1>a, <1>b, MoveAnswer
  <2> QED BY <1>a, <1>c, <2>1, <2>2, EventsOnly
<1> QED BY <1>1, <1>2, <1>3 DEF SncInv

-----------------------------------------------------------------------------
(* What a coroutine's step leaves of the table of coroutines.              *)

LEMMA CoFacts ==
    ASSUME SncInv
    PROVE  /\ sessionId \in Nat /\ tree \in [Sessions -> 0..MaxCo] /\ sess \in [Co -> 0..MaxSession]
           /\ status \in [Co -> {"none", "ready", "running", "suspend"}]
           /\ stack \in Seq(Co) /\ wait \in [Co -> 0..MaxWait]
           /\ kind \in [Co -> {"none", "call", "call_s", "yield", "yield_s", "sleep"}]
           /\ timed \in [Co -> SUBSET (1..MaxWait)]
           /\ Born /\ Stored /\ Chained /\ Marked
           /\ EvSets(box, wheel, asked) /\ Addressed /\ TimerReady /\ Single /\ DelPart
  BY DEF SncInv, CoPart, EvPart, CoTypes

LEMMA LiveFinite == IsFiniteSet(Live) /\ Cardinality(Live) \in Nat /\ Cardinality(Live) <= MaxCo
<1>1. IsFiniteSet(Co) /\ Cardinality(Co) = MaxCo BY SncAssumption, FS_Interval DEF Co
<1>2. Live \subseteq Co BY DEF Live
<1> QED BY <1>1, <1>2, FS_Subset, FS_CardinalityType

\* coroutine_resume enters c.
LEMMA ContinueCo ==
    ASSUME SncInv, NEW c \in Co, CanResume(c), c \notin Range(stack),
           stack' = Append(stack, c), status' = Entered(c),
           UNCHANGED <<sessionId, tree, sess, wait, kind, tasks, timed>>
    PROVE  /\ CoPart'
           /\ Range(stack') = Range(stack) \cup {c} /\ stack' # << >>
           /\ \A d \in Co \ {c} : status'[d] = status[d]
           /\ status'[c] \in {"running", "suspend"} /\ status[c] # "none"
<1>a. CoTypes /\ Born /\ Stored /\ Chained /\ Marked BY CoFacts DEF CoTypes
<1>b. stack \in Seq(Co) /\ status \in [Co -> {"none", "ready", "running", "suspend"}] BY <1>a DEF CoTypes
<1>1. stack' \in Seq(Co) /\ stack' # << >> /\ Range(stack') = Range(stack) \cup {c}
  BY <1>b, PushStack
<1>2. IsInjective(stack')
  <2>1. ~Contains(stack, c) BY <1>b DEF Contains, Range
  <2>2. IsInjective(stack) BY <1>a DEF Chained
  <2> QED BY <1>b, <2>1, <2>2, PushStack
<1>3. /\ status' \in [Co -> {"none", "ready", "running", "suspend"}]
      /\ \A d \in Co \ {c} : status'[d] = status[d]
      /\ status'[c] \in {"running", "suspend"} /\ status[c] # "none"
  BY <1>b DEF CanResume, Entered
<1>4. CoTypes' BY <1>a, <1>1, <1>3 DEF CoTypes
<1>5. Born' BY <1>a, <1>3 DEF Born
<1>6. Stored'
  <2>1. Live' = Live BY <1>3 DEF Live
  <2> QED BY <1>a, <2>1 DEF Stored
<1>7. Chained'
  <2>1. \A d \in Range(stack) : d \in Co BY <1>b DEF Range
  <2> QED BY <1>a, <1>1, <1>2, <1>3, <2>1 DEF Chained
<1>8. Marked' BY <1>a DEF Marked
<1> QED BY <1>1, <1>3, <1>4, <1>5, <1>6, <1>7, <1>8 DEF CoPart

\* coroutine_yield by the running coroutine.
Yields(c, k) ==
    /\ c \in Range(stack) /\ Range(stack') = Range(stack) \ {c}
    /\ status[c] # "none" /\ sess[c] = c /\ wait'[c] \in 1..MaxWait
    /\ status'[c] = "suspend" /\ kind'[c] = k
    /\ timed'[c] = IF k \in {"yield_s", "call_s"} THEN timed[c] \cup {wait'[c]} ELSE timed[c]
    /\ \A w \in timed'[c] : w <= wait'[c]
    /\ \A d \in Co \ {c} : /\ status'[d] = status[d] /\ kind'[d] = kind[d]
                           /\ wait'[d] = wait[d] /\ timed'[d] = timed[d]

LEMMA YieldCo ==
    ASSUME SncInv, NEW c \in Co, NEW k \in {"call", "call_s", "yield", "yield_s", "sleep"}, Yield(c, k)
    PROVE  CoPart' /\ Yields(c, k)
<1> PICK m : m = wait[c] + 1 OBVIOUS
<1>a. CoTypes /\ Born /\ Stored /\ Chained /\ Marked BY CoFacts DEF CoTypes
<1>b. /\ stack \in Seq(Co) /\ status \in [Co -> {"none", "ready", "running", "suspend"}]
      /\ wait \in [Co -> 0..MaxWait] /\ timed \in [Co -> SUBSET (1..MaxWait)]
      /\ kind \in [Co -> {"none", "call", "call_s", "yield", "yield_s", "sleep"}]
  BY <1>a DEF CoTypes
<1>c. Running = c /\ walk = 0 /\ stack # << >>
  <2>1. Running = c /\ walk = 0 BY DEF Yield, Runs
  <2>2. c # 0 BY SncAssumption DEF Co
  <2> QED BY <2>1, <2>2 DEF Running
<1>d. /\ c \in Range(stack) /\ c = Last(stack) /\ status[c] \in {"running", "suspend"} /\ sess[c] = c
  BY <1>c, RunningLives
<1>e. /\ wait' = [wait EXCEPT ![c] = m] /\ wait[c] < MaxWait
      /\ kind' = [kind EXCEPT ![c] = k]
      /\ timed' = IF k \in {"yield_s", "call_s"} THEN [timed EXCEPT ![c] = timed[c] \cup {m}] ELSE timed
      /\ status' = [status EXCEPT ![c] = "suspend"] /\ stack' = Front(stack)
      /\ UNCHANGED <<sessionId, tree, sess, tasks>>
  BY <1>b DEF Yield
<1>f. m \in 1..MaxWait /\ m = wait[c] + 1 /\ wait[c] \in Nat BY <1>b, <1>e, SncAssumption
<1>1. stack' \in Seq(Co) /\ Range(stack') = Range(stack) \ {c} /\ IsInjective(stack')
  BY <1>a, <1>b, <1>c, <1>d, <1>e, PopStack DEF Chained
<1>2. /\ wait'[c] = m /\ status'[c] = "suspend" /\ kind'[c] = k
      /\ \A d \in Co \ {c} : status'[d] = status[d] /\ kind'[d] = kind[d] /\ wait'[d] = wait[d]
  BY <1>b, <1>e
<1>3. /\ timed'[c] = IF k \in {"yield_s", "call_s"} THEN timed[c] \cup {m} ELSE timed[c]
      /\ \A d \in Co \ {c} : timed'[d] = timed[d]
      /\ timed' \in [Co -> SUBSET (1..MaxWait)]
  <2>1. timed[c] \cup {m} \in SUBSET (1..MaxWait) BY <1>b, <1>f
  <2> QED BY <1>b, <1>e, <2>1
<1>4. CoTypes'
  <2>1. wait' \in [Co -> 0..MaxWait] BY <1>b, <1>e, <1>f, SncAssumption
  <2>2. status' \in [Co -> {"none", "ready", "running", "suspend"}] BY <1>b, <1>e
  <2>3. kind' \in [Co -> {"none", "call", "call_s", "yield", "yield_s", "sleep"}] BY <1>b, <1>e
  <2> QED BY <1>a, <1>1, <1>3, <1>e, <2>1, <2>2, <2>3 DEF CoTypes
<1>5. Born'
  <2>1. wait'[c] > 0 /\ c <= sessionId BY <1>2, <1>a, <1>d, <1>f DEF Born
  <2> QED BY <1>a, <1>e, <1>2, <2>1 DEF Born
<1>6. Stored'
  <2>1. Live' = Live BY <1>2, <1>d DEF Live
  <2> QED BY <1>a, <1>e, <2>1 DEF Stored
<1>7. Chained'
  <2>1. \A d \in Range(stack) : d \in Co BY <1>b DEF Range
  <2> QED BY <1>a, <1>1, <1>2, <2>1 DEF Chained
<1>8. \A w \in timed'[c] : w <= wait'[c]
  <2>1. \A w \in timed[c] : w <= wait[c] /\ w \in Nat BY <1>a, <1>b DEF Marked
  <2>2. \A w \in timed[c] : w <= m BY <2>1, <1>f
  <2>3. m <= m BY <1>f
  <2> QED BY <1>2, <1>3, <2>2, <2>3
<1>9. Marked'
  <2>1. k \in {"yield_s", "call_s"} => timed'[c] # {} BY <1>3
  <2> QED BY <1>a, <1>2, <1>3, <1>8, <2>1 DEF Marked
<1> QED BY <1>1, <1>2, <1>3, <1>4, <1>5, <1>6, <1>7, <1>8, <1>9, <1>d, <1>f DEF CoPart, Yields

\* The callback of the running coroutine returns.
LEMMA FinishCo ==
    ASSUME SncInv, MaxCo <= MaxSession, NEW c \in Co, Finish(c)
    PROVE  /\ CoPart' /\ walk' = 0
           /\ c \in Range(stack) /\ Range(stack') = Range(stack) \ {c}
           /\ status'[c] = "none"
           /\ \A d \in Co \ {c} : /\ status'[d] = status[d] /\ kind'[d] = kind[d]
                                  /\ wait'[d] = wait[d] /\ timed'[d] = timed[d]
<1>a. CoTypes /\ Born /\ Stored /\ Chained /\ Marked BY CoFacts DEF CoTypes
<1>b. /\ stack \in Seq(Co) /\ status \in [Co -> {"none", "ready", "running", "suspend"}]
      /\ wait \in [Co -> 0..MaxWait] /\ timed \in [Co -> SUBSET (1..MaxWait)]
      /\ kind \in [Co -> {"none", "call", "call_s", "yield", "yield_s", "sleep"}]
      /\ tree \in [Sessions -> 0..MaxCo]
  BY <1>a DEF CoTypes
<1>c. Running = c /\ walk' = 0 /\ stack # << >>
  <2>1. Running = c /\ walk' = 0 BY DEF Finish, Runs, delVars
  <2>2. c # 0 BY SncAssumption DEF Co
  <2> QED BY <2>1, <2>2 DEF Running
<1>d. /\ c \in Range(stack) /\ c = Last(stack) /\ status[c] \in {"running", "suspend"} /\ sess[c] = c
  BY <1>c, RunningLives
<1>e. /\ wait' = [wait EXCEPT ![c] = MaxWait] /\ kind' = [kind EXCEPT ![c] = "none"]
      /\ timed' = [timed EXCEPT ![c] = {}]
      /\ status' = [status EXCEPT ![c] = "none"] /\ stack' = Front(stack)
      /\ tree' = [tree EXCEPT ![c] = 0] /\ tasks' = tasks - 1
      /\ sessionId' = sessionId /\ sess' = sess
  BY <1>d DEF Finish, Removed
<1>f. c \in Sessions BY SncAssumption DEF Co, Sessions
<1>1. stack' \in Seq(Co) /\ Range(stack') = Range(stack) \ {c} /\ IsInjective(stack')
  BY <1>a, <1>b, <1>c, <1>d, <1>e, PopStack DEF Chained
<1>2. /\ wait'[c] = MaxWait /\ status'[c] = "none" /\ kind'[c] = "none" /\ timed'[c] = {}
      /\ \A d \in Co \ {c} : /\ status'[d] = status[d] /\ kind'[d] = kind[d]
                             /\ wait'[d] = wait[d] /\ timed'[d] = timed[d]
  BY <1>b, <1>e
<1>3. CoTypes'
  <2>1. wait' \in [Co -> 0..MaxWait] BY <1>b, <1>e, SncAssumption
  <2>2. status' \in [Co -> {"none", "ready", "running", "suspend"}] BY <1>b, <1>e
  <2>3. kind' \in [Co -> {"none", "call", "call_s", "yield", "yield_s", "sleep"}] BY <1>b, <1>e
  <2>4. timed' \in [Co -> SUBSET (1..MaxWait)] BY <1>b, <1>e
  <2>5. tree' \in [Sessions -> 0..MaxCo]
    <3>1. 0 \in 0..MaxCo BY SncAssumption
    <3> QED BY <1>b, <1>e, <3>1
  <2> QED BY <1>a, <1>1, <1>e, <2>1, <2>2, <2>3, <2>4, <2>5 DEF CoTypes
<1>4. Born'
  <2>1. wait'[c] > 0 /\ c <= sessionId BY <1>2, <1>a, <1>d, SncAssumption DEF Born
  <2> QED BY <1>a, <1>e, <1>2, <2>1 DEF Born
<1>5. Stored'
  <2>1. c \in Live /\ Live' = Live \ {c} BY <1>2, <1>d DEF Live
  <2>2. Cardinality(Live') = Cardinality(Live) - 1 BY <2>1, LiveFinite, FS_RemoveElement
  <2>3. \A s \in Sessions : tree'[s] = IF s = c THEN 0 ELSE tree[s] BY <1>b, <1>e
  <2>4. \A s \in Sessions : tree'[s] = IF s \in Live' THEN s ELSE 0 BY <1>a, <2>1, <2>3 DEF Stored
  <2>5. tasks' = Cardinality(Live') BY <1>a, <1>e, <2>2 DEF Stored
  <2> QED BY <2>4, <2>5 DEF Stored
<1>6. Chained'
  <2>1. \A d \in Range(stack) : d \in Co BY <1>b DEF Range
  <2> QED BY <1>a, <1>1, <1>2, <2>1 DEF Chained
<1>7. Marked' BY <1>a, <1>2 DEF Marked
<1> QED BY <1>1, <1>2, <1>3, <1>4, <1>5, <1>6, <1>7, <1>c, <1>d DEF CoPart

\* coroutine_new: c is the next number and the next session.
LEMMA CreateCo ==
    ASSUME SncInv, MaxCo <= MaxSession, NEW c \in Co, NEW st \in {"ready", "running"}, Create(c, st)
    PROVE  /\ c = sessionId + 1 /\ sessionId' = c /\ sess'[c] = c /\ timed[c] = {}
           /\ status[c] = "none" /\ c \notin Range(stack) /\ status'[c] = st
           /\ \A d \in Co \ {c} : status'[d] = status[d]
           /\ sess' \in [Co -> 0..MaxSession]
           /\ tree' \in [Sessions -> 0..MaxCo]
           /\ status' \in [Co -> {"none", "ready", "running", "suspend"}]
           /\ Stored' /\ sessionId' \in Nat /\ sessionId' <= MaxCo
           /\ \A d \in Co : sess'[d] = IF d <= sessionId' THEN d ELSE 0
<1>a. CoTypes /\ Born /\ Stored /\ Chained /\ Marked BY CoFacts DEF CoTypes
<1>b. /\ stack \in Seq(Co) /\ status \in [Co -> {"none", "ready", "running", "suspend"}]
      /\ wait \in [Co -> 0..MaxWait] /\ timed \in [Co -> SUBSET (1..MaxWait)]
      /\ tree \in [Sessions -> 0..MaxCo] /\ sess \in [Co -> 0..MaxSession] /\ sessionId \in Nat
  BY <1>a DEF CoTypes
<1>c. c \in Sessions /\ c \in Nat /\ c >= 1 /\ c <= MaxCo BY SncAssumption DEF Co, Sessions
<1>d. /\ status[c] = "none" /\ wait[c] = 0
      /\ \A d \in Co : d < c => wait[d] > 0 \/ status[d] # "none"
  BY DEF Create
<1>1. c = sessionId + 1
  <2>1. c > sessionId BY <1>a, <1>b, <1>c, <1>d DEF Born
  <2>2. CASE c > sessionId + 1
    <3>1. sessionId + 1 \in Co /\ sessionId + 1 < c BY <1>b, <1>c, <2>2, SncAssumption DEF Co
    <3>2. sessionId + 1 <= sessionId BY <1>a, <1>d, <3>1 DEF Born
    <3> QED BY <1>b, <3>2
  <2> QED BY <1>b, <1>c, <2>1, <2>2
<1>2. NewSession(sessionId) = c BY <1>1, <1>b, <1>c, SncAssumption DEF NewSession
<1>3. tree[c] = 0 BY <1>a, <1>c, <1>d DEF Stored, Live
<1>e. /\ sessionId' = c /\ sess' = [sess EXCEPT ![c] = c] /\ tree' = [tree EXCEPT ![c] = c]
      /\ status' = [status EXCEPT ![c] = st] /\ tasks' = tasks + 1
  BY <1>2, <1>3 DEF Create, Inserted
<1>4. timed[c] = {}
  <2>1. \A w \in timed[c] : w <= 0 /\ w \in 1..MaxWait BY <1>a, <1>b, <1>d DEF Marked
  <2> QED BY <2>1, SncAssumption
<1>5. c \notin Range(stack) BY <1>a, <1>d DEF Chained
<1>6. status'[c] = st /\ \A d \in Co \ {c} : status'[d] = status[d] BY <1>b, <1>e
<1>7. sess'[c] = c /\ \A d \in Co \ {c} : sess'[d] = sess[d] BY <1>b, <1>e
<1>8. sess' \in [Co -> 0..MaxSession] BY <1>b, <1>e, <1>c, SncAssumption
<1>9. tree' \in [Sessions -> 0..MaxCo] BY <1>b, <1>c, <1>e, SncAssumption
<1>10. status' \in [Co -> {"none", "ready", "running", "suspend"}] BY <1>b, <1>e
<1>11. Stored'
  <2>1. c \notin Live /\ Live' = Live \cup {c} BY <1>6, <1>d DEF Live
  <2>2. Cardinality(Live') = Cardinality(Live) + 1 BY <2>1, LiveFinite, FS_AddElement
  <2>3. \A s \in Sessions : tree'[s] = IF s = c THEN c ELSE tree[s] BY <1>b, <1>e
  <2>4. \A s \in Sessions : tree'[s] = IF s \in Live' THEN s ELSE 0 BY <1>a, <2>1, <2>3 DEF Stored
  <2>5. tasks' = Cardinality(Live') BY <1>a, <1>e, <2>2 DEF Stored
  <2> QED BY <2>4, <2>5 DEF Stored
<1>12. \A d \in Co : sess'[d] = IF d <= sessionId' THEN d ELSE 0
  <2> SUFFICES ASSUME NEW d \in Co PROVE sess'[d] = IF d <= c THEN d ELSE 0 BY <1>e
  <2>1. d \in Nat BY SncAssumption DEF Co
  <2>2. CASE d = c BY <1>7, <1>c, <2>2
  <2>3. CASE d # c
    <3>1. sess'[d] = IF d <= sessionId THEN d ELSE 0 BY <1>7, <1>a, <2>3 DEF Born
    <3>2. d <= sessionId <=> d <= c BY <1>1, <1>b, <2>1, <2>3
    <3> QED BY <3>1, <3>2
  <2> QED BY <2>2, <2>3
<1> QED BY <1>1, <1>4, <1>5, <1>6, <1>7, <1>8, <1>9, <1>10, <1>11, <1>12, <1>c, <1>d, <1>e

\* The rest of the table after coroutine_new.
LEMMA CreatedCo ==
    ASSUME SncInv, MaxCo <= MaxSession, NEW c \in Co, NEW st \in {"ready", "running"}, Create(c, st),
           NEW x \in 0..MaxWait, st = "ready" => x > 0, wait' = [wait EXCEPT ![c] = x],
           timed' = timed, kind' = kind \/ kind' = [kind EXCEPT ![c] = "sleep"],
           stack' \in Seq(Co), IsInjective(stack'),
           Range(stack') = IF st = "running" THEN Range(stack) \cup {c} ELSE Range(stack)
    PROVE  /\ CoPart'
           /\ \A d \in Co \ {c} : /\ status'[d] = status[d] /\ kind'[d] = kind[d]
                                  /\ wait'[d] = wait[d] /\ timed'[d] = timed[d]
<1>a. CoTypes /\ Born /\ Stored /\ Chained /\ Marked BY CoFacts DEF CoTypes
<1>b. /\ stack \in Seq(Co) /\ sessionId \in Nat
      /\ wait \in [Co -> 0..MaxWait] /\ timed \in [Co -> SUBSET (1..MaxWait)]
      /\ kind \in [Co -> {"none", "call", "call_s", "yield", "yield_s", "sleep"}]
  BY <1>a DEF CoTypes
<1>c. /\ c = sessionId + 1 /\ sessionId' = c /\ timed[c] = {}
      /\ status[c] = "none" /\ c \notin Range(stack) /\ status'[c] = st
      /\ \A d \in Co \ {c} : status'[d] = status[d]
      /\ Stored' /\ sessionId' \in Nat /\ sessionId' <= MaxCo
      /\ \A d \in Co : sess'[d] = IF d <= sessionId' THEN d ELSE 0
  BY CreateCo
<1>d. /\ sess' \in [Co -> 0..MaxSession] /\ tree' \in [Sessions -> 0..MaxCo]
      /\ status' \in [Co -> {"none", "ready", "running", "suspend"}]
  BY CreateCo
<1>1. /\ wait'[c] = x /\ \A d \in Co \ {c} : wait'[d] = wait[d] /\ kind'[d] = kind[d]
  BY <1>b
<1>2. CoTypes'
  <2>1. wait' \in [Co -> 0..MaxWait] BY <1>b
  <2>2. kind' \in [Co -> {"none", "call", "call_s", "yield", "yield_s", "sleep"}] BY <1>b
  <2> QED BY <1>b, <1>c, <1>d, <2>1, <2>2 DEF CoTypes
<1>3. Born'
  <2>1. ASSUME NEW d \in Co PROVE d <= sessionId' <=> (status'[d] # "none" \/ wait'[d] > 0)
    <3>0. d \in Nat BY SncAssumption DEF Co
    <3>1. CASE d = c BY <1>c, <3>0, <3>1
    <3>2. CASE d # c
      <4>1. d <= sessionId <=> (status[d] # "none" \/ wait[d] > 0) BY <1>a DEF Born
      <4>2. d <= sessionId <=> d <= c BY <1>b, <1>c, <3>0, <3>2
      <4> QED BY <1>1, <1>c, <3>2, <4>1, <4>2
    <3> QED BY <3>1, <3>2
  <2> QED BY <1>c, <2>1 DEF Born
<1>4. Chained'
  <2>1. \A d \in Range(stack) : d \in Co /\ d # c BY <1>b, <1>c DEF Range
  <2> QED BY <1>a, <1>c, <2>1 DEF Chained
<1>5. Marked'
  <2>1. \A d \in Co : \A w \in timed'[d] : w <= wait'[d] BY <1>1, <1>a, <1>c DEF Marked
  <2>2. \A d \in Co : kind'[d] \in {"yield_s", "call_s"} => timed'[d] # {} BY <1>a, <1>b DEF Marked
  <2> QED BY <2>1, <2>2 DEF Marked
<1> QED BY <1>1, <1>2, <1>3, <1>4, <1>5, <1>c DEF CoPart

-----------------------------------------------------------------------------
(* Steps of a coroutine.                                                   *)

LEMMA NothingIsOne ==
    ASSUME NEW b, NEW w, NEW a, NEW c, Nothing(b, w, a, c) PROVE One(b, w, a, c)
<1>1. \A r : NoneIn(r, c) => OneIn(r, c) BY DEF NoneIn, OneIn, Range
<1> QED BY <1>1 DEF One, Nothing

\* What a step has to keep when it changes coroutine c only.
LEMMA OneCoroutine ==
    ASSUME SncInv, NEW CONSTANT c \in Co, EvSets(box', wheel', asked'), raced' = raced,
           sessionId' \in Nat, sessionId <= sessionId',
           \A d \in Co \ {c} : /\ status'[d] = status[d] /\ kind'[d] = kind[d]
                               /\ wait'[d] = wait[d] /\ timed'[d] = timed[d]
                               /\ d \in Range(stack') <=> d \in Range(stack),
           \A e \in AllIn(box', wheel', asked') : e \in AllIn(box, wheel, asked) \/ Good(e)',
           \A e \in AllIn(box, wheel, asked) : e.co = c => Good(e)',
           \A d \in Co \ {c} : /\ Kept(box, wheel, asked, box', wheel', asked', d)
                               /\ Sleeps(d) /\ TimerIn(box, wheel, d) => TimerIn(box', wheel', d),
           Sleeps(c)' /\ kind'[c] \in Timed => TimerIn(box', wheel', c),
           status'[c] # "none" /\ timed'[c] = {} =>
               /\ One(box', wheel', asked', c)
               /\ ~Waits(c)' => Nothing(box', wheel', asked', c)
    PROVE  EvPart'
<1>a. Addressed /\ TimerReady /\ Single /\ sessionId \in Nat /\ sessionId <= MaxCo BY CoFacts DEF Born
<1>b. \A d \in Co \ {c} : (Sleeps(d)' <=> Sleeps(d)) /\ (Waits(d)' <=> Waits(d))
  BY DEF Sleeps, Waits
<1>1. Addressed'
  <2> SUFFICES ASSUME NEW CONSTANT e \in AllIn(box', wheel', asked'), e \in AllIn(box, wheel, asked),
                      e.co # c
               PROVE  Good(e)'
    BY DEF Addressed
  <2>1. Good(e) BY <1>a DEF Addressed
  <2>2. CASE e.type = "req" BY <2>1, <2>2 DEF Good
  <2>3. CASE e.type # "req"
    <3>1. /\ e.type = "resp" /\ e.co \in 1..sessionId /\ e.session = e.co
          /\ status[e.co] # "none" => \/ \E w \in timed[e.co] : w <= e.wait
                                      \/ timed[e.co] = {} /\ e.wait = wait[e.co]
      BY <2>1, <2>3 DEF Good
    <3>2. e.co \in Co /\ e.co \in 1..sessionId'
      BY <1>a, <3>1, SncAssumption DEF Co
    <3>3. status'[e.co] = status[e.co] /\ timed'[e.co] = timed[e.co] /\ wait'[e.co] = wait[e.co]
      BY <3>2
    <3> QED BY <3>1, <3>2, <3>3 DEF Good
  <2> QED BY <2>2, <2>3
<1>2. TimerReady'
  <2> SUFFICES ASSUME NEW CONSTANT d \in Co, ~raced', Sleeps(d)', kind'[d] \in Timed
               PROVE  TimerIn(box', wheel', d)
    BY DEF TimerReady
  <2> QED BY <1>a, <1>b DEF TimerReady
<1>3. Single'
  <2> SUFFICES ASSUME NEW CONSTANT d \in Co, status'[d] # "none", timed'[d] = {}
               PROVE  /\ One(box', wheel', asked', d)
                      /\ ~Waits(d)' => Nothing(box', wheel', asked', d)
    BY DEF Single
  <2> QED BY <1>a, <1>b DEF Single, Kept
<1> QED BY <1>1, <1>2, <1>3 DEF EvPart

\* A response on the way is for the coroutine that is stored under its session.
LEMMA Stores ==
    ASSUME SncInv, MaxCo <= MaxSession, NEW e \in AllIn(box, wheel, asked), e.type = "resp"
    PROVE  /\ e.co \in Co /\ e.session = e.co
           /\ tree[e.session] = IF status[e.co] # "none" THEN e.co ELSE 0
<1>1. Good(e) /\ sessionId \in Nat /\ sessionId <= MaxCo /\ Stored
  BY CoFacts DEF Addressed, Born
<1>2. e.co \in 1..sessionId /\ e.session = e.co BY <1>1 DEF Good
<1>3. e.co \in Co /\ e.co \in Sessions BY <1>1, <1>2, SncAssumption DEF Co, Sessions
<1> QED BY <1>1, <1>2, <1>3 DEF Stored, Live

LEMMA ResponseInv == ASSUME SncInv, MaxCo <= MaxSession, Response PROVE SncInv'
<1> PICK h : h = Head(box) OBVIOUS
<1> PICK c : c = tree[h.session] OBVIOUS
<1>a. /\ stack = << >> /\ box # << >> /\ h.type = "resp" /\ box' = Tail(box)
      /\ IF c # 0 /\ CanResume(c) THEN Continue(c, h.full)
         ELSE /\ stack' = stack /\ status' = status /\ walk' = walk /\ phase' = phase
              /\ hung' = hung /\ raced' = raced
      /\ UNCHANGED <<sessionId, tree, sess, wait, kind, tasks, timed>>
      /\ asked' = asked /\ wheel' = wheel /\ tlock' = tlock /\ reqs' = reqs
      /\ others' = others /\ set' = set
  BY DEF Response, delVars, timerVars
<1>b. EvSets(box, wheel, asked) /\ DelPart /\ Single /\ Addressed /\ sessionId \in Nat BY CoFacts
<1>c. /\ EvSets(box', wheel', asked') /\ h \in AllIn(box, wheel, asked)
      /\ AllIn(box', wheel', asked') \subseteq AllIn(box, wheel, asked)
  BY <1>a, <1>b, DropBox
<1>d. h.co \in Co /\ h.session = h.co /\ c = IF status[h.co] # "none" THEN h.co ELSE 0
  BY <1>a, <1>c, Stores
<1>e. ASSUME NEW d \in Co
      PROVE  /\ Kept(box, wheel, asked, box', wheel', asked', d)
             /\ h.co # d /\ TimerIn(box, wheel, d) => TimerIn(box', wheel', d)
             /\ h.co = d /\ One(box, wheel, asked, d) => Nothing(box', wheel', asked', d)
  BY <1>a, <1>b, <1>d, DropBox
<1>1. CASE c # 0 /\ CanResume(c)
  <2>1. c = h.co /\ c \in Co BY <1>1, <1>d
  <2>2. c \notin Range(stack) BY <1>a DEF Range
  <2>3. /\ stack' = Append(stack, c) /\ status' = Entered(c) /\ hung' = hung /\ raced' = raced /\ phase' = "test"
        /\ walk' \in 0..1
    BY <1>1, <1>a DEF Continue
  <2>4. /\ CoPart' /\ Range(stack') = Range(stack) \cup {c} /\ stack' # << >>
        /\ \A d \in Co \ {c} : status'[d] = status[d]
        /\ status'[c] \in {"running", "suspend"} /\ status[c] # "none"
    BY <1>1, <1>a, <2>1, <2>2, <2>3, ContinueCo
  <2>5. DelPart'
    <3>1. walk' \in 0..Cells BY <2>3, SncAssumption
    <3> QED BY <1>a, <1>b, <2>3, <2>4, <3>1 DEF DelPart
  <2>6. ~Sleeps(c)' /\ ~Waits(c)' BY <2>4 DEF Sleeps, Waits
  <2>7. ASSUME timed[c] = {} PROVE Nothing(box', wheel', asked', c)
    BY <1>b, <1>e, <2>1, <2>4, <2>7 DEF Single
  <2>8. ASSUME NEW CONSTANT e \in AllIn(box, wheel, asked), e.co = c PROVE Good(e)'
    <3>1. Good(e) BY <1>b DEF Addressed
    <3> QED BY <1>a, <2>4, <2>8, <3>1 DEF Good
  <2>9. EvPart'
    <3>1. \A d \in Co \ {c} : /\ status'[d] = status[d] /\ kind'[d] = kind[d]
                              /\ wait'[d] = wait[d] /\ timed'[d] = timed[d]
                              /\ d \in Range(stack') <=> d \in Range(stack)
      BY <1>a, <2>4
    <3>2. \A d \in Co \ {c} : /\ Kept(box, wheel, asked, box', wheel', asked', d)
                              /\ TimerIn(box, wheel, d) => TimerIn(box', wheel', d)
      BY <1>e, <2>1
    <3>3. timed'[c] = {} => One(box', wheel', asked', c) /\ Nothing(box', wheel', asked', c)
      BY <1>a, <2>7, NothingIsOne
    <3>4. sessionId' \in Nat /\ sessionId <= sessionId' BY <1>a, <1>b
    <3> QED BY <1>c, <2>1, <2>3, <2>6, <2>8, <3>1, <3>2, <3>3, <3>4, OneCoroutine
  <2> QED BY <2>4, <2>5, <2>9 DEF SncInv
<1>2. CASE ~(c # 0 /\ CanResume(c))
  <2>1. UNCHANGED coVars BY <1>a, <1>2 DEF coVars
  <2>2. CoPart' BY <2>1, CoSame DEF SncInv
  <2>3. DelPart' BY <1>a, <1>b, <1>2 DEF DelPart
  <2>4. \A d \in Co : Sleeps(d) => h.co # d
    <3> SUFFICES ASSUME Sleeps(h.co) PROVE FALSE BY <1>d
    <3>1. c = h.co /\ status[c] = "suspend" BY <1>d DEF Sleeps
    <3>2. c # 0 BY <1>d, <3>1, SncAssumption DEF Co
    <3> QED BY <1>2, <3>1, <3>2 DEF CanResume
  <2>5. raced' = raced BY <1>a, <1>2
  <2>6. EvPart' BY <1>c, <1>e, <2>1, <2>4, <2>5, EventsOnly
  <2> QED BY <2>2, <2>3, <2>6 DEF SncInv
<1> QED BY <1>1, <1>2

LEMMA ResumeInv ==
    ASSUME SncInv, NEW c \in Co, NEW d \in Co, NEW f \in BOOLEAN, Resume(c, d, f) PROVE SncInv'
<1>a. /\ Suspended(d) /\ kind[d] \in {"yield", "yield_s"} /\ CanResume(d) /\ Continue(d, f)
      /\ UNCHANGED <<sessionId, tree, sess, wait, kind, tasks, timed>>
      /\ box' = box /\ asked' = asked /\ wheel' = wheel /\ tlock' = tlock /\ reqs' = reqs
      /\ others' = others /\ set' = set
  BY DEF Resume, timerVars
<1>b. /\ EvSets(box, wheel, asked) /\ DelPart /\ Single /\ Addressed /\ sessionId \in Nat /\ Marked
      /\ stack \in Seq(Co)
  BY CoFacts
<1>c. d \notin Range(stack) /\ status[d] = "suspend" BY <1>a, <1>b DEF Suspended, Contains, Range
<1>1. /\ stack' = Append(stack, d) /\ status' = Entered(d) /\ hung' = hung /\ raced' = raced /\ phase' = "test"
      /\ walk' \in 0..1
  BY <1>a DEF Continue
<1>2. /\ CoPart' /\ Range(stack') = Range(stack) \cup {d} /\ stack' # << >>
      /\ \A x \in Co \ {d} : status'[x] = status[x]
      /\ status'[d] \in {"running", "suspend"} /\ status[d] # "none"
  BY <1>1, <1>a, <1>c, ContinueCo
<1>3. DelPart'
  <2>1. walk' \in 0..Cells BY <1>1, SncAssumption
  <2> QED BY <1>a, <1>b, <1>1, <1>2, <2>1 DEF DelPart
<1>4. ~Sleeps(d)' /\ ~Waits(d)' BY <1>2 DEF Sleeps, Waits
<1>5. ASSUME timed[d] = {} PROVE Nothing(box, wheel, asked, d)
  <2>1. kind[d] = "yield" BY <1>5, <1>a, <1>b DEF Marked
  <2>2. ~Waits(d) BY <2>1 DEF Waits
  <2> QED BY <1>5, <1>b, <1>2, <2>2 DEF Single
<1>6. ASSUME NEW CONSTANT e \in AllIn(box, wheel, asked), e.co = d PROVE Good(e)'
  <2>1. Good(e) BY <1>b DEF Addressed
  <2> QED BY <1>a, <1>2, <1>6, <2>1 DEF Good
<1>7. EvPart'
  <2>1. \A x \in Co \ {d} : /\ status'[x] = status[x] /\ kind'[x] = kind[x]
                            /\ wait'[x] = wait[x] /\ timed'[x] = timed[x]
                            /\ x \in Range(stack') <=> x \in Range(stack)
    BY <1>a, <1>2
  <2>2. \A x \in Co : Kept(box, wheel, asked, box', wheel', asked', x) BY <1>a DEF Kept
  <2>3. timed'[d] = {} => One(box', wheel', asked', d) /\ Nothing(box', wheel', asked', d)
    BY <1>a, <1>5, NothingIsOne
  <2>4. sessionId' \in Nat /\ sessionId <= sessionId' BY <1>a, <1>b
  <2> QED BY <1>a, <1>b, <1>1, <1>4, <1>6, <2>1, <2>2, <2>3, <2>4, OneCoroutine
<1> QED BY <1>2, <1>3, <1>7 DEF SncInv

\* ztask_timeout: the response is in the queue at once, or a timer in list i.
LEMMA TimerSet ==
    ASSUME NEW a, EvSets(box, wheel, a), NEW e \in Events, NEW i \in 0..Cells,
           IF i = 0 THEN box' = Append(box, e) /\ wheel' = wheel
           ELSE wheel' = [wheel EXCEPT ![i] = Append(@, e)] /\ box' = box
    PROVE  /\ EvSets(box', wheel', a) /\ AllIn(box', wheel', a) = AllIn(box, wheel, a) \cup {e}
           /\ \A d : /\ TimerIn(box, wheel, d) => TimerIn(box', wheel', d)
                     /\ e.type = "resp" /\ e.session = d => TimerIn(box', wheel', d)
                     /\ e.co # d => Kept(box, wheel, a, box', wheel', a, d)
                     /\ Nothing(box, wheel, a, d) => One(box', wheel', a, d)
<1>1. CASE i = 0
  <2>0. box' = Append(box, e) /\ wheel' = wheel BY <1>1
  <2>1. EvSets(box', wheel', a) /\ AllIn(box', wheel', a) = AllIn(box, wheel, a) \cup {e}
    BY <2>0, BoxSets
  <2>2. ASSUME NEW d
        PROVE  /\ TimerIn(box, wheel, d) => TimerIn(box', wheel', d)
               /\ e.type = "resp" /\ e.session = d => TimerIn(box', wheel', d)
               /\ e.co # d => Kept(box, wheel, a, box', wheel', a, d)
               /\ Nothing(box, wheel, a, d) => One(box', wheel', a, d)
    BY <2>0, AddBox
  <2> QED BY <2>1, <2>2
<1>2. CASE i # 0
  <2>0. i \in 1..Cells /\ wheel' = Put(wheel, i, e) /\ box' = box
    BY <1>2, SncAssumption DEF Put
  <2>1. EvSets(box', wheel', a) /\ AllIn(box', wheel', a) = AllIn(box, wheel, a) \cup {e}
    BY <2>0, WheelSets
  <2>2. ASSUME NEW d
        PROVE  /\ TimerIn(box, wheel, d) => TimerIn(box', wheel', d)
               /\ e.type = "resp" /\ e.session = d => TimerIn(box', wheel', d)
               /\ e.co # d => Kept(box, wheel, a, box', wheel', a, d)
               /\ Nothing(box, wheel, a, d) => One(box', wheel', a, d)
    BY <2>0, AddWheel
  <2> QED BY <2>1, <2>2
<1> QED BY <1>1, <1>2

\* A coroutine begins to wait, and what it asked for is under way.
LEMMA YieldEv ==
    ASSUME SncInv, NEW CONSTANT c \in Co,
           NEW CONSTANT k \in {"call", "call_s", "yield", "yield_s", "sleep"}, Yield(c, k),
           EvSets(box', wheel', asked'), raced' = raced,
           \A e \in AllIn(box', wheel', asked') :
               \/ e \in AllIn(box, wheel, asked)
               \/ e.type = "resp" /\ e.co = c /\ e.session = c /\ e.wait = wait'[c],
           \A d \in Co \ {c} : /\ Kept(box, wheel, asked, box', wheel', asked', d)
                               /\ TimerIn(box, wheel, d) => TimerIn(box', wheel', d),
           k \in Timed => TimerIn(box', wheel', c),
           k \notin {"call_s", "yield_s"} /\ Nothing(box, wheel, asked, c) =>
               /\ One(box', wheel', asked', c)
               /\ k = "yield" => Nothing(box', wheel', asked', c)
    PROVE  EvPart'
<1>a. /\ c \in Range(stack) /\ Range(stack') = Range(stack) \ {c}
      /\ status[c] # "none" /\ sess[c] = c
      /\ status'[c] = "suspend" /\ kind'[c] = k
      /\ timed'[c] = IF k \in {"yield_s", "call_s"} THEN timed[c] \cup {wait'[c]} ELSE timed[c]
      /\ \A w \in timed'[c] : w <= wait'[c]
      /\ \A d \in Co \ {c} : /\ status'[d] = status[d] /\ kind'[d] = kind[d]
                             /\ wait'[d] = wait[d] /\ timed'[d] = timed[d]
  <2>1. Yields(c, k) BY YieldCo
  <2> QED BY <2>1 DEF Yields
<1>b. Addressed /\ Single /\ Chained /\ Born /\ sessionId \in Nat BY CoFacts
<1>c. sessionId' = sessionId BY DEF Yield
<1>1. ASSUME timed[c] = {} PROVE Nothing(box, wheel, asked, c)
  <2>1. ~Waits(c) BY <1>a, <1>b DEF Waits, Sleeps, Chained
  <2> QED BY <1>1, <1>a, <1>b, <2>1 DEF Single
<1>2. ASSUME NEW CONSTANT e \in AllIn(box, wheel, asked), e.co = c PROVE Good(e)'
  <2>1. timed[c] # {} BY <1>1, <1>2 DEF Nothing, NoneIn, AllIn
  <2>2. Good(e) /\ c # 0 BY <1>b, SncAssumption DEF Addressed, Co
  <2>3. e.type = "resp" /\ e.co \in 1..sessionId /\ e.session = e.co /\ \E w \in timed[c] : w <= e.wait
    BY <1>2, <1>a, <2>1, <2>2 DEF Good
  <2>4. \E w \in timed'[c] : w <= e.wait BY <1>a, <2>3
  <2> QED BY <1>2, <1>c, <2>3, <2>4 DEF Good
<1>3. ASSUME NEW CONSTANT e, e.type = "resp", e.co = c, e.session = c, e.wait = wait'[c]
      PROVE  Good(e)'
  <2>1. c \in 1..sessionId'
    <3>1. c <= sessionId BY <1>a, <1>b DEF Born
    <3> QED BY <1>b, <1>c, <3>1, SncAssumption DEF Co
  <2>2. CASE timed'[c] = {} BY <1>3, <2>1, <2>2 DEF Good
  <2>3. CASE timed'[c] # {}
    <3>1. PICK w \in timed'[c] : TRUE BY <2>3
    <3>2. w <= e.wait BY <1>3, <1>a, <3>1
    <3> QED BY <1>3, <2>1, <3>1, <3>2 DEF Good
  <2> QED BY <2>2, <2>3
<1>4. \A e \in AllIn(box', wheel', asked') : e \in AllIn(box, wheel, asked) \/ Good(e)' BY <1>3
<1>5. Sleeps(c)' /\ (Waits(c)' <=> k # "yield") BY <1>a DEF Sleeps, Waits
<1>6. ASSUME timed'[c] = {}
      PROVE  /\ One(box', wheel', asked', c)
             /\ ~Waits(c)' => Nothing(box', wheel', asked', c)
  <2>1. timed[c] = {} /\ k \notin {"call_s", "yield_s"} BY <1>6, <1>a
  <2> QED BY <1>1, <1>5, <2>1
<1>7. \A d \in Co \ {c} : d \in Range(stack') <=> d \in Range(stack) BY <1>a
<1>8. sessionId' \in Nat /\ sessionId <= sessionId' BY <1>b, <1>c
<1> QED BY <1>2, <1>4, <1>5, <1>6, <1>7, <1>8, <1>a, OneCoroutine

\* The event that Event makes while c begins to wait.
LEMMA EventOf ==
    ASSUME SncInv, NEW c \in Co, NEW k \in {"call", "call_s", "yield", "yield_s", "sleep"}, Yield(c, k),
           NEW f \in BOOLEAN
    PROVE  /\ Event(c, f) \in Events
           /\ Event(c, f).type = "resp" /\ Event(c, f).co = c /\ Event(c, f).session = c
           /\ Event(c, f).wait = wait'[c]
<1>1. sess[c] = c /\ wait'[c] \in 1..MaxWait BY YieldCo DEF Yields
<1>2. sess[c] \in 0..MaxSession BY CoFacts
<1>3. wait'[c] \in 0..MaxWait /\ c \in 0..MaxCo BY <1>1, SncAssumption DEF Co
<1> QED BY <1>1, <1>2, <1>3 DEF Event, Events

\* A coroutine that runs is on the chain and no list is walked.
LEMMA YieldDel ==
    ASSUME SncInv, NEW c \in Co, NEW k \in {"call", "call_s", "yield", "yield_s", "sleep"}, Yield(c, k),
           UNCHANGED delVars, others' = others, set' = set, tlock' = tlock, reqs' = reqs
    PROVE  DelPart'
<1>1. walk' = 0 /\ phase' = phase /\ hung' = hung /\ raced' = raced BY DEF Yield, Runs, delVars
<1> QED BY <1>1, SncAssumption DEF SncInv, DelPart

LEMMA CallInv == ASSUME SncInv, NEW c \in Co, Call(c) PROVE SncInv'
<1>a. /\ Yield(c, "call") /\ asked' = asked \cup {Event(c, TRUE)} /\ box' = box /\ wheel' = wheel
      /\ tlock' = tlock /\ reqs' = reqs /\ UNCHANGED delVars
      /\ others' = others /\ set' = set /\ raced' = raced
  BY DEF Call, Ask, timerVars, delVars
<1>b. EvSets(box, wheel, asked) BY CoFacts
<1>1. PICK e : e = Event(c, TRUE) OBVIOUS
<1>2. e \in Events /\ e.type = "resp" /\ e.co = c /\ e.session = c /\ e.wait = wait'[c]
  BY <1>1, <1>a, EventOf
<1>3. PICK a : a = asked \cup {e} OBVIOUS
<1>4. EvSets(box, wheel, a) /\ AllIn(box, wheel, a) = AllIn(box, wheel, asked) \cup {e}
  BY <1>2, <1>3, <1>b, AskedSets
<1>5. \A d \in Co \ {c} : Kept(box, wheel, asked, box, wheel, a, d) BY <1>2, <1>3, <1>b, AddAsked
<1>6. Nothing(box, wheel, asked, c) => One(box, wheel, a, c) BY <1>2, <1>3, <1>b, AddAsked
<1>7. box' = box /\ wheel' = wheel /\ asked' = a BY <1>1, <1>3, <1>a
<1>8. EvPart' BY <1>2, <1>4, <1>5, <1>6, <1>7, <1>a, YieldEv DEF Timed
<1>9. CoPart' BY <1>a, YieldCo
<1>10. DelPart' BY <1>a, YieldDel
<1> QED BY <1>8, <1>9, <1>10 DEF SncInv

LEMMA YieldPlainInv == ASSUME SncInv, NEW c \in Co, YieldPlain(c) PROVE SncInv'
<1>a. /\ Yield(c, "yield") /\ asked' = asked /\ box' = box /\ wheel' = wheel
      /\ tlock' = tlock /\ reqs' = reqs /\ UNCHANGED delVars
      /\ others' = others /\ set' = set /\ raced' = raced
  BY DEF YieldPlain, timerVars, delVars
<1>b. EvSets(box, wheel, asked) BY CoFacts
<1>1. \A d \in Co : Kept(box, wheel, asked, box', wheel', asked', d) BY <1>a DEF Kept
<1>2. Nothing(box, wheel, asked, c) => One(box', wheel', asked', c) /\ Nothing(box', wheel', asked', c)
  BY <1>a, NothingIsOne
<1>3. EvPart' BY <1>1, <1>2, <1>a, <1>b, YieldEv DEF Timed
<1>4. CoPart' BY <1>a, YieldCo
<1>5. DelPart' BY <1>a, YieldDel
<1> QED BY <1>3, <1>4, <1>5 DEF SncInv

LEMMA YieldTimedInv ==
    ASSUME SncInv, NEW c \in Co, NEW k \in {"yield_s", "sleep"}, NEW i \in 0..Cells, YieldTimed(c, k, i)
    PROVE  SncInv'
<1>a. /\ Yield(c, k) /\ SetTimer(c, i) /\ asked' = asked
      /\ tlock' = tlock /\ reqs' = reqs /\ UNCHANGED delVars
      /\ others' = others /\ set' = set /\ raced' = raced
  BY DEF YieldTimed, delVars
<1>b. EvSets(box, wheel, asked) BY CoFacts
<1>1. PICK e : e = Event(c, FALSE) OBVIOUS
<1>2. e \in Events /\ e.type = "resp" /\ e.co = c /\ e.session = c /\ e.wait = wait'[c]
  BY <1>1, <1>a, EventOf
<1>3. IF i = 0 THEN box' = Append(box, e) /\ wheel' = wheel
      ELSE wheel' = [wheel EXCEPT ![i] = Append(@, e)] /\ box' = box
  BY <1>1, <1>a DEF SetTimer
<1>4. /\ EvSets(box', wheel', asked') /\ AllIn(box', wheel', asked') = AllIn(box, wheel, asked) \cup {e}
      /\ \A d : /\ TimerIn(box, wheel, d) => TimerIn(box', wheel', d)
                /\ e.type = "resp" /\ e.session = d => TimerIn(box', wheel', d)
                /\ e.co # d => Kept(box, wheel, asked, box', wheel', asked', d)
                /\ Nothing(box, wheel, asked, d) => One(box', wheel', asked', d)
  <2>1. asked' = asked BY <1>a
  <2> QED BY <1>2, <1>3, <1>b, <2>1, TimerSet
<1>5. EvPart' BY <1>2, <1>4, <1>a, YieldEv
<1>6. CoPart' BY <1>a, YieldCo
<1>7. DelPart' BY <1>a, YieldDel
<1> QED BY <1>5, <1>6, <1>7 DEF SncInv

LEMMA CallTimedInv ==
    ASSUME SncInv, NEW c \in Co, NEW i \in 0..Cells, CallTimed(c, i)
    PROVE  SncInv'
<1>a. /\ Yield(c, "call_s") /\ SetTimer(c, i) /\ asked' = asked \cup {Event(c, TRUE)}
      /\ tlock' = tlock /\ reqs' = reqs /\ UNCHANGED delVars
      /\ others' = others /\ set' = set /\ raced' = raced
  BY DEF CallTimed, Ask, delVars
<1>b. EvSets(box, wheel, asked) BY CoFacts
<1>1. PICK e : e = Event(c, FALSE) OBVIOUS
<1>2. e \in Events /\ e.type = "resp" /\ e.co = c /\ e.session = c /\ e.wait = wait'[c]
  BY <1>1, <1>a, EventOf
<1>3. PICK x : x = Event(c, TRUE) OBVIOUS
<1>4. x \in Events /\ x.type = "resp" /\ x.co = c /\ x.session = c /\ x.wait = wait'[c]
  BY <1>3, <1>a, EventOf
<1>5. PICK a : a = asked \cup {x} OBVIOUS
<1>6. EvSets(box, wheel, a) /\ AllIn(box, wheel, a) = AllIn(box, wheel, asked) \cup {x}
  BY <1>4, <1>5, <1>b, AskedSets
<1>7. \A d \in Co \ {c} : Kept(box, wheel, asked, box, wheel, a, d)
  BY <1>4, <1>5, <1>b, AddAsked
<1>8. IF i = 0 THEN box' = Append(box, e) /\ wheel' = wheel
      ELSE wheel' = [wheel EXCEPT ![i] = Append(@, e)] /\ box' = box
  BY <1>1, <1>a DEF SetTimer
<1>9. /\ EvSets(box', wheel', a) /\ AllIn(box', wheel', a) = AllIn(box, wheel, a) \cup {e}
      /\ \A d : /\ TimerIn(box, wheel, d) => TimerIn(box', wheel', d)
                /\ e.type = "resp" /\ e.session = d => TimerIn(box', wheel', d)
                /\ e.co # d => Kept(box, wheel, a, box', wheel', a, d)
  BY <1>2, <1>6, <1>8, TimerSet
<1>10. asked' = a BY <1>3, <1>5, <1>a
<1>11. \A d \in Co \ {c} : Kept(box, wheel, asked, box', wheel', asked', d)
  BY <1>2, <1>7, <1>9, <1>10 DEF Kept
<1>12. \A y \in AllIn(box', wheel', asked') :
           \/ y \in AllIn(box, wheel, asked)
           \/ y.type = "resp" /\ y.co = c /\ y.session = c /\ y.wait = wait'[c]
  BY <1>2, <1>4, <1>6, <1>9, <1>10
<1>13. EvSets(box', wheel', asked') /\ TimerIn(box', wheel', c) BY <1>2, <1>9, <1>10
<1>14. EvPart' BY <1>9, <1>11, <1>12, <1>13, <1>a, YieldEv
<1>15. CoPart' BY <1>a, YieldCo
<1>16. DelPart' BY <1>a, YieldDel
<1> QED BY <1>14, <1>15, <1>16 DEF SncInv

LEMMA FinishInv == ASSUME SncInv, MaxCo <= MaxSession, NEW c \in Co, Finish(c) PROVE SncInv'
<1>a. /\ box' = box /\ asked' = asked /\ wheel' = wheel /\ tlock' = tlock /\ reqs' = reqs
      /\ phase' = phase /\ hung' = hung /\ raced' = raced /\ others' = others /\ set' = set /\ sessionId' = sessionId
  BY DEF Finish, timerVars, delVars
<1>b. EvSets(box, wheel, asked) /\ Addressed /\ sessionId \in Nat BY CoFacts
<1>c. /\ CoPart' /\ walk' = 0
      /\ c \in Range(stack) /\ Range(stack') = Range(stack) \ {c} /\ status'[c] = "none"
      /\ \A d \in Co \ {c} : /\ status'[d] = status[d] /\ kind'[d] = kind[d]
                             /\ wait'[d] = wait[d] /\ timed'[d] = timed[d]
  BY FinishCo
<1>1. DelPart' BY <1>a, <1>c, SncAssumption DEF SncInv, DelPart
<1>2. EvPart'
  <2>1. \A d \in Co : Kept(box, wheel, asked, box', wheel', asked', d) BY <1>a DEF Kept
  <2>2. ASSUME NEW CONSTANT e \in AllIn(box, wheel, asked), e.co = c PROVE Good(e)'
    <3>1. Good(e) BY <1>b DEF Addressed
    <3> QED BY <1>a, <1>c, <2>2, <3>1 DEF Good
  <2>3. ~Sleeps(c)' BY <1>c DEF Sleeps
  <2>4. \A d \in Co \ {c} : d \in Range(stack') <=> d \in Range(stack) BY <1>c
  <2>5. sessionId' \in Nat /\ sessionId <= sessionId' BY <1>a, <1>b
  <2> QED BY <1>a, <1>b, <1>c, <2>1, <2>2, <2>3, <2>4, <2>5, OneCoroutine
<1> QED BY <1>c, <1>1, <1>2 DEF SncInv

\* Nothing is on the way for a coroutine that was not made yet.
LEMMA Unborn ==
    ASSUME SncInv, NEW c, c = sessionId + 1
    PROVE  /\ \A e \in AllIn(box, wheel, asked) : e.co # c
           /\ Nothing(box, wheel, asked, c)
<1>0. Addressed /\ sessionId \in Nat BY CoFacts
<1>1. ASSUME NEW e \in AllIn(box, wheel, asked) PROVE e.co # c
  <2>1. Good(e) BY <1>0 DEF Addressed
  <2>2. e.co = 0 \/ e.co \in 1..sessionId BY <2>1 DEF Good
  <2> QED BY <1>0, <2>2
<1>2. Nothing(box, wheel, asked, c) BY <1>1 DEF Nothing, NoneIn, AllIn
<1> QED BY <1>1, <1>2

LEMMA StartInv ==
    ASSUME SncInv, MaxCo <= MaxSession, NEW c \in Co, StartCoroutine(c) PROVE SncInv'
<1>a. /\ stack = << >> /\ box # << >> /\ Head(box).type # "resp" /\ Create(c, "running")
      /\ stack' = <<c>> /\ box' = Tail(box) /\ wait' = [wait EXCEPT ![c] = 0]
      /\ kind' = kind /\ timed' = timed /\ asked' = asked /\ wheel' = wheel
      /\ tlock' = tlock /\ walk' = walk /\ phase' = phase /\ hung' = hung /\ reqs' = reqs
      /\ raced' = raced /\ others' = others /\ set' = set
  BY DEF StartCoroutine, timerVars, delVars
<1>b. EvSets(box, wheel, asked) /\ sessionId \in Nat /\ DelPart BY CoFacts
<1>c. c = sessionId + 1 /\ sessionId' = c /\ status'[c] = "running" /\ c \in Nat
  BY <1>a, CreateCo, SncAssumption DEF Co
<1>d. Range(stack) = {} /\ Range(stack') = {c} /\ stack' \in Seq(Co) /\ IsInjective(stack') /\ stack' # << >>
  <2>1. Range(stack) = {} BY <1>a DEF Range
  <2>2. <<c>> \in Seq(Co) /\ DOMAIN <<c>> = {1} /\ <<c>>[1] = c OBVIOUS
  <2>3. Range(stack') = {c} BY <1>a, <2>2 DEF Range
  <2>4. IsInjective(stack') BY <1>a, <2>2 DEF IsInjective
  <2>5. stack' # << >> BY <1>a
  <2> QED BY <1>a, <2>1, <2>2, <2>3, <2>4, <2>5
<1>1. /\ CoPart'
      /\ \A d \in Co \ {c} : /\ status'[d] = status[d] /\ kind'[d] = kind[d]
                             /\ wait'[d] = wait[d] /\ timed'[d] = timed[d]
  <2>1. 0 \in 0..MaxWait BY SncAssumption
  <2>2. Range(stack') = Range(stack) \cup {c} BY <1>d
  <2> QED BY <1>a, <1>d, <2>1, <2>2, CreatedCo
<1>2. DelPart' BY <1>a, <1>b, <1>d DEF DelPart
<1>3. EvPart'
  <2>1. EvSets(box', wheel', asked') /\ AllIn(box', wheel', asked') \subseteq AllIn(box, wheel, asked)
    BY <1>a, <1>b, DropBox
  <2>2. ASSUME NEW d \in Co
        PROVE  /\ Kept(box, wheel, asked, box', wheel', asked', d)
               /\ TimerIn(box, wheel, d) => TimerIn(box', wheel', d)
    BY <1>a, <1>b, DropBox
  <2>3. \A e \in AllIn(box, wheel, asked) : e.co # c BY <1>c, Unborn
  <2>4. Nothing(box', wheel', asked', c)
    <3>1. Nothing(box, wheel, asked, c) BY <1>c, Unborn
    <3> QED BY <2>2, <3>1 DEF Kept
  <2>5. One(box', wheel', asked', c) BY <2>4, NothingIsOne
  <2>6. ~Sleeps(c)' BY <1>c DEF Sleeps
  <2>7. \A d \in Co \ {c} : d \in Range(stack') <=> d \in Range(stack) BY <1>d
  <2>8. sessionId' \in Nat /\ sessionId <= sessionId' BY <1>b, <1>c
  <2>9. raced' = raced BY <1>a
  <2> QED BY <1>1, <2>1, <2>2, <2>3, <2>4, <2>5, <2>6, <2>7, <2>8, <2>9, OneCoroutine
<1> QED BY <1>1, <1>2, <1>3 DEF SncInv

LEMMA FirstTimer ==
    ASSUME NEW e, NEW d \in 0..MaxCo, d \in 0..MaxSession, NEW f \in BOOLEAN, 1 \in 0..MaxWait,
           e = [type |-> "resp", session |-> d, full |-> f, co |-> d, wait |-> 1]
    PROVE  e \in Events /\ e.type = "resp" /\ e.co = d /\ e.session = d /\ e.wait = 1
  BY DEF Events

LEMMA TimeroutInv ==
    ASSUME SncInv, MaxCo <= MaxSession, NEW c \in Co, NEW d \in Co, NEW i \in 0..Cells, Timerout(c, d, i)
    PROVE  SncInv'
<1> PICK e : e = [Event(d, FALSE) EXCEPT !.session = sess'[d]] OBVIOUS
<1>a. /\ Runs(c) /\ Create(d, "ready") /\ wait' = [wait EXCEPT ![d] = 1]
      /\ kind' = [kind EXCEPT ![d] = "sleep"] /\ stack' = stack /\ timed' = timed /\ asked' = asked
      /\ tlock' = tlock /\ walk' = walk /\ phase' = phase /\ hung' = hung /\ reqs' = reqs
      /\ raced' = raced /\ others' = others /\ set' = set
      /\ IF i = 0 THEN box' = Append(box, e) /\ wheel' = wheel
         ELSE wheel' = [wheel EXCEPT ![i] = Append(@, e)] /\ box' = box
  BY DEF Timerout, delVars
<1>b. /\ EvSets(box, wheel, asked) /\ sessionId \in Nat /\ DelPart /\ Chained
      /\ stack \in Seq(Co) /\ wait \in [Co -> 0..MaxWait]
      /\ kind \in [Co -> {"none", "call", "call_s", "yield", "yield_s", "sleep"}]
  BY CoFacts
<1>c. /\ d = sessionId + 1 /\ sessionId' = d /\ status'[d] = "ready" /\ d \in Nat /\ sess'[d] = d
      /\ timed[d] = {} /\ sess' \in [Co -> 0..MaxSession]
  BY <1>a, CreateCo, SncAssumption DEF Co
<1>d. wait'[d] = 1 /\ kind'[d] = "sleep" BY <1>a, <1>b
<1>e. e \in Events /\ e.type = "resp" /\ e.co = d /\ e.session = d /\ e.wait = 1
  <2>1. 1 \in 0..MaxWait /\ d \in 0..MaxCo BY SncAssumption DEF Co
  <2>2. d \in 0..MaxSession BY <1>c
  <2>3. PICK f \in BOOLEAN : f = FALSE OBVIOUS
  <2>4. e = [type |-> "resp", session |-> d, full |-> f, co |-> d, wait |-> 1]
    BY <1>c, <1>d, <2>3 DEF Event
  <2> QED BY <2>1, <2>2, <2>3, <2>4, FirstTimer
<1>1. /\ CoPart'
      /\ \A x \in Co \ {d} : /\ status'[x] = status[x] /\ kind'[x] = kind[x]
                             /\ wait'[x] = wait[x] /\ timed'[x] = timed[x]
  <2>1. 1 \in 0..MaxWait /\ 1 > 0 BY SncAssumption
  <2>2. stack' \in Seq(Co) /\ IsInjective(stack') /\ Range(stack') = Range(stack)
    BY <1>a, <1>b DEF Chained
  <2> QED BY <1>a, <2>1, <2>2, CreatedCo
<1>2. DelPart' BY <1>a, <1>b DEF DelPart
<1>3. EvPart'
  <2>1. /\ EvSets(box', wheel', asked') /\ AllIn(box', wheel', asked') = AllIn(box, wheel, asked) \cup {e}
        /\ \A x : /\ TimerIn(box, wheel, x) => TimerIn(box', wheel', x)
                  /\ e.co # x => Kept(box, wheel, asked, box', wheel', asked', x)
                  /\ Nothing(box, wheel, asked, x) => One(box', wheel', asked', x)
    <3>1. asked' = asked BY <1>a
    <3>2. IF i = 0 THEN box' = Append(box, e) /\ wheel' = wheel
          ELSE wheel' = [wheel EXCEPT ![i] = Append(@, e)] /\ box' = box
      BY <1>a
    <3> QED BY <1>b, <1>e, <3>1, <3>2, TimerSet
  <2>2. (\A x \in AllIn(box, wheel, asked) : x.co # d) /\ Nothing(box, wheel, asked, d)
    BY <1>c, Unborn
  <2>3. Good(e)'
    <3>1. d \in 1..d BY SncAssumption DEF Co
    <3>2. d \in 1..sessionId' /\ timed'[d] = {} BY <1>a, <1>c, <3>1
    <3>3. e.wait = wait'[d] BY <1>d, <1>e
    <3> QED BY <1>e, <3>2, <3>3 DEF Good
  <2>4. Waits(d)' /\ ~Sleeps(d)' BY <1>c, <1>d DEF Waits, Sleeps
  <2>5. One(box', wheel', asked', d) BY <2>1, <2>2
  <2>6. \A x \in Co \ {d} : x \in Range(stack') <=> x \in Range(stack) BY <1>a
  <2>7. sessionId' \in Nat /\ sessionId <= sessionId' BY <1>b, <1>c
  <2>8. raced' = raced BY <1>a
  <2> QED BY <1>1, <1>e, <2>1, <2>2, <2>3, <2>4, <2>5, <2>6, <2>7, <2>8, OneCoroutine
<1> QED BY <1>1, <1>2, <1>3 DEF SncInv

-----------------------------------------------------------------------------

LEMMA SncInitInv == Init => SncInv
<1> SUFFICES ASSUME Init PROVE SncInv OBVIOUS
<1>0. /\ 0 \in 0..MaxCo /\ 0 \in 0..MaxSession /\ 0 \in 0..MaxWait /\ 0 \in 0..Cells /\ 0 \in Nat
      /\ 1 \in 0..MaxReq /\ 0 \in 0..MaxOther /\ 0 <= MaxCo /\ MaxCo \in Nat
  BY SncAssumption
<1>1. Range(stack) = {} /\ stack \in Seq(Co) /\ IsInjective(stack) BY DEF Init, Range, IsInjective
<1>2. CoTypes BY <1>0, <1>1 DEF Init, CoTypes
<1>3. Born
  <2>1. \A c \in Co : ~(c <= 0) BY SncAssumption DEF Co
  <2> QED BY <1>0, <2>1 DEF Init, Born
<1>4. Stored
  <2>1. Live = {} BY DEF Init, Live
  <2> QED BY <2>1, FS_EmptySet DEF Init, Stored
<1>5. Chained BY <1>1 DEF Chained
<1>6. Marked BY DEF Init, Marked
<1>7. DelPart BY <1>0 DEF Init, DelPart
<1>8. /\ box = <<Request>> /\ Request \in Events /\ Range(box) = {Request}
  <2>1. Request \in Events BY <1>0 DEF Request, Events
  <2>2. box = <<Request>> /\ DOMAIN box = {1} /\ box[1] = Request BY DEF Init
  <2> QED BY <2>1, <2>2 DEF Range
<1>9. EvSets(box, wheel, asked)
  <2>1. << >> \in Seq(Events) /\ <<Request>> \in Seq(Events) BY <1>8
  <2> QED BY <1>8, <2>1 DEF Init, EvSets
<1>10. Addressed
  <2>1. \A i \in 1..Cells : Range(wheel[i]) = {} BY DEF Init, Range
  <2>2. AllIn(box, wheel, asked) = {Request} BY <1>8, <2>1 DEF Init, AllIn
  <2> QED BY <2>2 DEF Addressed, Good, Request
<1>11. TimerReady /\ Single BY DEF Init, TimerReady, Single, Sleeps
<1> QED BY <1>2, <1>3, <1>4, <1>5, <1>6, <1>7, <1>9, <1>10, <1>11 DEF SncInv, CoPart, EvPart

LEMMA SncNextInv == ASSUME MaxCo <= MaxSession PROVE SncInv /\ [Next]_vars => SncInv'
<1> SUFFICES ASSUME SncInv, [Next]_vars PROVE SncInv' OBVIOUS
<1>1. CASE UNCHANGED vars
  <2>1. /\ UNCHANGED coVars /\ box' = box /\ asked' = asked /\ wheel' = wheel /\ tlock' = tlock
        /\ walk' = walk /\ phase' = phase /\ hung' = hung /\ stack' = stack /\ reqs' = reqs
        /\ raced' = raced /\ others' = others /\ set' = set
    BY <1>1 DEF vars, coVars, timerVars, delVars
  <2>2. CoPart' BY <2>1, CoSame DEF SncInv
  <2>3. DelPart' BY <2>1 DEF SncInv, DelPart
  <2>4. \A d \in Co : Kept(box, wheel, asked, box', wheel', asked', d) BY <2>1 DEF Kept
  <2>5. EvPart' BY <2>1, <2>4, EventsOnly DEF SncInv, EvPart
  <2> QED BY <2>2, <2>3, <2>5 DEF SncInv
<1>2. ASSUME NEW c \in Co, StartCoroutine(c) PROVE SncInv' BY <1>2, StartInv
<1>3. ASSUME NEW c \in Co, CoStep(c) PROVE SncInv'
  <2>1. CASE Finish(c) BY <2>1, FinishInv
  <2>2. CASE Call(c) BY <2>2, CallInv
  <2>3. CASE YieldPlain(c) BY <2>3, YieldPlainInv
  <2>4. CASE SpinForTimer(c) BY <2>4, SpinInv
  <2>5. ASSUME NEW i \in 0..Cells, CallTimed(c, i) PROVE SncInv' BY <2>5, CallTimedInv
  <2>6. ASSUME NEW i \in 0..Cells, NEW k \in {"yield_s", "sleep"}, YieldTimed(c, k, i) PROVE SncInv'
    BY <2>6, YieldTimedInv
  <2>7. ASSUME NEW i \in 0..Cells, NEW d \in Co, Timerout(c, d, i) PROVE SncInv' BY <2>7, TimeroutInv
  <2>8. ASSUME NEW d \in Co, NEW full \in BOOLEAN, Resume(c, d, full) PROVE SncInv' BY <2>8, ResumeInv
  <2> QED BY <1>3, <2>1, <2>2, <2>3, <2>4, <2>5, <2>6, <2>7, <2>8 DEF CoStep
<1>4. CASE StartFails BY <1>4, StartFailsInv
<1>5. CASE Response BY <1>5, ResponseInv
<1>6. CASE Walks BY <1>6, WalksInv
<1>7. CASE DelUnlink BY <1>7, UnlinkInv
<1>8. CASE RequestArrives BY <1>8, RequestInv
<1>9. ASSUME NEW i \in 1..Cells, Expire(i) PROVE SncInv' BY <1>9, ExpireInv
<1>10. ASSUME NEW e \in asked, NEW full \in BOOLEAN, Answer(e, full) PROVE SncInv' BY <1>10, AnswerInv
<1>11. CASE SpinEnds BY <1>11, SpinInv
<1>12. ASSUME NEW i \in 1..Cells, OtherSets(i) \/ OtherDeletes(i) PROVE SncInv' BY <1>12, OtherInv
<1>13. ASSUME NEW i \in 1..Cells, NEW j \in 1..Cells, Cascade(i, j) PROVE SncInv' BY <1>13, CascadeInv
<1>14. ASSUME NEW i \in 1..Cells, NEW k \in DOMAIN wheel[i], Lose(i, k) PROVE SncInv' BY <1>14, LoseInv
<1> QED
  BY <1>1, <1>2, <1>3, <1>4, <1>5, <1>6, <1>7, <1>8, <1>9, <1>10, <1>11, <1>12, <1>13, <1>14
  DEF Next, Worker, Walks

LEMMA SncInvExact == ASSUME MaxCo <= MaxSession, SncInv PROVE TreeIsExact
<1>a. /\ CoTypes /\ Born /\ Stored /\ Chained /\ EvSets(box, wheel, asked) /\ TimerReady /\ DelPart
  BY CoFacts DEF CoTypes
<1>b. stack \in Seq(Co) /\ sessionId \in Nat /\ tasks = Cardinality(Live) /\ sessionId <= MaxCo
  BY <1>a DEF CoTypes, Stored, Born
<1>1. TypeOK
  <2>1. sessionId \in 0..MaxSession BY <1>b, SncAssumption
  <2>2. tasks \in 0..MaxCo BY <1>b, LiveFinite, SncAssumption
  <2> QED BY <1>a, <2>1, <2>2 DEF TypeOK, CoTypes, EvSets, DelPart
<1>2. ASSUME NEW c \in Live PROVE tree[sess[c]] = c
  <2>1. c \in Co /\ status[c] # "none" BY DEF Live
  <2>2. sess[c] = c BY <1>a, <2>1 DEF Born
  <2>3. c \in Sessions BY <2>1, SncAssumption DEF Co, Sessions
  <2> QED BY <1>a, <2>2, <2>3 DEF Stored
<1>3. ASSUME NEW s \in Sessions, tree[s] # 0 PROVE tree[s] \in Live BY <1>3, <1>a DEF Stored
<1>4. TimerOnTheWay
  <2> SUFFICES ASSUME ~raced, NEW c \in Co, Suspended(c), kind[c] \in {"call_s", "yield_s", "sleep"}
               PROVE  TimersOf(sess[c])
    BY DEF TimerOnTheWay
  <2>1. Sleeps(c) BY <1>b DEF Suspended, Sleeps, Contains, Range
  <2>2. TimerIn(box, wheel, c) BY <1>a, <2>1 DEF TimerReady, Timed
  <2>3. sess[c] = c BY <1>a DEF Born, Suspended, Live
  <2>4. \A q : Has(q, c) => {k \in DOMAIN q : q[k].type = "resp" /\ q[k].session = c} # {}
    BY DEF Has, Range
  <2> QED BY <2>2, <2>3, <2>4 DEF TimerIn, TimersOf
<1> QED BY <1>1, <1>2, <1>3, <1>4, <1>b DEF TreeIsExact

\* service_snc.c: for every number of coroutines, waits, requests and lists of
\* the wheel, while sessions last: the tree has the living coroutines, each
\* under its session, task_count counts them, and one that waits for a time
\* has a timer on the way, whatever ztask_timeout_del removed, until a thread
\* changes a list among whose nodes another is without the lock.
THEOREM CoroutinesAreKept == ASSUME MaxCo <= MaxSession PROVE Spec => []TreeIsExact
<1>1. Init => SncInv BY SncInitInv
<1>2. SncInv /\ [Next]_vars => SncInv' BY SncNextInv
<1>3. SncInv => TreeIsExact BY SncInvExact
<1> QED BY <1>1, <1>2, <1>3, PTL DEF Spec

\* service_snc.c, _cb: for every such instance a response resumes the coroutine
\* it is for, and comes to a wait other than its own only in a coroutine that
\* had made a wait with a timeout by then; also after such races, which lose
\* timers.
THEOREM AnswersAreOwn == ASSUME MaxCo <= MaxSession PROVE Spec => OwnAnswers
<1>1. Init => SncInv BY SncInitInv
<1>2. SncInv /\ [Next]_vars => SncInv' BY SncNextInv
<1>3. SncInv /\ [Next]_vars =>
        [Response /\ stack' # << >> =>
           LET e == Head(box)  c == stack'[1] IN
           /\ e.co = c
           /\ e.wait # wait[c] => \E w \in timed[c] : w <= e.wait]_vars
  <2> SUFFICES ASSUME SncInv, Response, stack' # << >>
               PROVE  LET e == Head(box)  c == stack'[1] IN
                      /\ e.co = c
                      /\ e.wait # wait[c] => \E w \in timed[c] : w <= e.wait
    OBVIOUS
  <2> PICK h : h = Head(box) OBVIOUS
  <2> PICK c : c = tree[h.session] OBVIOUS
  <2>1. EvSets(box, wheel, asked) /\ Addressed BY CoFacts
  <2>2. /\ stack = << >> /\ box # << >> /\ h.type = "resp"
        /\ IF c # 0 /\ CanResume(c) THEN stack' = Append(stack, c) ELSE stack' = stack
    BY DEF Response, Continue
  <2>3. c # 0 /\ stack' = Append(stack, c) BY <2>2
  <2>4. stack'[1] = c
    <3>1. stack' = <<c>> BY <2>2, <2>3
    <3> QED BY <3>1
  <2>5. h \in AllIn(box, wheel, asked)
    <3>1. PICK d : d = 0 OBVIOUS
    <3> QED BY <2>1, <2>2, <3>1, DropBox
  <2>6. h.co = c /\ status[c] # "none" BY <2>2, <2>3, <2>5, Stores
  <2>7. c # 0 /\ Good(h) BY <2>1, <2>3, <2>5 DEF Addressed
  <2>8. h.wait # wait[c] => \E w \in timed[c] : w <= h.wait BY <2>6, <2>7 DEF Good
  <2> QED BY <2>4, <2>6, <2>8
<1> QED BY <1>1, <1>2, <1>3, PTL DEF Spec, OwnAnswers
=============================================================================
