----------------------------- MODULE TimerProofs ----------------------------
(***************************************************************************)
(* The timing wheel is right for every number of timers, every size of its *)
(* near array and its levels, and every delay that ztask_timeout can ask   *)
(* for, also when T->time wraps around.                                    *)
(*                                                                         *)
(* The heart of it is Placed: every timer is in the list into which        *)
(* add_node would put it now.  When time goes on, the timers of which this *)
(* is no longer true are those of the one list that timer_shift moves.     *)
(* A timer whose time has come is then in the list that timer_execute      *)
(* takes, and timers due at the same tick, which are always in the same    *)
(* list, stay in the order in which they were set.                         *)
(***************************************************************************)
EXTENDS Timer, ProofLemmas, FiniteSetTheorems, TLAPS

Distinct(list) == \A i, j \in DOMAIN list : list[i] = list[j] => i = j
Among(list, x) == \E i \in DOMAIN list : list[i] = x
OnWheel(w, x) == \E c \in Cell : Among(w[c], x)

\* A wheel is well formed: a timer is at most once in a list, and that list is the
\* one for its due time.
Placed(w, ex, now) ==
    /\ w \in [Cell -> Seq(Timers)]
    /\ \A c \in Cell : Distinct(w[c])
    /\ \A c \in Cell : \A i \in DOMAIN w[c] : Place(ex[w[c][i]], now) = c

Follows(list, y, x) == \E i, j \in DOMAIN list : i < j /\ list[i] = y /\ list[j] = x
FollowsIn(w, y, x) == \E c \in Cell : Follows(w[c], y, x)

\* Where timers are.
Kept == /\ Distinct(firing)
        /\ \A x \in Timers : x \in Pending <=> OnWheel(wheel, x) \/ Among(firing, x)
        /\ \A x \in Timers : ~(OnWheel(wheel, x) /\ Among(firing, x))

\* When they are due.
Due == /\ \A x \in Timers : OnWheel(wheel, x) => expire[x] = (time + remain[x]) % Span
       /\ \A x \in Timers : Among(firing, x) => remain[x] = 0

\* The lock and the list being delivered belong to the steps of timer_update.
Locked == /\ lock <=> pc \in {"exec1", "exec2"}
          /\ pc \in {"disp1", "disp2"} \/ firing = << >>

\* Timers set earlier for the same tick come first.
Ordered ==
    \A x \in Timers : \A y \in earlier[x] :
        /\ x \in Pending /\ y \in Pending /\ remain[y] = remain[x]
        /\ \/ Follows(firing, y, x)
           \/ Among(firing, y) /\ OnWheel(wheel, x)
           \/ FollowsIn(wheel, y, x)

Inv == TypeOK /\ Placed(wheel, expire, time) /\ Kept /\ Due /\ Locked /\ Ordered

-----------------------------------------------------------------------------
(* Blocks of time.                                                         *)

LEMMA BlockUnfolds ==
    Block = [i \in 0..4 |-> IF i = 0 THEN NEAR ELSE LEVEL * Block[i - 1]]
<1>1. PICK b0, b1, b2, b3, b4 : /\ b0 = NEAR /\ b1 = LEVEL * b0 /\ b2 = LEVEL * b1
                                /\ b3 = LEVEL * b2 /\ b4 = LEVEL * b3
  OBVIOUS
<1> DEFINE f == [i \in 0..4 |-> IF i = 0 THEN b0 ELSE IF i = 1 THEN b1 ELSE IF i = 2 THEN b2
                                ELSE IF i = 3 THEN b3 ELSE b4]
<1>2. f = [i \in 0..4 |-> IF i = 0 THEN NEAR ELSE LEVEL * f[i - 1]]
  <2>1. f[0] = b0 /\ f[1] = b1 /\ f[2] = b2 /\ f[3] = b3 /\ f[4] = b4 OBVIOUS
  <2>2. ASSUME NEW i \in 0..4 PROVE f[i] = IF i = 0 THEN NEAR ELSE LEVEL * f[i - 1]
    <3>1. i = 0 \/ i = 1 \/ i = 2 \/ i = 3 \/ i = 4 OBVIOUS
    <3>2. 1 - 1 = 0 /\ 2 - 1 = 1 /\ 3 - 1 = 2 /\ 4 - 1 = 3 OBVIOUS
    <3> HIDE DEF f
    <3> QED BY <1>1, <2>1, <3>1, <3>2
  <2> QED BY <2>2
<1> HIDE DEF f
<1>3. \E g : g = [i \in 0..4 |-> IF i = 0 THEN NEAR ELSE LEVEL * g[i - 1]] BY <1>2
<1> QED BY <1>3, Zenon DEF Block

LEMMA Blocks ==
    /\ Block[0] = NEAR
    /\ \A i \in 0..3 : Block[i + 1] = LEVEL * Block[i]
    /\ \A i \in 0..4 : Block[i] \in Nat /\ Block[i] > 0
<1>1. PICK b : b = Block OBVIOUS
<1>2. b = [i \in 0..4 |-> IF i = 0 THEN NEAR ELSE LEVEL * b[i - 1]] BY <1>1, BlockUnfolds
<1>3. b[0] = NEAR /\ b[1] = LEVEL * b[0] /\ b[2] = LEVEL * b[1] /\ b[3] = LEVEL * b[2] /\ b[4] = LEVEL * b[3]
  BY <1>2
<1>4. \A x \in Nat : x > 0 => LEVEL * x \in Nat /\ LEVEL * x > 0 BY TimerAssumption
<1>5. /\ b[0] \in Nat /\ b[0] > 0 /\ b[1] \in Nat /\ b[1] > 0 /\ b[2] \in Nat /\ b[2] > 0
      /\ b[3] \in Nat /\ b[3] > 0 /\ b[4] \in Nat /\ b[4] > 0
  BY <1>3, <1>4, TimerAssumption
<1>6. \A i \in 0..3 : i = 0 \/ i = 1 \/ i = 2 \/ i = 3 OBVIOUS
<1>7. \A i \in 0..4 : i = 0 \/ i = 1 \/ i = 2 \/ i = 3 \/ i = 4 OBVIOUS
<1>8. 0 + 1 = 1 /\ 1 + 1 = 2 /\ 2 + 1 = 3 /\ 3 + 1 = 4 OBVIOUS
<1>9. \A i \in 0..3 : b[i + 1] = LEVEL * b[i] BY <1>3, <1>6, <1>8
<1>10. \A i \in 0..4 : b[i] \in Nat /\ b[i] > 0 BY <1>5, <1>7
<1> QED BY <1>1, <1>3, <1>9, <1>10

LEMMA Larger == ASSUME NEW x \in Nat, x > 0 PROVE x <= LEVEL * x
<1>1. PICK k \in Nat : LEVEL = 1 + k BY TimerAssumption
<1>2. LEVEL * x = x + k * x /\ k * x >= 0 /\ k * x \in Int BY <1>1
<1> QED BY <1>2

LEMMA Spans ==
    /\ Span = LEVEL * Block[3] /\ Span \in Nat /\ Span > 0 /\ Span - Block[3] < Span
    /\ Block[3] \in Nat /\ Block[3] > 0 /\ Block[3] <= Span
    /\ \A i \in 0..3 : Block[i] \in Nat /\ Block[i] > 0 /\ Block[i] <= Block[3]
<1>1. 0 \in 0..3 /\ 1 \in 0..3 /\ 2 \in 0..3 /\ 3 \in 0..3 /\ 0 + 1 = 1 /\ 1 + 1 = 2 /\ 2 + 1 = 3 /\ 3 + 1 = 4
  OBVIOUS
<1>2. Block[1] = LEVEL * Block[0] /\ Block[2] = LEVEL * Block[1] /\ Block[3] = LEVEL * Block[2]
      /\ Span = LEVEL * Block[3]
  BY <1>1, Blocks DEF Span
<1>3. \A i \in 0..4 : Block[i] \in Nat /\ Block[i] > 0 BY Blocks
<1>4. /\ Block[0] \in Nat /\ Block[0] > 0 /\ Block[1] \in Nat /\ Block[1] > 0
      /\ Block[2] \in Nat /\ Block[2] > 0 /\ Block[3] \in Nat /\ Block[3] > 0
      /\ Span \in Nat /\ Span > 0
  BY <1>3 DEF Span
<1>5. Block[0] <= Block[1] /\ Block[1] <= Block[2] /\ Block[2] <= Block[3] /\ Block[3] <= Span
  BY <1>2, <1>4, Larger
<1>6. \A i \in 0..3 : i = 0 \/ i = 1 \/ i = 2 \/ i = 3 OBVIOUS
<1>7. Block[0] <= Block[3] /\ Block[1] <= Block[3] /\ Span - Block[3] < Span BY <1>4, <1>5
<1> QED BY <1>2, <1>4, <1>5, <1>6, <1>7

\* Which block of level i the time x is in.
Q(i, x) == x \div Block[i]

Times == 0..(Span - 1)

LEMMA BlockOf ==
    ASSUME NEW x \in Times
    PROVE  /\ x \in Nat
           /\ \A i \in 0..3 : Q(i, x) \in Nat
           /\ \A i \in 0..2 : Q(i + 1, x) = Q(i, x) \div LEVEL
           /\ \A i \in 0..2 : x % Block[i + 1] = 0 <=> x % Block[i] = 0 /\ Q(i, x) % LEVEL = 0
           /\ Q(3, x) \in 0..(LEVEL - 1) /\ Q(3, x) % LEVEL = Q(3, x)
           /\ Q(0, x) = x \div NEAR
<1>0. x \in Nat /\ LEVEL \in Nat /\ LEVEL > 0 BY Spans, TimerAssumption DEF Times
<1>1. ASSUME NEW i \in 0..3 PROVE Q(i, x) \in Nat
  <2>1. Block[i] \in Nat /\ Block[i] > 0 BY Spans
  <2> QED BY <1>0, <2>1, DivOrder DEF Q
<1>2. ASSUME NEW i \in 0..2
      PROVE  /\ Q(i + 1, x) = Q(i, x) \div LEVEL
             /\ x % Block[i + 1] = 0 <=> x % Block[i] = 0 /\ Q(i, x) % LEVEL = 0
  <2>1. i \in 0..3 OBVIOUS
  <2>2. Block[i] \in Nat /\ Block[i] > 0 /\ Block[i + 1] = LEVEL * Block[i] BY <2>1, Spans, Blocks
  <2> QED BY <1>0, <2>2, DivDiv DEF Q
<1>3. Q(3, x) \in 0..(LEVEL - 1)
  <2>1. x < LEVEL * Block[3] BY Spans DEF Times
  <2>2. Q(3, x) < LEVEL BY <1>0, <2>1, Spans, DivOrder DEF Q
  <2> QED BY <1>0, <1>1, <2>2
<1>4. Q(3, x) % LEVEL = Q(3, x)
  <2>1. PICK q \in 0..(LEVEL - 1) : q = Q(3, x) BY <1>3
  <2>2. q = LEVEL * 0 + q BY <1>0
  <2>3. q % LEVEL = q BY <1>0, <2>1, <2>2, ModUnique
  <2> QED BY <2>1, <2>3
<1> QED BY <1>0, <1>1, <1>2, <1>3, <1>4, Blocks DEF Q

-----------------------------------------------------------------------------
(* The place of a timer.                                                   *)

\* The level that add_node ends at.
AtLevel(e, now, l) ==
    /\ \A j \in 0..l : Q(j, e) # Q(j, now)
    /\ l = 3 \/ Q(l + 1, e) = Q(l + 1, now)

LEMMA PlaceNear ==
    ASSUME NEW e, NEW now, Q(0, e) = Q(0, now) PROVE Place(e, now) = <<-1, e % NEAR>>
  BY Blocks DEF Place, Q

LEMMA PlaceFar ==
    ASSUME NEW e, NEW now, NEW l \in 0..3, AtLevel(e, now, l)
    PROVE  Place(e, now) = <<l, Q(l, e) % LEVEL>>
<1> DEFINE P(k) == /\ k = 3 \/ e \div Block[k + 1] = now \div Block[k + 1]
                   /\ \A j \in 0..(k - 1) : e \div Block[j + 1] # now \div Block[j + 1]
<1>1. e \div NEAR # now \div NEAR
  <2>1. 0 \in 0..l OBVIOUS
  <2> QED BY <2>1, Blocks DEF AtLevel, Q
<1>2. P(l)
  <2>1. \A j \in 0..(l - 1) : j + 1 \in 0..l OBVIOUS
  <2> QED BY <2>1 DEF AtLevel, Q
<1>3. ASSUME NEW k \in 0..3, P(k) PROVE k = l
  <2>1. ASSUME k < l PROVE FALSE
    <3>1. k # 3 /\ k + 1 \in 0..l BY <2>1
    <3>2. e \div Block[k + 1] = now \div Block[k + 1] BY <1>3, <3>1
    <3> QED BY <3>1, <3>2 DEF AtLevel, Q
  <2>2. ASSUME l < k PROVE FALSE
    <3>1. l # 3 /\ l \in 0..(k - 1) BY <2>2
    <3>2. e \div Block[l + 1] # now \div Block[l + 1] BY <1>3, <3>1
    <3> QED BY <3>1, <3>2 DEF AtLevel, Q
  <2> QED BY <2>1, <2>2
<1> HIDE DEF P
<1>4. (CHOOSE k \in 0..3 : P(k)) = l BY <1>2, <1>3
<1>5. Place(e, now) = <<CHOOSE k \in 0..3 : P(k), (e \div Block[CHOOSE k \in 0..3 : P(k)]) % LEVEL>>
  BY <1>1 DEF Place, P
<1> QED BY <1>4, <1>5 DEF Q

LEMMA PlaceCases ==
    ASSUME NEW e, NEW now
    PROVE  Q(0, e) = Q(0, now) \/ \E l \in 0..3 : AtLevel(e, now, l)
<1> SUFFICES ASSUME Q(0, e) # Q(0, now) PROVE \E l \in 0..3 : AtLevel(e, now, l) OBVIOUS
<1>0. 0 + 1 = 1 /\ 1 + 1 = 2 /\ 2 + 1 = 3 OBVIOUS
<1>1. CASE Q(1, e) = Q(1, now)
  <2>1. \A j \in 0..0 : j = 0 OBVIOUS
  <2>2. AtLevel(e, now, 0) BY <1>0, <1>1, <2>1 DEF AtLevel
  <2> QED BY <2>2
<1>2. CASE Q(1, e) # Q(1, now) /\ Q(2, e) = Q(2, now)
  <2>1. \A j \in 0..1 : j = 0 \/ j = 1 OBVIOUS
  <2>2. AtLevel(e, now, 1) BY <1>0, <1>2, <2>1 DEF AtLevel
  <2> QED BY <2>2
<1>3. CASE Q(1, e) # Q(1, now) /\ Q(2, e) # Q(2, now) /\ Q(3, e) = Q(3, now)
  <2>1. \A j \in 0..2 : j = 0 \/ j = 1 \/ j = 2 OBVIOUS
  <2>2. AtLevel(e, now, 2) BY <1>0, <1>3, <2>1 DEF AtLevel
  <2> QED BY <2>2
<1>4. CASE Q(1, e) # Q(1, now) /\ Q(2, e) # Q(2, now) /\ Q(3, e) # Q(3, now)
  <2>1. \A j \in 0..3 : j = 0 \/ j = 1 \/ j = 2 \/ j = 3 OBVIOUS
  <2>2. AtLevel(e, now, 3) BY <1>0, <1>4, <2>1 DEF AtLevel
  <2> QED BY <2>2
<1> QED BY <1>1, <1>2, <1>3, <1>4

LEMMA PlaceTyped == ASSUME NEW e \in Times, NEW now PROVE Place(e, now) \in Cell
<1>0. NEAR \in Nat /\ NEAR > 0 /\ LEVEL \in Nat /\ LEVEL > 0 /\ e \in Int BY BlockOf, TimerAssumption
<1>1. CASE Q(0, e) = Q(0, now)
  <2>1. e % NEAR \in 0..(NEAR - 1) BY <1>0
  <2> QED BY <1>1, <2>1, PlaceNear DEF Cell
<1>2. ASSUME NEW l \in 0..3, AtLevel(e, now, l) PROVE Place(e, now) \in Cell
  <2>1. Q(l, e) \in Int BY BlockOf
  <2>2. Q(l, e) % LEVEL \in 0..(LEVEL - 1) BY <1>0, <2>1
  <2> QED BY <1>2, <2>2, PlaceFar DEF Cell
<1> QED BY <1>1, <1>2, PlaceCases

\* A timer that is due is in the list that timer_execute takes, and nothing else is.
LEMMA PlaceDue ==
    ASSUME NEW e \in Times, NEW now \in Times
    PROVE  Place(e, now) = <<-1, now % NEAR>> <=> e = now
<1>0. NEAR \in Nat /\ NEAR > 0 /\ e \in Int /\ now \in Int BY BlockOf, TimerAssumption
<1>1. ASSUME e = now PROVE Place(e, now) = <<-1, now % NEAR>> BY <1>1, PlaceNear
<1>2. ASSUME Place(e, now) = <<-1, now % NEAR>> PROVE e = now
  <2>1. ASSUME NEW l \in 0..3, AtLevel(e, now, l) PROVE FALSE
    <3>1. Place(e, now)[1] = l BY <2>1, PlaceFar
    <3>2. Place(e, now)[1] = -1 BY <1>2
    <3> QED BY <3>1, <3>2
  <2>2. Q(0, e) = Q(0, now) BY <2>1, PlaceCases
  <2>3. Place(e, now) = <<-1, e % NEAR>> BY <2>2, PlaceNear
  <2>4. e % NEAR = now % NEAR BY <1>2, <2>3
  <2>5. e \div NEAR = now \div NEAR BY <2>2, Blocks DEF Q
  <2>6. e = NEAR * (e \div NEAR) + (e % NEAR) /\ now = NEAR * (now \div NEAR) + (now % NEAR) BY <1>0, DivMod
  <2> QED BY <2>4, <2>5, <2>6
<1> QED BY <1>1, <1>2

-----------------------------------------------------------------------------
(* The wheel turns.                                                        *)

LEMMA Wraps ==
    ASSUME NEW x \in Nat, x < Span + Span
    PROVE  x % Span = (IF x < Span THEN x ELSE x - Span) /\ x % Span \in Times
<1>0. Span \in Nat /\ Span > 0 BY Spans
<1>1. CASE x < Span
  <2>1. x \in 0..(Span - 1) /\ x = Span * 0 + x BY <1>0, <1>1
  <2>2. x % Span = x BY <1>0, <2>1, ModUnique
  <2> QED BY <1>1, <2>1, <2>2 DEF Times
<1>2. CASE ~(x < Span)
  <2>1. x - Span \in 0..(Span - 1) /\ x = Span * 1 + (x - Span) BY <1>0, <1>2
  <2>2. x % Span = x - Span BY <1>0, <2>1, ModUnique
  <2> QED BY <1>2, <2>1, <2>2 DEF Times
<1> QED BY <1>1, <1>2

\* A timer that is set is due later in this turn of T->time, or in the next turn and
\* then a block of the top level or more below the present.
LEMMA Ahead ==
    ASSUME NEW t \in Times, NEW r \in 0..(Span - Block[3])
    PROVE  /\ (t + r) % Span \in Times
           /\ \/ (t + r) % Span = t + r
              \/ (((t + r) % Span) + Block[3] <= t) /\ ((t + r) % Span = (t + r) - Span)
<1>1. t \in Nat /\ t < Span /\ Span \in Nat /\ Block[3] \in Nat BY Spans DEF Times
<1>2. r \in Nat /\ r <= Span - Block[3] /\ t + r \in Nat /\ t + r < Span + Span BY <1>1, Spans
<1>3. PICK x \in Nat : x = t + r BY <1>2
<1>4. x < Span + Span BY <1>2, <1>3
<1>5. x % Span = (IF x < Span THEN x ELSE x - Span) /\ x % Span \in Times BY <1>4, Wraps
<1>6. \/ x % Span = x
      \/ ((x % Span) + Block[3] <= t) /\ (x % Span = x - Span)
  BY <1>1, <1>2, <1>3, <1>5
<1> QED BY <1>3, <1>5, <1>6, Zenon

\* timer_shift moves one list at most.
LEMMA OneDueCell ==
    ASSUME NEW ct \in Times, NEW c \in DueCells(ct), NEW d \in DueCells(ct)
    PROVE  c = d
<1>1. CASE ct = 0 BY <1>1 DEF DueCells
<1>2. CASE ct # 0
  <2>1. PICK i \in 0..3 : c = <<i, Q(i, ct) % LEVEL>> /\ ct % Block[i] = 0 /\ Q(i, ct) % LEVEL # 0
    BY <1>2 DEF DueCells, Q
  <2>2. PICK j \in 0..3 : d = <<j, Q(j, ct) % LEVEL>> /\ ct % Block[j] = 0 /\ Q(j, ct) % LEVEL # 0
    BY <1>2 DEF DueCells, Q
  <2>3. ASSUME NEW a \in 0..3, NEW b \in 0..3, a < b, ct % Block[b] = 0 PROVE Q(a, ct) % LEVEL = 0
    <3>1. 0 \in 0..2 /\ 1 \in 0..2 /\ 2 \in 0..2 /\ 0 + 1 = 1 /\ 1 + 1 = 2 /\ 2 + 1 = 3 OBVIOUS
    <3>2. ct % Block[3] = 0 => ct % Block[2] = 0 /\ Q(2, ct) % LEVEL = 0 BY <3>1, BlockOf
    <3>3. ct % Block[2] = 0 => ct % Block[1] = 0 /\ Q(1, ct) % LEVEL = 0 BY <3>1, BlockOf
    <3>4. ct % Block[1] = 0 => ct % Block[0] = 0 /\ Q(0, ct) % LEVEL = 0 BY <3>1, BlockOf
    <3>5. \/ b = 3 /\ (a = 0 \/ a = 1 \/ a = 2)
          \/ b = 2 /\ (a = 0 \/ a = 1)
          \/ b = 1 /\ a = 0
      BY <2>3
    <3> QED BY <2>3, <3>2, <3>3, <3>4, <3>5
  <2>4. ~(i < j) /\ ~(j < i) BY <2>1, <2>2, <2>3
  <2>5. i = j BY <2>4
  <2> QED BY <2>1, <2>2, <2>5
<1> QED BY <1>1, <1>2

\* T->time wraps around: all timers are in the top level then, and those of its
\* first list are moved.
LEMMA StaysAtWrap ==
    ASSUME NEW r \in 1..(Span - Block[3]), NEW t, NEW e, t = Span - 1, e = (t + r) % Span,
           Place(e, t) \notin DueCells(0)
    PROVE  Place(e, 0) = Place(e, t)
<1>0. /\ t \in Times /\ t \in Nat /\ 0 \in Times /\ Span \in Nat /\ Block[3] \in Nat /\ Block[3] > 0
      /\ r \in 0..(Span - Block[3])
  BY Spans DEF Times
<1>1. e \in Times /\ e + Block[3] <= t /\ e \in Nat
  <2>1. e \in Times /\ (e = t + r \/ e + Block[3] <= t) BY <1>0, Ahead
  <2> QED BY <1>0, <2>1 DEF Times
<1>2. 0 \in 0..3 /\ 1 \in 0..3 /\ 2 \in 0..3 /\ 3 \in 0..3 OBVIOUS
<1>3. ASSUME NEW j \in 0..3 PROVE Q(j, e) # Q(j, t)
  <2>1. Block[j] \in Nat /\ Block[j] > 0 /\ Block[j] <= Block[3] BY Spans
  <2>2. e + Block[j] <= t BY <1>0, <1>1, <2>1
  <2>3. Q(j, e) < Q(j, t) BY <1>0, <1>1, <2>1, <2>2, DivOrder DEF Q
  <2>4. Q(j, e) \in Nat /\ Q(j, t) \in Nat BY <1>0, <1>1, BlockOf
  <2> QED BY <2>3, <2>4
<1>4. Place(e, t) = <<3, Q(3, e) % LEVEL>>
  <2>1. AtLevel(e, t, 3) BY <1>3 DEF AtLevel
  <2> QED BY <1>2, <2>1, PlaceFar
<1>5. Q(3, e) # 0 /\ Q(3, e) \in Nat
  <2>1. Place(e, t) # <<3, 0>> BY DEF DueCells
  <2>2. Q(3, e) % LEVEL = Q(3, e) /\ Q(3, e) \in Nat BY <1>1, <1>2, BlockOf
  <2> QED BY <1>4, <2>1, <2>2
<1>6. ASSUME NEW j \in 0..3 PROVE Q(j, e) # Q(j, 0)
  <2>1. Block[j] \in Nat /\ Block[j] > 0 BY Spans
  <2>2. Q(j, 0) = 0
    <3>1. 0 = Block[j] * 0 + 0 /\ 0 \in 0..(Block[j] - 1) BY <2>1
    <3> QED BY <2>1, <3>1, DivUnique DEF Q
  <2>3. ASSUME Q(j, e) = 0 PROVE FALSE
    <3>1. 0 \div LEVEL = 0
      <4>1. LEVEL \in Nat /\ LEVEL > 0 BY TimerAssumption
      <4>2. 0 = LEVEL * 0 + 0 /\ 0 \in 0..(LEVEL - 1) BY <4>1
      <4> QED BY <4>1, <4>2, DivUnique
    <3>2. Q(1, e) = Q(0, e) \div LEVEL /\ Q(2, e) = Q(1, e) \div LEVEL /\ Q(3, e) = Q(2, e) \div LEVEL
      <4>1. 0 \in 0..2 /\ 1 \in 0..2 /\ 2 \in 0..2 /\ 0 + 1 = 1 /\ 1 + 1 = 2 /\ 2 + 1 = 3 OBVIOUS
      <4> QED BY <1>1, <4>1, BlockOf
    <3>3. j = 0 \/ j = 1 \/ j = 2 \/ j = 3 OBVIOUS
    <3> QED BY <1>5, <2>3, <3>1, <3>2, <3>3
  <2> QED BY <2>2, <2>3
<1>7. AtLevel(e, 0, 3) BY <1>6 DEF AtLevel
<1> QED BY <1>2, <1>4, <1>7, PlaceFar

\* Time goes on by a tick within a turn.
LEMMA StaysInTurn ==
    ASSUME NEW t \in Times, NEW r \in 1..(Span - Block[3]), NEW ct \in Times, ct = t + 1,
           NEW e, e = (t + r) % Span, Place(e, t) \notin DueCells(ct)
    PROVE  Place(e, ct) = Place(e, t)
<1>0. /\ t \in Nat /\ ct \in Nat /\ ct # 0 /\ Span \in Nat /\ Block[3] \in Nat /\ Block[3] > 0
      /\ r \in 0..(Span - Block[3]) /\ r >= 1 /\ r \in Nat
  BY Spans DEF Times
<1>1. e \in Times /\ e \in Nat /\ (e >= ct \/ e + Block[3] <= t)
  <2>1. e \in Times /\ (e = t + r \/ e + Block[3] <= t) BY <1>0, Ahead
  <2> QED BY <1>0, <2>1 DEF Times
\* A timer of the next turn differs from the present at every level.
<1>2. ASSUME NEW j \in 0..3, Q(j, e) = Q(j, t) PROVE e >= ct
  <2> SUFFICES ASSUME e + Block[3] <= t PROVE FALSE BY <1>1
  <2>1. Block[j] \in Nat /\ Block[j] > 0 /\ Block[j] <= Block[3] BY Spans
  <2>2. e + Block[j] <= t BY <1>0, <1>1, <2>1
  <2>3. Q(j, e) < Q(j, t) BY <1>0, <1>1, <2>1, <2>2, DivOrder DEF Q
  <2>4. Q(j, e) \in Nat /\ Q(j, t) \in Nat BY <1>0, <1>1, BlockOf
  <2> QED BY <1>2, <2>3, <2>4
\* A block that the timer shares with the present, it shares with the next tick.
<1>3. ASSUME NEW j \in 0..3, Q(j, e) = Q(j, t) PROVE Q(j, e) = Q(j, ct)
  <2>1. Block[j] \in Nat /\ Block[j] > 0 BY Spans
  <2>2. e >= ct BY <1>2, <1>3
  <2>3. Q(j, ct) <= Q(j, e) BY <1>0, <1>1, <2>1, <2>2, DivOrder DEF Q
  <2>4. Q(j, t) <= Q(j, ct)
    <3>1. t <= ct BY <1>0
    <3> QED BY <1>0, <2>1, <3>1, DivOrder DEF Q
  <2>5. Q(j, e) \in Nat /\ Q(j, t) \in Nat /\ Q(j, ct) \in Nat BY <1>0, <1>1, BlockOf
  <2> QED BY <1>3, <2>3, <2>4, <2>5
<1>4. CASE Q(0, e) = Q(0, t)
  <2>1. Q(0, e) = Q(0, ct) BY <1>3, <1>4
  <2> QED BY <1>4, <2>1, PlaceNear
<1>5. ASSUME NEW l \in 0..3, AtLevel(e, t, l) PROVE Place(e, ct) = Place(e, t)
  <2>1. Place(e, t) = <<l, Q(l, e) % LEVEL>> BY <1>5, PlaceFar
  <2>2. Q(l, e) # Q(l, t)
    <3>1. l \in 0..l OBVIOUS
    <3> QED BY <1>5, <3>1 DEF AtLevel
  <2>3. Q(l, e) # Q(l, ct)
    <3> SUFFICES ASSUME Q(l, e) = Q(l, ct) PROVE FALSE OBVIOUS
    <3>1. Block[l] \in Nat /\ Block[l] > 0 BY Spans
    <3>2. ct % Block[l] = 0
      <4>1. \/ (t + 1) \div Block[l] = t \div Block[l]
            \/ (t + 1) % Block[l] = 0
        BY <1>0, <3>1, DivNext
      <4> QED BY <2>2, <4>1 DEF Q
    <3>3. Q(l, ct) % LEVEL = 0
      <4> SUFFICES ASSUME Q(l, ct) % LEVEL # 0 PROVE FALSE OBVIOUS
      <4>1. <<l, Q(l, ct) % LEVEL>> \in DueCells(ct) BY <1>0, <3>2 DEF DueCells, Q
      <4> QED BY <2>1, <4>1
    <3>4. CASE l = 3
      <4>1. Q(3, ct) = 0 BY <3>3, <3>4, BlockOf
      <4>2. ct = Block[3] * (ct \div Block[3]) + (ct % Block[3]) BY <1>0, DivMod
      <4>3. Block[3] * 0 = 0 BY <1>0
      <4> QED BY <1>0, <3>2, <3>4, <4>1, <4>2, <4>3 DEF Q
    <3>5. CASE l # 3
      <4>1. l \in 0..2 /\ l + 1 \in 0..3 BY <3>5
      <4>2. Q(l + 1, e) = Q(l + 1, t) BY <1>5, <3>5 DEF AtLevel
      <4>3. Q(l + 1, e) = Q(l + 1, ct) BY <1>3, <4>1, <4>2
      <4>4. ct % Block[l + 1] = 0 BY <3>2, <3>3, <4>1, BlockOf
      <4>5. Q(l + 1, ct) # Q(l + 1, t)
        <5>1. PICK n : n = Block[l + 1] OBVIOUS
        <5>2. n \in Nat /\ n > 0 BY <4>1, <5>1, Spans
        <5>3. PICK q \in Int, s \in 0..(n - 1) : t = n * q + s /\ q = t \div n BY <1>0, <5>2, DivMod
        <5>4. ct = n * (ct \div n) + (ct % n) /\ ct \div n \in Int BY <1>0, <5>2, DivMod
        <5>5. ASSUME ct \div n = q PROVE FALSE
          <6>1. ct = n * q + 0 BY <4>4, <5>1, <5>4, <5>5
          <6>2. PICK v \in Int : v = n * q BY <5>2, <5>3
          <6>3. t = v + s /\ ct = v BY <5>3, <6>1, <6>2
          <6> QED BY <1>0, <5>3, <6>3
        <5> QED BY <5>1, <5>3, <5>5 DEF Q
      <4> QED BY <4>2, <4>3, <4>5
    <3> QED BY <3>4, <3>5
  <2>4. ASSUME NEW j \in 0..l PROVE Q(j, e) # Q(j, ct)
    <3> SUFFICES ASSUME Q(j, e) = Q(j, ct) PROVE FALSE OBVIOUS
    <3>0. 0 \in 0..2 /\ 1 \in 0..2 /\ 2 \in 0..2 /\ 0 + 1 = 1 /\ 1 + 1 = 2 /\ 2 + 1 = 3 OBVIOUS
    <3>1. Q(1, e) = Q(0, e) \div LEVEL /\ Q(2, e) = Q(1, e) \div LEVEL /\ Q(3, e) = Q(2, e) \div LEVEL
      BY <1>1, <3>0, BlockOf
    <3>2. Q(1, ct) = Q(0, ct) \div LEVEL /\ Q(2, ct) = Q(1, ct) \div LEVEL /\ Q(3, ct) = Q(2, ct) \div LEVEL
      BY <3>0, BlockOf
    <3>3. /\ j = 0 \/ j = 1 \/ j = 2 \/ j = 3
          /\ l = 0 \/ l = 1 \/ l = 2 \/ l = 3
          /\ j <= l
      OBVIOUS
    <3> QED BY <2>3, <3>1, <3>2, <3>3
  <2>5. l = 3 \/ Q(l + 1, e) = Q(l + 1, ct)
    <3> SUFFICES ASSUME l # 3 PROVE Q(l + 1, e) = Q(l + 1, ct) OBVIOUS
    <3>1. l + 1 \in 0..3 OBVIOUS
    <3>2. Q(l + 1, e) = Q(l + 1, t) BY <1>5 DEF AtLevel
    <3> QED BY <1>3, <3>1, <3>2
  <2>6. AtLevel(e, ct, l) BY <2>4, <2>5 DEF AtLevel
  <2> QED BY <2>1, <2>6, PlaceFar
<1> QED BY <1>4, <1>5, PlaceCases

\* A timer that is not in the list that timer_shift moves stays in its place.
LEMMA Stays ==
    ASSUME NEW t \in Times, NEW r \in 1..(Span - Block[3]), NEW ct, ct = (t + 1) % Span,
           NEW e, e = (t + r) % Span
    PROVE  ct \in Times /\ (Place(e, t) \notin DueCells(ct) => Place(e, ct) = Place(e, t))
<1>0. t \in Nat /\ Span \in Nat /\ Span > 0 /\ t < Span BY Spans DEF Times
<1>1. CASE t + 1 < Span
  <2>1. ct = t + 1 /\ ct \in Times
    <3>1. PICK x \in Nat : x = t + 1 BY <1>0
    <3>2. x < Span + Span /\ x < Span BY <1>0, <1>1, <3>1
    <3>3. x % Span = x /\ x % Span \in Times BY <3>2, Wraps
    <3> QED BY <3>1, <3>3
  <2> QED BY <2>1, StaysInTurn
<1>2. CASE ~(t + 1 < Span)
  <2>1. t = Span - 1 BY <1>0, <1>2
  <2>2. ct = 0 /\ ct \in Times
    <3>1. PICK x \in Nat : x = t + 1 BY <1>0
    <3>2. x < Span + Span /\ ~(x < Span) /\ x - Span = 0 BY <1>0, <2>1, <3>1
    <3>3. x % Span = 0 /\ x % Span \in Times BY <3>2, Wraps
    <3> QED BY <3>1, <3>3
  <2> QED BY <2>1, <2>2, StaysAtWrap
<1> QED BY <1>1, <1>2

LEMMA DueNow == ASSUME NEW t \in Times, NEW r \in 0..(Span - Block[3])
                PROVE  (t + r) % Span = t <=> r = 0
<1>1. t \in Nat /\ t < Span /\ r \in Nat /\ Span \in Nat /\ Block[3] \in Nat /\ Block[3] > 0
  BY Spans DEF Times
<1>2. PICK e : e = (t + r) % Span OBVIOUS
<1>3. \/ e = t + r
      \/ (e + Block[3] <= t) /\ (e = (t + r) - Span)
  BY <1>2, Ahead
<1>4. e = t <=> r = 0
  <2>1. e \in Times BY <1>2, Ahead
  <2>2. e \in Nat BY <2>1, Spans DEF Times
  <2>3. e = t => r = 0 BY <1>1, <1>3, <2>2
  <2>4. r = 0 => e = t BY <1>1, <1>3, <2>2
  <2> QED BY <2>3, <2>4
<1> QED BY <1>2, <1>4

\* A tick later there is a tick less to wait.
LEMMA TickLess ==
    ASSUME NEW t \in Times, NEW r \in 1..(Span - Block[3]), NEW ct, ct = (t + 1) % Span
    PROVE  (ct + (r - 1)) % Span = (t + r) % Span
<1>0. t \in Nat /\ Span \in Nat /\ Span > 0 /\ t < Span /\ r \in Nat /\ r >= 1 /\ r <= Span
  BY Spans DEF Times
<1>1. CASE t + 1 < Span
  <2>1. PICK x \in Nat : x = t + 1 BY <1>0
  <2>2. x < Span + Span /\ x < Span BY <1>0, <1>1, <2>1
  <2>3. x % Span = x BY <2>2, Wraps
  <2>4. ct = x BY <2>1, <2>3
  <2>5. x + (r - 1) = t + r BY <1>0, <2>1
  <2> QED BY <2>4, <2>5
<1>2. CASE ~(t + 1 < Span)
  <2>1. t = Span - 1 BY <1>0, <1>2
  <2>2. PICK x \in Nat : x = t + 1 BY <1>0
  <2>3. x < Span + Span /\ ~(x < Span) /\ x - Span = 0 BY <1>0, <2>1, <2>2
  <2>4. x % Span = 0 BY <2>3, Wraps
  <2>5. ct = 0 BY <2>2, <2>4
  <2>6. PICK y \in Nat : y = t + r BY <1>0
  <2>7. y < Span + Span /\ ~(y < Span) /\ y - Span = r - 1 BY <1>0, <2>1, <2>6
  <2>8. y % Span = r - 1 BY <2>7, Wraps
  <2>9. PICK z \in Nat : z = r - 1 BY <1>0
  <2>10. z < Span + Span /\ z < Span BY <1>0, <2>9
  <2>11. z % Span = z BY <2>10, Wraps
  <2>12. ct + (r - 1) = z BY <1>0, <2>5, <2>9
  <2> QED BY <2>6, <2>8, <2>9, <2>11, <2>12
<1> QED BY <1>1, <1>2

-----------------------------------------------------------------------------
(* Lists.                                                                  *)

LEMMA LinkedLast ==
    ASSUME NEW list \in Seq(Timers), NEW x \in Timers
    PROVE  /\ Linked(list, x) \in Seq(Timers)
           /\ \A y : Among(Linked(list, x), y) <=> Among(list, y) \/ y = x
           /\ Distinct(list) /\ ~Among(list, x) => Distinct(Linked(list, x))
           /\ \A y, z : Follows(list, y, z) => Follows(Linked(list, x), y, z)
           /\ \A y : Among(list, y) => Follows(Linked(list, x), y, x)
<1>0. Append(list, x) \in Seq(Timers) OBVIOUS
<1>1. PICK l2 \in Seq(Timers) : l2 = Linked(list, x) BY <1>0 DEF Linked
<1>2. PICK n \in Nat : n = Len(list) OBVIOUS
<1>3. /\ DOMAIN list = 1..n /\ DOMAIN l2 = 1..(n + 1)
      /\ \A i \in 1..n : l2[i] = list[i]
      /\ l2[n + 1] = x
  BY <1>1, <1>2 DEF Linked
<1>4. \A i \in 1..(n + 1) : i \in 1..n \/ i = n + 1 OBVIOUS
<1>5. n + 1 \in 1..(n + 1) /\ \A i \in 1..n : i \in 1..(n + 1) /\ i < n + 1 OBVIOUS
<1>6. \A y : Among(l2, y) <=> Among(list, y) \/ y = x BY <1>3, <1>4, <1>5 DEF Among
<1>7. ASSUME Distinct(list), ~Among(list, x) PROVE Distinct(l2)
  BY <1>3, <1>4, <1>7 DEF Distinct, Among
<1>8. \A y, z : Follows(list, y, z) => Follows(l2, y, z) BY <1>3, <1>5 DEF Follows
<1>9. \A y : Among(list, y) => Follows(l2, y, x) BY <1>3, <1>5 DEF Follows, Among
<1> QED BY <1>1, <1>6, <1>7, <1>8, <1>9

\* A timer is in one list only.
LEMMA OneList ==
    ASSUME NEW w, NEW ex, NEW now, Placed(w, ex, now), NEW c \in Cell, NEW d \in Cell, NEW x,
           Among(w[c], x), Among(w[d], x)
    PROVE  c = d /\ x \in Timers /\ Place(ex[x], now) = c
<1>1. PICK i \in DOMAIN w[c] : w[c][i] = x BY DEF Among
<1>2. PICK j \in DOMAIN w[d] : w[d][j] = x BY DEF Among
<1>3. w[c] \in Seq(Timers) BY DEF Placed
<1>4. x \in Timers BY <1>1, <1>3
<1> QED BY <1>1, <1>2, <1>4 DEF Placed

\* add_node puts a timer at the end of the list of its due time.
LEMMA AddNodePlaces ==
    ASSUME NEW w, NEW ex, NEW now, NEW x \in Timers, Placed(w, ex, now), ~OnWheel(w, x),
           ex[x] \in Times, NEW w2, w2 = AddNode(w, x, ex[x], now)
    PROVE  /\ Placed(w2, ex, now)
           /\ \A y : OnWheel(w2, y) <=> OnWheel(w, y) \/ y = x
           /\ \A y, z : FollowsIn(w, y, z) => FollowsIn(w2, y, z)
           /\ \A y : OnWheel(w, y) /\ ex[y] = ex[x] => FollowsIn(w2, y, x)
<1>1. PICK p \in Cell : p = Place(ex[x], now) BY PlaceTyped
<1>2. PICK l : l = Linked(w[p], x) OBVIOUS
<1>3. w \in [Cell -> Seq(Timers)] /\ w[p] \in Seq(Timers) BY DEF Placed
<1>4. /\ l \in Seq(Timers)
      /\ \A y : Among(l, y) <=> Among(w[p], y) \/ y = x
      /\ Distinct(w[p]) /\ ~Among(w[p], x) => Distinct(l)
      /\ \A y, z : Follows(w[p], y, z) => Follows(l, y, z)
      /\ \A y : Among(w[p], y) => Follows(l, y, x)
  BY <1>2, <1>3, LinkedLast
<1>5. w2 = [w EXCEPT ![p] = l] BY <1>1, <1>2 DEF AddNode
<1>6. w2 \in [Cell -> Seq(Timers)] /\ w2[p] = l /\ \A c \in Cell : c # p => w2[c] = w[c]
  BY <1>3, <1>4, <1>5
<1>7. ~Among(w[p], x) BY DEF OnWheel
<1>8. \A c \in Cell : Distinct(w2[c])
  <2>1. \A c \in Cell : Distinct(w[c]) BY DEF Placed
  <2> QED BY <1>4, <1>6, <1>7, <2>1
<1>9. ASSUME NEW c \in Cell, NEW i \in DOMAIN w2[c] PROVE Place(ex[w2[c][i]], now) = c
  <2>1. CASE c # p BY <1>6, <2>1 DEF Placed
  <2>2. CASE c = p
    <3>1. Among(l, w2[c][i]) BY <1>6, <2>2 DEF Among
    <3>2. CASE w2[c][i] = x BY <1>1, <2>2, <3>2
    <3>3. CASE Among(w[p], w2[c][i]) BY <2>2, <3>3, OneList
    <3> QED BY <1>4, <3>1, <3>2, <3>3
  <2> QED BY <2>1, <2>2
<1>10. Placed(w2, ex, now) BY <1>6, <1>8, <1>9 DEF Placed
<1>11. \A y : OnWheel(w2, y) <=> OnWheel(w, y) \/ y = x BY <1>4, <1>6 DEF OnWheel
<1>12. \A y, z : FollowsIn(w, y, z) => FollowsIn(w2, y, z) BY <1>4, <1>6 DEF FollowsIn
<1>13. ASSUME NEW y, OnWheel(w, y), ex[y] = ex[x] PROVE FollowsIn(w2, y, x)
  <2>1. PICK c \in Cell : Among(w[c], y) BY <1>13 DEF OnWheel
  <2>2. c = p BY <1>1, <1>13, <2>1, OneList
  <2> QED BY <1>4, <1>6, <2>1, <2>2 DEF FollowsIn
<1> QED BY <1>10, <1>11, <1>12, <1>13

LEMMA AddNodeTyped ==
    ASSUME NEW w \in [Cell -> Seq(Timers)], NEW x \in Timers, NEW e \in Times, NEW now
    PROVE  AddNode(w, x, e, now) \in [Cell -> Seq(Timers)]
<1>1. PICK p \in Cell : p = Place(e, now) BY PlaceTyped
<1>2. PICK l : l = Linked(w[p], x) OBVIOUS
<1>3. w[p] \in Seq(Timers) OBVIOUS
<1>4. l \in Seq(Timers) BY <1>2, <1>3, LinkedLast
<1>5. AddNode(w, x, e, now) = [w EXCEPT ![p] = l] BY <1>1, <1>2 DEF AddNode
<1> QED BY <1>4, <1>5

\* move_list, node by node.
LEMMA MoveRounds ==
    ASSUME NEW c \in Cell, NEW ct, wheel \in [Cell -> Seq(Timers)], expire \in [Timers -> Times]
    PROVE  \E f : /\ f[0] = [wheel EXCEPT ![c] = << >>]
                  /\ \A i \in 1..Len(wheel[c]) :
                        f[i] = AddNode(f[i - 1], wheel[c][i], expire[wheel[c][i]], ct)
                  /\ MoveList(c, ct) = f[Len(wheel[c])]
<1>0. PICK list : list = wheel[c] OBVIOUS
<1>1. list \in Seq(Timers) /\ Len(list) \in Nat BY <1>0
<1> DEFINE S == [Cell -> Seq(Timers)]
<1> DEFINE w0 == [wheel EXCEPT ![c] = << >>]
<1> DEFINE step == [i \in 1..Len(list) |->
                      [w \in S |-> AddNode(w, list[i], expire[list[i]], ct)]]
<1>2. step \in [1..Len(list) -> [S -> S]]
  <2>1. ASSUME NEW i \in 1..Len(list), NEW w \in S
        PROVE  AddNode(w, list[i], expire[list[i]], ct) \in S
    <3>1. list[i] \in Timers BY <1>1
    <3>2. expire[list[i]] \in Times BY <3>1
    <3> QED BY <3>1, <3>2, AddNodeTyped
  <2> QED BY <2>1
<1>3. w0 \in S
  <2>1. << >> \in Seq(Timers) OBVIOUS
  <2> QED BY <2>1
<1>4. PICK f \in [0..Len(list) -> S] :
          f[0] = w0 /\ \A i \in 1..Len(list) : f[i] = step[i][f[i - 1]]
  <2> HIDE DEF step, w0, S
  <2>1. PICK L, SS, z, st : L = Len(list) /\ SS = S /\ z = w0 /\ st = step OBVIOUS
  <2>2. L \in Nat /\ z \in SS /\ st \in [1..L -> [SS -> SS]] BY <1>1, <1>2, <1>3, <2>1
  <2>3. HasRun(L, SS, z, st) BY <2>2, Rounds
  <2> QED BY <2>1, <2>3 DEF HasRun
<1>5. \A i \in 1..Len(list) : f[i] = AddNode(f[i - 1], list[i], expire[list[i]], ct)
  <2> SUFFICES ASSUME NEW i \in 1..Len(list)
               PROVE  f[i] = AddNode(f[i - 1], list[i], expire[list[i]], ct)
    OBVIOUS
  <2>1. i - 1 \in 0..Len(list) BY <1>1
  <2> HIDE DEF S
  <2>2. f[i - 1] \in S BY <2>1
  <2> QED BY <1>4, <2>2
<1> HIDE DEF step, w0, S
<1>6. f = [n \in 0..Len(list) |->
             IF n = 0 THEN w0 ELSE AddNode(f[n - 1], list[n], expire[list[n]], ct)]
  <2>1. ASSUME NEW i \in 0..Len(list)
        PROVE  f[i] = IF i = 0 THEN w0 ELSE AddNode(f[i - 1], list[i], expire[list[i]], ct)
    <3>1. i # 0 => i \in 1..Len(list) BY <1>1
    <3> QED BY <1>4, <1>5, <3>1
  <2> QED BY <2>1
<1> DEFINE g == CHOOSE k : k = [n \in 0..Len(list) |->
             IF n = 0 THEN w0 ELSE AddNode(k[n - 1], list[n], expire[list[n]], ct)]
<1>7. g = [n \in 0..Len(list) |->
             IF n = 0 THEN w0 ELSE AddNode(g[n - 1], list[n], expire[list[n]], ct)]
  BY <1>6, Zenon
<1>8. MoveList(c, ct) = g[Len(list)] BY <1>0, Zenon DEF MoveList, w0
<1> HIDE DEF g
<1>9. /\ g[0] = w0
      /\ \A i \in 1..Len(list) : g[i] = AddNode(g[i - 1], list[i], expire[list[i]], ct)
  <2>1. PICK e : e = g OBVIOUS
  <2>2. e = [n \in 0..Len(list) |->
             IF n = 0 THEN w0 ELSE AddNode(e[n - 1], list[n], expire[list[n]], ct)]
    BY <1>7, <2>1
  <2>3. 0 \in 0..Len(list) /\ \A i \in 1..Len(list) : i \in 0..Len(list) /\ i # 0 BY <1>1
  <2>4. /\ e[0] = w0
        /\ \A i \in 1..Len(list) : e[i] = AddNode(e[i - 1], list[i], expire[list[i]], ct)
    BY <2>2, <2>3
  <2> QED BY <2>1, <2>4
<1> QED BY <1>0, <1>8, <1>9 DEF w0

\* The first n timers of list c of wheel w0 have been added to w again.
MovedSoFar(w0, ex, c, ct, n, w) ==
    /\ Placed(w, ex, ct)
    /\ \A x : OnWheel(w, x) <=> \/ \E d \in Cell : d # c /\ Among(w0[d], x)
                                \/ \E i \in 1..n : w0[c][i] = x
    /\ \A x, y : \A d \in Cell : d # c /\ Follows(w0[d], y, x) => FollowsIn(w, y, x)
    /\ \A i, j \in 1..n : i < j /\ ex[w0[c][i]] = ex[w0[c][j]] => FollowsIn(w, w0[c][i], w0[c][j])

\* Only list c is out of place.
OthersPlaced(w0, ex, c, ct) ==
    \A d \in Cell : d # c => \A i \in DOMAIN w0[d] : Place(ex[w0[d][i]], ct) = d

LEMMA MoveStarts ==
    ASSUME NEW w0, NEW ex, NEW now, Placed(w0, ex, now), NEW c \in Cell, NEW ct,
           OthersPlaced(w0, ex, c, ct), NEW w, w = [w0 EXCEPT ![c] = << >>]
    PROVE  MovedSoFar(w0, ex, c, ct, 0, w)
<1>1. w0 \in [Cell -> Seq(Timers)] /\ \A d \in Cell : Distinct(w0[d]) BY DEF Placed
<1>2. << >> \in Seq(Timers) /\ DOMAIN << >> = {} OBVIOUS
<1>3. w \in [Cell -> Seq(Timers)] /\ w[c] = << >> /\ \A d \in Cell : d # c => w[d] = w0[d] BY <1>1, <1>2
<1>4. \A d \in Cell : Distinct(w[d])
  <2>1. Distinct(<< >>) BY <1>2 DEF Distinct
  <2> QED BY <1>1, <1>3, <2>1
<1>5. \A d \in Cell : \A i \in DOMAIN w[d] : Place(ex[w[d][i]], ct) = d
  BY <1>2, <1>3 DEF OthersPlaced
<1>6. Placed(w, ex, ct) BY <1>3, <1>4, <1>5 DEF Placed
<1>7. \A i \in 1..0 : FALSE OBVIOUS
<1>8. \A x : ~Among(w[c], x) BY <1>2, <1>3 DEF Among
<1>9. \A x : OnWheel(w, x) <=> \E d \in Cell : d # c /\ Among(w0[d], x) BY <1>3, <1>8 DEF OnWheel
<1>10. \A x, y : \A d \in Cell : d # c /\ Follows(w0[d], y, x) => FollowsIn(w, y, x)
  BY <1>3 DEF FollowsIn
<1> QED BY <1>6, <1>7, <1>9, <1>10 DEF MovedSoFar

LEMMA MoveGoesOn ==
    ASSUME NEW w0, NEW ex \in [Timers -> Times], NEW now, Placed(w0, ex, now), NEW c \in Cell, NEW ct,
           NEW n \in 1..Len(w0[c]), NEW w, MovedSoFar(w0, ex, c, ct, n - 1, w),
           NEW w2, w2 = AddNode(w, w0[c][n], ex[w0[c][n]], ct)
    PROVE  MovedSoFar(w0, ex, c, ct, n, w2)
<1>0. PICK list \in Seq(Timers) : list = w0[c] BY DEF Placed
<1>1. DOMAIN list = 1..Len(list) /\ Len(list) \in Nat /\ n \in DOMAIN list BY <1>0
<1>2. PICK x \in Timers : x = list[n] BY <1>1
<1>3. \A i \in 1..(n - 1) : i \in DOMAIN list /\ i # n BY <1>1
<1>4. ~OnWheel(w, x)
  <2>1. ASSUME NEW d \in Cell, d # c, Among(w0[d], x) PROVE FALSE
    <3>1. Among(w0[c], x) BY <1>0, <1>1, <1>2 DEF Among
    <3> QED BY <2>1, <3>1, OneList
  <2>2. ASSUME NEW i \in 1..(n - 1), list[i] = x PROVE FALSE
    <3>1. Distinct(list) BY <1>0 DEF Placed
    <3> QED BY <1>1, <1>2, <1>3, <2>2, <3>1 DEF Distinct
  <2> QED BY <1>0, <2>1, <2>2 DEF MovedSoFar
<1>5. ex[x] \in Times /\ Placed(w, ex, ct) /\ w2 = AddNode(w, x, ex[x], ct) BY <1>0, <1>2 DEF MovedSoFar
<1>6. /\ Placed(w2, ex, ct)
      /\ \A y : OnWheel(w2, y) <=> OnWheel(w, y) \/ y = x
      /\ \A y, z : FollowsIn(w, y, z) => FollowsIn(w2, y, z)
      /\ \A y : OnWheel(w, y) /\ ex[y] = ex[x] => FollowsIn(w2, y, x)
  BY <1>4, <1>5, AddNodePlaces
<1>7. /\ \A i \in 1..n : i \in 1..(n - 1) \/ i = n
      /\ n \in 1..n /\ \A i \in 1..(n - 1) : i \in 1..n
  BY <1>1
<1>8. \A y : OnWheel(w2, y) <=> \/ \E d \in Cell : d # c /\ Among(w0[d], y)
                                \/ \E i \in 1..n : w0[c][i] = y
  <2>1. \A y : OnWheel(w, y) <=> \/ \E d \in Cell : d # c /\ Among(w0[d], y)
                                 \/ \E i \in 1..(n - 1) : w0[c][i] = y
    BY DEF MovedSoFar
  <2> QED BY <1>0, <1>2, <1>6, <1>7, <2>1
<1>9. \A y, z : \A d \in Cell : d # c /\ Follows(w0[d], z, y) => FollowsIn(w2, z, y)
  BY <1>6 DEF MovedSoFar
<1>10. ASSUME NEW i \in 1..n, NEW j \in 1..n, i < j, ex[w0[c][i]] = ex[w0[c][j]]
       PROVE  FollowsIn(w2, w0[c][i], w0[c][j])
  <2>1. i \in 1..(n - 1) BY <1>1, <1>10
  <2>2. CASE j = n
    <3>1. OnWheel(w, w0[c][i]) BY <2>1 DEF MovedSoFar
    <3> QED BY <1>0, <1>2, <1>6, <1>10, <2>2, <3>1
  <2>3. CASE j # n
    <3>1. j \in 1..(n - 1) BY <1>7, <2>3
    <3>2. FollowsIn(w, w0[c][i], w0[c][j]) BY <1>10, <2>1, <3>1 DEF MovedSoFar
    <3> QED BY <1>6, <3>2
  <2> QED BY <2>2, <2>3
<1> QED BY <1>6, <1>8, <1>9, <1>10 DEF MovedSoFar

\* move_list: all timers stay on the wheel, each in its place, and those due at the
\* same time in their order.
LEMMA MoveListMoves ==
    ASSUME NEW now, Placed(wheel, expire, now), expire \in [Timers -> Times], NEW c \in Cell, NEW ct,
           OthersPlaced(wheel, expire, c, ct), NEW w, w = MoveList(c, ct)
    PROVE  /\ Placed(w, expire, ct)
           /\ \A x : OnWheel(w, x) <=> OnWheel(wheel, x)
           /\ \A x, y : FollowsIn(wheel, y, x) /\ expire[y] = expire[x] => FollowsIn(w, y, x)
<1>0. PICK w0, ex : w0 = wheel /\ ex = expire OBVIOUS
<1>1. PICK list \in Seq(Timers) : list = w0[c] BY <1>0 DEF Placed
<1>2. PICK L \in Nat : L = Len(list) OBVIOUS
<1>3. PICK f : /\ f[0] = [wheel EXCEPT ![c] = << >>]
               /\ \A i \in 1..Len(wheel[c]) :
                     f[i] = AddNode(f[i - 1], wheel[c][i], expire[wheel[c][i]], ct)
               /\ MoveList(c, ct) = f[Len(wheel[c])]
  <2>1. wheel \in [Cell -> Seq(Timers)] BY DEF Placed
  <2> QED BY <2>1, MoveRounds
<1>4. /\ f[0] = [w0 EXCEPT ![c] = << >>]
      /\ \A i \in 1..L : f[i] = AddNode(f[i - 1], w0[c][i], ex[w0[c][i]], ct)
      /\ w = f[L]
  BY <1>0, <1>1, <1>2, <1>3
<1> DEFINE G == {n \in 0..L : MovedSoFar(w0, ex, c, ct, n, f[n])}
<1>5. Placed(w0, ex, now) /\ OthersPlaced(w0, ex, c, ct) /\ ex \in [Timers -> Times] BY <1>0
<1>6. 0 \in G
  <2>1. MovedSoFar(w0, ex, c, ct, 0, f[0]) BY <1>4, <1>5, MoveStarts
  <2> QED BY <2>1
<1>7. ASSUME NEW k \in 1..L, k - 1 \in G PROVE k \in G
  <2>1. MovedSoFar(w0, ex, c, ct, k - 1, f[k - 1]) BY <1>7
  <2>2. PICK u, v : u = f[k - 1] /\ v = f[k] OBVIOUS
  <2>3. v = AddNode(u, w0[c][k], ex[w0[c][k]], ct) BY <1>4, <2>2
  <2>4. k \in 1..Len(w0[c]) BY <1>1, <1>2
  <2>5. MovedSoFar(w0, ex, c, ct, k - 1, u) BY <2>1, <2>2
  <2>6. MovedSoFar(w0, ex, c, ct, k, v) BY <1>5, <2>3, <2>4, <2>5, MoveGoesOn
  <2> QED BY <2>2, <2>6
<1>8. L \in G
  <2> HIDE DEF G
  <2>1. \A k \in 0..L : k \in G BY <1>6, <1>7, EveryRound
  <2> QED BY <2>1
<1>9. MovedSoFar(w0, ex, c, ct, L, w) BY <1>4, <1>8
<1>10. DOMAIN list = 1..L BY <1>2
<1>11. \A x : OnWheel(w, x) <=> OnWheel(w0, x)
  <2>1. \A x : Among(w0[c], x) <=> \E i \in 1..L : w0[c][i] = x BY <1>1, <1>10 DEF Among
  <2> QED BY <1>9, <2>1 DEF MovedSoFar, OnWheel
<1>12. ASSUME NEW x, NEW y, FollowsIn(w0, y, x), ex[y] = ex[x] PROVE FollowsIn(w, y, x)
  <2>1. PICK d \in Cell : Follows(w0[d], y, x) BY <1>12 DEF FollowsIn
  <2>2. CASE d # c BY <1>9, <2>1, <2>2 DEF MovedSoFar
  <2>3. CASE d = c
    <3>1. PICK i \in 1..L, j \in 1..L : i < j /\ w0[c][i] = y /\ w0[c][j] = x
      BY <1>1, <1>10, <2>1, <2>3 DEF Follows
    <3> QED BY <1>9, <1>12, <3>1 DEF MovedSoFar
  <2> QED BY <2>2, <2>3
<1>13. Placed(w, ex, ct) BY <1>9 DEF MovedSoFar
<1> QED BY <1>0, <1>11, <1>12, <1>13

-----------------------------------------------------------------------------
(* The invariant.                                                          *)

LEMMA Typed == ASSUME Inv
               PROVE  /\ time \in Times /\ wheel \in [Cell -> Seq(Timers)]
                      /\ expire \in [Timers -> Times] /\ firing \in Seq(Timers)
                      /\ remain \in [Timers -> -1..(Span - Block[3])]
                      /\ earlier \in [Timers -> SUBSET Timers]
  BY DEF Inv, TypeOK, Times

\* A list of the wheel holds timers.
LEMMA AmongTimers == ASSUME NEW list \in Seq(Timers), NEW x, Among(list, x) PROVE x \in Timers
<1>1. PICK i \in DOMAIN list : list[i] = x BY DEF Among
<1> QED BY <1>1

LEMMA FollowsAmong == ASSUME NEW list, NEW x, NEW y, Follows(list, y, x)
                      PROVE  Among(list, x) /\ Among(list, y)
  BY DEF Follows, Among

LEMMA NoneAmong == \A x, y : ~Among(<< >>, x) /\ ~Follows(<< >>, y, x)
<1>1. DOMAIN << >> = {} OBVIOUS
<1> QED BY <1>1 DEF Among, Follows

LEMMA InitInv == Init => Inv
<1> SUFFICES ASSUME Init PROVE Inv OBVIOUS
<1>0. /\ time = 0 /\ wheel = [c \in Cell |-> << >>] /\ expire = [x \in Timers |-> 0]
      /\ lock = FALSE /\ pc = "idle" /\ owed = 0 /\ firing = << >> /\ zeros = 0
      /\ remain = [x \in Timers |-> -1] /\ earlier = [x \in Timers |-> {}]
  BY DEF Init
<1>1. << >> \in Seq(Timers) /\ DOMAIN << >> = {} OBVIOUS
<1>2. 0 \in 0..(Span - 1) /\ -1 \in -1..(Span - Block[3]) BY Spans
<1>3. TypeOK
  <2>1. time \in 0..(Span - 1) BY <1>0, <1>2
  <2>2. wheel \in [Cell -> Seq(Timers)] BY <1>0, <1>1
  <2>3. expire \in [Timers -> 0..(Span - 1)] BY <1>0, <1>2
  <2>4. lock \in BOOLEAN /\ pc \in {"idle", "exec1", "disp1", "exec2", "disp2"} BY <1>0
  <2>5. owed \in 0..MaxDiff /\ zeros \in 0..MaxZero BY <1>0, TimerAssumption
  <2>6. firing \in Seq(Timers) BY <1>0, <1>1
  <2>7. remain \in [Timers -> -1..(Span - Block[3])] BY <1>0, <1>2
  <2>8. earlier \in [Timers -> SUBSET Timers] BY <1>0
  <2> QED BY <2>1, <2>2, <2>3, <2>4, <2>5, <2>6, <2>7, <2>8 DEF TypeOK
<1>4. \A c \in Cell : wheel[c] = << >> BY <1>0
<1>5. \A x : ~OnWheel(wheel, x) BY <1>4, NoneAmong DEF OnWheel
<1>6. Placed(wheel, expire, time)
  <2>1. wheel \in [Cell -> Seq(Timers)] BY <1>3 DEF TypeOK
  <2>2. \A c \in Cell : Distinct(wheel[c]) BY <1>1, <1>4 DEF Distinct
  <2>3. \A c \in Cell : \A i \in DOMAIN wheel[c] : FALSE BY <1>1, <1>4
  <2> QED BY <2>1, <2>2, <2>3 DEF Placed
<1>7. Kept
  <2>1. Distinct(firing) BY <1>0, <1>1 DEF Distinct
  <2>2. \A x \in Timers : x \notin Pending BY <1>0 DEF Pending
  <2>3. \A x : ~Among(firing, x) BY <1>0, NoneAmong
  <2> QED BY <1>5, <2>1, <2>2, <2>3 DEF Kept
<1>8. Due /\ Locked /\ Ordered
  <2>1. \A x : ~Among(firing, x) BY <1>0, NoneAmong
  <2>2. Due BY <1>5, <2>1 DEF Due
  <2>3. Locked BY <1>0 DEF Locked
  <2>4. Ordered BY <1>0 DEF Ordered
  <2> QED BY <2>2, <2>3, <2>4
<1> QED BY <1>3, <1>6, <1>7, <1>8 DEF Inv

\* Steps that leave the timers alone.
LEMMA Unmoved ==
    ASSUME Inv, UNCHANGED <<time, wheel, expire, firing, zeros, remain, earlier>>,
           lock' \in BOOLEAN, owed' \in 0..MaxDiff,
           pc' \in {"idle", "exec1", "disp1", "exec2", "disp2"}, Locked'
    PROVE  Inv'
<1>1. TypeOK' BY DEF Inv, TypeOK
<1>2. Placed(wheel', expire', time') BY DEF Inv
<1>3. Kept' BY DEF Inv, Kept, Pending
<1>4. Due' BY DEF Inv, Due
<1>5. Ordered' BY DEF Inv, Ordered, Pending
<1> QED BY <1>1, <1>2, <1>3, <1>4, <1>5 DEF Inv

LEMMA UpdateTimeInv == ASSUME Inv, NEW d \in 1..MaxDiff, UpdateTime(d) PROVE Inv'
<1>1. lock' \in BOOLEAN /\ owed' \in 0..MaxDiff /\ pc' \in {"idle", "exec1", "disp1", "exec2", "disp2"}
  BY TimerAssumption DEF Inv, TypeOK, UpdateTime
<1>2. Locked' BY DEF Inv, Locked, UpdateTime
<1>3. UNCHANGED <<time, wheel, expire, firing, zeros, remain, earlier>> BY DEF UpdateTime
<1> QED BY <1>1, <1>2, <1>3, Unmoved

LEMMA BeginUpdateInv == ASSUME Inv, BeginUpdate PROVE Inv'
<1>1. lock' \in BOOLEAN /\ owed' \in 0..MaxDiff /\ pc' \in {"idle", "exec1", "disp1", "exec2", "disp2"}
  BY TimerAssumption DEF Inv, TypeOK, BeginUpdate
<1>2. Locked' BY DEF Inv, Locked, BeginUpdate
<1>3. UNCHANGED <<time, wheel, expire, firing, zeros, remain, earlier>> BY DEF BeginUpdate
<1> QED BY <1>1, <1>2, <1>3, Unmoved

LEMMA RelockInv == ASSUME Inv, Relock PROVE Inv'
<1>1. lock' \in BOOLEAN /\ owed' \in 0..MaxDiff /\ pc' \in {"idle", "exec1", "disp1", "exec2", "disp2"}
  BY DEF Inv, TypeOK, Relock
<1>2. Locked' BY DEF Inv, Locked, Relock
<1>3. UNCHANGED <<time, wheel, expire, firing, zeros, remain, earlier>> BY DEF Relock
<1> QED BY <1>1, <1>2, <1>3, Unmoved

LEMMA EndUpdateInv == ASSUME Inv, EndUpdate PROVE Inv'
<1>1. lock' \in BOOLEAN /\ owed' \in 0..MaxDiff /\ pc' \in {"idle", "exec1", "disp1", "exec2", "disp2"}
  BY DEF Inv, TypeOK, EndUpdate
<1>2. Locked' BY DEF Inv, Locked, EndUpdate
<1>3. UNCHANGED <<time, wheel, expire, firing, zeros, remain, earlier>> BY DEF EndUpdate
<1> QED BY <1>1, <1>2, <1>3, Unmoved

\* timer_add: a timer set for the tick of another one goes behind it.
LEMMA TimeoutInv == ASSUME Inv, NEW x \in Timers, NEW d \in Delays, Timeout(x, d) PROVE Inv'
<1>a. /\ ~lock /\ x \notin Pending /\ (d = 0 => zeros < MaxZero)
      /\ zeros' = (IF d = 0 THEN zeros + 1 ELSE zeros)
      /\ expire' = [expire EXCEPT ![x] = Expire(d)]
      /\ wheel' = AddNode(wheel, x, Expire(d), time)
      /\ remain' = [remain EXCEPT ![x] = d]
      /\ earlier' = [earlier EXCEPT ![x] = {y \in Pending : remain[y] = d}]
      /\ time' = time /\ lock' = lock /\ pc' = pc /\ owed' = owed /\ firing' = firing
  BY DEF Timeout
<1>b. d \in 0..(Span - Block[3]) BY TimerAssumption
<1>c. PICK e : e = (time + d) % Span OBVIOUS
<1>d. e \in Times /\ e = Expire(d) BY <1>b, <1>c, Typed, Ahead DEF Expire
<1>e. /\ expire' \in [Timers -> Times] /\ expire'[x] = e
      /\ \A y \in Timers : y # x => expire'[y] = expire[y]
  BY <1>a, <1>d, Typed
<1>f. /\ remain' \in [Timers -> -1..(Span - Block[3])] /\ remain'[x] = d
      /\ \A y \in Timers : y # x => remain'[y] = remain[y]
  <2>1. d \in -1..(Span - Block[3]) BY <1>b
  <2> QED BY <1>a, <2>1, Typed
<1>g. /\ earlier' \in [Timers -> SUBSET Timers] /\ earlier'[x] = {y \in Pending : remain[y] = d}
      /\ \A y \in Timers : y # x => earlier'[y] = earlier[y]
  <2>1. {y \in Pending : remain[y] = d} \in SUBSET Timers BY DEF Pending
  <2> QED BY <1>a, <2>1, Typed
<1>h. d # -1 BY <1>b
<1>i. ~OnWheel(wheel, x) /\ ~Among(firing, x) BY <1>a DEF Inv, Kept
<1>j. PICK w, ex, now : w = wheel /\ ex = expire' /\ now = time OBVIOUS
<1>k. Placed(w, ex, now)
  <2>1. w \in [Cell -> Seq(Timers)] /\ \A c \in Cell : Distinct(w[c]) BY <1>j DEF Inv, Placed
  <2>2. ASSUME NEW c \in Cell, NEW i \in DOMAIN w[c] PROVE Place(ex[w[c][i]], now) = c
    <3>1. PICK y : y = w[c][i] OBVIOUS
    <3>2. Among(w[c], y) BY <3>1 DEF Among
    <3>3. y \in Timers BY <2>1, <3>2, AmongTimers
    <3>4. y # x BY <1>i, <1>j, <3>2 DEF OnWheel
    <3>5. ex[y] = expire[y] BY <1>e, <1>j, <3>3, <3>4
    <3>6. Place(expire[y], time) = c BY <1>j, <3>1 DEF Inv, Placed
    <3> QED BY <1>j, <3>1, <3>5, <3>6
  <2> QED BY <2>1, <2>2 DEF Placed
<1>l. PICK w2 : w2 = wheel' OBVIOUS
<1>m. /\ Placed(w2, ex, now)
      /\ \A y : OnWheel(w2, y) <=> OnWheel(w, y) \/ y = x
      /\ \A y, z : FollowsIn(w, y, z) => FollowsIn(w2, y, z)
      /\ \A y : OnWheel(w, y) /\ ex[y] = ex[x] => FollowsIn(w2, y, x)
  <2>1. ex[x] = e /\ w2 = AddNode(w, x, ex[x], now) /\ ~OnWheel(w, x)
    BY <1>a, <1>d, <1>e, <1>i, <1>j, <1>l
  <2> QED BY <1>d, <1>k, <2>1, AddNodePlaces
<1>n. \A y \in Timers : y \in Pending' <=> y \in Pending \/ y = x
  BY <1>f, <1>h DEF Pending
<1>1. TypeOK'
  <2>1. wheel' \in [Cell -> Seq(Timers)] BY <1>l, <1>m DEF Placed
  <2>2. zeros' \in 0..MaxZero BY <1>a, TimerAssumption DEF Inv, TypeOK
  <2>3. /\ time' \in 0..(Span - 1) /\ lock' \in BOOLEAN /\ owed' \in 0..MaxDiff
        /\ pc' \in {"idle", "exec1", "disp1", "exec2", "disp2"} /\ firing' \in Seq(Timers)
    BY <1>a DEF Inv, TypeOK
  <2> QED BY <1>e, <1>f, <1>g, <2>1, <2>2, <2>3 DEF TypeOK, Times
<1>2. Placed(wheel', expire', time') BY <1>a, <1>j, <1>l, <1>m
<1>3. Kept'
  <2>1. Distinct(firing') BY <1>a DEF Inv, Kept
  <2>2. \A y \in Timers : y \in Pending' <=> OnWheel(wheel', y) \/ Among(firing', y)
    BY <1>a, <1>j, <1>l, <1>m, <1>n DEF Inv, Kept
  <2>3. \A y \in Timers : ~(OnWheel(wheel', y) /\ Among(firing', y))
    BY <1>a, <1>i, <1>j, <1>l, <1>m DEF Inv, Kept
  <2> QED BY <2>1, <2>2, <2>3 DEF Kept
<1>4. Due'
  <2>1. ASSUME NEW y \in Timers, OnWheel(wheel', y) PROVE expire'[y] = (time' + remain'[y]) % Span
    <3>1. CASE y = x BY <1>a, <1>c, <1>e, <1>f, <3>1
    <3>2. CASE y # x
      <4>1. OnWheel(wheel, y) BY <1>j, <1>l, <1>m, <2>1, <3>2
      <4> QED BY <1>a, <1>e, <1>f, <3>2, <4>1 DEF Inv, Due
    <3> QED BY <3>1, <3>2
  <2>2. ASSUME NEW y \in Timers, Among(firing', y) PROVE remain'[y] = 0
    <3>1. y # x /\ Among(firing, y) BY <1>a, <1>i, <2>2
    <3> QED BY <1>f, <3>1 DEF Inv, Due
  <2> QED BY <2>1, <2>2 DEF Due
<1>5. Locked' BY <1>a DEF Inv, Locked
<1>6. Ordered'
  <2> SUFFICES ASSUME NEW u \in Timers, NEW v \in earlier'[u]
               PROVE  /\ u \in Pending' /\ v \in Pending' /\ remain'[v] = remain'[u]
                      /\ \/ Follows(firing', v, u)
                         \/ Among(firing', v) /\ OnWheel(wheel', u)
                         \/ FollowsIn(wheel', v, u)
    BY DEF Ordered
  <2>1. v \in Timers BY <1>g
  <2>2. CASE u = x
    <3>1. v \in Pending /\ remain[v] = d BY <1>g, <2>2
    <3>2. v # x BY <1>a, <3>1
    <3>3. remain'[v] = remain'[u] /\ u \in Pending' /\ v \in Pending' BY <1>f, <1>n, <2>1, <2>2, <3>1, <3>2
    <3>4. CASE Among(firing, v)
      <4>1. OnWheel(wheel', u) BY <1>l, <1>m, <2>2
      <4> QED BY <1>a, <3>3, <3>4, <4>1
    <3>5. CASE OnWheel(wheel, v)
      <4>1. expire[v] = e BY <1>c, <2>1, <3>1, <3>5 DEF Inv, Due
      <4>2. ex[v] = ex[x] BY <1>e, <1>j, <2>1, <3>2, <4>1
      <4>3. FollowsIn(wheel', v, u) BY <1>j, <1>l, <1>m, <2>2, <3>5, <4>2
      <4> QED BY <3>3, <4>3
    <3> QED BY <2>1, <3>1, <3>4, <3>5 DEF Inv, Kept
  <2>3. CASE u # x
    <3>1. v \in earlier[u] BY <1>g, <2>3
    <3>2. /\ u \in Pending /\ v \in Pending /\ remain[v] = remain[u]
          /\ \/ Follows(firing, v, u)
             \/ Among(firing, v) /\ OnWheel(wheel, u)
             \/ FollowsIn(wheel, v, u)
      BY <3>1 DEF Inv, Ordered
    <3>3. v # x BY <1>a, <3>2
    <3>4. u \in Pending' /\ v \in Pending' /\ remain'[v] = remain'[u] BY <1>f, <1>n, <2>1, <2>3, <3>2, <3>3
    <3>5. /\ OnWheel(wheel, u) => OnWheel(wheel', u)
          /\ FollowsIn(wheel, v, u) => FollowsIn(wheel', v, u)
      BY <1>j, <1>l, <1>m
    <3> QED BY <1>a, <3>2, <3>4, <3>5
  <2> QED BY <2>2, <2>3
<1> QED BY <1>1, <1>2, <1>3, <1>4, <1>5, <1>6 DEF Inv

\* Timers on the wheel are pending; while the lock is held, all pending timers are.
LEMMA WheelPending ==
    ASSUME Inv, NEW x \in Timers, OnWheel(wheel, x)
    PROVE  /\ remain[x] \in 0..(Span - Block[3]) /\ ~Among(firing, x)
           /\ expire[x] = (time + remain[x]) % Span
<1>1. x \in Pending /\ ~Among(firing, x) BY DEF Inv, Kept
<1>2. remain[x] \in -1..(Span - Block[3]) /\ remain[x] # -1 BY <1>1, Typed DEF Pending
<1>3. remain[x] \in 0..(Span - Block[3]) BY <1>2, Spans
<1> QED BY <1>1, <1>3 DEF Inv, Due

\* The list of the present tick holds the timers that are due, and no others.
LEMMA NearIsDue ==
    ASSUME Inv, NEW x \in Timers, OnWheel(wheel, x)
    PROVE  <<-1, time % NEAR>> \in Cell /\ (Among(wheel[<<-1, time % NEAR>>], x) <=> remain[x] = 0)
<1>1. PICK t, e, r : t = time /\ e = expire[x] /\ r = remain[x] OBVIOUS
<1>2. t \in Times /\ e \in Times BY <1>1, Typed
<1>3. r \in 0..(Span - Block[3]) /\ e = (t + r) % Span BY <1>1, WheelPending
<1>4. e = t <=> r = 0 BY <1>2, <1>3, DueNow
<1>5. Place(e, t) = <<-1, t % NEAR>> <=> e = t BY <1>2, PlaceDue
<1>6. Place(t, t) = <<-1, t % NEAR>> /\ Place(t, t) \in Cell BY <1>2, PlaceDue, PlaceTyped
<1>7. PICK c \in Cell : Among(wheel[c], x) BY DEF OnWheel
<1>8. Placed(wheel, expire, time) BY DEF Inv
<1>9. Place(e, t) = c /\ \A d \in Cell : Among(wheel[d], x) => d = c
  BY <1>1, <1>7, <1>8, OneList
<1> QED BY <1>1, <1>4, <1>5, <1>6, <1>7, <1>9

\* timer_execute takes the list of the timers that are due.
LEMMA TakeExpiredInv == ASSUME Inv, TakeExpired PROVE Inv'
<1>0. PICK c : c = <<-1, time % NEAR>> OBVIOUS
<1>a. /\ pc \in {"exec1", "exec2"} /\ wheel[c] # << >> /\ firing' = wheel[c]
      /\ wheel' = [wheel EXCEPT ![c] = << >>] /\ lock' = FALSE
      /\ pc' = (IF pc = "exec1" THEN "disp1" ELSE "disp2")
      /\ time' = time /\ expire' = expire /\ owed' = owed /\ zeros' = zeros
      /\ remain' = remain /\ earlier' = earlier
  BY <1>0 DEF TakeExpired
<1>b. c \in Cell
  <2>1. Place(time, time) = c /\ Place(time, time) \in Cell BY <1>0, Typed, PlaceDue, PlaceTyped
  <2> QED BY <2>1
<1>c. firing = << >> BY <1>a DEF Inv, Locked
<1>d. /\ wheel' \in [Cell -> Seq(Timers)] /\ wheel'[c] = << >> /\ wheel[c] \in Seq(Timers)
      /\ \A d \in Cell : d # c => wheel'[d] = wheel[d]
  <2>1. << >> \in Seq(Timers) OBVIOUS
  <2> QED BY <1>a, <1>b, <2>1, Typed
<1>e. Placed(wheel, expire, time) BY DEF Inv
<1>f. \A x : ~Among(firing, x) /\ ~Among(wheel'[c], x) BY <1>c, <1>d, NoneAmong
<1>g. \A x : OnWheel(wheel, x) <=> OnWheel(wheel', x) \/ Among(firing', x)
  BY <1>a, <1>b, <1>d, <1>f DEF OnWheel
<1>h. ASSUME NEW x, OnWheel(wheel', x), Among(firing', x) PROVE FALSE
  <2>1. PICK d \in Cell : Among(wheel'[d], x) BY <1>h DEF OnWheel
  <2>2. d # c BY <1>f, <2>1
  <2>3. Among(wheel[d], x) /\ Among(wheel[c], x) BY <1>a, <1>d, <1>h, <2>1, <2>2
  <2> QED BY <1>b, <1>e, <2>2, <2>3, OneList
<1>1. TypeOK'
  <2>1. firing' \in Seq(Timers) /\ lock' \in BOOLEAN /\ pc' \in {"idle", "exec1", "disp1", "exec2", "disp2"}
    BY <1>a, <1>d
  <2> QED BY <1>a, <1>d, <2>1 DEF Inv, TypeOK
<1>2. Placed(wheel', expire', time')
  <2>1. \A d \in Cell : Distinct(wheel'[d])
    <3>1. Distinct(<< >>)
      <4>1. DOMAIN << >> = {} OBVIOUS
      <4> QED BY <4>1 DEF Distinct
    <3> QED BY <1>d, <1>e, <3>1 DEF Placed
  <2>2. ASSUME NEW d \in Cell, NEW i \in DOMAIN wheel'[d] PROVE Place(expire[wheel'[d][i]], time) = d
    <3>1. DOMAIN << >> = {} OBVIOUS
    <3>2. d # c BY <1>d, <2>2, <3>1
    <3> QED BY <1>d, <1>e, <3>2 DEF Placed
  <2> QED BY <1>a, <1>d, <2>1, <2>2 DEF Placed
<1>3. Kept'
  <2>1. Distinct(firing') BY <1>a, <1>b, <1>e DEF Placed
  <2>2. Pending' = Pending BY <1>a DEF Pending
  <2>3. \A x \in Timers : x \in Pending <=> OnWheel(wheel, x) BY <1>f DEF Inv, Kept
  <2> QED BY <1>g, <1>h, <2>1, <2>2, <2>3 DEF Kept
<1>4. Due'
  <2>1. \A x \in Timers : OnWheel(wheel', x) => expire'[x] = (time' + remain'[x]) % Span
    BY <1>a, <1>g DEF Inv, Due
  <2>2. \A x \in Timers : Among(firing', x) => remain'[x] = 0
    BY <1>0, <1>a, <1>g, NearIsDue
  <2> QED BY <2>1, <2>2 DEF Due
<1>5. Locked' BY <1>a DEF Inv, Locked
<1>6. Ordered'
  <2> SUFFICES ASSUME NEW u \in Timers, NEW v \in earlier'[u]
               PROVE  /\ u \in Pending' /\ v \in Pending' /\ remain'[v] = remain'[u]
                      /\ \/ Follows(firing', v, u)
                         \/ Among(firing', v) /\ OnWheel(wheel', u)
                         \/ FollowsIn(wheel', v, u)
    BY DEF Ordered
  <2>1. /\ u \in Pending /\ v \in Pending /\ remain[v] = remain[u]
        /\ \/ Follows(firing, v, u)
           \/ Among(firing, v) /\ OnWheel(wheel, u)
           \/ FollowsIn(wheel, v, u)
    BY <1>a DEF Inv, Ordered
  <2>2. u \in Pending' /\ v \in Pending' /\ remain'[v] = remain'[u] BY <1>a, <2>1 DEF Pending
  <2>3. FollowsIn(wheel, v, u) BY <1>f, <2>1, FollowsAmong
  <2>4. PICK d \in Cell : Follows(wheel[d], v, u) BY <2>3 DEF FollowsIn
  <2>5. CASE d = c BY <1>a, <2>2, <2>4, <2>5
  <2>6. CASE d # c
    <3>1. FollowsIn(wheel', v, u) BY <1>d, <2>4, <2>6 DEF FollowsIn
    <3> QED BY <2>2, <3>1
  <2> QED BY <2>5, <2>6
<1> QED BY <1>1, <1>2, <1>3, <1>4, <1>5, <1>6 DEF Inv

\* What is left of a list when its first timer is delivered.
LEMMA TailKeeps ==
    ASSUME NEW list \in Seq(Timers), list # << >>, Distinct(list)
    PROVE  /\ Head(list) \in Timers /\ Tail(list) \in Seq(Timers) /\ Distinct(Tail(list))
           /\ \A x : Among(list, x) <=> Among(Tail(list), x) \/ x = Head(list)
           /\ ~Among(Tail(list), Head(list))
           /\ \A x, y : Follows(list, y, x) => x # Head(list)
           /\ \A x, y : Follows(list, y, x) /\ y # Head(list) => Follows(Tail(list), y, x)
<1>1. PICK n \in Nat : n = Len(list) /\ n >= 1 OBVIOUS
<1>0. Head(list) \in Timers /\ Tail(list) \in Seq(Timers) OBVIOUS
<1>2. PICK h \in Timers, l2 \in Seq(Timers) : h = Head(list) /\ l2 = Tail(list) BY <1>0
<1>3. /\ DOMAIN list = 1..n /\ DOMAIN l2 = 1..(n - 1) /\ list[1] = h
      /\ \A i \in 1..(n - 1) : l2[i] = list[i + 1]
  BY <1>1, <1>2
<1>4. /\ \A i \in 1..(n - 1) : i + 1 \in 1..n /\ i + 1 # 1
      /\ 1 \in 1..n
      /\ \A i \in 1..n : i = 1 \/ (i - 1 \in 1..(n - 1) /\ (i - 1) + 1 = i)
  BY <1>1
<1>5. \A i \in 1..n : i = 1 \/ (i - 1 \in 1..(n - 1) /\ list[i] = l2[i - 1]) BY <1>3, <1>4
<1>6. Distinct(l2)
  <2> SUFFICES ASSUME NEW i \in 1..(n - 1), NEW j \in 1..(n - 1), l2[i] = l2[j] PROVE i = j
    BY <1>3 DEF Distinct
  <2>1. i + 1 = j + 1 BY <1>3, <1>4 DEF Distinct
  <2> QED BY <2>1
<1>7. \A x : Among(list, x) <=> Among(l2, x) \/ x = h
  <2> SUFFICES ASSUME NEW x PROVE Among(list, x) <=> Among(l2, x) \/ x = h OBVIOUS
  <2>1. ASSUME Among(list, x), x # h PROVE Among(l2, x)
    <3>1. PICK i \in 1..n : list[i] = x BY <1>3, <2>1 DEF Among
    <3>2. i # 1 BY <1>3, <2>1, <3>1
    <3>3. i - 1 \in 1..(n - 1) /\ l2[i - 1] = x BY <1>5, <3>1, <3>2
    <3> QED BY <1>3, <3>3 DEF Among
  <2>2. ASSUME Among(l2, x) PROVE Among(list, x) BY <1>3, <1>4, <2>2 DEF Among
  <2>3. Among(list, h) BY <1>3, <1>4 DEF Among
  <2> QED BY <2>1, <2>2, <2>3
<1>8. ~Among(l2, h) BY <1>3, <1>4 DEF Among, Distinct
<1>9. ASSUME NEW x, NEW y, Follows(list, y, x) PROVE x # h /\ (y # h => Follows(l2, y, x))
  <2>1. PICK i \in 1..n, j \in 1..n : i < j /\ list[i] = y /\ list[j] = x BY <1>3, <1>9 DEF Follows
  <2>2. j # 1 BY <2>1
  <2>3. x # h BY <1>3, <1>4, <2>1, <2>2 DEF Distinct
  <2>4. ASSUME y # h PROVE Follows(l2, y, x)
    <3>1. i # 1 BY <1>3, <2>1, <2>4
    <3>2. /\ i - 1 \in 1..(n - 1) /\ j - 1 \in 1..(n - 1) /\ i - 1 < j - 1
          /\ l2[i - 1] = y /\ l2[j - 1] = x
      BY <1>5, <2>1, <2>2, <3>1
    <3> QED BY <1>3, <3>2 DEF Follows
  <2> QED BY <2>3, <2>4
<1> QED BY <1>2, <1>6, <1>7, <1>8, <1>9

\* No timer set before the one that dispatch_list delivers, for the same tick, is left.
LEMMA HeadIsFirst == ASSUME Inv, firing # << >> PROVE earlier[Head(firing)] = {}
<1>1. firing \in Seq(Timers) /\ Distinct(firing) BY Typed DEF Inv, Kept
<1>2. PICK h : h = Head(firing) OBVIOUS
<1>3. h \in Timers /\ Among(firing, h) /\ \A y : ~Follows(firing, y, h) BY <1>1, <1>2, TailKeeps
<1>4. ~OnWheel(wheel, h) BY <1>3 DEF Inv, Kept
<1>5. \A y : ~FollowsIn(wheel, y, h) BY <1>4, FollowsAmong DEF FollowsIn, OnWheel
<1>6. \A y \in earlier[h] : FALSE BY <1>3, <1>4, <1>5 DEF Inv, Ordered
<1> QED BY <1>2, <1>6

\* dispatch_list
LEMMA DeliverInv == ASSUME Inv, Deliver PROVE Inv'
<1>0. PICK h : h = Head(firing) OBVIOUS
<1>a. /\ pc \in {"disp1", "disp2"} /\ firing # << >> /\ firing' = Tail(firing)
      /\ remain' = [remain EXCEPT ![h] = -1]
      /\ earlier' = [x \in Timers |-> IF x = h THEN {} ELSE earlier[x] \ {h}]
      /\ time' = time /\ wheel' = wheel /\ expire' = expire /\ lock' = lock /\ pc' = pc
      /\ owed' = owed /\ zeros' = zeros
  BY <1>0 DEF Deliver
<1>b. firing \in Seq(Timers) /\ Distinct(firing) BY Typed DEF Inv, Kept
<1>c. /\ h \in Timers /\ firing' \in Seq(Timers) /\ Distinct(firing')
      /\ \A x : Among(firing, x) <=> Among(firing', x) \/ x = h
      /\ ~Among(firing', h)
      /\ \A x, y : Follows(firing, y, x) /\ y # h => Follows(firing', y, x)
  BY <1>0, <1>a, <1>b, TailKeeps
<1>d. /\ remain' \in [Timers -> -1..(Span - Block[3])] /\ remain'[h] = -1
      /\ \A x \in Timers : x # h => remain'[x] = remain[x]
  <2>1. -1 \in -1..(Span - Block[3]) BY Spans
  <2> QED BY <1>a, <1>c, <2>1, Typed
<1>e. \A x \in Timers : x \in Pending' <=> x \in Pending /\ x # h BY <1>d DEF Pending
<1>1. TypeOK'
  <2>1. earlier' \in [Timers -> SUBSET Timers] BY <1>a, Typed
  <2> QED BY <1>a, <1>c, <1>d, <2>1 DEF Inv, TypeOK
<1>2. Placed(wheel', expire', time') BY <1>a DEF Inv
<1>3. Kept'
  <2>1. ~OnWheel(wheel, h) BY <1>c DEF Inv, Kept
  <2>2. \A x \in Timers : x \in Pending' <=> OnWheel(wheel', x) \/ Among(firing', x)
    BY <1>a, <1>c, <1>e, <2>1 DEF Inv, Kept
  <2>3. \A x \in Timers : ~(OnWheel(wheel', x) /\ Among(firing', x)) BY <1>a, <1>c DEF Inv, Kept
  <2> QED BY <1>c, <2>2, <2>3 DEF Kept
<1>4. Due'
  <2>1. ~OnWheel(wheel, h) BY <1>c DEF Inv, Kept
  <2>2. ASSUME NEW x \in Timers, OnWheel(wheel', x) PROVE expire'[x] = (time' + remain'[x]) % Span
    <3>1. OnWheel(wheel, x) /\ x # h BY <1>a, <2>1, <2>2
    <3> QED BY <1>a, <1>d, <3>1 DEF Inv, Due
  <2>3. ASSUME NEW x \in Timers, Among(firing', x) PROVE remain'[x] = 0
    <3>1. Among(firing, x) /\ x # h BY <1>c, <2>3
    <3> QED BY <1>d, <3>1 DEF Inv, Due
  <2> QED BY <2>2, <2>3 DEF Due
<1>5. Locked' BY <1>a DEF Inv, Locked
<1>6. Ordered'
  <2> SUFFICES ASSUME NEW u \in Timers, NEW v \in earlier'[u]
               PROVE  /\ u \in Pending' /\ v \in Pending' /\ remain'[v] = remain'[u]
                      /\ \/ Follows(firing', v, u)
                         \/ Among(firing', v) /\ OnWheel(wheel', u)
                         \/ FollowsIn(wheel', v, u)
    BY DEF Ordered
  <2>1. u # h /\ v # h /\ v \in earlier[u] BY <1>a
  <2>2. /\ u \in Pending /\ v \in Pending /\ remain[v] = remain[u]
        /\ \/ Follows(firing, v, u)
           \/ Among(firing, v) /\ OnWheel(wheel, u)
           \/ FollowsIn(wheel, v, u)
    BY <2>1 DEF Inv, Ordered
  <2>3. v \in Timers BY <2>2 DEF Pending
  <2>4. u \in Pending' /\ v \in Pending' /\ remain'[v] = remain'[u] BY <1>d, <1>e, <2>1, <2>2, <2>3
  <2> QED BY <1>a, <1>c, <2>1, <2>2, <2>4
<1> QED BY <1>1, <1>2, <1>3, <1>4, <1>5, <1>6 DEF Inv

LEMMA DueCellTyped == ASSUME NEW ct \in Times, NEW c \in DueCells(ct) PROVE c \in Cell
<1>0. LEVEL \in Nat /\ LEVEL > 0 BY TimerAssumption
<1>1. CASE ct = 0
  <2>1. c = <<3, 0>> BY <1>1 DEF DueCells
  <2>2. 0 \in 0..(LEVEL - 1) /\ 3 \in 0..3 BY <1>0
  <2> QED BY <2>1, <2>2 DEF Cell
<1>2. CASE ct # 0
  <2>1. PICK i \in 0..3 : c = <<i, Q(i, ct) % LEVEL>> BY <1>2 DEF DueCells, Q
  <2>2. Q(i, ct) \in Int BY BlockOf
  <2>3. Q(i, ct) % LEVEL \in 0..(LEVEL - 1) BY <1>0, <2>2
  <2> QED BY <2>1, <2>3 DEF Cell
<1> QED BY <1>1, <1>2

\* timer_shift: time goes on by one tick, and the list whose time comes is moved.
LEMMA ShiftInv == ASSUME Inv, Shift PROVE Inv'
<1>0. PICK t, ct : t = time /\ ct = (t + 1) % Span OBVIOUS
<1>a. /\ pc = "exec1" /\ wheel[<<-1, time % NEAR>>] = << >> /\ time' = ct
      /\ \/ DueCells(ct) = {} /\ wheel' = wheel
         \/ \E c \in DueCells(ct) : wheel' = MoveList(c, ct)
      /\ remain' = [x \in Timers |-> IF remain[x] > 0 THEN remain[x] - 1 ELSE remain[x]]
      /\ zeros' = 0 /\ pc' = "exec2" /\ expire' = expire /\ lock' = lock /\ owed' = owed
      /\ firing' = firing /\ earlier' = earlier
  BY <1>0 DEF Shift
<1>b. firing = << >> /\ \A x, y : ~Among(firing, x) /\ ~Follows(firing, y, x)
  BY <1>a, NoneAmong DEF Inv, Locked
<1>c. t \in Times /\ expire \in [Timers -> Times] /\ Placed(wheel, expire, t) BY <1>0, Typed DEF Inv
<1>d. \A x \in Timers : x \in Pending <=> OnWheel(wheel, x) BY <1>b DEF Inv, Kept
\* Nothing on the wheel is due: it would be in the list that is empty.
<1>e. ASSUME NEW x \in Timers, OnWheel(wheel, x)
      PROVE  remain[x] \in 1..(Span - Block[3]) /\ expire[x] = (t + remain[x]) % Span
  <2>1. remain[x] # 0 BY <1>a, <1>e, NearIsDue, NoneAmong
  <2>2. remain[x] \in 0..(Span - Block[3]) /\ expire[x] = (t + remain[x]) % Span
    BY <1>0, <1>e, WheelPending
  <2>3. remain[x] \in 1..(Span - Block[3]) BY <2>1, <2>2
  <2> QED BY <2>2, <2>3
<1>f. ct \in Times
  <2>1. PICK x \in Nat : x = t + 1 /\ x < Span + Span BY <1>c, Spans DEF Times
  <2>2. x % Span \in Times BY <2>1, Wraps
  <2> QED BY <1>0, <2>1, <2>2
<1>g. ASSUME NEW d \in Cell, d \notin DueCells(ct), NEW i \in DOMAIN wheel[d]
      PROVE  Place(expire[wheel[d][i]], ct) = d
  <2>1. PICK x : x = wheel[d][i] OBVIOUS
  <2>2. Among(wheel[d], x) BY <2>1 DEF Among
  <2>3. OnWheel(wheel, x) BY <2>2 DEF OnWheel
  <2>4. x \in Timers /\ Place(expire[x], t) = d BY <1>c, <2>2, OneList
  <2>5. PICK e, r : e = expire[x] /\ r = remain[x] OBVIOUS
  <2>6. r \in 1..(Span - Block[3]) /\ e = (t + r) % Span BY <1>e, <2>3, <2>4, <2>5
  <2>7. Place(e, t) \notin DueCells(ct) => Place(e, ct) = Place(e, t) BY <1>0, <1>c, <2>6, Stays
  <2> QED BY <1>g, <2>1, <2>4, <2>5, <2>7
<1>h. /\ Placed(wheel', expire, ct)
      /\ \A x : OnWheel(wheel', x) <=> OnWheel(wheel, x)
      /\ \A x, y : FollowsIn(wheel, y, x) /\ expire[y] = expire[x] => FollowsIn(wheel', y, x)
  <2>1. CASE DueCells(ct) = {} /\ wheel' = wheel
    <3>1. Placed(wheel, expire, ct) BY <1>c, <1>g, <2>1 DEF Placed
    <3> QED BY <2>1, <3>1
  <2>2. ASSUME NEW c \in DueCells(ct), wheel' = MoveList(c, ct)
        PROVE  /\ Placed(wheel', expire, ct)
               /\ \A x : OnWheel(wheel', x) <=> OnWheel(wheel, x)
               /\ \A x, y : FollowsIn(wheel, y, x) /\ expire[y] = expire[x] => FollowsIn(wheel', y, x)
    <3>1. c \in Cell BY <1>f, DueCellTyped
    <3>2. OthersPlaced(wheel, expire, c, ct)
      <4>1. \A d \in Cell : d # c => d \notin DueCells(ct) BY <1>f, OneDueCell
      <4> QED BY <1>g, <4>1 DEF OthersPlaced
    <3>3. PICK w : w = MoveList(c, ct) OBVIOUS
    <3>4. /\ Placed(w, expire, ct)
          /\ \A x : OnWheel(w, x) <=> OnWheel(wheel, x)
          /\ \A x, y : FollowsIn(wheel, y, x) /\ expire[y] = expire[x] => FollowsIn(w, y, x)
      BY <1>c, <3>1, <3>2, <3>3, MoveListMoves
    <3> QED BY <2>2, <3>3, <3>4
  <2> QED BY <1>a, <2>1, <2>2
<1>i. \A x \in Timers : OnWheel(wheel, x) =>
         /\ remain'[x] = remain[x] - 1 /\ remain'[x] \in 0..(Span - Block[3])
         /\ remain[x] \in Int
  <2> SUFFICES ASSUME NEW x \in Timers, OnWheel(wheel, x)
               PROVE  /\ remain'[x] = remain[x] - 1 /\ remain'[x] \in 0..(Span - Block[3])
                      /\ remain[x] \in Int
    OBVIOUS
  <2>1. remain[x] \in 1..(Span - Block[3]) BY <1>e
  <2>2. remain'[x] = IF remain[x] > 0 THEN remain[x] - 1 ELSE remain[x] BY <1>a
  <2>3. Span - Block[3] \in Int BY Spans
  <2> QED BY <2>1, <2>2, <2>3
<1>j. \A x \in Timers : ~OnWheel(wheel, x) => remain'[x] = -1
  BY <1>a, <1>d DEF Pending
<1>k. \A x \in Timers : x \in Pending' <=> OnWheel(wheel, x)
  <2>1. \A x \in Timers : OnWheel(wheel, x) => remain'[x] # -1 BY <1>i
  <2> QED BY <1>j, <2>1 DEF Pending
<1>1. TypeOK'
  <2>1. remain' \in [Timers -> -1..(Span - Block[3])]
    <3>1. ASSUME NEW x \in Timers PROVE remain'[x] \in -1..(Span - Block[3])
      <4>1. -1 \in -1..(Span - Block[3]) /\ 0..(Span - Block[3]) \subseteq -1..(Span - Block[3]) BY Spans
      <4> QED BY <1>i, <1>j, <4>1
    <3>2. DOMAIN remain' = Timers /\ remain' = [x \in Timers |-> remain'[x]] BY <1>a
    <3> QED BY <3>1, <3>2
  <2>2. wheel' \in [Cell -> Seq(Timers)] BY <1>h DEF Placed
  <2>3. time' \in 0..(Span - 1) BY <1>a, <1>f DEF Times
  <2>4. zeros' \in 0..MaxZero BY <1>a, TimerAssumption
  <2>5. pc' \in {"idle", "exec1", "disp1", "exec2", "disp2"} BY <1>a
  <2> QED BY <1>a, <2>1, <2>2, <2>3, <2>4, <2>5 DEF Inv, TypeOK
<1>2. Placed(wheel', expire', time') BY <1>a, <1>h
<1>3. Kept'
  <2>1. Distinct(firing') BY <1>a DEF Inv, Kept
  <2>2. \A x : ~Among(firing', x) BY <1>a, <1>b
  <2> QED BY <1>h, <1>k, <2>1, <2>2 DEF Kept
<1>4. Due'
  <2>1. ASSUME NEW x \in Timers, OnWheel(wheel', x) PROVE expire'[x] = (time' + remain'[x]) % Span
    <3>1. OnWheel(wheel, x) BY <1>h, <2>1
    <3>2. PICK r : r = remain[x] OBVIOUS
    <3>3. r \in 1..(Span - Block[3]) /\ expire[x] = (t + r) % Span BY <1>e, <3>1, <3>2
    <3>4. (ct + (r - 1)) % Span = (t + r) % Span BY <1>0, <1>c, <3>3, TickLess
    <3>5. remain'[x] = r - 1 BY <1>i, <3>1, <3>2
    <3> QED BY <1>a, <3>3, <3>4, <3>5
  <2>2. \A x : ~Among(firing', x) BY <1>a, <1>b
  <2> QED BY <2>1, <2>2 DEF Due
<1>5. Locked' BY <1>a DEF Inv, Locked
<1>6. Ordered'
  <2> SUFFICES ASSUME NEW u \in Timers, NEW v \in earlier'[u]
               PROVE  /\ u \in Pending' /\ v \in Pending' /\ remain'[v] = remain'[u]
                      /\ \/ Follows(firing', v, u)
                         \/ Among(firing', v) /\ OnWheel(wheel', u)
                         \/ FollowsIn(wheel', v, u)
    BY DEF Ordered
  <2>1. /\ u \in Pending /\ v \in Pending /\ remain[v] = remain[u]
        /\ FollowsIn(wheel, v, u)
    BY <1>a, <1>b DEF Inv, Ordered
  <2>2. v \in Timers /\ OnWheel(wheel, u) /\ OnWheel(wheel, v) BY <1>d, <2>1 DEF Pending
  <2>3. expire[v] = expire[u] BY <1>e, <2>1, <2>2
  <2>4. FollowsIn(wheel', v, u) BY <1>h, <2>1, <2>3
  <2> QED BY <1>i, <1>k, <2>1, <2>2, <2>4
<1> QED BY <1>1, <1>2, <1>3, <1>4, <1>5, <1>6 DEF Inv

LEMMA NextInv == Inv /\ [Next]_vars => Inv'
<1> SUFFICES ASSUME Inv, [Next]_vars PROVE Inv' OBVIOUS
<1>1. ASSUME NEW x \in Timers, NEW d \in Delays, Timeout(x, d) PROVE Inv' BY <1>1, TimeoutInv
<1>2. ASSUME NEW d \in 1..MaxDiff, UpdateTime(d) PROVE Inv' BY <1>2, UpdateTimeInv
<1>3. CASE BeginUpdate BY <1>3, BeginUpdateInv
<1>4. CASE TakeExpired BY <1>4, TakeExpiredInv
<1>5. CASE Deliver BY <1>5, DeliverInv
<1>6. CASE Relock BY <1>6, RelockInv
<1>7. CASE Shift BY <1>7, ShiftInv
<1>8. CASE EndUpdate BY <1>8, EndUpdateInv
<1>9. CASE UNCHANGED vars
  <2>1. UNCHANGED <<time, wheel, expire, firing, zeros, remain, earlier>>
        /\ lock' = lock /\ pc' = pc /\ owed' = owed
    BY <1>9 DEF vars
  <2>2. /\ lock' \in BOOLEAN /\ owed' \in 0..MaxDiff
        /\ pc' \in {"idle", "exec1", "disp1", "exec2", "disp2"}
    BY <2>1 DEF Inv, TypeOK
  <2>3. Locked' BY <2>1 DEF Inv, Locked
  <2> QED BY <2>1, <2>2, <2>3, Unmoved
<1> QED BY <1>1, <1>2, <1>3, <1>4, <1>5, <1>6, <1>7, <1>8, <1>9 DEF Next, TimerThread

LEMMA InvHolds == Spec => []Inv
<1>1. Init => Inv BY InitInv
<1>2. Inv /\ [Next]_vars => Inv' BY NextInv
<1> QED BY <1>1, <1>2, PTL DEF Spec

-----------------------------------------------------------------------------
(* The results.                                                            *)

LEMMA CountOne == ASSUME NEW list, Distinct(list), NEW x
                  PROVE  Count(list, x) = IF Among(list, x) THEN 1 ELSE 0
<1> DEFINE S == {i \in DOMAIN list : list[i] = x}
<1>1. CASE ~Among(list, x)
  <2>1. S = {} BY <1>1 DEF Among
  <2> QED BY <1>1, <2>1, FS_EmptySet DEF Count
<1>2. CASE Among(list, x)
  <2>1. PICK i \in DOMAIN list : list[i] = x BY <1>2 DEF Among
  <2>2. S = {i} BY <2>1 DEF Distinct
  <2>3. Cardinality({i}) = 1 BY FS_Singleton
  <2> QED BY <1>2, <2>2, <2>3 DEF Count
<1> QED BY <1>1, <1>2

LEMMA InvLinked == Inv => LinkedOnce
<1> SUFFICES ASSUME Inv PROVE LinkedOnce OBVIOUS
<1>1. TypeOK /\ Distinct(firing) /\ \A c \in Cell : Distinct(wheel[c]) BY DEF Inv, Kept, Placed
<1>2. ASSUME NEW x \in Timers
      PROVE  /\ \A c \in Cell : Count(wheel[c], x) <= 1
             /\ Cardinality({c \in Cell : Count(wheel[c], x) > 0}) + Count(firing, x)
                   = IF x \in Pending THEN 1 ELSE 0
  <2>1. /\ \A c \in Cell : Count(wheel[c], x) = IF Among(wheel[c], x) THEN 1 ELSE 0
        /\ Count(firing, x) = IF Among(firing, x) THEN 1 ELSE 0
    BY <1>1, CountOne
  <2>2. \A c \in Cell : Count(wheel[c], x) <= 1 /\ (Count(wheel[c], x) > 0 <=> Among(wheel[c], x))
    BY <2>1
  <2> DEFINE places == {c \in Cell : Count(wheel[c], x) > 0}
  <2>3. Cardinality(places) = IF OnWheel(wheel, x) THEN 1 ELSE 0
    <3>1. CASE ~OnWheel(wheel, x)
      <4>1. places = {} BY <2>2, <3>1 DEF OnWheel
      <4> QED BY <3>1, <4>1, FS_EmptySet
    <3>2. CASE OnWheel(wheel, x)
      <4>1. PICK c \in Cell : Among(wheel[c], x) BY <3>2 DEF OnWheel
      <4>2. Placed(wheel, expire, time) BY DEF Inv
      <4>3. \A d \in Cell : Among(wheel[d], x) => d = c BY <4>1, <4>2, OneList
      <4>4. places = {c} BY <2>2, <4>1, <4>3
      <4>5. Cardinality({c}) = 1 BY FS_Singleton
      <4> QED BY <3>2, <4>4, <4>5
    <3> QED BY <3>1, <3>2
  <2> HIDE DEF places
  <2>4. /\ x \in Pending <=> OnWheel(wheel, x) \/ Among(firing, x)
        /\ ~(OnWheel(wheel, x) /\ Among(firing, x))
    BY DEF Inv, Kept
  <2>5. Cardinality(places) + Count(firing, x) = IF x \in Pending THEN 1 ELSE 0
    BY <2>1, <2>3, <2>4
  <2> QED BY <2>2, <2>5 DEF places
<1> QED BY <1>1, <1>2 DEF LinkedOnce

LEMMA InvOnTime == Inv => OnTime
<1> SUFFICES ASSUME Inv PROVE OnTime OBVIOUS
<1>1. ASSUME NEW i \in DOMAIN firing PROVE remain[firing[i]] = 0
  <2>1. Among(firing, firing[i]) BY DEF Among
  <2>2. firing[i] \in Timers BY Typed
  <2> QED BY <2>1, <2>2 DEF Inv, Due
<1>2. ASSUME NEW x \in Pending, pc = "exec2", wheel[<<-1, time % NEAR>>] = << >>
      PROVE  remain[x] > 0
  <2>1. x \in Timers BY DEF Pending
  <2>2. ~Among(firing, x) BY <1>2, NoneAmong DEF Inv, Locked
  <2>3. OnWheel(wheel, x) BY <2>1, <2>2 DEF Inv, Kept
  <2>4. remain[x] # 0 BY <1>2, <2>1, <2>3, NearIsDue, NoneAmong
  <2>5. remain[x] \in 0..(Span - Block[3]) BY <2>1, <2>3, WheelPending
  <2> QED BY <2>4, <2>5
<1> QED BY <1>1, <1>2 DEF OnTime

\* A timer that is set (timer_add) is linked once, into one list of the wheel or the
\* list being delivered, until it is delivered; with the types of struct timer.
THEOREM TimersAreLinkedOnce == Spec => []LinkedOnce
<1>1. Inv => LinkedOnce BY InvLinked
<1> QED BY <1>1, InvHolds, PTL

\* timer_execute delivers a timer neither before nor after the tick it was set for,
\* through all the levels it passes and also when T->time wraps around.
THEOREM TimersFireOnTime == Spec => []OnTime
<1>1. Inv => OnTime BY InvOnTime
<1> QED BY <1>1, InvHolds, PTL

\* Timers set for the same tick are delivered by dispatch_list in the order in which
\* they were set, whatever levels they were linked into at first.
THEOREM TimersFireInOrder == Spec => InOrder
<1> DEFINE A == \A x \in Timers : remain[x] # -1 /\ remain'[x] = -1 => earlier[x] = {}
<1>1. Inv /\ [Next]_vars => [A]_vars
  <2> SUFFICES ASSUME Inv, Next, NEW x \in Timers, remain[x] # -1, remain'[x] = -1
               PROVE  earlier[x] = {}
    OBVIOUS
  <2>1. remain \in [Timers -> -1..(Span - Block[3])] /\ remain[x] \in Int BY Typed
  <2>2. ASSUME NEW y \in Timers, NEW d \in Delays, Timeout(y, d) PROVE FALSE
    <3>1. d # -1 BY TimerAssumption
    <3>2. remain'[x] = IF x = y THEN d ELSE remain[x] BY <2>1, <2>2 DEF Timeout
    <3> QED BY <3>1, <3>2
  <2>3. ASSUME remain' = remain PROVE FALSE BY <2>3
  <2>4. CASE Deliver
    <3>1. x = Head(firing) /\ firing # << >> BY <2>1, <2>4 DEF Deliver
    <3> QED BY <3>1, HeadIsFirst
  <2>5. ASSUME Shift PROVE FALSE
    <3>1. remain'[x] = IF remain[x] > 0 THEN remain[x] - 1 ELSE remain[x] BY <2>5 DEF Shift
    <3> QED BY <2>1, <3>1
  <2> QED BY <2>2, <2>3, <2>4, <2>5
         DEF Next, TimerThread, UpdateTime, BeginUpdate, TakeExpired, Relock, EndUpdate
<1>2. Spec => [][Next]_vars BY DEF Spec
<1> QED BY <1>1, <1>2, InvHolds, PTL DEF InOrder
=============================================================================
