---------------------------- MODULE ProofLemmas -----------------------------
(***************************************************************************)
(* What the proofs about tables, wheels and loops share: least elements,   *)
(* division, and the states that a loop of a fixed number of rounds passes *)
(* through.                                                                *)
(***************************************************************************)
EXTENDS Integers, WellFoundedInduction, TLAPS

LEMMA LeastElement == ASSUME NEW T \in SUBSET Nat, T # {}
                      PROVE  \E m \in T : \A n \in T : m <= n
<1>1. PICK x \in T : \A y \in T : ~ (<<y, x>> \in OpToRel(<, Nat))
  BY NatLessThanWellFounded, WFMin
<1>2. \A y \in T : y \in Nat /\ x \in Nat /\ ~ (y < x) BY <1>1 DEF OpToRel
<1>3. \A y \in T : x <= y BY <1>2
<1> QED BY <1>3

-----------------------------------------------------------------------------
(* Division.                                                               *)

LEMMA DivMod ==
    ASSUME NEW x \in Int, NEW n \in Nat, n > 0
    PROVE  x = n * (x \div n) + (x % n) /\ x % n \in 0..(n - 1) /\ x \div n \in Int
  OBVIOUS

LEMMA Multiples == ASSUME NEW n \in Nat, n > 0, NEW a \in Int
                   PROVE  (a >= 1 => n * a >= n) /\ (a <= -1 => n * a <= -n)
  OBVIOUS

LEMMA DivUnique ==
    ASSUME NEW n \in Nat, n > 0, NEW a \in Int, NEW r \in 0..(n - 1)
    PROVE  (n * a + r) \div n = a /\ (n * a + r) % n = r
<1> DEFINE x == n * a + r
<1>1. x \in Int OBVIOUS
<1>2. PICK d \in Int, s \in 0..(n - 1) : x = n * d + s /\ s = x % n /\ d = x \div n BY <1>1, DivMod
<1>3. n * (a - d) = s - r
  <2>1. n * (a - d) = n * a - n * d OBVIOUS
  <2> QED BY <1>2, <2>1
<1>4. a - d \in Int /\ ~(a - d >= 1) /\ ~(a - d <= -1) BY <1>2, <1>3, Multiples
<1>5. a = d BY <1>4
<1> QED BY <1>2, <1>5

LEMMA ModUnique == ASSUME NEW n \in Nat, n > 0, NEW a \in Int, NEW r \in 0..(n - 1)
                   PROVE  (n * a + r) % n = r
  BY DivUnique

\* Adding a multiple of the divisor.
LEMMA ModPlus ==
    ASSUME NEW n \in Nat, n > 0, NEW q \in Int, NEW x \in Int
    PROVE  (n * q + x) % n = x % n
<1>1. ASSUME NEW e \in Int, NEW u \in 0..(n - 1)
      PROVE  (n * q + (n * e + u)) % n = u
  <2>1. n * q + (n * e + u) = n * (q + e) + u OBVIOUS
  <2>2. \A w \in Int : (n * w + u) % n = u BY ModUnique
  <2> QED BY <2>1, <2>2
<1>2. x \div n \in Int /\ x % n \in 0..(n - 1) /\ x = n * (x \div n) + (x % n) BY DivMod
<1> QED BY <1>1, <1>2

\* A block of blocks.
LEMMA DivDiv ==
    ASSUME NEW n \in Nat, n > 0, NEW m \in Nat, m > 0, NEW x \in Nat, NEW s, s = m * n
    PROVE  /\ s \in Nat /\ s > 0 /\ x \div s = (x \div n) \div m
           /\ x % s = 0 <=> x % n = 0 /\ (x \div n) % m = 0
<1>1. s \in Nat /\ s > 0 OBVIOUS
<1>2. PICK q \in Int, r \in 0..(n - 1) : x = n * q + r /\ q = x \div n /\ r = x % n BY DivMod
<1>3. PICK p \in Int, u \in 0..(m - 1) : q = m * p + u /\ p = q \div m /\ u = q % m BY DivMod
<1>4. PICK w : w = n * u + r OBVIOUS
<1>5. w \in 0..(s - 1)
  <2>1. PICK k \in Nat : k = (m - 1) - u BY <1>3
  <2>2. u = (m - 1) - k BY <2>1, <1>3
  <2>3. n * u = n * (m - 1) - n * k BY <2>2
  <2>4. n * k >= 0 /\ n * u >= 0 BY <2>1
  <2>5. n * (m - 1) = s - n BY <1>1
  <2>6. n * u \in Int /\ n * k \in Int BY <2>1
  <2> QED BY <1>1, <1>4, <2>3, <2>4, <2>5, <2>6
<1>6. x = s * p + w
  <2>1. n * q = n * (m * p) + n * u BY <1>3
  <2>2. n * (m * p) = s * p OBVIOUS
  <2> QED BY <1>2, <1>4, <2>1, <2>2
<1>7. x \div s = p /\ x % s = w BY <1>1, <1>5, <1>6, DivUnique
<1>8. w = 0 <=> r = 0 /\ u = 0
  <2>1. u >= 1 => n * u >= n BY <1>3, Multiples
  <2>2. u = 0 => n * u = 0 OBVIOUS
  <2>3. PICK v \in Int : v = n * u BY <1>3
  <2>4. u = 0 \/ u >= 1 BY <1>3
  <2>5. w = v + r /\ (u = 0 => v = 0) /\ (u >= 1 => v >= n) BY <1>4, <2>1, <2>2, <2>3
  <2>6. r \in Int /\ 0 <= r BY <1>2
  <2> QED BY <2>3, <2>4, <2>5, <2>6
<1> QED BY <1>1, <1>2, <1>3, <1>7, <1>8

\* The next number is in the same block or starts the next one.
LEMMA DivNext ==
    ASSUME NEW n \in Nat, n > 0, NEW x \in Nat
    PROVE  \/ (x + 1) \div n = x \div n
           \/ (x + 1) % n = 0 /\ (x + 1) \div n = (x \div n) + 1
<1>1. PICK q \in Int, r \in 0..(n - 1) : x = n * q + r /\ q = x \div n BY DivMod
<1>2. CASE r + 1 < n
  <2>1. r + 1 \in 0..(n - 1) /\ x + 1 = n * q + (r + 1) BY <1>1, <1>2
  <2>2. (x + 1) \div n = q BY <2>1, DivUnique
  <2> QED BY <1>1, <2>2
<1>3. CASE ~(r + 1 < n)
  <2>1. r = n - 1 BY <1>3
  <2>2. n * (q + 1) = n * q + n OBVIOUS
  <2>3. x + 1 = n * (q + 1) + 0 /\ q + 1 \in Int /\ 0 \in 0..(n - 1) BY <1>1, <2>1, <2>2
  <2>4. (x + 1) \div n = q + 1 /\ (x + 1) % n = 0 BY <2>3, DivUnique
  <2> QED BY <1>1, <2>4
<1> QED BY <1>2, <1>3

\* Order between blocks.
LEMMA DivOrder ==
    ASSUME NEW n \in Nat, n > 0, NEW x \in Nat, NEW y \in Nat
    PROVE  /\ x \div n \in Nat
           /\ x <= y => x \div n <= y \div n
           /\ x + n <= y => x \div n < y \div n
           /\ x < y * n => x \div n < y
<1>1. PICK q \in Int, r \in 0..(n - 1) : x = n * q + r /\ q = x \div n BY DivMod
<1>2. PICK p \in Int, u \in 0..(n - 1) : y = n * p + u /\ p = y \div n BY DivMod
<1>3. q \in Nat
  <2>1. q <= -1 => n * q <= -n BY Multiples
  <2>2. n * q \in Int OBVIOUS
  <2> QED BY <1>1, <2>1, <2>2
<1>4. ASSUME q > p PROVE n * q >= n * p + n
  <2>1. q - p >= 1 /\ q - p \in Int BY <1>4
  <2>2. n * (q - p) >= n BY <2>1, Multiples
  <2>3. n * (q - p) = n * q - n * p OBVIOUS
  <2>4. n * q \in Int /\ n * p \in Int OBVIOUS
  <2> QED BY <2>2, <2>3, <2>4
<1>5. x <= y => q <= p
  <2>1. n * q \in Int /\ n * p \in Int OBVIOUS
  <2> QED BY <1>1, <1>2, <1>4, <2>1
<1>6. x + n <= y => q < p
  <2>1. n * q \in Int /\ n * p \in Int OBVIOUS
  <2>2. q = p => n * q = n * p OBVIOUS
  <2> QED BY <1>1, <1>2, <1>4, <2>1, <2>2
<1>7. x < y * n => q < y
  <2> SUFFICES ASSUME x < y * n, q >= y PROVE FALSE BY <1>3
  <2>1. PICK k \in Nat : q = y + k BY <1>3
  <2>2. n * q = n * y + n * k BY <2>1
  <2>3. n * k >= 0 /\ n * y = y * n /\ n * k \in Int /\ n * y \in Int OBVIOUS
  <2> QED BY <1>1, <2>2, <2>3
<1> QED BY <1>1, <1>2, <1>3, <1>5, <1>6, <1>7

-----------------------------------------------------------------------------
(* Loops.                                                                  *)

HasRun(L, S, s0, step) ==
    \E f \in [0..L -> S] : f[0] = s0 /\ \A i \in 1..L : f[i] = step[i][f[i - 1]]

\* A loop of L rounds has a sequence of states.
LEMMA Rounds ==
    ASSUME NEW L \in Nat, NEW S, NEW s0 \in S, NEW step \in [1..L -> [S -> S]]
    PROVE  HasRun(L, S, s0, step)
<1> DEFINE Runs(f, k) == f[0] = s0 /\ \A i \in 1..k : f[i] = step[i][f[i - 1]]
<1> DEFINE T == {k \in 0..L : ~(\E f \in [0..k -> S] : Runs(f, k))}
<1>1. SUFFICES ASSUME T # {} PROVE FALSE
  <2>1. L \in 0..L OBVIOUS
  <2> QED BY <2>1 DEF HasRun
<1>2. T \in SUBSET Nat OBVIOUS
<1>3. PICK m \in T : \A k \in T : m <= k
  <2> HIDE DEF T
  <2> QED BY <1>1, <1>2, LeastElement
<1>4. m \in 0..L /\ ~(\E f \in [0..m -> S] : Runs(f, m)) BY <1>3
<1>5. m # 0
  <2> SUFFICES ASSUME m = 0 PROVE FALSE OBVIOUS
  <2> DEFINE f == [i \in 0..0 |-> s0]
  <2>1. f \in [0..m -> S] /\ f[0] = s0 /\ 1..m = {} OBVIOUS
  <2>2. Runs(f, m) BY <2>1
  <2> QED BY <1>4, <2>1, <2>2
<1>6. m - 1 \in 0..L /\ m - 1 \notin T
  <2>1. m - 1 \in 0..L /\ ~(m <= m - 1) BY <1>4, <1>5
  <2> HIDE DEF T
  <2> QED BY <1>3, <2>1
<1>7. PICK f \in [0..(m - 1) -> S] : Runs(f, m - 1) BY <1>6
<1> DEFINE g == [i \in 0..m |-> IF i = m THEN step[m][f[m - 1]] ELSE f[i]]
<1>8. step[m][f[m - 1]] \in S
  <2>1. f[m - 1] \in S /\ m \in 1..L BY <1>4, <1>5
  <2> QED BY <2>1
<1>9. g \in [0..m -> S] BY <1>4, <1>5, <1>8
<1>10. Runs(g, m)
  <2>1. g[0] = s0 BY <1>4, <1>5, <1>7
  <2>2. ASSUME NEW i \in 1..m PROVE g[i] = step[i][g[i - 1]]
    <3>1. CASE i = m BY <1>4, <3>1
    <3>2. CASE i # m
      <4>1. i \in 1..(m - 1) /\ i - 1 \in 0..m /\ i - 1 # m /\ i \in 0..m BY <1>4, <3>2
      <4>2. g[i] = f[i] /\ g[i - 1] = f[i - 1] BY <4>1, <3>2
      <4>3. f[i] = step[i][f[i - 1]] BY <4>1, <1>7
      <4> QED BY <4>2, <4>3
    <3> QED BY <3>1, <3>2
  <2> QED BY <2>1, <2>2
<1> QED BY <1>4, <1>9, <1>10

\* What holds before the first round and is kept by every round holds after each.
LEMMA EveryRound ==
    ASSUME NEW L \in Nat, NEW G, 0 \in G, \A k \in 1..L : k - 1 \in G => k \in G
    PROVE  \A k \in 0..L : k \in G
<1> DEFINE T == {k \in 0..L : k \notin G}
<1> SUFFICES ASSUME T # {} PROVE FALSE OBVIOUS
<1>1. T \in SUBSET Nat OBVIOUS
<1>2. PICK m \in T : \A k \in T : m <= k
  <2> HIDE DEF T
  <2> QED BY <1>1, LeastElement
<1>3. m \in 1..L BY <1>2
<1>4. m - 1 \notin T
  <2>1. ~(m <= m - 1) BY <1>3
  <2> HIDE DEF T
  <2> QED BY <1>2, <2>1
<1>5. m - 1 \in G BY <1>3, <1>4
<1> QED BY <1>2, <1>3, <1>5
=============================================================================
