---------------------------- MODULE HarborProofs ----------------------------
(***************************************************************************)
(* The harbor keeps messages and streams, for every number of nodes, names,*)
(* connections and messages, every first size of the rings, every length   *)
(* of a header and all sizes of messages.                                  *)
(*                                                                         *)
(* Messages.  MessagesKept is not inductive.  That messages to one         *)
(* destination stay in order also when those that waited for a name join   *)
(* those that wait for a node needs three facts more: while the node of a  *)
(* name is unknown all messages to it are in its own queue (NamesFit), so  *)
(* that none can be overtaken; what waits in the queue of a slave is       *)
(* younger than what its connection has got for the same destination       *)
(* (SlaveFits); and what the harbor has not taken yet is younger than all  *)
(* else (InboxFits, and the bound in Good).  RingForm gives the contents   *)
(* of a ring with at most one wrap around, PushRing shows that a push adds *)
(* at their end also when the ring is expanded.  FatesInv adds where every *)
(* message has gone, and which messages have headers without a handle.     *)
(*                                                                         *)
(* Streams.  For a connection with a clean start, StreamsOK says what the  *)
(* slave still expects: what it holds of a header or a body, followed by   *)
(* what has not arrived yet, is the rest of the stream from the present    *)
(* message on.  Each round of the loop in push_socket_data keeps this      *)
(* wherever the data was cut (StreamRound), and the rounds are carried     *)
(* through the loop by EveryRound of ProofLemmas.                          *)
(***************************************************************************)
EXTENDS Harbor, ProofLemmas, FiniteSetTheorems, SequenceTheorems, TLAPS

-----------------------------------------------------------------------------
(* The invariant of the messages.                                          *)

\* The types.
Unit == ({"len", "body"} \X Nat \X Nat) \cup ({"id"} \X (Node \cup {Self}))
RingOf(z) == [size : {z}, head : 0..(z - 1), tail : 0..(z - 1), data : [0..(z - 1) -> Nat]]
Rings == UNION {RingOf(z) : z \in Nat \ {0}}
Dest == Node \cup Name
Slave == [fd : -1..MaxConn, status : {"wait", "handshake", "header", "content", "down"},
          queue : Rings \cup {NULL}, length : Nat, got : Seq(Unit)]
Conn == [node : Node \cup {0}, in : Seq(Unit), out : Seq(Nat), fwd : Seq(Seq(Unit)), clean : BOOLEAN]

Named == [value : {0, Self} \cup Node, queue : Rings \cup {NULL}]
Item == [m : Nat, dest : Dest]
Typed(c, s, ns, l) == /\ c \in [1..MaxConn -> Conn] /\ s \in [Node \cup {Self} -> Slave]
                      /\ ns \in [Name -> Named] /\ l \in Seq(Nat)
HarborShape ==
    /\ Typed(conn, slave, names, local)
    /\ inbox \in Seq(Item) /\ dests \in Seq(Dest) /\ Len(dests) <= MaxMsg
    /\ nconn \in 0..MaxConn /\ crashed \in 0..MaxConn

\* How many messages the harbor has taken.
TakenOf(ib, ds) == Len(ds) - Len(ib)
Taken == TakenOf(inbox, dests)
InboxFits(ib, ds) ==
    /\ TakenOf(ib, ds) \in Nat
    /\ \A i \in DOMAIN ib : ib[i].m = TakenOf(ib, ds) + i /\ ib[i].dest = ds[TakenOf(ib, ds) + i]
InboxOK == InboxFits(inbox, dests)

\* The messages in s are among the first h, are in order for each destination, come
\* before those in t, go to n only, and never go to n.
Below(s, h) == \A i \in DOMAIN s : s[i] \in 1..h
Sorted(s, ds) == \A i, j \in DOMAIN s : i < j /\ ds[s[i]] = ds[s[j]] => s[i] < s[j]
Precedes(s, t, ds) == \A i \in DOMAIN s, j \in DOMAIN t : ds[s[i]] = ds[t[j]] => s[i] < t[j]
Only(s, n, ds) == \A i \in DOMAIN s : ds[s[i]] = n
Never(s, n, ds) == \A i \in DOMAIN s : ds[s[i]] # n

\* Where messages are: f says what is at a place, h how many messages were taken,
\* ds where they go and val what is known of the names.
Where(c, s, ns, l) ==
    [p \in Places |-> CASE p[1] = "conn" -> c[p[2]].out
                        [] p[1] = "slave" -> Contents(s[p[2]].queue)
                        [] p[1] = "name" -> Contents(ns[p[2]].queue)
                        [] OTHER -> l]
Once(f) == \A p, q \in Places : \A i \in DOMAIN f[p], j \in DOMAIN f[q] :
               f[p][i] = f[q][j] => p = q /\ i = j
Good(f, h, ds) ==
    /\ f \in [Places -> Seq(Nat)] /\ h \in Nat
    /\ \A p \in Places : Below(f[p], h) /\ Sorted(f[p], ds)
    /\ Once(f)
NamesFit(f, ds, val) ==
    \A n \in Name : /\ Only(f[<<"name", n>>], n, ds)
                    /\ val[n] # 0 => f[<<"name", n>>] = << >>
                    /\ val[n] = 0 => \A p \in Places : p # <<"name", n>> => Never(f[p], n, ds)

\* Slave s of node id, with connections c, nc of them made.
SlaveFits(s, id, nc, c, ds) ==
    /\ s.fd = 0 <=> s.status = "wait"
    /\ s.fd > 0 => /\ s.fd <= nc /\ c[s.fd].node = id
                   /\ Precedes(c[s.fd].out, Contents(s.queue), ds)
                   /\ s.status # "handshake" => Contents(s.queue) = << >>
SlavesOK ==
    /\ slave[Self].fd = 0 /\ slave[Self].status = "wait" /\ slave[Self].queue = NULL
    /\ \A id \in Node : SlaveFits(slave[id], id, nconn, conn, dests)
ConnFits(c, fd, nc) == /\ fd > nc => c.out = << >> /\ c.fwd = << >>
                       /\ fd <= nc => c.node \in Node
ConnsOK == \A fd \in 1..MaxConn : ConnFits(conn[fd], fd, nconn)

Now == Where(conn, slave, names, local)
Vals == [n \in Name |-> names[n].value]
MessagesInv == /\ HarborShape /\ InboxOK /\ Good(Now, Taken, dests) /\ NamesFit(Now, dests, Vals)
               /\ SlavesOK /\ ConnsOK

-----------------------------------------------------------------------------
(* Sequences of messages.                                                  *)

\* t is s followed by r.
Catted(t, s, r) ==
    /\ Len(s) \in Nat
    /\ \A i \in DOMAIN s : i \in DOMAIN t /\ t[i] = s[i] /\ i \in 1..Len(s)
    /\ \A j \in DOMAIN r : Len(s) + j \in DOMAIN t /\ t[Len(s) + j] = r[j] /\ j \in Nat \ {0}
    /\ \A i \in DOMAIN t : i \in DOMAIN s \/ \E j \in DOMAIN r : i = Len(s) + j

LEMMA CatParts ==
    ASSUME NEW S, NEW s \in Seq(S), NEW r \in Seq(S), NEW t, t = s \o r
    PROVE  t \in Seq(S) /\ Catted(t, s, r)
<1>1. /\ Len(s) \in Nat /\ Len(r) \in Nat /\ DOMAIN s = 1..Len(s) /\ DOMAIN r = 1..Len(r)
      /\ t \in Seq(S) /\ Len(t) = Len(s) + Len(r) /\ DOMAIN t = 1..Len(t)
  OBVIOUS
<1>2. \A i \in 1..Len(s) : t[i] = s[i] BY <1>1
<1>3. ASSUME NEW j \in 1..Len(r) PROVE Len(s) + j \in 1..Len(t) /\ t[Len(s) + j] = r[j]
  <2>1. Len(s) + j \in 1..(Len(s) + Len(r)) /\ Len(s) + j > Len(s) BY <1>1
  <2>2. (s \o r)[Len(s) + j] = r[(Len(s) + j) - Len(s)] BY <1>1, <2>1
  <2>3. (Len(s) + j) - Len(s) = j BY <1>1
  <2> QED BY <1>1, <2>1, <2>2, <2>3
<1>4. ASSUME NEW i \in 1..Len(t), i \notin 1..Len(s) PROVE \E j \in 1..Len(r) : i = Len(s) + j
  <2>1. i - Len(s) \in 1..Len(r) /\ i = Len(s) + (i - Len(s)) BY <1>1, <1>4
  <2> QED BY <2>1
<1>5. \A i \in DOMAIN s : i \in DOMAIN t /\ t[i] = s[i] /\ i \in 1..Len(s) BY <1>1, <1>2
<1>6. \A j \in DOMAIN r : Len(s) + j \in DOMAIN t /\ t[Len(s) + j] = r[j] /\ j \in Nat \ {0}
  BY <1>1, <1>3
<1>7. \A i \in DOMAIN t : i \in DOMAIN s \/ \E j \in DOMAIN r : i = Len(s) + j
  BY <1>1, <1>4
<1> QED BY <1>1, <1>5, <1>6, <1>7 DEF Catted

\* Message m comes to the end of s.
Appends(s, m) == Append(s, m) = s \o <<m>>
LEMMA AppendCat == ASSUME NEW S, NEW s \in Seq(S), NEW m \in S PROVE Appends(s, m)
  BY AppendIsConcat DEF Appends

Assoc(a, b, c) == (a \o b) \o c = a \o (b \o c)
LEMMA CatAssoc == ASSUME NEW S, NEW a \in Seq(S), NEW b \in Seq(S), NEW c \in Seq(S) PROVE Assoc(a, b, c)
  BY ConcatAssociative DEF Assoc

\* Sequence r comes to the end of s.
LEMMA CatSorted ==
    ASSUME NEW s, NEW r, NEW t, Catted(t, s, r), NEW ds, NEW h,
           Below(s, h), Below(r, h), Sorted(s, ds), Sorted(r, ds), Precedes(s, r, ds)
    PROVE  Below(t, h) /\ Sorted(t, ds)
<1>1. Below(t, h)
  <2> SUFFICES ASSUME NEW i \in DOMAIN t PROVE t[i] \in 1..h BY DEF Below
  <2>1. CASE i \in DOMAIN s BY <2>1 DEF Below, Catted
  <2>2. CASE \E j \in DOMAIN r : i = Len(s) + j BY <2>2 DEF Below, Catted
  <2> QED BY <2>1, <2>2 DEF Catted
<1>2. Sorted(t, ds)
  <2> SUFFICES ASSUME NEW i \in DOMAIN t, NEW j \in DOMAIN t, i < j, ds[t[i]] = ds[t[j]]
               PROVE  t[i] < t[j]
    BY DEF Sorted
  <2>1. CASE i \in DOMAIN s /\ j \in DOMAIN s BY <2>1 DEF Sorted, Catted
  <2>2. CASE i \in DOMAIN s /\ \E b \in DOMAIN r : j = Len(s) + b
    BY <2>2 DEF Precedes, Catted
  <2>3. CASE (\E a \in DOMAIN r : i = Len(s) + a) /\ j \in DOMAIN s
    <3>1. PICK a \in DOMAIN r : i = Len(s) + a BY <2>3
    <3>2. a \in Nat \ {0} /\ j \in 1..Len(s) /\ Len(s) \in Nat BY <2>3, <3>1 DEF Catted
    <3> QED BY <3>1, <3>2
  <2>4. CASE (\E a \in DOMAIN r : i = Len(s) + a) /\ (\E b \in DOMAIN r : j = Len(s) + b)
    <3>1. PICK a \in DOMAIN r : i = Len(s) + a BY <2>4
    <3>2. PICK b \in DOMAIN r : j = Len(s) + b BY <2>4
    <3>3. a \in Nat /\ b \in Nat /\ Len(s) \in Nat /\ t[i] = r[a] /\ t[j] = r[b]
      BY <3>1, <3>2 DEF Catted
    <3>4. a < b BY <3>1, <3>2, <3>3
    <3> QED BY <3>3, <3>4 DEF Sorted
  <2> QED BY <2>1, <2>2, <2>3, <2>4 DEF Catted
<1> QED BY <1>1, <1>2

\* Places p, i and q, j are one.
OneSpot(p, i, q, j) == p = q /\ i = j
LEMMA OnceApart ==
    ASSUME NEW f, Once(f), NEW p \in Places, NEW q \in Places, NEW i \in DOMAIN f[p], NEW j \in DOMAIN f[q],
           f[p][i] = f[q][j]
    PROVE  OneSpot(p, i, q, j)
  BY DEF Once, OneSpot

\* The messages at src go to the end of dst; src may be a place of nothing.
LEMMA MoveGood ==
    ASSUME NEW f, NEW h, NEW ds, Good(f, h, ds), NEW src \in Places, NEW dst \in Places, src # dst,
           Precedes(f[dst], f[src], ds), NEW g, g \in [Places -> Seq(Nat)],
           g[dst] = f[dst] \o f[src], g[src] = << >>,
           \A p \in Places : p # src /\ p # dst => g[p] = f[p]
    PROVE  Good(g, h, ds)
<1>1. Catted(g[dst], f[dst], f[src]) BY CatParts DEF Good
<1>2. \A p \in Places : Below(f[p], h) /\ Sorted(f[p], ds) BY DEF Good
<1>3. Below(g[dst], h) /\ Sorted(g[dst], ds) BY <1>1, <1>2, CatSorted
<1>4. Below(g[src], h) /\ Sorted(g[src], ds)
  <2>1. DOMAIN g[src] = {} OBVIOUS
  <2> QED BY <2>1 DEF Below, Sorted
<1>5. \A p \in Places : Below(g[p], h) /\ Sorted(g[p], ds) BY <1>2, <1>3, <1>4
<1>6. \A p, q \in Places : \A i \in DOMAIN f[p], j \in DOMAIN f[q] :
         f[p][i] = f[q][j] => p = q /\ i = j
  BY DEF Good, Once
<1>7. ASSUME NEW q \in Places, NEW i \in DOMAIN g[q]
      PROVE  \E p \in Places : \E a \in DOMAIN f[p] :
                /\ g[q][i] = f[p][a]
                /\ \/ p = q /\ a = i /\ p # src
                   \/ p = src /\ q = dst /\ i = Len(f[dst]) + a
  <2>1. CASE q = dst
    <3>1. \/ i \in DOMAIN f[dst] /\ g[dst][i] = f[dst][i]
          \/ \E a \in DOMAIN f[src] : i = Len(f[dst]) + a /\ g[dst][i] = f[src][a]
      BY ZenonT(60), <1>1, <1>7, <2>1 DEF Catted
    <3> QED BY <2>1, <3>1
  <2>2. CASE q = src BY <1>7, <2>2
  <2>3. CASE q # src /\ q # dst BY <1>7, <2>3
  <2> QED BY <2>1, <2>2, <2>3
<1>8. Once(g)
  <2> SUFFICES ASSUME NEW p \in Places, NEW q \in Places, NEW i \in DOMAIN g[p], NEW j \in DOMAIN g[q],
                      g[p][i] = g[q][j]
               PROVE  p = q /\ i = j
    BY DEF Once
  <2>1. PICK u \in Places : \E a \in DOMAIN f[u] :
            /\ g[p][i] = f[u][a]
            /\ \/ u = p /\ a = i /\ u # src
               \/ u = src /\ p = dst /\ i = Len(f[dst]) + a
    BY <1>7
  <2>2. PICK v \in Places : \E b \in DOMAIN f[v] :
            /\ g[q][j] = f[v][b]
            /\ \/ v = q /\ b = j /\ v # src
               \/ v = src /\ q = dst /\ j = Len(f[dst]) + b
    BY <1>7
  <2>3. PICK a \in DOMAIN f[u] : 
            /\ g[p][i] = f[u][a]
            /\ \/ u = p /\ a = i /\ u # src
               \/ u = src /\ p = dst /\ i = Len(f[dst]) + a
    BY <2>1
  <2>4. PICK b \in DOMAIN f[v] :
            /\ g[q][j] = f[v][b]
            /\ \/ v = q /\ b = j /\ v # src
               \/ v = src /\ q = dst /\ j = Len(f[dst]) + b
    BY <2>2
  <2>6. f[u][a] = f[v][b] BY <2>3, <2>4
  <2>7. u \in Places /\ v \in Places /\ a \in DOMAIN f[u] /\ b \in DOMAIN f[v]
    BY <2>1, <2>2, <2>3, <2>4
  <2>8. Once(f) BY DEF Good
  <2>9. OneSpot(u, a, v, b) BY <2>6, <2>7, <2>8, OnceApart
  <2>5. u = v /\ a = b BY <2>9 DEF OneSpot
  <2> QED BY <2>3, <2>4, <2>5
<1> QED BY <1>5, <1>8 DEF Good

LEMMA DropGood ==
    ASSUME NEW f, NEW h, NEW ds, Good(f, h, ds), NEW src \in Places,
           NEW g, g \in [Places -> Seq(Nat)], g[src] = << >>,
           \A p \in Places : p # src => g[p] = f[p]
    PROVE  Good(g, h, ds)
<1>1. DOMAIN g[src] = {} OBVIOUS
<1>2. \A p \in Places : Below(g[p], h) /\ Sorted(g[p], ds) BY <1>1 DEF Good, Below, Sorted
<1>3. \A p, q \in Places : \A i \in DOMAIN f[p], j \in DOMAIN f[q] :
         f[p][i] = f[q][j] => p = q /\ i = j
  BY DEF Good, Once
<1>4. Once(g)
  <2> SUFFICES ASSUME NEW p \in Places, NEW q \in Places, NEW i \in DOMAIN g[p], NEW j \in DOMAIN g[q],
                      g[p][i] = g[q][j]
               PROVE  p = q /\ i = j
    BY DEF Once
  <2>1. p # src /\ q # src BY <1>1
  <2>2. g[p] = f[p] /\ g[q] = f[q] BY <2>1
  <2> QED BY SMTT(60), <1>3, <2>2
<1> QED BY <1>2, <1>4 DEF Good

\* The next message comes to place p.
Puts(f, g, p, m) == g[p] = Append(f[p], m) /\ \A q \in Places : q # p => g[q] = f[q]

LEMMA PutGood ==
    ASSUME NEW f, NEW h, NEW ds, Good(f, h, ds), NEW p \in Places,
           NEW g, g \in [Places -> Seq(Nat)], NEW m, m = h + 1, Puts(f, g, p, m)
    PROVE  Good(g, m, ds)
<1>p. g[p] = Append(f[p], m) /\ \A q \in Places : q # p => g[q] = f[q] BY DEF Puts
<1>0. h \in Nat /\ m \in Nat BY DEF Good
<1>1. PICK r : r = <<m>> OBVIOUS
<1>2. r \in Seq(Nat) /\ g[p] = f[p] \o r /\ DOMAIN r = {1} /\ r[1] = m BY <1>p, <1>0, <1>1 DEF Good
<1>3. Catted(g[p], f[p], r) BY <1>2, CatParts DEF Good
<1>4. ASSUME NEW q \in Places PROVE Below(f[q], m) /\ Sorted(f[q], ds)
  BY <1>0 DEF Good, Below
<1>5. Below(r, m) /\ Sorted(r, ds) BY <1>0, <1>2 DEF Below, Sorted
<1>6. Precedes(f[p], r, ds)
  <2>1. \A i \in DOMAIN f[p] : f[p][i] \in 1..h BY DEF Good, Below
  <2>2. \A i \in DOMAIN f[p] : f[p][i] < m BY <1>0, <2>1
  <2> QED BY <1>2, <2>2 DEF Precedes
<1>7. Below(g[p], m) /\ Sorted(g[p], ds) BY <1>3, <1>4, <1>5, <1>6, CatSorted
<1>8. \A q \in Places : Below(g[q], m) /\ Sorted(g[q], ds) BY <1>p, <1>4, <1>7
<1>9. ASSUME NEW q \in Places, NEW i \in DOMAIN g[q]
      PROVE  \/ i \in DOMAIN f[q] /\ g[q][i] = f[q][i] /\ g[q][i] # m
             \/ q = p /\ i = Len(f[p]) + 1 /\ g[q][i] = m
  <2>1. \A j \in DOMAIN f[q] : f[q][j] # m
    <3>1. \A j \in DOMAIN f[q] : f[q][j] \in 1..h BY DEF Good, Below
    <3> QED BY <1>0, <3>1
  <2>2. CASE q = p BY <1>p, <1>2, <1>3, <1>9, <2>1, <2>2 DEF Catted
  <2>3. CASE q # p BY <1>p, <1>9, <2>1, <2>3
  <2> QED BY <2>2, <2>3
<1>10. Once(g)
  <2> SUFFICES ASSUME NEW u \in Places, NEW q \in Places, NEW i \in DOMAIN g[u], NEW j \in DOMAIN g[q],
                      g[u][i] = g[q][j]
               PROVE  u = q /\ i = j
    BY DEF Once
  <2>1. CASE g[u][i] = m BY <1>9, <2>1
  <2>2. CASE g[u][i] # m
    <3>1. i \in DOMAIN f[u] /\ j \in DOMAIN f[q] /\ f[u][i] = f[q][j] BY <1>9, <2>2
    <3> QED BY <3>1 DEF Good, Once
  <2> QED BY <2>1, <2>2
<1> QED BY <1>0, <1>8, <1>10 DEF Good

\* More messages were taken, or sent.
LEMMA LaterGood ==
    ASSUME NEW f, NEW h, NEW ds, Good(f, h, ds), NEW h2 \in Nat, h <= h2, NEW ds2,
           \A m \in 1..h : ds2[m] = ds[m]
    PROVE  Good(f, h2, ds2)
<1>1. \A p \in Places : Below(f[p], h) /\ Sorted(f[p], ds) /\ h \in Nat BY DEF Good
<1>2. ASSUME NEW p \in Places PROVE Below(f[p], h2) BY <1>1 DEF Below
<1>3. ASSUME NEW p \in Places PROVE Sorted(f[p], ds2)
  <2>1. \A i \in DOMAIN f[p] : ds2[f[p][i]] = ds[f[p][i]] BY <1>1 DEF Below
  <2> QED BY <1>1, <2>1 DEF Sorted
<1> QED BY <1>2, <1>3 DEF Good

-----------------------------------------------------------------------------
(* The ring buffers.                                                       *)

LEMMA SameSeq == ASSUME NEW S, NEW s \in Seq(S), NEW t \in Seq(S), Len(s) = Len(t),
                        \A i \in 1..Len(s) : s[i] = t[i]
                 PROVE  s = t
  BY SeqEqual

\* Where the i-th oldest message of a ring is, and how many it has.
CellOf(q, i) == IF q.head + i - 1 < q.size THEN q.head + i - 1 ELSE q.head + i - 1 - q.size
CountOf(q) == IF q.tail >= q.head THEN q.tail - q.head ELSE q.tail - q.head + q.size

LEMMA RingParts ==
    ASSUME NEW q \in Rings
    PROVE  /\ q.size \in Nat \ {0} /\ q.head \in 0..(q.size - 1) /\ q.tail \in 0..(q.size - 1)
           /\ q.data \in [0..(q.size - 1) -> Nat] /\ q # NULL
           /\ q = [size |-> q.size, head |-> q.head, tail |-> q.tail, data |-> q.data]
<1>1. PICK z \in Nat \ {0} : q \in RingOf(z) BY DEF Rings
<1>2. /\ q.size = z /\ q.head \in 0..(z - 1) /\ q.tail \in 0..(z - 1) /\ q.data \in [0..(z - 1) -> Nat]
      /\ q = [size |-> q.size, head |-> q.head, tail |-> q.tail, data |-> q.data]
  BY <1>1 DEF RingOf
<1>3. q # NULL BY <1>1, <1>2 DEF NULL
<1> QED BY <1>1, <1>2, <1>3

LEMMA RingMade ==
    ASSUME NEW z \in Nat \ {0}, NEW a \in 0..(z - 1), NEW b \in 0..(z - 1), NEW d \in [0..(z - 1) -> Nat]
    PROVE  [size |-> z, head |-> a, tail |-> b, data |-> d] \in Rings
  BY DEF Rings, RingOf

LEMMA ModNear ==
    ASSUME NEW c \in Nat \ {0}, NEW x \in Int, x < 2 * c, -c < x
    PROVE  x % c = IF x < 0 THEN x + c ELSE IF x < c THEN x ELSE x - c
  OBVIOUS

LEMMA ModUp ==
    ASSUME NEW c \in Nat \ {0}, NEW x \in Nat, x < 2 * c
    PROVE  x % c = IF x < c THEN x ELSE x - c
  OBVIOUS

LEMMA RingForm ==
    ASSUME NEW q \in Rings
    PROVE  /\ Contents(q) \in Seq(Nat) /\ Len(Contents(q)) = CountOf(q) /\ CountOf(q) \in 0..(q.size - 1)
           /\ \A i \in 1..CountOf(q) : Contents(q)[i] = q.data[CellOf(q, i)] /\ CellOf(q, i) \in 0..(q.size - 1)
           /\ After(q.tail, q) = IF q.tail + 1 < q.size THEN q.tail + 1 ELSE 0
<1>0. /\ q.size \in Nat \ {0} /\ q.head \in 0..(q.size - 1) /\ q.tail \in 0..(q.size - 1)
      /\ q.data \in [0..(q.size - 1) -> Nat] /\ q # NULL
  BY RingParts
<1>1. PICK z \in Nat \ {0} : z = q.size BY <1>0
<1>2. PICK x \in 0..(z - 1) : x = q.head BY <1>0, <1>1
<1>3. PICK y \in 0..(z - 1) : y = q.tail BY <1>0, <1>1
<1>4. (y - x) % z = IF y - x < 0 THEN y - x + z ELSE y - x
  <2>1. y - x \in Int /\ y - x < 2 * z /\ -z < y - x /\ y - x < z BY <1>1, <1>2, <1>3
  <2> QED BY <2>1, ModNear
<1>5. (q.tail - q.head) % q.size = CountOf(q) /\ CountOf(q) \in 0..(q.size - 1)
  BY <1>1, <1>2, <1>3, <1>4 DEF CountOf
<1>6. ASSUME NEW i \in 1..CountOf(q) PROVE (q.head + i - 1) % q.size = CellOf(q, i) /\ CellOf(q, i) \in 0..(q.size - 1)
  <2>1. i \in 1..(z - 1) BY <1>1, <1>5
  <2>2. PICK e \in Nat : e = x + i - 1 /\ e < 2 * z BY <1>1, <1>2, <2>1
  <2>4. e % z = IF e < z THEN e ELSE e - z BY <1>1, <2>2, ModUp
  <2>3. (x + i - 1) % z = IF x + i - 1 < z THEN x + i - 1 ELSE x + i - 1 - z BY <2>2, <2>4
  <2> QED BY <1>1, <1>2, <2>1, <2>3 DEF CellOf
<1>7. Contents(q) = [i \in 1..CountOf(q) |-> q.data[(q.head + i - 1) % q.size]]
  BY <1>0, <1>5 DEF Contents
<1>8. \A i \in 1..CountOf(q) : q.data[(q.head + i - 1) % q.size] \in Nat BY <1>0, <1>6
<1>9. Contents(q) \in Seq(Nat) /\ Len(Contents(q)) = CountOf(q)
  BY <1>5, <1>7, <1>8
<1>10. \A i \in 1..CountOf(q) : Contents(q)[i] = q.data[CellOf(q, i)] BY <1>6, <1>7
<1>11. After(q.tail, q) = IF q.tail + 1 < q.size THEN q.tail + 1 ELSE 0
  <2>1. PICK e \in Nat : e = y + 1 /\ e < 2 * z /\ e <= z
    <3>1. 1 <= z /\ y <= z - 1 /\ y \in Nat BY <1>1, <1>3
    <3> QED BY <1>1, <3>1
  <2>2. e % z = IF e < z THEN e ELSE e - z BY <1>1, <2>1, ModUp
  <2>3. (y + 1) % z = IF y + 1 < z THEN y + 1 ELSE 0 BY <1>1, <2>1, <2>2
  <2> QED BY <1>1, <1>3, <2>3 DEF After
<1> QED BY <1>5, <1>6, <1>9, <1>10, <1>11

\* w is ring q with message m at its end.
Pushed(w, q, m) == w \in Rings /\ Contents(w) = Append(Contents(q), m)

LEMMA PushRoom ==
    ASSUME NEW q \in Rings, NEW m \in Nat, After(q.tail, q) # q.head,
           NEW w, w = [q EXCEPT !.data[q.tail] = m, !.tail = After(q.tail, q)]
    PROVE  Pushed(w, q, m)
<1>0. /\ q.size \in Nat \ {0} /\ q.head \in 0..(q.size - 1) /\ q.tail \in 0..(q.size - 1)
      /\ q.data \in [0..(q.size - 1) -> Nat]
      /\ q = [size |-> q.size, head |-> q.head, tail |-> q.tail, data |-> q.data]
  BY RingParts
<1>1. /\ Contents(q) \in Seq(Nat) /\ Len(Contents(q)) = CountOf(q) /\ CountOf(q) \in 0..(q.size - 1)
      /\ \A i \in 1..CountOf(q) : Contents(q)[i] = q.data[CellOf(q, i)] /\ CellOf(q, i) \in 0..(q.size - 1)
      /\ After(q.tail, q) = IF q.tail + 1 < q.size THEN q.tail + 1 ELSE 0
  BY RingForm
<1>2. /\ w.size = q.size /\ w.head = q.head /\ w.tail = After(q.tail, q) /\ w.data = [q.data EXCEPT ![q.tail] = m]
      /\ w = [size |-> w.size, head |-> w.head, tail |-> w.tail, data |-> w.data]
  BY <1>0
<1>3. w.tail \in 0..(w.size - 1) /\ w.data \in [0..(w.size - 1) -> Nat] BY <1>0, <1>1, <1>2
<1>4. w \in Rings
  <2>1. w.size \in Nat \ {0} /\ w.head \in 0..(w.size - 1) BY <1>0, <1>2
  <2>2. PICK z \in Nat \ {0} : z = w.size BY <2>1
  <2>3. PICK x \in 0..(z - 1), y \in 0..(z - 1) : x = w.head /\ y = w.tail BY <1>3, <2>1, <2>2
  <2>4. PICK d \in [0..(z - 1) -> Nat] : d = w.data BY <1>3, <2>2
  <2>5. [size |-> z, head |-> x, tail |-> y, data |-> d] \in Rings BY RingMade
  <2> QED BY <1>2, <2>2, <2>3, <2>4, <2>5
<1>5. /\ Contents(w) \in Seq(Nat) /\ Len(Contents(w)) = CountOf(w)
      /\ \A i \in 1..CountOf(w) : Contents(w)[i] = w.data[CellOf(w, i)]
  BY <1>4, RingForm
<1>6. CountOf(w) = CountOf(q) + 1
  <2>1. CASE q.tail + 1 < q.size
    <3>1. PICK z \in Nat \ {0} : z = q.size BY <1>0
    <3>2. PICK x \in 0..(z - 1), y \in 0..(z - 1) : x = q.head /\ y = q.tail BY <1>0, <3>1
    <3>3. y + 1 < z /\ y + 1 # x /\ w.tail = y + 1 /\ w.head = x /\ w.size = z BY <1>1, <1>2, <2>1, <3>1, <3>2
    <3>4. (IF y + 1 >= x THEN y + 1 - x ELSE y + 1 - x + z) = (IF y >= x THEN y - x ELSE y - x + z) + 1
      BY <3>3
    <3> QED BY <3>1, <3>2, <3>3, <3>4 DEF CountOf
  <2>2. CASE ~(q.tail + 1 < q.size)
    <3>1. w.tail = 0 /\ q.tail = q.size - 1 /\ q.head > 0 BY <1>0, <1>1, <1>2, <2>2
    <3> QED BY <1>0, <1>2, <3>1 DEF CountOf
  <2> QED BY <2>1, <2>2
<1>7. \A i \in Nat : CellOf(w, i) = CellOf(q, i) BY <1>2 DEF CellOf
<1>8. CellOf(q, CountOf(q) + 1) = q.tail BY <1>0 DEF CountOf, CellOf
<1>9. ASSUME NEW i \in 1..CountOf(q) PROVE CellOf(q, i) # q.tail
  <2>1. PICK z \in Nat \ {0} : z = q.size BY <1>0
  <2>2. PICK x \in 0..(z - 1), y \in 0..(z - 1) : x = q.head /\ y = q.tail BY <1>0, <2>1
  <2>3. i \in 1..(IF y >= x THEN y - x ELSE y - x + z) BY <1>9, <2>1, <2>2 DEF CountOf
  <2>4. (IF x + i - 1 < z THEN x + i - 1 ELSE x + i - 1 - z) # y BY <2>3
  <2> QED BY <2>1, <2>2, <2>4 DEF CellOf
<1>10. PICK a : a = Append(Contents(q), m) OBVIOUS
<1>11. /\ a \in Seq(Nat) /\ Len(a) = CountOf(q) + 1 /\ a[CountOf(q) + 1] = m
       /\ \A i \in 1..CountOf(q) : a[i] = Contents(q)[i]
  BY <1>1, <1>10
<1>12. ASSUME NEW i \in 1..(CountOf(q) + 1) PROVE Contents(w)[i] = a[i]
  <2>0. i \in 1..CountOf(w) /\ i \in Nat BY <1>1, <1>6
  <2>1. Contents(w)[i] = w.data[CellOf(q, i)] BY <2>0, <1>5, <1>7
  <2>2. CASE i = CountOf(q) + 1 BY <1>0, <1>2, <1>8, <1>11, <2>1, <2>2
  <2>3. CASE i \in 1..CountOf(q)
    <3>1. PICK x \in 0..(q.size - 1) : x = CellOf(q, i) BY <1>1, <2>3
    <3>2. x # q.tail BY <1>9, <2>3, <3>1
    <3>3. w.data[x] = q.data[x] BY <1>0, <1>2, <3>1, <3>2
    <3>4. a[i] = q.data[x] BY <1>1, <1>11, <2>3, <3>1
    <3> QED BY <2>1, <3>1, <3>3, <3>4
  <2> QED BY <1>1, <2>2, <2>3
<1>13. Contents(w) = a
  <2>1. Len(Contents(w)) = Len(a) BY <1>5, <1>6, <1>11
  <2>2. \A i \in 1..Len(a) : a[i] = Contents(w)[i] BY <1>11, <1>12
  <2> QED BY <2>1, <2>2, <1>5, <1>11, SameSeq
<1> QED BY <1>4, <1>10, <1>13 DEF Pushed

LEMMA GrownKeeps ==
    ASSUME NEW q \in Rings, After(q.tail, q) = q.head, NEW w, w = Grown(q)
    PROVE  w \in Rings /\ Contents(w) = Contents(q) /\ After(w.tail, w) # w.head
<1>0. /\ q.size \in Nat \ {0} /\ q.head \in 0..(q.size - 1) /\ q.tail \in 0..(q.size - 1)
      /\ q.data \in [0..(q.size - 1) -> Nat]
  BY RingParts
<1>1. /\ Contents(q) \in Seq(Nat) /\ Len(Contents(q)) = CountOf(q) /\ CountOf(q) \in 0..(q.size - 1)
      /\ \A i \in 1..CountOf(q) : Contents(q)[i] = q.data[CellOf(q, i)] /\ CellOf(q, i) \in 0..(q.size - 1)
      /\ After(q.tail, q) = IF q.tail + 1 < q.size THEN q.tail + 1 ELSE 0
  BY RingForm
<1>2. CountOf(q) = q.size - 1 BY <1>0, <1>1 DEF CountOf
<1>3. PICK z \in Nat \ {0} : z = q.size BY <1>0
<1>4. ASSUME NEW i \in 0..(2 * z - 1), i < z - 1 PROVE (i + q.head) % q.size = CellOf(q, i + 1) /\ i + 1 \in 1..CountOf(q)
  <2>1. PICK x \in 0..(z - 1) : x = q.head BY <1>0, <1>3
  <2>2. PICK e \in Nat : e = i + x /\ e < 2 * z BY <1>3, <1>4, <2>1
  <2>5. e % z = IF e < z THEN e ELSE e - z BY <1>3, <2>2, ModUp
  <2>3. (i + x) % z = IF i + x < z THEN i + x ELSE i + x - z BY <2>2, <2>5
  <2>4. i + 1 \in 1..CountOf(q) BY <1>2, <1>3, <1>4
  <2> QED BY <1>3, <2>1, <2>3, <2>4 DEF CellOf
<1>5. PICK d : d = [i \in 0..(2 * z - 1) |-> IF i < z - 1 THEN q.data[(i + q.head) % q.size] ELSE 0] OBVIOUS
<1>6. d \in [0..(2 * z - 1) -> Nat] /\ \A i \in 0..(2 * z - 1) : i < z - 1 => d[i] = Contents(q)[i + 1]
  <2>1. \A i \in 0..(2 * z - 1) : i < z - 1 => q.data[(i + q.head) % q.size] \in Nat /\ q.data[(i + q.head) % q.size] = Contents(q)[i + 1]
    BY <1>0, <1>1, <1>4
  <2> QED BY <1>5, <2>1
<1>7. w = [size |-> 2 * z, head |-> 0, tail |-> z - 1, data |-> d] BY <1>3, <1>5 DEF Grown
<1>8. w \in Rings
  <2>1. 2 * z \in Nat \ {0} /\ 0 \in 0..(2 * z - 1) /\ z - 1 \in 0..(2 * z - 1) BY <1>3
  <2> QED BY <2>1, <1>6, <1>7, RingMade
<1>9. /\ Contents(w) \in Seq(Nat) /\ Len(Contents(w)) = CountOf(w)
      /\ \A i \in 1..CountOf(w) : Contents(w)[i] = w.data[CellOf(w, i)]
      /\ After(w.tail, w) = IF w.tail + 1 < w.size THEN w.tail + 1 ELSE 0
  BY <1>8, RingForm
<1>10. CountOf(w) = z - 1 /\ After(w.tail, w) = z BY SMTT(60), <1>3, <1>7, <1>9 DEF CountOf
<1>11. ASSUME NEW i \in 1..(z - 1) PROVE Contents(w)[i] = Contents(q)[i]
  <2>1. CellOf(w, i) = i - 1 /\ i - 1 \in 0..(2 * z - 1) /\ i - 1 < z - 1 /\ (i - 1) + 1 = i
    BY <1>3, <1>7, <1>11 DEF CellOf
  <2>2. Contents(w)[i] = d[i - 1]
    <3>1. w.data = d BY <1>7
    <3>2. Contents(w)[i] = w.data[CellOf(w, i)] BY <1>9, <1>10
    <3> QED BY <2>1, <3>1, <3>2
  <2>3. d[i - 1] = Contents(q)[(i - 1) + 1] BY <1>6, <2>1
  <2> QED BY <2>1, <2>2, <2>3
<1>12. Contents(w) = Contents(q)
  <2>1. Len(Contents(w)) = Len(Contents(q)) /\ Len(Contents(w)) = z - 1 BY <1>1, <1>2, <1>3, <1>9, <1>10
  <2> QED BY ZenonT(60), <2>1, <1>1, <1>9, <1>11, SameSeq
<1> QED BY <1>3, <1>7, <1>8, <1>10, <1>12

LEMMA PushRing == ASSUME NEW q \in Rings, NEW m \in Nat PROVE Pushed(PushQueueMsg(q, m), q, m)
<1>1. PICK r : r = IF After(q.tail, q) = q.head THEN Grown(q) ELSE q OBVIOUS
<1>2. r \in Rings /\ Contents(r) = Contents(q) /\ After(r.tail, r) # r.head BY <1>1, GrownKeeps
<1>3. PushQueueMsg(q, m) = [r EXCEPT !.data[r.tail] = m, !.tail = After(r.tail, r)]
  BY <1>1 DEF PushQueueMsg
<1>4. Pushed(PushQueueMsg(q, m), r, m) BY <1>2, <1>3, PushRoom
<1> QED BY <1>2, <1>4 DEF Pushed

LEMMA NewRing == NewQueue \in Rings /\ Contents(NewQueue) = << >>
<1>1. PICK z \in Nat \ {0} : z = QueueSize BY HarborAssumption
<1>2. PICK d : d = [i \in 0..(z - 1) |-> 0] OBVIOUS
<1>3. d \in [0..(z - 1) -> Nat] /\ 0 \in 0..(z - 1) BY <1>1, <1>2
<1>4. NewQueue = [size |-> z, head |-> 0, tail |-> 0, data |-> d] BY <1>1, <1>2 DEF NewQueue
<1>5. NewQueue \in Rings BY <1>3, <1>4, RingMade
<1>6. Contents(NewQueue) \in Seq(Nat) /\ Len(Contents(NewQueue)) = 0
  <2>1. CountOf(NewQueue) = 0 BY <1>4 DEF CountOf
  <2> QED BY <1>5, <2>1, RingForm
<1> QED BY <1>5, <1>6

LEMMA NoRing == Contents(NULL) = << >> BY DEF Contents

LEMMA PushAny == ASSUME NEW q \in Rings \cup {NULL}, NEW m \in Nat PROVE Pushed(PushQueue(q, m), q, m)
<1>1. CASE q = NULL
  <2>1. PushQueue(q, m) = PushQueueMsg(NewQueue, m) BY <1>1 DEF PushQueue
  <2>2. Contents(q) = Contents(NewQueue) BY <1>1, NewRing, NoRing
  <2> QED BY <2>1, <2>2, NewRing, PushRing DEF Pushed
<1>2. CASE q \in Rings
  <2>1. PushQueue(q, m) = PushQueueMsg(q, m) BY <1>2, RingParts DEF PushQueue
  <2> QED BY <1>2, <2>1, PushRing
<1> QED BY <1>1, <1>2

\* dispatch_name_queue pushes the messages of the name one after the other.
LEMMA MergeRounds ==
    ASSUME NEW sq \in Rings, NEW nq \in Rings, NEW ms \in Seq(Nat), ms = Contents(nq)
    PROVE  \E f : /\ f[0] = sq /\ \A i \in 1..Len(ms) : f[i] = PushQueueMsg(f[i - 1], ms[i])
                  /\ Merged(sq, nq) = f[Len(ms)]
<1>1. PICK L \in Nat : L = Len(ms) OBVIOUS
<1> DEFINE step == [i \in 1..L |-> [q \in Rings |-> PushQueueMsg(q, ms[i])]]
<1>2. step \in [1..L -> [Rings -> Rings]]
  <2>1. ASSUME NEW i \in 1..L, NEW q \in Rings PROVE PushQueueMsg(q, ms[i]) \in Rings
    <3>1. ms[i] \in Nat BY <1>1
    <3> QED BY <3>1, PushRing DEF Pushed
  <2> QED BY <2>1
<1>4. PICK f \in [0..L -> Rings] : f[0] = sq /\ \A i \in 1..L : f[i] = step[i][f[i - 1]]
  <2> HIDE DEF step
  <2>1. PICK st : st = step OBVIOUS
  <2>2. HasRun(L, Rings, sq, st) BY <1>1, <1>2, <2>1, Rounds
  <2> QED BY <2>1, <2>2 DEF HasRun
<1>5. \A i \in 1..L : f[i] = PushQueueMsg(f[i - 1], ms[i])
  <2> SUFFICES ASSUME NEW i \in 1..L PROVE f[i] = PushQueueMsg(f[i - 1], ms[i]) OBVIOUS
  <2>1. i - 1 \in 0..L BY <1>1
  <2>2. f[i - 1] \in Rings BY <2>1, <1>4
  <2> QED BY <1>4, <2>2
<1> HIDE DEF step
<1>6. f = [i \in 0..L |-> IF i = 0 THEN sq ELSE PushQueueMsg(f[i - 1], ms[i])]
  <2>1. ASSUME NEW i \in 0..L PROVE f[i] = IF i = 0 THEN sq ELSE PushQueueMsg(f[i - 1], ms[i])
    <3>1. i # 0 => i \in 1..L BY <1>1
    <3> QED BY <1>4, <1>5, <3>1
  <2> QED BY <1>4, <2>1
<1> DEFINE g == CHOOSE k : k = [i \in 0..L |-> IF i = 0 THEN sq ELSE PushQueueMsg(k[i - 1], ms[i])]
<1>7. g = [i \in 0..L |-> IF i = 0 THEN sq ELSE PushQueueMsg(g[i - 1], ms[i])]
  BY <1>6
<1>8. Merged(sq, nq) = g[L] BY <1>1, RingParts DEF Merged
<1> HIDE DEF g
<1>9. g[0] = sq /\ \A i \in 1..L : g[i] = PushQueueMsg(g[i - 1], ms[i])
  <2>1. PICK e : e = g OBVIOUS
  <2>2. e = [i \in 0..L |-> IF i = 0 THEN sq ELSE PushQueueMsg(e[i - 1], ms[i])] BY <1>7, <2>1
  <2>3. 0 \in 0..L /\ \A i \in 1..L : i \in 0..L /\ i # 0 BY <1>1
  <2>4. e[0] = sq /\ \A i \in 1..L : e[i] = PushQueueMsg(e[i - 1], ms[i]) BY <2>2, <2>3
  <2> QED BY <2>1, <2>4
<1> QED BY <1>1, <1>8, <1>9

\* Ring w has the messages of q and then the first n of ms.
MergedTo(w, q, ms, n) == w \in Rings /\ Contents(w) = Contents(q) \o SubSeq(ms, 1, n)

LEMMA SubSeqNext ==
    ASSUME NEW S, NEW s \in Seq(S), NEW ms \in Seq(S), NEW k \in 1..Len(ms)
    PROVE  Append(s \o SubSeq(ms, 1, k - 1), ms[k]) = s \o SubSeq(ms, 1, k)
<1>1. PICK a, y : a = SubSeq(ms, 1, k - 1) /\ y = <<ms[k]>> OBVIOUS
<1>2. a \in Seq(S) /\ ms[k] \in S /\ y \in Seq(S) BY <1>1
<1>3. SubSeq(ms, 1, k) = a \o y
  <2>1. 1 \in 1..Len(ms) /\ k \in 1..Len(ms) OBVIOUS
  <2> QED BY <1>1, <2>1, SubSeqRecursiveSecond
<1>4. (s \o a) \o y = s \o (a \o y)
  <2>1. Assoc(s, a, y) BY <1>2, CatAssoc
  <2> QED BY <2>1 DEF Assoc
<1>5. s \o a \in Seq(S) BY <1>2, ConcatProperties
<1>6. Append(s \o a, ms[k]) = (s \o a) \o y BY <1>1, <1>2, <1>5, AppendIsConcat
<1> QED BY <1>1, <1>3, <1>4, <1>6

LEMMA MergedRing ==
    ASSUME NEW sq \in Rings \cup {NULL}, NEW nq \in Rings
    PROVE  Merged(sq, nq) \in Rings /\ Contents(Merged(sq, nq)) = Contents(sq) \o Contents(nq)
<1>0. Contents(nq) \in Seq(Nat) BY RingForm
<1>1. CASE sq = NULL
  <2>1. Merged(sq, nq) = nq BY <1>1 DEF Merged
  <2>2. Contents(sq) = << >> BY <1>1, NoRing
  <2> QED BY <1>0, <2>1, <2>2
<1>2. CASE sq \in Rings
  <2>1. PICK ms \in Seq(Nat) : ms = Contents(nq) BY <1>0
  <2>2. PICK f : /\ f[0] = sq /\ \A i \in 1..Len(ms) : f[i] = PushQueueMsg(f[i - 1], ms[i])
                 /\ Merged(sq, nq) = f[Len(ms)]
    BY <1>2, <2>1, MergeRounds
  <2>3. PICK L \in Nat : L = Len(ms) OBVIOUS
  <2>c. Contents(sq) \in Seq(Nat) BY <1>2, RingForm
  <2> DEFINE G == {n \in 0..L : MergedTo(f[n], sq, ms, n)}
  <2>4. 0 \in G
    <3>1. SubSeq(ms, 1, 0) = << >> OBVIOUS
    <3>2. Contents(sq) \o << >> = Contents(sq) BY <2>c
    <3>3. MergedTo(f[0], sq, ms, 0) BY <1>2, <2>2, <3>1, <3>2 DEF MergedTo
    <3> QED BY <2>3, <3>3
  <2>5. ASSUME NEW k \in 1..L, k - 1 \in G PROVE k \in G
    <3>1. PICK u, v : u = f[k - 1] /\ v = f[k] OBVIOUS
    <3>2. k \in 1..Len(ms) /\ ms[k] \in Nat BY <2>3
    <3>3. v = PushQueueMsg(u, ms[k]) BY <2>2, <3>1, <3>2
    <3>4. MergedTo(u, sq, ms, k - 1) BY <2>5, <3>1
    <3>5. Pushed(v, u, ms[k]) BY <3>2, <3>3, <3>4, PushRing DEF MergedTo
    <3>6. Contents(v) = Append(Contents(sq) \o SubSeq(ms, 1, k - 1), ms[k]) /\ v \in Rings
      BY <3>4, <3>5 DEF Pushed, MergedTo
    <3>7. Contents(v) = Contents(sq) \o SubSeq(ms, 1, k)
      <4>1. PICK S : S = Nat OBVIOUS
      <4>2. Contents(sq) \in Seq(S) /\ ms \in Seq(S) BY <2>c, <4>1
      <4> QED BY <3>2, <3>6, <4>2, SubSeqNext
    <3>8. MergedTo(v, sq, ms, k) BY <3>6, <3>7 DEF MergedTo
    <3> QED BY <3>1, <3>8
  <2>6. L \in G
    <3> HIDE DEF G
    <3>1. \A k \in 0..L : k \in G BY <2>3, <2>4, <2>5, EveryRound
    <3> QED BY <2>3, <3>1
  <2>7. MergedTo(f[L], sq, ms, L) BY <2>6
  <2>8. SubSeq(ms, 1, L) = ms BY <2>3
  <2> QED BY <2>1, <2>2, <2>3, <2>7, <2>8 DEF MergedTo
<1> QED BY <1>1, <1>2

-----------------------------------------------------------------------------
(* Messages for names.                                                     *)

NamePlace(p) == \E n \in Name : p = <<"name", n>>

LEMMA PlacesOf ==
    /\ \A fd \in 1..MaxConn : <<"conn", fd>> \in Places /\ ~NamePlace(<<"conn", fd>>)
    /\ \A id \in Node \cup {Self} : <<"slave", id>> \in Places /\ ~NamePlace(<<"slave", id>>)
    /\ \A n \in Name : <<"name", n>> \in Places
    /\ <<"local", 0>> \in Places /\ ~NamePlace(<<"local", 0>>)
  BY DEF Places, NamePlace

\* The next message comes to the queue of its name, or not to a name.
LEMMA PutFits ==
    ASSUME NEW f \in [Places -> Seq(Nat)], NEW g \in [Places -> Seq(Nat)], NEW ds, NEW val,
           NamesFit(f, ds, val), NEW p \in Places, NEW m \in Nat, Puts(f, g, p, m),
           \/ ds[m] \in Name /\ p = <<"name", ds[m]>> /\ val[ds[m]] = 0
           \/ ~NamePlace(p) /\ (ds[m] \in Name => val[ds[m]] # 0)
    PROVE  NamesFit(g, ds, val)
<1>p. g[p] = Append(f[p], m) /\ \A q \in Places : q # p => g[q] = f[q] BY DEF Puts
<1>1. \A i \in DOMAIN g[p] : (i \in DOMAIN f[p] /\ g[p][i] = f[p][i]) \/ g[p][i] = m
  <2>1. PICK s \in Seq(Nat) : s = f[p] OBVIOUS
  <2>2. g[p] = Append(s, m) BY <1>p, <2>1
  <2> QED BY <2>1, <2>2
<1> SUFFICES ASSUME NEW n \in Name
             PROVE  /\ Only(g[<<"name", n>>], n, ds)
                    /\ val[n] # 0 => g[<<"name", n>>] = << >>
                    /\ val[n] = 0 => \A q \in Places : q # <<"name", n>> => Never(g[q], n, ds)
  BY DEF NamesFit
<1>2. PICK a \in Places : a = <<"name", n>> BY PlacesOf
<1>3. /\ Only(f[a], n, ds)
      /\ val[n] # 0 => f[a] = << >>
      /\ val[n] = 0 => \A q \in Places : q # a => Never(f[q], n, ds)
  BY <1>2 DEF NamesFit
<1>4. p = a => ds[m] = n /\ val[n] = 0 BY <1>2 DEF NamePlace
<1>5. Only(g[a], n, ds)
  <2>1. CASE a # p BY <1>p, <1>3, <2>1
  <2>2. CASE a = p
    <3> SUFFICES ASSUME NEW i \in DOMAIN g[p] PROVE ds[g[p][i]] = n BY <2>2 DEF Only
    <3>1. CASE g[p][i] = m BY <1>4, <2>2, <3>1
    <3>2. CASE i \in DOMAIN f[p] /\ g[p][i] = f[p][i] BY <1>3, <2>2, <3>2 DEF Only
    <3> QED BY <1>1, <3>1, <3>2
  <2> QED BY <2>1, <2>2
<1>6. val[n] # 0 => g[a] = << >> BY <1>p, <1>2, <1>3, <1>4
<1>7. ASSUME val[n] = 0, NEW q \in Places, q # a PROVE Never(g[q], n, ds)
  <2>1. Never(f[q], n, ds) BY <1>3, <1>7
  <2>2. CASE q # p BY <1>p, <2>1, <2>2
  <2>3. CASE q = p
    <3>1. ds[m] # n BY <1>2, <1>7, <2>3
    <3> QED BY <1>1, <2>1, <2>3, <3>1 DEF Never
  <2> QED BY <2>2, <2>3
<1> QED BY <1>2, <1>5, <1>6, <1>7

\* What is in x comes from s or r.
From(x, s, r) == \A i \in DOMAIN x : \/ \E j \in DOMAIN s : x[i] = s[j]
                                     \/ \E j \in DOMAIN r : x[i] = r[j]

\* What is at src goes away, or to places that are no names; if src is the queue
\* of a name, that name becomes known.
Moves(f, g, src, val, val2) ==
    /\ \A q \in Places : From(g[q], f[q], f[src])
    /\ \A n \in Name : IF src = <<"name", n>> THEN g[<<"name", n>>] = << >> /\ val2[n] # 0
                       ELSE g[<<"name", n>>] = f[<<"name", n>>] /\ val2[n] = val[n]

LEMMA MoveFits ==
    ASSUME NEW f, NEW g, NEW ds, NEW val, NEW val2, NamesFit(f, ds, val), NEW src \in Places,
           Moves(f, g, src, val, val2)
    PROVE  NamesFit(g, ds, val2)
<1>m. /\ \A q \in Places : From(g[q], f[q], f[src])
      /\ \A n \in Name : IF src = <<"name", n>> THEN g[<<"name", n>>] = << >> /\ val2[n] # 0
                         ELSE g[<<"name", n>>] = f[<<"name", n>>] /\ val2[n] = val[n]
  BY DEF Moves
<1> SUFFICES ASSUME NEW n \in Name
             PROVE  /\ Only(g[<<"name", n>>], n, ds)
                    /\ val2[n] # 0 => g[<<"name", n>>] = << >>
                    /\ val2[n] = 0 => \A q \in Places : q # <<"name", n>> => Never(g[q], n, ds)
  BY DEF NamesFit
<1>2. PICK a \in Places : a = <<"name", n>> BY PlacesOf
<1>3. /\ Only(f[a], n, ds)
      /\ val[n] # 0 => f[a] = << >>
      /\ val[n] = 0 => \A q \in Places : q # a => Never(f[q], n, ds)
  BY <1>2 DEF NamesFit
<1>4. CASE src = a
  <2>1. g[a] = << >> /\ val2[n] # 0 BY <1>m, <1>2, <1>4
  <2> QED BY <1>2, <2>1 DEF Only
<1>5. CASE src # a
  <2>1. g[a] = f[a] /\ val2[n] = val[n] BY <1>m, <1>2, <1>5
  <2>2. ASSUME val[n] = 0, NEW q \in Places, q # a PROVE Never(g[q], n, ds)
    <3>1. Never(f[q], n, ds) /\ Never(f[src], n, ds) BY <1>3, <1>5, <2>2
    <3> QED BY <1>m, <3>1 DEF Never, From
  <2> QED BY <1>2, <1>3, <2>1, <2>2
<1> QED BY <1>4, <1>5

LEMMA LaterFits ==
    ASSUME NEW f, NEW h, NEW ds, Good(f, h, ds), NEW ds2, NEW val, NamesFit(f, ds, val),
           \A m \in 1..h : ds2[m] = ds[m]
    PROVE  NamesFit(f, ds2, val)
<1>1. ASSUME NEW p \in Places PROVE \A i \in DOMAIN f[p] : ds2[f[p][i]] = ds[f[p][i]]
  BY DEF Good, Below
<1> SUFFICES ASSUME NEW n \in Name
             PROVE  /\ Only(f[<<"name", n>>], n, ds2)
                    /\ val[n] # 0 => f[<<"name", n>>] = << >>
                    /\ val[n] = 0 => \A q \in Places : q # <<"name", n>> => Never(f[q], n, ds2)
  BY DEF NamesFit
<1>2. PICK a \in Places : a = <<"name", n>> BY PlacesOf
<1>3. /\ Only(f[a], n, ds)
      /\ val[n] # 0 => f[a] = << >>
      /\ val[n] = 0 => \A q \in Places : q # a => Never(f[q], n, ds)
  BY <1>2 DEF NamesFit
<1>4. Only(f[a], n, ds2) BY <1>1, <1>3 DEF Only
<1>5. ASSUME val[n] = 0, NEW q \in Places, q # a PROVE Never(f[q], n, ds2)
  <2>1. Never(f[q], n, ds) BY <1>3, <1>5
  <2> QED BY <1>1, <2>1 DEF Never
<1> QED BY <1>2, <1>3, <1>4, <1>5

LEMMA LaterPrecedes ==
    ASSUME NEW s, NEW t, NEW h, NEW ds, NEW ds2, Below(s, h), Below(t, h), Precedes(s, t, ds),
           \A m \in 1..h : ds2[m] = ds[m]
    PROVE  Precedes(s, t, ds2)
  BY DEF Below, Precedes

-----------------------------------------------------------------------------
(* The places of the state.                                                *)

LEMMA ContentsType == ASSUME NEW q \in Rings \cup {NULL} PROVE Contents(q) \in Seq(Nat)
<1>1. CASE q = NULL BY <1>1, NoRing
<1>2. CASE q \in Rings BY <1>2, RingForm
<1> QED BY <1>1, <1>2

LEMMA WhereForm ==
    ASSUME NEW c, NEW s, NEW ns, NEW l, Typed(c, s, ns, l), NEW f, f = Where(c, s, ns, l)
    PROVE  /\ f \in [Places -> Seq(Nat)]
           /\ \A fd \in 1..MaxConn : f[<<"conn", fd>>] = c[fd].out
           /\ \A id \in Node \cup {Self} : f[<<"slave", id>>] = Contents(s[id].queue)
           /\ \A n \in Name : f[<<"name", n>>] = Contents(ns[n].queue)
           /\ f[<<"local", 0>>] = l
<1>1. \A fd \in 1..MaxConn : f[<<"conn", fd>>] = c[fd].out BY PlacesOf DEF Where
<1>2. \A id \in Node \cup {Self} : f[<<"slave", id>>] = Contents(s[id].queue) BY PlacesOf DEF Where
<1>3. \A n \in Name : f[<<"name", n>>] = Contents(ns[n].queue) BY PlacesOf DEF Where
<1>4. f[<<"local", 0>>] = l BY PlacesOf DEF Where
<1>5. ASSUME NEW fd \in 1..MaxConn PROVE f[<<"conn", fd>>] \in Seq(Nat)
  <2>1. c[fd].out \in Seq(Nat) BY DEF Typed, Conn
  <2> QED BY <1>1, <2>1
<1>6. ASSUME NEW id \in Node \cup {Self} PROVE f[<<"slave", id>>] \in Seq(Nat)
  <2>1. s[id].queue \in Rings \cup {NULL} BY DEF Typed, Slave
  <2> QED BY <1>2, <2>1, ContentsType
<1>7. ASSUME NEW n \in Name PROVE f[<<"name", n>>] \in Seq(Nat)
  <2>1. ns[n].queue \in Rings \cup {NULL} BY DEF Typed, Named
  <2> QED BY <1>3, <2>1, ContentsType
<1>8. ASSUME NEW p \in Places PROVE f[p] \in Seq(Nat)
  <2>1. CASE p \in {<<"conn", fd>> : fd \in 1..MaxConn} BY <1>5, <2>1
  <2>2. CASE p \in {<<"slave", id>> : id \in Node \cup {Self}} BY <1>6, <2>2
  <2>3. CASE p \in {<<"name", n>> : n \in Name} BY <1>7, <2>3
  <2>4. CASE p = <<"local", 0>> BY <1>4, <2>4 DEF Typed
  <2> QED BY <2>1, <2>2, <2>3, <2>4 DEF Places
<1>9. f \in [Places -> Seq(Nat)] BY <1>8 DEF Where
<1> QED BY <1>1, <1>2, <1>3, <1>4, <1>9

\* What is the same elsewhere.
LEMMA Elsewhere ==
    ASSUME NEW c, NEW s, NEW ns, NEW l, Typed(c, s, ns, l), NEW f, f = Where(c, s, ns, l),
           NEW c2, NEW s2, NEW ns2, NEW l2, Typed(c2, s2, ns2, l2), NEW g, g = Where(c2, s2, ns2, l2),
           NEW X,
           \A fd \in 1..MaxConn : <<"conn", fd>> \notin X => c2[fd].out = c[fd].out,
           \A id \in Node \cup {Self} : <<"slave", id>> \notin X => s2[id].queue = s[id].queue,
           \A n \in Name : <<"name", n>> \notin X => ns2[n].queue = ns[n].queue,
           <<"local", 0>> \notin X => l2 = l
    PROVE  \A p \in Places \ X : g[p] = f[p]
<1>1. /\ \A fd \in 1..MaxConn : f[<<"conn", fd>>] = c[fd].out
      /\ \A id \in Node \cup {Self} : f[<<"slave", id>>] = Contents(s[id].queue)
      /\ \A n \in Name : f[<<"name", n>>] = Contents(ns[n].queue)
      /\ f[<<"local", 0>>] = l
  BY WhereForm
<1>2. /\ \A fd \in 1..MaxConn : g[<<"conn", fd>>] = c2[fd].out
      /\ \A id \in Node \cup {Self} : g[<<"slave", id>>] = Contents(s2[id].queue)
      /\ \A n \in Name : g[<<"name", n>>] = Contents(ns2[n].queue)
      /\ g[<<"local", 0>>] = l2
  BY WhereForm
<1> SUFFICES ASSUME NEW p \in Places, p \notin X PROVE g[p] = f[p] OBVIOUS
<1>3. CASE p \in {<<"conn", fd>> : fd \in 1..MaxConn} BY <1>1, <1>2, <1>3
<1>4. CASE p \in {<<"slave", id>> : id \in Node \cup {Self}} BY <1>1, <1>2, <1>4
<1>5. CASE p \in {<<"name", n>> : n \in Name} BY <1>1, <1>2, <1>5
<1>6. CASE p = <<"local", 0>> BY <1>1, <1>2, <1>6
<1> QED BY <1>3, <1>4, <1>5, <1>6 DEF Places

-----------------------------------------------------------------------------
(* The messages to the harbor.                                             *)

Items(ds, x) == [i \in DOMAIN x |-> [m |-> Len(ds) + i, dest |-> x[i]]]

Grew(ib, ds, ib2, ds2) ==
    /\ ib2 \in Seq(Item) /\ ds2 \in Seq(Dest) /\ InboxFits(ib2, ds2)
    /\ TakenOf(ib2, ds2) = TakenOf(ib, ds)
    /\ \A m \in 1..TakenOf(ib, ds) : ds2[m] = ds[m]

LEMMA InboxGrows ==
    ASSUME NEW ib \in Seq(Item), NEW ds \in Seq(Dest), InboxFits(ib, ds), NEW x \in Seq(Dest),
           NEW ib2, ib2 = ib \o Items(ds, x),
           NEW ds2, ds2 = ds \o x
    PROVE  Grew(ib, ds, ib2, ds2)
<1>1. PICK y : y = Items(ds, x) OBVIOUS
<1>2. Len(x) \in Nat /\ DOMAIN x = 1..Len(x) /\ Len(ds) \in Nat /\ Len(ib) \in Nat OBVIOUS
<1>3. y \in Seq(Item) /\ Len(y) = Len(x) /\ \A i \in 1..Len(x) : y[i].m = Len(ds) + i /\ y[i].dest = x[i]
  <2>1. \A i \in 1..Len(x) : [m |-> Len(ds) + i, dest |-> x[i]] \in Item BY <1>2 DEF Item
  <2> QED BY <1>1, <1>2, <2>1 DEF Items
<1>4. Catted(ib2, ib, y) /\ ib2 \in Seq(Item) /\ Len(ib2) = Len(ib) + Len(x)
  <2>1. ib2 = ib \o y BY <1>1
  <2>2. ib2 \in Seq(Item) /\ Catted(ib2, ib, y) BY <1>3, <2>1, CatParts
  <2>3. Len(ib \o y) = Len(ib) + Len(y) BY <1>3, ConcatProperties
  <2> QED BY <1>3, <2>1, <2>2, <2>3
<1>5. Catted(ds2, ds, x) /\ ds2 \in Seq(Dest) /\ Len(ds2) = Len(ds) + Len(x)
  <2>2. ds2 \in Seq(Dest) /\ Catted(ds2, ds, x) BY CatParts
  <2>3. Len(ds \o x) = Len(ds) + Len(x) BY ConcatProperties
  <2> QED BY <2>2, <2>3
<1>6. PICK h \in Nat : h = TakenOf(ib, ds) BY DEF InboxFits
<1>7. h = Len(ds) - Len(ib) /\ TakenOf(ib2, ds2) = h BY <1>2, <1>4, <1>5, <1>6 DEF TakenOf
<1>8. \A i \in 1..Len(ds) : ds2[i] = ds[i] BY <1>2, <1>5 DEF Catted
<1>9. ASSUME NEW i \in DOMAIN ib2 PROVE ib2[i].m = h + i /\ ib2[i].dest = ds2[h + i]
  <2>1. CASE i \in DOMAIN ib
    <3>1. ib2[i] = ib[i] /\ i \in 1..Len(ib) BY <1>4, <2>1 DEF Catted
    <3>2. ib[i].m = h + i /\ ib[i].dest = ds[h + i] BY <1>6, <2>1 DEF InboxFits
    <3>3. h + i \in 1..Len(ds) BY <1>2, <1>7, <3>1
    <3> QED BY <1>8, <3>1, <3>2, <3>3
  <2>2. CASE \E j \in DOMAIN y : i = Len(ib) + j
    <3>1. PICK j \in DOMAIN y : i = Len(ib) + j BY <2>2
    <3>5. ib2[i] = y[j] BY <1>4, <3>1 DEF Catted
    <3>6. DOMAIN y = 1..Len(x) BY <1>3
    <3>2. ib2[i] = y[j] /\ j \in 1..Len(x) BY <3>1, <3>5, <3>6
    <3>3. ds2[Len(ds) + j] = x[j] BY <1>2, <1>5, <3>2 DEF Catted
    <3>4. h + i = Len(ds) + j BY SMTT(60), <1>2, <1>7, <3>1, <3>2
    <3> QED BY <1>3, <3>2, <3>3, <3>4
  <2> QED BY <1>4, <2>1, <2>2 DEF Catted
<1>10. \A m \in 1..h : ds2[m] = ds[m]
  <2>1. \A m \in 1..h : m \in 1..Len(ds) BY <1>2, <1>7
  <2> QED BY <1>8, <2>1
<1>11. InboxFits(ib2, ds2) BY <1>6, <1>7, <1>9 DEF InboxFits
<1> QED BY <1>4, <1>5, <1>6, <1>7, <1>10, <1>11 DEF Grew

Took(ib, ds, ib2, h) ==
    /\ ib2 \in Seq(Item) /\ InboxFits(ib2, ds) /\ TakenOf(ib2, ds) = h + 1
    /\ Head(ib).m = h + 1 /\ h + 1 \in Nat /\ Head(ib).dest = ds[h + 1] /\ Head(ib).dest \in Dest

LEMMA InboxTakes ==
    ASSUME NEW ib \in Seq(Item), NEW ds \in Seq(Dest), InboxFits(ib, ds), ib # << >>,
           NEW ib2, ib2 = Tail(ib), NEW h, h = TakenOf(ib, ds)
    PROVE  Took(ib, ds, ib2, h)
<1>1. /\ Len(ib) \in Nat \ {0} /\ Len(ds) \in Nat /\ DOMAIN ib = 1..Len(ib) /\ Head(ib) = ib[1]
      /\ ib2 \in Seq(Item) /\ Len(ib2) = Len(ib) - 1 /\ DOMAIN ib2 = 1..(Len(ib) - 1)
  OBVIOUS
<1>2. \A i \in 1..(Len(ib) - 1) : ib2[i] = ib[i + 1] BY <1>1
<1>3. h \in Nat /\ h = Len(ds) - Len(ib) /\ TakenOf(ib2, ds) = h + 1 BY <1>1 DEF InboxFits, TakenOf
<1>4. \A i \in 1..Len(ib) : ib[i].m = h + i /\ ib[i].dest = ds[h + i] BY <1>1 DEF InboxFits
<1>5. Head(ib).m = h + 1 /\ Head(ib).dest = ds[h + 1] BY <1>1, <1>4
<1>6. ASSUME NEW i \in 1..(Len(ib) - 1) PROVE ib2[i].m = (h + 1) + i /\ ib2[i].dest = ds[(h + 1) + i]
  <2>1. i + 1 \in 1..Len(ib) /\ h + (i + 1) = (h + 1) + i BY <1>1, <1>3
  <2>2. ib2[i] = ib[i + 1] BY <1>2
  <2> QED BY <1>4, <2>1, <2>2
<1>7. Head(ib) \in Item BY <1>1
<1> QED BY <1>1, <1>3, <1>5, <1>6, <1>7 DEF InboxFits, Item, Took

-----------------------------------------------------------------------------
(* The slaves.                                                             *)

LEMMA SlaveKept ==
    ASSUME NEW s \in Slave, NEW id, NEW nc \in Nat, NEW c, NEW ds, SlaveFits(s, id, nc, c, ds), NEW nc2 \in Nat, nc <= nc2,
           NEW c2, s.fd > 0 => c2[s.fd].out = c[s.fd].out /\ c2[s.fd].node = c[s.fd].node
    PROVE  SlaveFits(s, id, nc2, c2, ds)
<1>1. s.fd \in Int BY DEF Slave
<1> QED BY <1>1 DEF SlaveFits

\* Nothing is in the queue of the slave: nothing can be out of order.
LEMMA EmptyPrecedes == ASSUME NEW s, NEW t, NEW ds, s = << >> \/ t = << >> PROVE Precedes(s, t, ds)
  BY DEF Precedes

LEMMA SlaveLater ==
    ASSUME NEW s, NEW id, NEW nc, NEW c, NEW ds, SlaveFits(s, id, nc, c, ds), NEW h, NEW ds2,
           s.fd > 0 => Below(c[s.fd].out, h), Below(Contents(s.queue), h), \A m \in 1..h : ds2[m] = ds[m]
    PROVE  SlaveFits(s, id, nc, c, ds2)
<1>1. s.fd > 0 => Precedes(c[s.fd].out, Contents(s.queue), ds2) BY LaterPrecedes DEF SlaveFits
<1> QED BY <1>1 DEF SlaveFits

-----------------------------------------------------------------------------
(* The parts of the invariant.                                             *)

LEMMA Known ==
    ASSUME MessagesInv
    PROVE  /\ Typed(conn, slave, names, local) /\ inbox \in Seq(Item) /\ dests \in Seq(Dest)
           /\ Len(dests) <= MaxMsg /\ nconn \in 0..MaxConn /\ nconn \in Nat /\ crashed \in 0..MaxConn
           /\ MaxConn \in Nat /\ InboxFits(inbox, dests) /\ Taken \in Nat
           /\ Good(Now, Taken, dests) /\ NamesFit(Now, dests, Vals)
  BY HarborAssumption DEF MessagesInv, HarborShape, InboxOK, InboxFits, Taken

LEMMA SlaveKnown ==
    ASSUME MessagesInv, NEW id \in Node
    PROVE  /\ slave[id] \in Slave /\ SlaveFits(slave[id], id, nconn, conn, dests)
           /\ slave[id].fd \in -1..MaxConn /\ slave[id].queue \in Rings \cup {NULL}
           /\ slave[id].fd > 0 => slave[id].fd \in 1..MaxConn
           /\ id # Self
<1>1. slave[id] \in Slave BY DEF MessagesInv, HarborShape, Typed
<1>2. SlaveFits(slave[id], id, nconn, conn, dests) BY DEF MessagesInv, SlavesOK
<1>3. slave[id].fd \in -1..MaxConn /\ slave[id].queue \in Rings \cup {NULL} BY <1>1 DEF Slave
<1>4. slave[id].fd > 0 => slave[id].fd \in 1..MaxConn BY <1>3, HarborAssumption
<1> QED BY <1>1, <1>2, <1>3, <1>4, HarborAssumption

LEMMA NowForm ==
    ASSUME MessagesInv
    PROVE  /\ Now \in [Places -> Seq(Nat)]
           /\ \A fd \in 1..MaxConn : Now[<<"conn", fd>>] = conn[fd].out
           /\ \A id \in Node \cup {Self} : Now[<<"slave", id>>] = Contents(slave[id].queue)
           /\ \A n \in Name : Now[<<"name", n>>] = Contents(names[n].queue)
           /\ Now[<<"local", 0>>] = local
<1>1. PICK c, s, ns, l, f : /\ c = conn /\ s = slave /\ ns = names /\ l = local
                            /\ f = Now
  OBVIOUS
<1>2. Typed(c, s, ns, l) /\ f = Where(c, s, ns, l) BY <1>1, Known DEF Now
<1>3. /\ f \in [Places -> Seq(Nat)]
      /\ \A fd \in 1..MaxConn : f[<<"conn", fd>>] = c[fd].out
      /\ \A id \in Node \cup {Self} : f[<<"slave", id>>] = Contents(s[id].queue)
      /\ \A n \in Name : f[<<"name", n>>] = Contents(ns[n].queue)
      /\ f[<<"local", 0>>] = l
  BY <1>2, WhereForm
<1> QED BY <1>1, <1>3

LEMMA NextForm ==
    ASSUME Typed(conn', slave', names', local')
    PROVE  /\ Now' \in [Places -> Seq(Nat)]
           /\ \A fd \in 1..MaxConn : Now'[<<"conn", fd>>] = conn'[fd].out
           /\ \A id \in Node \cup {Self} : Now'[<<"slave", id>>] = Contents(slave'[id].queue)
           /\ \A n \in Name : Now'[<<"name", n>>] = Contents(names'[n].queue)
           /\ Now'[<<"local", 0>>] = local'
<1>1. PICK c, s, ns, l, f : /\ c = conn' /\ s = slave' /\ ns = names' /\ l = local'
                            /\ f = Now'
  OBVIOUS
<1>2. Typed(c, s, ns, l) /\ f = Where(c, s, ns, l) BY <1>1 DEF Now
<1>3. /\ f \in [Places -> Seq(Nat)]
      /\ \A fd \in 1..MaxConn : f[<<"conn", fd>>] = c[fd].out
      /\ \A id \in Node \cup {Self} : f[<<"slave", id>>] = Contents(s[id].queue)
      /\ \A n \in Name : f[<<"name", n>>] = Contents(ns[n].queue)
      /\ f[<<"local", 0>>] = l
  BY <1>2, WhereForm
<1> QED BY <1>1, <1>3

LEMMA NowElsewhere ==
    ASSUME MessagesInv, Typed(conn', slave', names', local'), NEW X,
           \A fd \in 1..MaxConn : <<"conn", fd>> \notin X => conn'[fd].out = conn[fd].out,
           \A id \in Node \cup {Self} : <<"slave", id>> \notin X => slave'[id].queue = slave[id].queue,
           \A n \in Name : <<"name", n>> \notin X => names'[n].queue = names[n].queue,
           <<"local", 0>> \notin X => local' = local
    PROVE  \A p \in Places \ X : Now'[p] = Now[p]
<1>1. PICK c, s, ns, l, f : /\ c = conn /\ s = slave /\ ns = names /\ l = local
                            /\ f = Now
  OBVIOUS
<1>2. PICK c2, s2, ns2, l2, g : /\ c2 = conn' /\ s2 = slave' /\ ns2 = names' /\ l2 = local'
                                /\ g = Now'
  OBVIOUS
<1>3. Typed(c, s, ns, l) /\ f = Where(c, s, ns, l) BY <1>1, Known DEF Now
<1>4. Typed(c2, s2, ns2, l2) /\ g = Where(c2, s2, ns2, l2) BY <1>2 DEF Now
<1>5. /\ \A fd \in 1..MaxConn : <<"conn", fd>> \notin X => c2[fd].out = c[fd].out
      /\ \A id \in Node \cup {Self} : <<"slave", id>> \notin X => s2[id].queue = s[id].queue
      /\ \A n \in Name : <<"name", n>> \notin X => ns2[n].queue = ns[n].queue
      /\ <<"local", 0>> \notin X => l2 = l
  BY <1>1, <1>2
<1>6. \A p \in Places \ X : g[p] = f[p] BY <1>3, <1>4, <1>5, Elsewhere
<1> QED BY <1>1, <1>2, <1>6

\* What is at a place was taken.
LEMMA BelowTaken ==
    ASSUME MessagesInv
    PROVE  /\ \A fd \in 1..MaxConn : Below(conn[fd].out, Taken)
           /\ \A id \in Node \cup {Self} : Below(Contents(slave[id].queue), Taken)
<1>1. \A p \in Places : Below(Now[p], Taken) BY Known DEF Good
<1> QED BY <1>1, NowForm, PlacesOf

-----------------------------------------------------------------------------
(* The steps, but for the data of connections.                             *)

\* Messages are sent to the harbor.
LEMMA MoreSent ==
    ASSUME MessagesInv, NEW x \in Seq(Dest), ToHarbor(x)
    PROVE  /\ inbox' \in Seq(Item) /\ dests' \in Seq(Dest) /\ Len(dests') <= MaxMsg
           /\ InboxOK' /\ Taken' = Taken
           /\ Good(Now, Taken, dests') /\ NamesFit(Now, dests', Vals)
           /\ \A id \in Node : SlaveFits(slave[id], id, nconn, conn, dests')
<1>1. PICK ib, ds, ib2, ds2 : ib = inbox /\ ds = dests /\ ib2 = inbox' /\ ds2 = dests' OBVIOUS
<1>2. /\ Len(ds) + Len(x) <= MaxMsg /\ ds2 = ds \o x
      /\ ib2 = ib \o Items(ds, x)
  BY <1>1 DEF ToHarbor, Items
<1>3. ib \in Seq(Item) /\ ds \in Seq(Dest) /\ InboxFits(ib, ds) BY <1>1, Known
<1>4. PICK h \in Nat : h = Taken BY Known
<1>5. /\ ib2 \in Seq(Item) /\ ds2 \in Seq(Dest) /\ InboxFits(ib2, ds2)
      /\ TakenOf(ib2, ds2) = TakenOf(ib, ds)
      /\ \A m \in 1..TakenOf(ib, ds) : ds2[m] = ds[m]
  <2>1. Grew(ib, ds, ib2, ds2) BY <1>2, <1>3, InboxGrows
  <2> QED BY <2>1 DEF Grew
<1>6. h = TakenOf(ib, ds) /\ Taken' = h /\ InboxOK' BY <1>1, <1>4, <1>5 DEF Taken, InboxOK
<1>7. \A m \in 1..h : ds2[m] = ds[m] BY <1>5, <1>6
<1>8. PICK f, v : f = Now /\ v = Vals OBVIOUS
<1>9. Good(f, h, ds) /\ NamesFit(f, ds, v) BY <1>1, <1>4, <1>8, Known
<1>10. Good(f, h, ds2)
  <2>1. h <= h OBVIOUS
  <2> QED BY <1>7, <1>9, <2>1, LaterGood
<1>11. NamesFit(f, ds2, v) BY <1>7, <1>9, LaterFits
<1>12. ASSUME NEW id \in Node PROVE SlaveFits(slave[id], id, nconn, conn, dests')
  <2>1. PICK s, c, nc : s = slave[id] /\ c = conn /\ nc = nconn OBVIOUS
  <2>2. SlaveFits(s, id, nc, c, ds) /\ (s.fd > 0 => s.fd \in 1..MaxConn) BY <1>1, <2>1, SlaveKnown
  <2>3. s.fd > 0 => Below(c[s.fd].out, h) BY <1>4, <2>1, <2>2, BelowTaken
  <2>4. Below(Contents(s.queue), h) BY <1>4, <2>1, BelowTaken
  <2>5. SlaveFits(s, id, nc, c, ds2) BY <1>7, <2>2, <2>3, <2>4, SlaveLater
  <2> QED BY <1>1, <2>1, <2>5
<1>13. Len(ds2) <= MaxMsg
  <2>1. Len(ds \o x) = Len(ds) + Len(x) BY <1>3, ConcatProperties
  <2> QED BY <1>2, <2>1
<1> QED BY <1>1, <1>4, <1>5, <1>6, <1>8, <1>10, <1>11, <1>12, <1>13

LEMMA LocalSendInv == ASSUME MessagesInv, NEW dest \in Dest, LocalSend(dest) PROVE MessagesInv'
<1>1. PICK x : x = <<dest>> OBVIOUS
<1>2. x \in Seq(Dest) /\ ToHarbor(x) BY <1>1 DEF LocalSend
<1>3. slave' = slave /\ names' = names /\ conn' = conn /\ nconn' = nconn /\ local' = local /\ crashed' = crashed
  BY DEF LocalSend
<1>4. /\ inbox' \in Seq(Item) /\ dests' \in Seq(Dest) /\ Len(dests') <= MaxMsg
      /\ InboxOK' /\ Taken' = Taken
      /\ Good(Now, Taken, dests') /\ NamesFit(Now, dests', Vals)
      /\ \A id \in Node : SlaveFits(slave[id], id, nconn, conn, dests')
  BY <1>2, MoreSent
<1>5. Now' = Now /\ Vals' = Vals BY <1>3 DEF Now, Vals
<1>6. HarborShape' BY <1>3, <1>4, Known DEF HarborShape
<1>7. SlavesOK' BY <1>3, <1>4 DEF SlavesOK, MessagesInv
<1>8. ConnsOK' BY <1>3 DEF ConnsOK, MessagesInv
<1> QED BY <1>4, <1>5, <1>6, <1>7, <1>8 DEF MessagesInv

\* The harbor takes the next message.
LEMMA TakeStep ==
    ASSUME MessagesInv, inbox # << >>, inbox' = Tail(inbox), dests' = dests
    PROVE  /\ inbox' \in Seq(Item) /\ InboxOK' /\ Taken' = Taken + 1 /\ Taken \in Nat
           /\ Head(inbox).m = Taken + 1 /\ Head(inbox).dest = dests[Taken + 1] /\ Head(inbox).dest \in Dest
<1>1. PICK ib, ds, ib2, h : ib = inbox /\ ds = dests /\ ib2 = inbox' /\ h = Taken OBVIOUS
<1>2. ib \in Seq(Item) /\ ds \in Seq(Dest) /\ InboxFits(ib, ds) /\ ib # << >> /\ ib2 = Tail(ib) BY <1>1, Known
<1>3. h = TakenOf(ib, ds) /\ h \in Nat BY <1>1, Known DEF Taken
<1>4. /\ ib2 \in Seq(Item) /\ InboxFits(ib2, ds) /\ TakenOf(ib2, ds) = h + 1
      /\ Head(ib).m = h + 1 /\ h + 1 \in Nat /\ Head(ib).dest = ds[h + 1] /\ Head(ib).dest \in Dest
  <2>1. Took(ib, ds, ib2, h) BY <1>2, <1>3, InboxTakes
  <2> QED BY <2>1 DEF Took
<1>5. Taken' = h + 1 /\ InboxOK' BY <1>1, <1>4 DEF Taken, InboxOK
<1> QED BY <1>1, <1>3, <1>4, <1>5

\* The message comes to place p.
LEMMA PutStep ==
    ASSUME MessagesInv, Typed(conn', slave', names', local'), Vals' = Vals, dests' = dests,
           NEW m, m = Taken + 1, Taken' = m, NEW p \in Places, Now'[p] = Append(Now[p], m),
           \A q \in Places \ {p} : Now'[q] = Now[q],
           \/ dests[m] \in Name /\ p = <<"name", dests[m]>> /\ Vals[dests[m]] = 0
           \/ ~NamePlace(p) /\ (dests[m] \in Name => Vals[dests[m]] # 0)
    PROVE  Good(Now, Taken, dests)' /\ NamesFit(Now, dests, Vals)'
<1>1. PICK f, g, ds, v, h : f = Now /\ g = Now' /\ ds = dests /\ v = Vals /\ h = Taken OBVIOUS
<1>2. /\ f \in [Places -> Seq(Nat)] /\ g \in [Places -> Seq(Nat)] /\ h \in Nat /\ m = h + 1 /\ m \in Nat
      /\ Good(f, h, ds) /\ NamesFit(f, ds, v)
  BY SMTT(60), <1>1, Known, NowForm, NextForm
<1>3. Puts(f, g, p, m) BY <1>1 DEF Puts
<1>4. Good(g, m, ds) BY <1>2, <1>3, PutGood
<1>5. \/ ds[m] \in Name /\ p = <<"name", ds[m]>> /\ v[ds[m]] = 0
      \/ ~NamePlace(p) /\ (ds[m] \in Name => v[ds[m]] # 0)
  BY <1>1
<1>6. NamesFit(g, ds, v) BY <1>2, <1>3, <1>5, PutFits
<1> QED BY <1>1, <1>4, <1>6

LEMMA QueryNameInv == ASSUME MessagesInv, QueryName PROVE MessagesInv'
<1>1. PICK m, n : m = Head(inbox).m /\ n = Head(inbox).dest OBVIOUS
<1>2. /\ inbox # << >> /\ n \in Name /\ names[n].value = 0 /\ inbox' = Tail(inbox)
      /\ names' = [names EXCEPT ![n].queue = PushQueue(@, m)]
      /\ slave' = slave /\ dests' = dests /\ conn' = conn /\ nconn' = nconn /\ local' = local /\ crashed' = crashed
  BY <1>1 DEF QueryName, Entry
<1>3. /\ inbox' \in Seq(Item) /\ InboxOK' /\ Taken' = Taken + 1 /\ Taken \in Nat
      /\ m = Taken + 1 /\ n = dests[Taken + 1]
  BY <1>1, <1>2, TakeStep
<1>4. PICK q : q = names[n].queue OBVIOUS
<1>5. q \in Rings \cup {NULL} /\ names \in [Name -> Named] BY <1>2, <1>4, Known DEF Typed, Named
<1>6. PICK w : w = PushQueue(q, m) OBVIOUS
<1>7. Pushed(w, q, m) BY <1>3, <1>5, <1>6, PushAny
<1>8. /\ names'[n].queue = w /\ names'[n].value = names[n].value /\ names' \in [Name -> Named]
      /\ \A k \in Name : k # n => names'[k] = names[k]
  <2>1. w \in Rings \cup {NULL} BY <1>7 DEF Pushed
  <2>2. names' = [names EXCEPT ![n].queue = w] BY <1>2, <1>4, <1>6
  <2> QED BY <1>2, <1>5, <2>1, <2>2 DEF Named
<1>9. Typed(conn', slave', names', local') BY <1>2, <1>8, Known DEF Typed
<1>10. Vals' = Vals BY <1>2, <1>8 DEF Vals
<1>11. PICK p \in Places : p = <<"name", n>> BY <1>2, PlacesOf
<1>12. \A a \in Places \ {p} : Now'[a] = Now[a]
  <2>1. \A k \in Name : <<"name", k>> \notin {p} => names'[k].queue = names[k].queue BY <1>8, <1>11
  <2>2. PICK X : X = {p} OBVIOUS
  <2> QED BY <1>2, <1>9, <2>1, <2>2, NowElsewhere
<1>13. Now'[p] = Append(Now[p], m)
  <2>1. Now'[p] = Contents(w) BY <1>2, <1>8, <1>9, <1>11, NextForm
  <2>2. Now[p] = Contents(q) BY <1>2, <1>4, <1>11, NowForm
  <2> QED BY <1>7, <2>1, <2>2 DEF Pushed
<1>14. Good(Now, Taken, dests)' /\ NamesFit(Now, dests, Vals)'
  <2>1. Vals[n] = 0 BY <1>2 DEF Vals
  <2>2. dests[m] \in Name /\ p = <<"name", dests[m]>> /\ Vals[dests[m]] = 0 BY <1>2, <1>3, <1>11, <2>1
  <2> QED BY <1>2, <1>3, <1>9, <1>10, <1>12, <1>13, <2>2, PutStep
<1>15. HarborShape' BY <1>2, <1>3, <1>9, Known DEF HarborShape
<1>16. SlavesOK' BY <1>2 DEF SlavesOK, MessagesInv
<1>17. ConnsOK' BY <1>2 DEF ConnsOK, MessagesInv
<1> QED BY <1>3, <1>14, <1>15, <1>16, <1>17 DEF MessagesInv

\* The harbor takes message m, for node id.
Takes(m, id) ==
    /\ inbox # << >> /\ inbox' = Tail(inbox) /\ m = Head(inbox).m /\ id \in Node \cup {Self}
    /\ Head(inbox).dest \in Name => Vals[Head(inbox).dest] # 0
    /\ names' = names /\ dests' = dests /\ nconn' = nconn /\ crashed' = crashed

LEMMA TakesParts ==
    ASSUME MessagesInv, NEW m, NEW id, Takes(m, id)
    PROVE  /\ inbox' \in Seq(Item) /\ InboxOK' /\ Taken' = Taken + 1 /\ Taken \in Nat /\ m = Taken + 1 /\ m \in Nat
           /\ Vals' = Vals /\ dests' = dests /\ nconn' = nconn /\ crashed' = crashed /\ names' = names
           /\ (dests[m] \in Name => Vals[dests[m]] # 0) /\ id \in Node \cup {Self}
<1>1. inbox # << >> /\ inbox' = Tail(inbox) /\ dests' = dests BY DEF Takes
<1>2. /\ inbox' \in Seq(Item) /\ InboxOK' /\ Taken' = Taken + 1 /\ Taken \in Nat
      /\ Head(inbox).m = Taken + 1 /\ Head(inbox).dest = dests[Taken + 1]
  BY <1>1, TakeStep
<1>3. m = Taken + 1 /\ m \in Nat BY <1>2 DEF Takes
<1>4. Vals' = Vals BY DEF Takes, Vals
<1> QED BY <1>2, <1>3, <1>4 DEF Takes

\* It is for a service of this node.
LEMMA TakesLocal ==
    ASSUME MessagesInv, NEW m, NEW id, Takes(m, id),
           local' = Append(local, m), slave' = slave, conn' = conn
    PROVE  MessagesInv'
<1>1. /\ inbox' \in Seq(Item) /\ InboxOK' /\ Taken' = Taken + 1 /\ Taken \in Nat /\ m = Taken + 1 /\ m \in Nat
      /\ Vals' = Vals /\ dests' = dests /\ nconn' = nconn /\ crashed' = crashed /\ names' = names
      /\ (dests[m] \in Name => Vals[dests[m]] # 0)
  BY TakesParts
<1>2. Typed(conn', slave', names', local')
  <2>1. local' \in Seq(Nat) BY <1>1, Known DEF Typed
  <2> QED BY <1>1, <2>1, Known DEF Typed
<1>3. PICK p \in Places : p = <<"local", 0>> BY PlacesOf
<1>4. \A q \in Places \ {p} : Now'[q] = Now[q]
  <2>1. PICK X : X = {p} OBVIOUS
  <2>2. /\ \A fd \in 1..MaxConn : <<"conn", fd>> \notin X => conn'[fd].out = conn[fd].out
        /\ \A i \in Node \cup {Self} : <<"slave", i>> \notin X => slave'[i].queue = slave[i].queue
        /\ \A n \in Name : <<"name", n>> \notin X => names'[n].queue = names[n].queue
        /\ <<"local", 0>> \notin X => local' = local
    BY <1>1, <1>3, <2>1
  <2>3. \A q \in Places \ X : Now'[q] = Now[q] BY <1>2, <2>2, NowElsewhere
  <2> QED BY <2>1, <2>3
<1>5. Now'[p] = Append(Now[p], m) BY <1>2, <1>3, NowForm, NextForm
<1>6. ~NamePlace(p) BY <1>3, PlacesOf
<1>7. Good(Now, Taken, dests)' /\ NamesFit(Now, dests, Vals)'
  BY <1>1, <1>2, <1>4, <1>5, <1>6, PutStep
<1>8. HarborShape' BY <1>1, <1>2, Known DEF HarborShape
<1>9. SlavesOK' BY <1>1 DEF SlavesOK, MessagesInv
<1>10. ConnsOK' BY <1>1 DEF ConnsOK, MessagesInv
<1> QED BY <1>1, <1>7, <1>8, <1>9, <1>10 DEF MessagesInv

\* The connection of the node has broken.
LEMMA TakesLost ==
    ASSUME MessagesInv, NEW m, NEW id, Takes(m, id), local' = local, slave' = slave, conn' = conn
    PROVE  MessagesInv'
<1>1. /\ inbox' \in Seq(Item) /\ InboxOK' /\ Taken' = Taken + 1 /\ Taken \in Nat
      /\ Vals' = Vals /\ dests' = dests /\ nconn' = nconn /\ crashed' = crashed /\ names' = names
  BY TakesParts
<1>2. Now' = Now BY <1>1 DEF Now
<1>3. PICK f, ds, h, h2 : f = Now /\ ds = dests /\ h = Taken /\ h2 = Taken + 1 OBVIOUS
<1>4. Good(f, h, ds) /\ h \in Nat /\ h2 \in Nat /\ h <= h2 BY <1>1, <1>3, Known
<1>5. Good(f, h2, ds)
  <2>1. \A k \in 1..h : ds[k] = ds[k] OBVIOUS
  <2> QED BY <1>4, <2>1, LaterGood
<1>6. Good(Now, Taken, dests)' BY <1>1, <1>2, <1>3, <1>5
<1>7. NamesFit(Now, dests, Vals)' BY <1>1, <1>2, Known
<1>8. HarborShape' BY <1>1, Known DEF HarborShape
<1>9. SlavesOK' BY <1>1 DEF SlavesOK, MessagesInv
<1>10. ConnsOK' BY <1>1 DEF ConnsOK, MessagesInv
<1> QED BY <1>1, <1>6, <1>7, <1>8, <1>9, <1>10 DEF MessagesInv

\* It waits in the queue of the node.
LEMMA TakesWaits ==
    ASSUME MessagesInv, NEW m, NEW id \in Node, Takes(m, id), MustWait(slave[id]),
           slave' = [slave EXCEPT ![id].queue = PushQueue(@, m)], local' = local, conn' = conn
    PROVE  MessagesInv'
<1>1. /\ inbox' \in Seq(Item) /\ InboxOK' /\ Taken' = Taken + 1 /\ Taken \in Nat /\ m = Taken + 1 /\ m \in Nat
      /\ Vals' = Vals /\ dests' = dests /\ nconn' = nconn /\ crashed' = crashed /\ names' = names
      /\ (dests[m] \in Name => Vals[dests[m]] # 0)
  BY TakesParts
<1>2. PICK s \in Slave : s = slave[id] BY SlaveKnown
<1>3. s.queue \in Rings \cup {NULL} /\ SlaveFits(s, id, nconn, conn, dests) /\ id # Self BY <1>2, SlaveKnown
<1>4. PICK w : w = PushQueue(s.queue, m) OBVIOUS
<1>5. Pushed(w, s.queue, m) BY <1>1, <1>3, <1>4, PushAny
<1>6. PICK s2 : s2 = [s EXCEPT !.queue = w] OBVIOUS
<1>7. s2 \in Slave /\ s2.fd = s.fd /\ s2.status = s.status /\ s2.queue = w
  BY <1>2, <1>5, <1>6 DEF Slave, Pushed
<1>8. slave' = [slave EXCEPT ![id] = s2] BY <1>2, <1>4, <1>6
<1>9. slave \in [Node \cup {Self} -> Slave] BY Known DEF Typed
<1>10. slave'[id] = s2 /\ slave' \in [Node \cup {Self} -> Slave] /\ \A i \in Node \cup {Self} : i # id => slave'[i] = slave[i]
  BY <1>7, <1>8, <1>9
<1>11. Typed(conn', slave', names', local') BY <1>1, <1>10, Known DEF Typed
<1>12. PICK p \in Places : p = <<"slave", id>> /\ ~NamePlace(p) BY PlacesOf
<1>13. \A q \in Places \ {p} : Now'[q] = Now[q]
  <2>1. PICK X : X = {p} OBVIOUS
  <2>2. /\ \A fd \in 1..MaxConn : <<"conn", fd>> \notin X => conn'[fd].out = conn[fd].out
        /\ \A i \in Node \cup {Self} : <<"slave", i>> \notin X => slave'[i].queue = slave[i].queue
        /\ \A n \in Name : <<"name", n>> \notin X => names'[n].queue = names[n].queue
        /\ <<"local", 0>> \notin X => local' = local
    BY <1>1, <1>10, <1>12, <2>1
  <2>3. \A q \in Places \ X : Now'[q] = Now[q] BY <1>11, <2>2, NowElsewhere
  <2> QED BY <2>1, <2>3
<1>14. Now'[p] = Append(Now[p], m)
  <2>1. Now'[p] = Contents(w) BY <1>7, <1>10, <1>11, <1>12, NextForm
  <2>2. Now[p] = Contents(s.queue) BY <1>2, <1>12, NowForm
  <2> QED BY <1>5, <2>1, <2>2 DEF Pushed
<1>15. Good(Now, Taken, dests)' /\ NamesFit(Now, dests, Vals)'
  BY <1>1, <1>11, <1>12, <1>13, <1>14, PutStep
<1>16. SlaveFits(s2, id, nconn, conn, dests)
  <2>1. ASSUME s.fd > 0 PROVE Precedes(conn[s.fd].out, Contents(w), dests)
    <3>1. s.fd \in 1..MaxConn BY <1>2, <2>1, SlaveKnown
    <3>2. PICK o, h : o = conn[s.fd].out /\ h = Taken OBVIOUS
    <3>3. Below(o, h) /\ h \in Nat BY <1>1, <3>1, <3>2, BelowTaken
    <3>4. Precedes(o, Contents(s.queue), dests) BY <1>3, <2>1, <3>2 DEF SlaveFits
    <3>5. PICK k : k = Contents(s.queue) OBVIOUS
    <3>6. k \in Seq(Nat) /\ Contents(w) = Append(k, m) BY <1>3, <1>5, <3>5, ContentsType DEF Pushed
    <3>7. \A j \in DOMAIN Contents(w) : (j \in DOMAIN k /\ Contents(w)[j] = k[j]) \/ Contents(w)[j] = m
      BY <1>1, <3>6
    <3>8. \A i \in DOMAIN o : o[i] < m
      <4>1. \A i \in DOMAIN o : o[i] \in 1..h BY <3>3 DEF Below
      <4> QED BY <1>1, <3>2, <3>3, <4>1
    <3> QED BY <3>2, <3>4, <3>5, <3>7, <3>8 DEF Precedes
  <2>2. s.fd > 0 => s.status = "handshake" BY <1>2 DEF MustWait
  <2> QED BY <1>3, <1>7, <2>1, <2>2 DEF SlaveFits
<1>17. SlavesOK'
  <2>1. ASSUME NEW i \in Node PROVE SlaveFits(slave'[i], i, nconn', conn', dests')
    BY <1>1, <1>10, <1>16, SlaveKnown
  <2>2. slave'[Self] = slave[Self] BY <1>3, <1>10
  <2> QED BY <2>1, <2>2 DEF SlavesOK, MessagesInv
<1>18. HarborShape' BY <1>1, <1>11, Known DEF HarborShape
<1>19. ConnsOK' BY <1>1 DEF ConnsOK, MessagesInv
<1> QED BY <1>1, <1>15, <1>17, <1>18, <1>19 DEF MessagesInv

\* What is sent to connection fd, of node id.
LEMMA SendParts ==
    ASSUME MessagesInv, NEW fd \in 1..MaxConn, NEW ms \in Seq(Nat), conn' = Send(conn, fd, ms)
    PROVE  /\ conn' \in [1..MaxConn -> Conn] /\ conn'[fd].out = conn[fd].out \o ms
           /\ \A i \in 1..MaxConn : i # fd => conn'[i] = conn[i]
           /\ \A i \in 1..MaxConn : conn'[i].node = conn[i].node /\ conn'[i].fwd = conn[i].fwd
<1>1. conn \in [1..MaxConn -> Conn] BY Known DEF Typed
<1>2. fd > 0 OBVIOUS
<1>3. conn' = [conn EXCEPT ![fd].out = @ \o ms] BY <1>2 DEF Send
<1>4. PICK c \in Conn : c = conn[fd] BY <1>1
<1>5. c.out \o ms \in Seq(Nat) BY <1>4 DEF Conn
<1>6. PICK c2 : c2 = [c EXCEPT !.out = c.out \o ms] OBVIOUS
<1>7. c2 \in Conn /\ c2.out = c.out \o ms /\ c2.node = c.node /\ c2.fwd = c.fwd BY <1>4, <1>5, <1>6 DEF Conn
<1>8. conn' = [conn EXCEPT ![fd] = c2] BY <1>1, <1>3, <1>4, <1>6
<1> QED BY <1>1, <1>4, <1>7, <1>8

\* Two nodes do not share a connection.
LEMMA OwnConn ==
    ASSUME MessagesInv, NEW id \in Node, slave[id].fd > 0, NEW i \in Node, slave[i].fd = slave[id].fd
    PROVE  i = id
<1>1. SlaveFits(slave[id], id, nconn, conn, dests) /\ SlaveFits(slave[i], i, nconn, conn, dests) BY SlaveKnown
<1> QED BY <1>1 DEF SlaveFits

\* The connections keep their nodes; only what is sent over that of node id changes.
LEMMA OthersKept ==
    ASSUME MessagesInv, NEW id \in Node, NEW fd, slave[id].fd = fd, fd > 0,
           \A k \in 1..MaxConn : k # fd => conn'[k] = conn[k], nconn' = nconn,
           NEW i \in Node, i # id
    PROVE  SlaveFits(slave[i], i, nconn', conn', dests)
<1>1. PICK s \in Slave : s = slave[i] BY SlaveKnown
<1>2. SlaveFits(s, i, nconn, conn, dests) BY <1>1, SlaveKnown
<1>3. s.fd > 0 => s.fd \in 1..MaxConn /\ s.fd # fd BY <1>1, SlaveKnown, OwnConn
<1>4. PICK c, c2, nc, ds : c = conn /\ c2 = conn' /\ nc = nconn /\ ds = dests OBVIOUS
<1>5. s.fd > 0 => c2[s.fd].out = c[s.fd].out /\ c2[s.fd].node = c[s.fd].node BY <1>3, <1>4
<1>6. SlaveFits(s, i, nc, c2, ds)
  <2>1. nc \in Nat /\ nc <= nc BY <1>4, Known
  <2>2. SlaveFits(s, i, nc, c, ds) BY <1>2, <1>4
  <2> QED BY <1>5, <2>1, <2>2, SlaveKept
<1> QED BY <1>1, <1>4, <1>6

LEMMA ConnsSent ==
    ASSUME MessagesInv, NEW fd \in 1..MaxConn, fd <= nconn, nconn' = nconn, conn' \in [1..MaxConn -> Conn],
           \A k \in 1..MaxConn : k # fd => conn'[k] = conn[k], conn'[fd].node = conn[fd].node
    PROVE  ConnsOK'
<1>1. \A k \in 1..MaxConn : ConnFits(conn[k], k, nconn) BY DEF MessagesInv, ConnsOK
<1>2. ASSUME NEW k \in 1..MaxConn PROVE ConnFits(conn'[k], k, nconn')
  <2>1. CASE k # fd BY <1>1, <2>1
  <2>2. CASE k = fd
    <3>1. conn[fd].node \in Node BY <1>1 DEF ConnFits
    <3>2. nconn \in Nat /\ ~(fd > nconn) BY Known
    <3> QED BY <2>2, <3>1, <3>2 DEF ConnFits
  <2> QED BY <2>1, <2>2
<1> QED BY <1>2 DEF ConnsOK

\* The message leaves over the connection of the node.
LEMMA TakesSent ==
    ASSUME MessagesInv, NEW m, NEW id \in Node, Takes(m, id), ~MustWait(slave[id]), slave[id].fd > 0,
           conn' = Send(conn, slave[id].fd, <<m>>), slave' = slave, local' = local
    PROVE  MessagesInv'
<1>1. /\ inbox' \in Seq(Item) /\ InboxOK' /\ Taken' = Taken + 1 /\ Taken \in Nat /\ m = Taken + 1 /\ m \in Nat
      /\ Vals' = Vals /\ dests' = dests /\ nconn' = nconn /\ crashed' = crashed /\ names' = names
      /\ (dests[m] \in Name => Vals[dests[m]] # 0)
  BY TakesParts
<1>2. PICK fd \in 1..MaxConn : fd = slave[id].fd /\ fd > 0 BY SlaveKnown
<1>3. PICK ms : ms = <<m>> OBVIOUS
<1>4. ms \in Seq(Nat) BY <1>1, <1>3
<1>5. conn' = Send(conn, fd, ms) BY <1>2, <1>3
<1>6. /\ conn' \in [1..MaxConn -> Conn] /\ conn'[fd].out = conn[fd].out \o ms
      /\ \A i \in 1..MaxConn : i # fd => conn'[i] = conn[i]
      /\ \A i \in 1..MaxConn : conn'[i].node = conn[i].node /\ conn'[i].fwd = conn[i].fwd
  BY <1>4, <1>5, SendParts
<1>7. Typed(conn', slave', names', local') BY <1>1, <1>6, Known DEF Typed
<1>8. PICK p \in Places : p = <<"conn", fd>> /\ ~NamePlace(p) BY PlacesOf
<1>9. \A q \in Places \ {p} : Now'[q] = Now[q]
  <2>1. PICK X : X = {p} OBVIOUS
  <2>2. /\ \A k \in 1..MaxConn : <<"conn", k>> \notin X => conn'[k].out = conn[k].out
        /\ \A i \in Node \cup {Self} : <<"slave", i>> \notin X => slave'[i].queue = slave[i].queue
        /\ \A n \in Name : <<"name", n>> \notin X => names'[n].queue = names[n].queue
        /\ <<"local", 0>> \notin X => local' = local
    BY <1>1, <1>6, <1>8, <2>1
  <2>3. \A q \in Places \ X : Now'[q] = Now[q] BY <1>7, <2>2, NowElsewhere
  <2> QED BY <2>1, <2>3
<1>10. Now'[p] = Append(Now[p], m)
  <2>1. Now'[p] = conn'[fd].out BY <1>7, <1>8, NextForm
  <2>2. Now[p] = conn[fd].out /\ Now[p] \in Seq(Nat) BY <1>8, NowForm
  <2>4. PICK s \in Seq(Nat) : s = Now[p] BY <2>2
  <2>3. Append(s, m) = s \o <<m>>
    <3>1. PICK S : S = Nat OBVIOUS
    <3>2. s \in Seq(S) /\ m \in S BY <1>1, <2>4, <3>1
    <3>3. Appends(s, m) BY <3>2, AppendCat
    <3> QED BY <3>3 DEF Appends
  <2> QED BY ZenonT(60), <1>3, <1>6, <2>1, <2>2, <2>3, <2>4
<1>11. Good(Now, Taken, dests)' /\ NamesFit(Now, dests, Vals)'
  BY <1>1, <1>7, <1>8, <1>9, <1>10, PutStep
<1>12. SlaveFits(slave[id], id, nconn, conn, dests) BY SlaveKnown
<1>13. SlaveFits(slave[id], id, nconn', conn', dests)
  <2>1. Contents(slave[id].queue) = << >> BY <1>12 DEF SlaveFits, MustWait
  <2>2. Precedes(conn'[fd].out, Contents(slave[id].queue), dests) BY <2>1, EmptyPrecedes
  <2> QED BY ZenonT(60), <1>1, <1>2, <1>6, <1>12, <2>1, <2>2 DEF SlaveFits
<1>14. ASSUME NEW i \in Node PROVE SlaveFits(slave'[i], i, nconn', conn', dests')
  <2>1. CASE i = id BY <1>1, <1>13, <2>1
  <2>2. CASE i # id
    <3>1. SlaveFits(slave[i], i, nconn', conn', dests) BY ZenonT(60), <1>1, <1>2, <1>6, <2>2, OthersKept
    <3> QED BY SMTT(60), <1>1, <3>1
  <2> QED BY <2>1, <2>2
<1>15. SlavesOK' BY <1>14 DEF SlavesOK, MessagesInv
<1>16. HarborShape' BY <1>1, <1>7, Known DEF HarborShape
<1>17. ConnsOK'
  <2>1. fd <= nconn BY <1>2, <1>12 DEF SlaveFits
  <2> QED BY <1>1, <1>6, <2>1, ConnsSent
<1> QED BY <1>1, <1>11, <1>15, <1>16, <1>17 DEF MessagesInv

LEMMA RemoteOutInv == ASSUME MessagesInv, RemoteOut PROVE MessagesInv'
<1>1. PICK m, d : m = Head(inbox).m /\ d = Head(inbox).dest OBVIOUS
<1>2. PICK id : id = IF d \in Name THEN names[d].value ELSE d OBVIOUS
<1>3. /\ inbox # << >> /\ inbox' = Tail(inbox) /\ id # 0 /\ RemoteSendHandle(m, id)
      /\ names' = names /\ dests' = dests /\ nconn' = nconn /\ crashed' = crashed
  BY <1>1, <1>2 DEF RemoteOut, Entry
<1>4. id \in Node \cup {Self}
  <2>1. d \in Dest BY <1>1, <1>3, TakeStep
  <2>2. CASE d \in Name
    <3>1. names[d] \in Named BY <2>2, Known DEF Typed
    <3> QED BY <1>2, <1>3, <2>2, <3>1 DEF Named
  <2>3. CASE d \notin Name BY <1>2, <2>1, <2>3 DEF Dest
  <2> QED BY <2>2, <2>3
<1>5. Takes(m, id)
  <2>1. d \in Name => Vals[d] # 0 BY <1>2, <1>3 DEF Vals
  <2> QED BY <1>1, <1>3, <1>4, <2>1 DEF Takes
<1>6. CASE id = Self
  <2>1. local' = Append(local, m) /\ slave' = slave /\ conn' = conn BY <1>3, <1>6 DEF RemoteSendHandle
  <2> QED BY <1>5, <2>1, TakesLocal
<1>7. CASE id # Self /\ MustWait(slave[id])
  <2>0. id \in Node BY <1>4, <1>7
  <2>1. SlaveFits(slave[id], id, nconn, conn, dests) BY <2>0, SlaveKnown
  <2>2. slave[id].status # "down" BY <1>7, <2>1 DEF SlaveFits, MustWait
  <2>3. slave' = [slave EXCEPT ![id].queue = PushQueue(@, m)] /\ conn' = conn /\ local' = local
    BY <1>3, <1>7, <2>2 DEF RemoteSendHandle
  <2> QED BY <1>5, <1>7, <2>0, <2>3, TakesWaits
<1>8. CASE id # Self /\ ~MustWait(slave[id])
  <2>0. id \in Node BY <1>4, <1>8
  <2>1. conn' = Send(conn, slave[id].fd, <<m>>) /\ slave' = slave /\ local' = local
    BY <1>3, <1>8 DEF RemoteSendHandle
  <2>2. CASE slave[id].fd > 0 BY <1>5, <1>8, <2>0, <2>1, <2>2, TakesSent
  <2>3. CASE ~(slave[id].fd > 0)
    <3>1. conn' = conn BY <2>1, <2>3 DEF Send
    <3> QED BY <1>5, <2>1, <3>1, TakesLost
  <2> QED BY <2>2, <2>3
<1> QED BY <1>6, <1>7, <1>8

\* Messages for a name that is not known are nowhere else.
LEMMA NamePrecedes ==
    ASSUME NEW f, NEW ds, NEW val, NamesFit(f, ds, val), NEW n \in Name, NEW a, a = <<"name", n>>,
           NEW p \in Places, p # a
    PROVE  Precedes(f[p], f[a], ds) /\ Precedes(f[a], f[p], ds)
<1>1. CASE val[n] # 0
  <2>1. f[a] = << >> BY <1>1 DEF NamesFit
  <2> QED BY <2>1, EmptyPrecedes
<1>2. CASE val[n] = 0
  <2>1. Only(f[a], n, ds) /\ Never(f[p], n, ds) BY <1>2 DEF NamesFit
  <2> QED BY <2>1 DEF Only, Never, Precedes
<1> QED BY <1>1, <1>2

LEMMA CatPrecedes ==
    ASSUME NEW t, NEW s, NEW r, Catted(t, s, r), NEW k, NEW ds, Precedes(s, k, ds), Precedes(r, k, ds)
    PROVE  Precedes(t, k, ds)
<1> SUFFICES ASSUME NEW i \in DOMAIN t, NEW j \in DOMAIN k, ds[t[i]] = ds[k[j]] PROVE t[i] < k[j]
  BY DEF Precedes
<1>1. CASE i \in DOMAIN s BY <1>1 DEF Precedes, Catted
<1>2. CASE \E b \in DOMAIN r : i = Len(s) + b BY <1>2 DEF Precedes, Catted
<1> QED BY <1>1, <1>2 DEF Catted

\* The name becomes known: it is a handle of node id.
NameKnown(n, id) ==
    /\ n \in Name /\ id \in Node \cup {Self}
    /\ names' = [names EXCEPT ![n] = [value |-> id, queue |-> NULL]]
    /\ inbox' = inbox /\ dests' = dests /\ nconn' = nconn /\ crashed' = crashed

LEMMA NameKnownParts ==
    ASSUME MessagesInv, NEW n, NEW id, NameKnown(n, id)
    PROVE  /\ names' \in [Name -> Named] /\ names'[n].queue = NULL /\ \A k \in Name : k # n => names'[k] = names[k]
           /\ Vals'[n] # 0 /\ (\A k \in Name : k # n => Vals'[k] = Vals[k])
           /\ InboxOK' /\ Taken' = Taken /\ dests' = dests /\ nconn' = nconn /\ crashed' = crashed /\ inbox' = inbox
<1>1. n \in Name /\ id \in Node \cup {Self} /\ id # 0 BY HarborAssumption DEF NameKnown
<1>2. PICK e : e = [value |-> id, queue |-> NULL] OBVIOUS
<1>3. e \in Named /\ e.queue = NULL /\ e.value = id BY <1>1, <1>2 DEF Named
<1>4. names' = [names EXCEPT ![n] = e] /\ names \in [Name -> Named] BY <1>2, Known DEF NameKnown, Typed
<1>5. names' \in [Name -> Named] /\ names'[n] = e /\ \A k \in Name : k # n => names'[k] = names[k]
  BY <1>1, <1>3, <1>4
<1>6. Vals'[n] # 0 /\ (\A k \in Name : k # n => Vals'[k] = Vals[k]) BY <1>1, <1>3, <1>5 DEF Vals
<1>7. inbox' = inbox /\ dests' = dests /\ nconn' = nconn /\ crashed' = crashed BY DEF NameKnown
<1>8. InboxOK' /\ Taken' = Taken BY <1>7, Known DEF InboxOK, Taken
<1> QED BY <1>3, <1>5, <1>6, <1>7, <1>8

\* Its messages go to the end of what is at dst.
LEMMA NameMoved ==
    ASSUME MessagesInv, NEW n, NEW id, NameKnown(n, id), Typed(conn', slave', names', local'),
           NEW dst \in Places, ~NamePlace(dst), NEW src, src = <<"name", n>>,
           Now'[dst] = Now[dst] \o Now[src], \A q \in Places \ {src, dst} : Now'[q] = Now[q]
    PROVE  Good(Now, Taken, dests)' /\ NamesFit(Now, dests, Vals)'
<1>1. PICK f, g, ds, h, v, v2 : f = Now /\ g = Now' /\ ds = dests /\ h = Taken /\ v = Vals /\ v2 = Vals' OBVIOUS
<1>0. n \in Name BY DEF NameKnown
<1>2. src \in Places /\ src # dst BY <1>0, PlacesOf DEF NamePlace
<1>3. Good(f, h, ds) /\ NamesFit(f, ds, v) /\ f \in [Places -> Seq(Nat)] /\ g \in [Places -> Seq(Nat)]
  BY <1>1, Known, NowForm, NextForm
<1>4. /\ names'[n].queue = NULL /\ v2[n] # 0 /\ \A k \in Name : k # n => v2[k] = v[k]
      /\ dests' = ds /\ Taken' = h
  BY <1>1, NameKnownParts
<1>5. g[src] = << >> BY <1>0, <1>1, <1>4, NextForm, NoRing
<1>6. g[dst] = f[dst] \o f[src] /\ \A q \in Places : q # src /\ q # dst => g[q] = f[q] BY <1>1
<1>7. Precedes(f[dst], f[src], ds) BY <1>0, <1>2, <1>3, NamePrecedes
<1>8. Good(g, h, ds) BY <1>2, <1>3, <1>5, <1>6, <1>7, MoveGood
<1>9. ASSUME NEW q \in Places PROVE From(g[q], f[q], f[src])
  <2>1. CASE q = src BY <1>5, <2>1 DEF From
  <2>2. CASE q = dst
    <3>1. Catted(g[dst], f[dst], f[src]) BY <1>2, <1>3, <1>6, CatParts
    <3> QED BY <2>2, <3>1 DEF From, Catted
  <2>3. CASE q # src /\ q # dst BY <1>6, <2>3 DEF From
  <2> QED BY <2>1, <2>2, <2>3
<1>10. ASSUME NEW k \in Name
       PROVE  IF src = <<"name", k>> THEN g[<<"name", k>>] = << >> /\ v2[k] # 0
              ELSE g[<<"name", k>>] = f[<<"name", k>>] /\ v2[k] = v[k]
  <2>1. PICK a \in Places : a = <<"name", k>> BY PlacesOf
  <2>2. CASE k = n BY <1>4, <1>5, <2>2
  <2>3. CASE k # n
    <3>1. a # src /\ a # dst BY <2>1, <2>3 DEF NamePlace
    <3>2. g[a] = f[a] /\ v2[k] = v[k] BY <1>4, <1>6, <2>3, <3>1
    <3> QED BY <2>1, <3>1, <3>2
  <2> QED BY <2>2, <2>3
<1>11. NamesFit(g, ds, v2)
  <2>1. Moves(f, g, src, v, v2) BY <1>9, <1>10 DEF Moves
  <2> QED BY <1>2, <1>3, <2>1, MoveFits
<1> QED BY <1>1, <1>4, <1>8, <1>11

LEMMA NameDropped ==
    ASSUME MessagesInv, NEW n, NEW id, NameKnown(n, id), Typed(conn', slave', names', local'),
           NEW src, src = <<"name", n>>, \A q \in Places \ {src} : Now'[q] = Now[q]
    PROVE  Good(Now, Taken, dests)' /\ NamesFit(Now, dests, Vals)'
<1>1. PICK f, g, ds, h, v, v2 : f = Now /\ g = Now' /\ ds = dests /\ h = Taken /\ v = Vals /\ v2 = Vals' OBVIOUS
<1>0. n \in Name BY DEF NameKnown
<1>2. src \in Places BY <1>0, PlacesOf
<1>3. Good(f, h, ds) /\ NamesFit(f, ds, v) /\ f \in [Places -> Seq(Nat)] /\ g \in [Places -> Seq(Nat)]
  BY <1>1, Known, NowForm, NextForm
<1>4. /\ names'[n].queue = NULL /\ v2[n] # 0 /\ \A k \in Name : k # n => v2[k] = v[k]
      /\ dests' = ds /\ Taken' = h
  BY <1>1, NameKnownParts
<1>5. g[src] = << >> BY <1>0, <1>1, <1>4, NextForm, NoRing
<1>6. \A q \in Places : q # src => g[q] = f[q] BY <1>1
<1>8. Good(g, h, ds) BY <1>2, <1>3, <1>5, <1>6, DropGood
<1>9. ASSUME NEW q \in Places PROVE From(g[q], f[q], f[src])
  <2>1. CASE q = src BY <1>5, <2>1 DEF From
  <2>3. CASE q # src BY <1>6, <2>3 DEF From
  <2> QED BY <2>1, <2>3
<1>10. ASSUME NEW k \in Name
       PROVE  IF src = <<"name", k>> THEN g[<<"name", k>>] = << >> /\ v2[k] # 0
              ELSE g[<<"name", k>>] = f[<<"name", k>>] /\ v2[k] = v[k]
  <2>1. PICK a \in Places : a = <<"name", k>> BY PlacesOf
  <2>2. CASE k = n BY <1>4, <1>5, <2>2
  <2>3. CASE k # n
    <3>1. a # src BY <2>1, <2>3
    <3>2. g[a] = f[a] /\ v2[k] = v[k] BY <1>4, <1>6, <2>3, <3>1
    <3> QED BY <2>1, <3>1, <3>2
  <2> QED BY <2>2, <2>3
<1>11. NamesFit(g, ds, v2)
  <2>1. Moves(f, g, src, v, v2) BY <1>9, <1>10 DEF Moves
  <2> QED BY <1>2, <1>3, <2>1, MoveFits
<1> QED BY <1>1, <1>4, <1>8, <1>11

LEMMA NameGone ==
    ASSUME MessagesInv, NEW n, NEW id, NameKnown(n, id), slave' = slave, conn' = conn, local' = local
    PROVE  MessagesInv'
<1>1. /\ names' \in [Name -> Named] /\ \A k \in Name : k # n => names'[k] = names[k]
      /\ InboxOK' /\ Taken' = Taken /\ dests' = dests /\ nconn' = nconn /\ crashed' = crashed /\ inbox' = inbox
  BY NameKnownParts
<1>2. Typed(conn', slave', names', local') BY <1>1, Known DEF Typed
<1>3. PICK src : src = <<"name", n>> OBVIOUS
<1>4. \A q \in Places \ {src} : Now'[q] = Now[q]
  <2>1. PICK X : X = {src} OBVIOUS
  <2>2. \A k \in Name : <<"name", k>> \notin X => names'[k].queue = names[k].queue BY <1>1, <1>3, <2>1
  <2>3. \A q \in Places \ X : Now'[q] = Now[q] BY <1>2, <2>2, NowElsewhere
  <2> QED BY <2>1, <2>3
<1>5. Good(Now, Taken, dests)' /\ NamesFit(Now, dests, Vals)' BY <1>2, <1>3, <1>4, NameDropped
<1>6. HarborShape' BY <1>1, <1>2, Known DEF HarborShape
<1>7. SlavesOK' BY <1>1 DEF SlavesOK, MessagesInv
<1>8. ConnsOK' BY <1>1 DEF ConnsOK, MessagesInv
<1> QED BY <1>1, <1>5, <1>6, <1>7, <1>8 DEF MessagesInv

LEMMA NameToLocal ==
    ASSUME MessagesInv, NEW n, NEW id, NameKnown(n, id), slave' = slave, conn' = conn,
           local' = local \o Contents(names[n].queue)
    PROVE  MessagesInv'
<1>0. n \in Name BY DEF NameKnown
<1>1. /\ names' \in [Name -> Named] /\ \A k \in Name : k # n => names'[k] = names[k]
      /\ InboxOK' /\ Taken' = Taken /\ dests' = dests /\ nconn' = nconn /\ crashed' = crashed /\ inbox' = inbox
  BY NameKnownParts
<1>2. PICK l \in Seq(Nat), w \in Seq(Nat) : l = local /\ w = Contents(names[n].queue)
  <2>1. names[n].queue \in Rings \cup {NULL} BY <1>0, Known DEF Typed, Named
  <2> QED BY <2>1, ContentsType, Known DEF Typed
<1>3. local' = l \o w /\ l \o w \in Seq(Nat) BY <1>2
<1>4. Typed(conn', slave', names', local') BY <1>1, <1>3, Known DEF Typed
<1>5. PICK src, dst : src = <<"name", n>> /\ dst = <<"local", 0>> OBVIOUS
<1>6. dst \in Places /\ ~NamePlace(dst) BY <1>5, PlacesOf
<1>7. \A q \in Places \ {src, dst} : Now'[q] = Now[q]
  <2>1. PICK X : X = {src, dst} OBVIOUS
  <2>2. \A k \in Name : <<"name", k>> \notin X => names'[k].queue = names[k].queue BY <1>1, <1>5, <2>1
  <2>3. <<"local", 0>> \in X BY <1>5, <2>1
  <2>4. \A q \in Places \ X : Now'[q] = Now[q] BY <1>4, <2>2, <2>3, NowElsewhere
  <2> QED BY <2>1, <2>4
<1>8. Now'[dst] = Now[dst] \o Now[src]
  <2>1. Now'[dst] = local' BY <1>4, <1>5, NextForm
  <2>2. Now[dst] = l BY <1>2, <1>5, NowForm
  <2>3. Now[src] = w BY <1>0, <1>2, <1>5, NowForm
  <2> QED BY <1>3, <2>1, <2>2, <2>3
<1>9. Good(Now, Taken, dests)' /\ NamesFit(Now, dests, Vals)' BY <1>4, <1>5, <1>6, <1>7, <1>8, NameMoved
<1>10. HarborShape' BY <1>1, <1>4, Known DEF HarborShape
<1>11. SlavesOK' BY <1>1 DEF SlavesOK, MessagesInv
<1>12. ConnsOK' BY <1>1 DEF ConnsOK, MessagesInv
<1> QED BY <1>1, <1>9, <1>10, <1>11, <1>12 DEF MessagesInv

LEMMA NameToSlave ==
    ASSUME MessagesInv, NEW n, NEW id \in Node, NameKnown(n, id), slave[id].fd = 0, names[n].queue \in Rings,
           slave' = [slave EXCEPT ![id].queue = Merged(@, names[n].queue)], conn' = conn, local' = local
    PROVE  MessagesInv'
<1>0. n \in Name BY DEF NameKnown
<1>1. /\ names' \in [Name -> Named] /\ \A k \in Name : k # n => names'[k] = names[k]
      /\ InboxOK' /\ Taken' = Taken /\ dests' = dests /\ nconn' = nconn /\ crashed' = crashed /\ inbox' = inbox
  BY NameKnownParts
<1>2. PICK s \in Slave : s = slave[id] BY SlaveKnown
<1>3. s.queue \in Rings \cup {NULL} /\ SlaveFits(s, id, nconn, conn, dests) /\ id # Self BY <1>2, SlaveKnown
<1>4. PICK q \in Rings : q = names[n].queue OBVIOUS
<1>5. PICK w : w = Merged(s.queue, q) OBVIOUS
<1>6. w \in Rings /\ Contents(w) = Contents(s.queue) \o Contents(q) BY <1>3, <1>5, MergedRing
<1>7. PICK s2 : s2 = [s EXCEPT !.queue = w] OBVIOUS
<1>8. s2 \in Slave /\ s2.fd = s.fd /\ s2.status = s.status /\ s2.queue = w BY <1>6, <1>7 DEF Slave
<1>9. slave' = [slave EXCEPT ![id] = s2] /\ slave \in [Node \cup {Self} -> Slave]
  BY <1>2, <1>4, <1>5, <1>7, Known DEF Typed
<1>10. slave'[id] = s2 /\ slave' \in [Node \cup {Self} -> Slave] /\ \A i \in Node \cup {Self} : i # id => slave'[i] = slave[i]
  BY <1>8, <1>9
<1>11. Typed(conn', slave', names', local') BY <1>1, <1>10, Known DEF Typed
<1>12. PICK src, dst : src = <<"name", n>> /\ dst = <<"slave", id>> OBVIOUS
<1>13. dst \in Places /\ ~NamePlace(dst) BY <1>12, PlacesOf
<1>14. \A p \in Places \ {src, dst} : Now'[p] = Now[p]
  <2>1. PICK X : X = {src, dst} OBVIOUS
  <2>2. \A k \in Name : <<"name", k>> \notin X => names'[k].queue = names[k].queue BY <1>1, <1>12, <2>1
  <2>3. \A i \in Node \cup {Self} : <<"slave", i>> \notin X => slave'[i].queue = slave[i].queue
    BY <1>10, <1>12, <2>1
  <2>4. \A p \in Places \ X : Now'[p] = Now[p] BY <1>11, <2>2, <2>3, NowElsewhere
  <2> QED BY <2>1, <2>4
<1>15. Now'[dst] = Now[dst] \o Now[src]
  <2>1. Now'[dst] = Contents(w) BY <1>8, <1>10, <1>11, <1>12, NextForm
  <2>2. Now[dst] = Contents(s.queue) BY <1>2, <1>12, NowForm
  <2>3. Now[src] = Contents(q) BY <1>0, <1>4, <1>12, NowForm
  <2> QED BY <1>6, <2>1, <2>2, <2>3
<1>16. Good(Now, Taken, dests)' /\ NamesFit(Now, dests, Vals)' BY <1>11, <1>12, <1>13, <1>14, <1>15, NameMoved
<1>17. SlaveFits(s2, id, nconn, conn, dests) BY <1>2, <1>3, <1>8 DEF SlaveFits
<1>18. SlavesOK'
  <2>1. ASSUME NEW i \in Node PROVE SlaveFits(slave'[i], i, nconn', conn', dests')
    BY <1>1, <1>10, <1>17, SlaveKnown
  <2>2. slave'[Self] = slave[Self] BY <1>3, <1>10
  <2> QED BY <2>1, <2>2 DEF SlavesOK, MessagesInv
<1>19. HarborShape' BY <1>1, <1>11, Known DEF HarborShape
<1>20. ConnsOK' BY <1>1 DEF ConnsOK, MessagesInv
<1> QED BY <1>1, <1>16, <1>18, <1>19, <1>20 DEF MessagesInv

LEMMA NameToConn ==
    ASSUME MessagesInv, NEW n, NEW id \in Node, NameKnown(n, id), slave[id].fd > 0,
           conn' = Send(conn, slave[id].fd, Contents(names[n].queue)), slave' = slave, local' = local
    PROVE  MessagesInv'
<1>0. n \in Name BY DEF NameKnown
<1>1. /\ names' \in [Name -> Named] /\ \A k \in Name : k # n => names'[k] = names[k]
      /\ InboxOK' /\ Taken' = Taken /\ dests' = dests /\ nconn' = nconn /\ crashed' = crashed /\ inbox' = inbox
  BY NameKnownParts
<1>2. PICK fd \in 1..MaxConn : fd = slave[id].fd /\ fd > 0 BY SlaveKnown
<1>3. PICK ms \in Seq(Nat) : ms = Contents(names[n].queue)
  <2>1. names[n].queue \in Rings \cup {NULL} BY <1>0, Known DEF Typed, Named
  <2> QED BY <2>1, ContentsType
<1>4. conn' = Send(conn, fd, ms) BY <1>2, <1>3
<1>5. /\ conn' \in [1..MaxConn -> Conn] /\ conn'[fd].out = conn[fd].out \o ms
      /\ \A i \in 1..MaxConn : i # fd => conn'[i] = conn[i]
      /\ \A i \in 1..MaxConn : conn'[i].node = conn[i].node /\ conn'[i].fwd = conn[i].fwd
  BY SMTT(60), <1>4, SendParts
<1>6. Typed(conn', slave', names', local') BY <1>1, <1>5, Known DEF Typed
<1>7. PICK src, dst : src = <<"name", n>> /\ dst = <<"conn", fd>> OBVIOUS
<1>8. dst \in Places /\ ~NamePlace(dst) BY <1>7, PlacesOf
<1>9. \A p \in Places \ {src, dst} : Now'[p] = Now[p]
  <2>1. PICK X : X = {src, dst} OBVIOUS
  <2>2. \A k \in Name : <<"name", k>> \notin X => names'[k].queue = names[k].queue BY <1>1, <1>7, <2>1
  <2>3. \A i \in 1..MaxConn : <<"conn", i>> \notin X => conn'[i].out = conn[i].out BY <1>5, <1>7, <2>1
  <2>4. \A p \in Places \ X : Now'[p] = Now[p] BY <1>6, <2>2, <2>3, NowElsewhere
  <2> QED BY <2>1, <2>4
<1>10. Now[dst] = conn[fd].out /\ Now[src] = ms /\ Now'[dst] = conn'[fd].out
  BY SMTT(60), <1>0, <1>3, <1>6, <1>7, NowForm, NextForm
<1>11. Now'[dst] = Now[dst] \o Now[src] BY <1>5, <1>10
<1>12. Good(Now, Taken, dests)' /\ NamesFit(Now, dests, Vals)' BY <1>6, <1>7, <1>8, <1>9, <1>11, NameMoved
<1>13. SlaveFits(slave[id], id, nconn, conn, dests) BY SlaveKnown
<1>14. Precedes(conn'[fd].out, Contents(slave[id].queue), dests)
  <2>1. PICK p \in Places : p = <<"slave", id>> /\ p # src BY <1>0, <1>7, PlacesOf DEF NamePlace
  <2>2. PICK f, ds, v : f = Now /\ ds = dests /\ v = Vals OBVIOUS
  <2>3. PICK k : k = Contents(slave[id].queue) OBVIOUS
  <2>4. NamesFit(f, ds, v) BY <2>2, Known
  <2>5. Precedes(f[src], f[p], ds) BY <1>0, <1>7, <2>1, <2>4, NamePrecedes
  <2>6. f[p] = k BY <2>1, <2>2, <2>3, NowForm
  <2>7. PICK o, o2 : o = conn[fd].out /\ o2 = conn'[fd].out OBVIOUS
  <2>8. Precedes(ms, k, ds) /\ Precedes(o, k, ds)
    BY SMTT(60), <1>2, <1>10, <1>13, <2>2, <2>3, <2>5, <2>6, <2>7 DEF SlaveFits
  <2>9. Catted(o2, o, ms)
    <3>1. o \in Seq(Nat) BY ZenonT(60), <2>7, Known DEF Typed, Conn
    <3> QED BY <1>5, <2>7, <3>1, CatParts
  <2> QED BY <2>2, <2>3, <2>7, <2>8, <2>9, CatPrecedes
<1>15. SlaveFits(slave[id], id, nconn', conn', dests) BY ZenonT(60), <1>1, <1>2, <1>5, <1>13, <1>14 DEF SlaveFits
<1>16. ASSUME NEW i \in Node PROVE SlaveFits(slave'[i], i, nconn', conn', dests')
  <2>1. CASE i = id BY <1>1, <1>15, <2>1
  <2>2. CASE i # id
    <3>1. SlaveFits(slave[i], i, nconn', conn', dests) BY ZenonT(60), <1>1, <1>2, <1>5, <2>2, OthersKept
    <3> QED BY SMTT(60), <1>1, <3>1
  <2> QED BY <2>1, <2>2
<1>17. SlavesOK' BY <1>16 DEF SlavesOK, MessagesInv
<1>18. HarborShape' BY SMTT(60), <1>1, <1>6, Known DEF HarborShape
<1>19. ConnsOK'
  <2>1. fd <= nconn BY <1>2, <1>13 DEF SlaveFits
  <2> QED BY <1>1, <1>5, <2>1, ConnsSent
<1> QED BY <1>1, <1>12, <1>17, <1>18, <1>19 DEF MessagesInv

LEMMA UpdateNameInv ==
    ASSUME MessagesInv, NEW n \in Name, NEW id \in Node \cup {Self}, UpdateName(n, id)
    PROVE  MessagesInv'
<1>1. PICK q, s : q = names[n].queue /\ s = slave[id] OBVIOUS
<1>2. NameKnown(n, id) BY DEF UpdateName, NameKnown
<1>3. q \in Rings \cup {NULL} BY <1>1, Known DEF Typed, Named
<1>4. CASE q = NULL
  <2>1. slave' = slave /\ conn' = conn /\ local' = local BY <1>1, <1>4 DEF UpdateName, Entry
  <2> QED BY <1>2, <2>1, NameGone
<1>5. CASE q # NULL /\ s.fd # 0
  <2>1. conn' = Send(conn, s.fd, Contents(q)) /\ slave' = slave /\ local' = local
    BY <1>1, <1>5 DEF UpdateName, Entry
  <2>2. id \in Node BY <1>1, <1>5 DEF MessagesInv, SlavesOK
  <2>3. CASE s.fd > 0 BY <1>1, <1>2, <2>1, <2>2, <2>3, NameToConn
  <2>4. CASE ~(s.fd > 0)
    <3>1. conn' = conn BY <2>1, <2>4 DEF Send
    <3> QED BY <1>2, <2>1, <3>1, NameGone
  <2> QED BY <2>3, <2>4
<1>6. CASE q # NULL /\ s.fd = 0 /\ id = Self
  <2>1. s.status = "wait" /\ s.queue = NULL BY <1>1, <1>6 DEF MessagesInv, SlavesOK
  <2>2. /\ local' = local \o Contents(Merged(s.queue, q)) /\ conn' = conn
        /\ slave' = [slave EXCEPT ![id].queue = NULL]
    BY <1>1, <1>6, <2>1 DEF UpdateName, Entry
  <2>3. Merged(s.queue, q) = q BY <2>1 DEF Merged
  <2>4. slave' = slave
    <3>1. slave \in [Node \cup {Self} -> Slave] BY Known DEF Typed
    <3>2. s \in Slave BY <1>1, <3>1
    <3>3. [s EXCEPT !.queue = NULL] = s BY <2>1, <3>2 DEF Slave
    <3>4. slave' = [slave EXCEPT ![id] = s] BY <1>1, <2>2, <3>3
    <3> QED BY <1>1, <3>1, <3>4
  <2> QED BY <1>1, <1>2, <2>2, <2>3, <2>4, NameToLocal
<1>7. CASE q # NULL /\ s.fd = 0 /\ id # Self
  <2>0. id \in Node BY <1>7
  <2>1. SlaveFits(s, id, nconn, conn, dests) BY <1>1, <2>0, SlaveKnown
  <2>2. s.status # "down" BY <1>7, <2>1 DEF SlaveFits
  <2>3. slave' = [slave EXCEPT ![id].queue = Merged(@, q)] /\ conn' = conn /\ local' = local
    BY <1>1, <1>7, <2>2 DEF UpdateName, Entry
  <2>4. q \in Rings BY <1>3, <1>7
  <2> QED BY <1>1, <1>2, <1>7, <2>0, <2>3, <2>4, NameToSlave
<1> QED BY <1>4, <1>5, <1>6, <1>7

-----------------------------------------------------------------------------
(* Connections come and go.                                                *)

\* The queue of the slave of node id is sent over connection fd.
LEMMA SlaveMoved ==
    ASSUME MessagesInv, Good(Now, Taken, dests'), NamesFit(Now, dests', Vals), Vals' = Vals, Taken' = Taken,
           Typed(conn', slave', names', local'), NEW id \in Node, NEW fd \in 1..MaxConn,
           Precedes(conn[fd].out, Contents(slave[id].queue), dests'),
           slave'[id].queue = NULL, conn'[fd].out = conn[fd].out \o Contents(slave[id].queue),
           \A q \in Places \ {<<"slave", id>>, <<"conn", fd>>} : Now'[q] = Now[q]
    PROVE  Good(Now, Taken, dests)' /\ NamesFit(Now, dests, Vals)'
<1>1. PICK f, g, ds, h, v : f = Now /\ g = Now' /\ ds = dests' /\ h = Taken /\ v = Vals OBVIOUS
<1>2. PICK src \in Places, dst \in Places : src = <<"slave", id>> /\ dst = <<"conn", fd>> /\ ~NamePlace(src) /\ ~NamePlace(dst)
  BY PlacesOf
<1>3. Good(f, h, ds) /\ NamesFit(f, ds, v) /\ f \in [Places -> Seq(Nat)] /\ g \in [Places -> Seq(Nat)] /\ src # dst
  BY <1>1, <1>2, NowForm, NextForm
<1>4. f[src] = Contents(slave[id].queue) /\ f[dst] = conn[fd].out BY <1>1, <1>2, NowForm
<1>5. g[src] = << >> /\ g[dst] = f[dst] \o f[src]
  <2>1. g[src] = Contents(slave'[id].queue) /\ g[dst] = conn'[fd].out BY <1>1, <1>2, NextForm
  <2> QED BY <1>4, <2>1, NoRing
<1>6. \A q \in Places : q # src /\ q # dst => g[q] = f[q] BY <1>1, <1>2
<1>7. Precedes(f[dst], f[src], ds) BY <1>1, <1>4
<1>8. Good(g, h, ds) BY <1>3, <1>5, <1>6, <1>7, MoveGood
<1>9. ASSUME NEW q \in Places PROVE From(g[q], f[q], f[src])
  <2>1. CASE q = src BY <1>5, <2>1 DEF From
  <2>2. CASE q = dst
    <3>1. Catted(g[dst], f[dst], f[src]) BY <1>3, <1>5, CatParts
    <3> QED BY <2>2, <3>1 DEF From, Catted
  <2>3. CASE q # src /\ q # dst BY <1>6, <2>3 DEF From
  <2> QED BY <2>1, <2>2, <2>3
<1>10. ASSUME NEW k \in Name
       PROVE  IF src = <<"name", k>> THEN g[<<"name", k>>] = << >> /\ v[k] # 0
              ELSE g[<<"name", k>>] = f[<<"name", k>>] /\ v[k] = v[k]
  <2>1. PICK a \in Places : a = <<"name", k>> BY PlacesOf
  <2>2. a # src /\ a # dst BY <1>2, <2>1 DEF NamePlace
  <2>3. g[a] = f[a] BY <1>6, <2>2
  <2> QED BY <2>1, <2>2, <2>3
<1>11. NamesFit(g, ds, v)
  <2>1. Moves(f, g, src, v, v) BY <1>9, <1>10 DEF Moves
  <2> QED BY <1>3, <2>1, MoveFits
<1> QED BY <1>1, <1>8, <1>11

\* The queue of the slave is dropped.
LEMMA SlaveDropped ==
    ASSUME MessagesInv, Good(Now, Taken, dests'), NamesFit(Now, dests', Vals), Vals' = Vals, Taken' = Taken,
           Typed(conn', slave', names', local'), NEW id \in Node, slave'[id].queue = NULL,
           \A q \in Places \ {<<"slave", id>>} : Now'[q] = Now[q]
    PROVE  Good(Now, Taken, dests)' /\ NamesFit(Now, dests, Vals)'
<1>1. PICK f, g, ds, h, v : f = Now /\ g = Now' /\ ds = dests' /\ h = Taken /\ v = Vals OBVIOUS
<1>2. PICK src \in Places : src = <<"slave", id>> /\ ~NamePlace(src) BY PlacesOf
<1>3. Good(f, h, ds) /\ NamesFit(f, ds, v) /\ f \in [Places -> Seq(Nat)] /\ g \in [Places -> Seq(Nat)]
  BY <1>1, NowForm, NextForm
<1>5. g[src] = << >>
  <2>1. g[src] = Contents(slave'[id].queue) BY <1>1, <1>2, NextForm
  <2> QED BY <2>1, NoRing
<1>6. \A q \in Places : q # src => g[q] = f[q] BY <1>1, <1>2
<1>8. Good(g, h, ds) BY <1>3, <1>5, <1>6, DropGood
<1>9. ASSUME NEW q \in Places PROVE From(g[q], f[q], f[src])
  <2>1. CASE q = src BY <1>5, <2>1 DEF From
  <2>3. CASE q # src BY <1>6, <2>3 DEF From
  <2> QED BY <2>1, <2>3
<1>10. ASSUME NEW k \in Name
       PROVE  IF src = <<"name", k>> THEN g[<<"name", k>>] = << >> /\ v[k] # 0
              ELSE g[<<"name", k>>] = f[<<"name", k>>] /\ v[k] = v[k]
  <2>1. PICK a \in Places : a = <<"name", k>> BY PlacesOf
  <2>2. a # src BY <1>2, <2>1 DEF NamePlace
  <2>3. g[a] = f[a] BY <1>6, <2>2
  <2> QED BY <2>1, <2>2, <2>3
<1>11. NamesFit(g, ds, v)
  <2>1. Moves(f, g, src, v, v) BY <1>9, <1>10 DEF Moves
  <2> QED BY <1>3, <2>1, MoveFits
<1> QED BY <1>1, <1>8, <1>11

LEMMA SocketClosedInv == ASSUME MessagesInv, NEW fd \in 1..MaxConn, SocketClosed(fd) PROVE MessagesInv'
<1>1. PICK id : id = conn[fd].node OBVIOUS
<1>2. /\ fd <= nconn /\ slave[id].fd = fd /\ slave' = [slave EXCEPT ![id].fd = -1]
      /\ conn' = [conn EXCEPT ![fd].in = << >>]
      /\ names' = names /\ inbox' = inbox /\ dests' = dests /\ nconn' = nconn /\ local' = local /\ crashed' = crashed
  BY <1>1 DEF SocketClosed, Owns
<1>3. id \in Node BY <1>1, <1>2 DEF MessagesInv, ConnsOK, ConnFits
<1>4. PICK s \in Slave : s = slave[id] BY <1>3, SlaveKnown
<1>5. SlaveFits(s, id, nconn, conn, dests) /\ id # Self BY <1>3, <1>4, SlaveKnown
<1>6. PICK s2 : s2 = [s EXCEPT !.fd = -1] OBVIOUS
<1>7. s2 \in Slave /\ s2.fd = -1 /\ s2.status = s.status /\ s2.queue = s.queue
  <2>1. -1 \in -1..MaxConn BY Known
  <2> QED BY <1>6, <2>1 DEF Slave
<1>8. slave' = [slave EXCEPT ![id] = s2] /\ slave \in [Node \cup {Self} -> Slave] BY <1>2, <1>4, <1>6, Known DEF Typed
<1>9. slave'[id] = s2 /\ slave' \in [Node \cup {Self} -> Slave] /\ \A i \in Node \cup {Self} : i # id => slave'[i] = slave[i]
  BY <1>3, <1>7, <1>8
<1>10. PICK c \in Conn : c = conn[fd] BY Known DEF Typed
<1>11. PICK c2 : c2 = [c EXCEPT !.in = << >>] OBVIOUS
<1>12. c2 \in Conn /\ c2.out = c.out /\ c2.node = c.node /\ c2.fwd = c.fwd
  <2>1. << >> \in Seq(Unit) OBVIOUS
  <2> QED BY <1>11, <2>1 DEF Conn
<1>13. conn' = [conn EXCEPT ![fd] = c2] /\ conn \in [1..MaxConn -> Conn] BY <1>2, <1>10, <1>11, Known DEF Typed
<1>14. conn' \in [1..MaxConn -> Conn] /\ conn'[fd] = c2 /\ \A k \in 1..MaxConn : k # fd => conn'[k] = conn[k]
  BY <1>12, <1>13
<1>15. Typed(conn', slave', names', local') BY <1>2, <1>9, <1>14, Known DEF Typed
<1>16. Now' = Now
  <2>1. PICK X : X = {} OBVIOUS
  <2>2. \A k \in 1..MaxConn : conn'[k].out = conn[k].out BY <1>10, <1>12, <1>14
  <2>3. \A i \in Node \cup {Self} : slave'[i].queue = slave[i].queue BY <1>4, <1>7, <1>9
  <2>4. \A q \in Places \ X : Now'[q] = Now[q] BY <1>2, <1>15, <2>2, <2>3, NowElsewhere
  <2>5. Now \in [Places -> Seq(Nat)] /\ Now' \in [Places -> Seq(Nat)] BY <1>15, NowForm, NextForm
  <2> QED BY <2>1, <2>4, <2>5
<1>17. InboxOK' /\ Taken' = Taken /\ Vals' = Vals BY <1>2, Known DEF InboxOK, Taken, Vals
<1>18. ASSUME NEW i \in Node PROVE SlaveFits(slave'[i], i, nconn', conn', dests')
  <2>1. CASE i = id
    <3>1. SlaveFits(s2, id, nconn, conn', dests)
      <4>1. s.status # "wait" BY <1>2, <1>4, <1>5 DEF SlaveFits
      <4> QED BY <1>7, <4>1 DEF SlaveFits
    <3> QED BY <1>2, <1>9, <2>1, <3>1
  <2>2. CASE i # id
    <3>1. SlaveFits(slave[i], i, nconn', conn', dests)
      <4>1. fd > 0 /\ slave[id].fd = fd BY <1>2
      <4> QED BY <1>2, <1>3, <1>14, <2>2, <4>1, OthersKept
    <3> QED BY <1>2, <1>9, <2>2, <3>1
  <2> QED BY <2>1, <2>2
<1>19. SlavesOK'
  <2>1. slave'[Self] = slave[Self] BY <1>5, <1>9
  <2> QED BY <1>18, <2>1 DEF SlavesOK, MessagesInv
<1>20. HarborShape' BY <1>2, <1>15, Known DEF HarborShape
<1>21. ConnsOK' BY <1>2, <1>10, <1>12, <1>14, ConnsSent
<1>22. Good(Now, Taken, dests)' /\ NamesFit(Now, dests, Vals)' BY <1>2, <1>16, <1>17, Known
<1> QED BY <1>17, <1>19, <1>20, <1>21, <1>22 DEF MessagesInv

\* The messages of a node on the wire.
LEMMA FrameForm ==
    ASSUME NEW m \in Nat
    PROVE  /\ Size(m) \in Nat \ {0} /\ Header(m) \in Seq(Unit) /\ Body(m) \in Seq(Unit) /\ Frame(m) \in Seq(Unit)
           /\ Len(Header(m)) = HeaderLen /\ Len(Body(m)) = Size(m)
<1>1. PICK z \in Nat \ {0} : z = Size(m)
  <2>1. PICK n \in Nat : n = Len(Sizes) /\ n > 0 BY HarborAssumption
  <2>2. m % n \in 0..(n - 1) BY <2>1, DivMod
  <2>3. 1 + (m % n) \in 1..n BY <2>1, <2>2
  <2>4. \A i \in 1..n : Sizes[i] \in Nat \ {0} BY <2>1, HarborAssumption
  <2> QED BY <2>1, <2>3, <2>4 DEF Size
<1>2. PICK k \in Nat : k = HeaderLen BY HarborAssumption
<1>4. Header(m) \in Seq(Unit) /\ Len(Header(m)) = k
  <2>1. Header(m) = [i \in 1..k |-> <<"len", m, i>>] BY <1>2 DEF Header
  <2>2. ASSUME NEW i \in 1..k PROVE <<"len", m, i>> \in Unit
    <3>1. i \in Nat BY <1>2
    <3> QED BY <3>1 DEF Unit
  <2> QED BY <1>2, <2>1, <2>2
<1>5. Body(m) \in Seq(Unit) /\ Len(Body(m)) = z
  <2>1. Body(m) = [i \in 1..z |-> <<"body", m, i>>] BY <1>1 DEF Body
  <2>2. ASSUME NEW i \in 1..z PROVE <<"body", m, i>> \in Unit
    <3>1. i \in Nat BY <1>1
    <3> QED BY <3>1 DEF Unit
  <2> QED BY <1>1, <2>1, <2>2
<1>6. Frame(m) \in Seq(Unit) BY <1>4, <1>5, ConcatProperties DEF Frame
<1> QED BY <1>1, <1>2, <1>4, <1>5, <1>6

IsFrames(f, k) ==
    f \in [0..k -> Seq(Unit)] /\ f[0] = << >> /\ \A j \in 1..k : f[j] = Frame(k + 1 - j) \o f[j - 1]

LEMMA FramesForm == ASSUME NEW k \in Nat PROVE IsFrames(LastFrames(k), k)
<1> DEFINE step == [i \in 1..k |-> [t \in Seq(Unit) |-> Frame(k + 1 - i) \o t]]
<1>2. step \in [1..k -> [Seq(Unit) -> Seq(Unit)]]
  <2>1. ASSUME NEW i \in 1..k, NEW u \in Seq(Unit) PROVE Frame(k + 1 - i) \o u \in Seq(Unit)
    <3>1. PICK m \in Nat : m = k + 1 - i OBVIOUS
    <3>2. Frame(m) \in Seq(Unit) BY FrameForm
    <3> QED BY <3>1, <3>2, ConcatProperties
  <2> QED BY <2>1
<1>3. << >> \in Seq(Unit) OBVIOUS
<1>4. PICK f \in [0..k -> Seq(Unit)] : f[0] = << >> /\ \A i \in 1..k : f[i] = step[i][f[i - 1]]
  <2> HIDE DEF step
  <2>1. PICK st, e, S : st = step /\ e = << >> /\ S = Seq(Unit) OBVIOUS
  <2>2. HasRun(k, S, e, st) BY <1>2, <1>3, <2>1, Rounds
  <2> QED BY <2>1, <2>2 DEF HasRun
<1>5. \A i \in 1..k : f[i] = Frame(k + 1 - i) \o f[i - 1]
  <2> SUFFICES ASSUME NEW i \in 1..k PROVE f[i] = Frame(k + 1 - i) \o f[i - 1] OBVIOUS
  <2>1. i - 1 \in 0..k OBVIOUS
  <2>2. f[i - 1] \in Seq(Unit) BY <2>1, <1>4
  <2> QED BY <1>4, <2>2
<1> HIDE DEF step
<1>6. f = [i \in 0..k |-> IF i = 0 THEN << >> ELSE Frame(k + 1 - i) \o f[i - 1]]
  <2>1. ASSUME NEW i \in 0..k PROVE f[i] = IF i = 0 THEN << >> ELSE Frame(k + 1 - i) \o f[i - 1]
    <3>1. i # 0 => i \in 1..k OBVIOUS
    <3> QED BY <1>4, <1>5, <3>1
  <2> QED BY <1>4, <2>1
<1> DEFINE g == CHOOSE e : e = [i \in 0..k |-> IF i = 0 THEN << >> ELSE Frame(k + 1 - i) \o e[i - 1]]
<1>7. g = [i \in 0..k |-> IF i = 0 THEN << >> ELSE Frame(k + 1 - i) \o g[i - 1]]
  BY ZenonT(60), <1>6
<1>8. LastFrames(k) = g BY DEF LastFrames
<1> HIDE DEF g
<1>9. PICK e : e = g OBVIOUS
<1>10. e = [i \in 0..k |-> IF i = 0 THEN << >> ELSE Frame(k + 1 - i) \o e[i - 1]] BY <1>7, <1>9
<1>11. 0 \in 0..k /\ \A i \in 1..k : i \in 0..k /\ i # 0 OBVIOUS
<1>12. e[0] = << >> /\ \A i \in 1..k : e[i] = Frame(k + 1 - i) \o e[i - 1] BY <1>10, <1>11
<1>13. \A i \in 0..k : e[i] \in Seq(Unit)
  <2> DEFINE G == {i \in 0..k : e[i] \in Seq(Unit)}
  <2>1. 0 \in G BY <1>3, <1>11, <1>12
  <2>2. ASSUME NEW i \in 1..k, i - 1 \in G PROVE i \in G
    <3>1. PICK m \in Nat : m = k + 1 - i OBVIOUS
    <3>2. Frame(m) \in Seq(Unit) BY FrameForm
    <3>3. e[i - 1] \in Seq(Unit) BY <2>2
    <3>4. e[i] \in Seq(Unit) BY ZenonT(60), <1>12, <3>1, <3>2, <3>3, ConcatProperties
    <3> QED BY <3>4
  <2> HIDE DEF G
  <2>3. \A i \in 0..k : i \in G BY <2>1, <2>2, EveryRound
  <2> QED BY <2>3 DEF G
<1>14. e \in [0..k -> Seq(Unit)] BY <1>10, <1>13
<1> QED BY <1>8, <1>9, <1>12, <1>14 DEF IsFrames

LEMMA AddConnectionInv ==
    ASSUME MessagesInv, NEW cmd \in {"S", "A"}, NEW id \in Node, NEW who \in Node \cup {Self},
           NEW k \in 1..MaxIn, AddConnection(cmd, id, who, k)
    PROVE  MessagesInv'
<1>1. PICK fd \in 1..MaxConn : fd = nconn + 1 BY Known DEF AddConnection
<1>2. /\ nconn' = fd /\ slave[id].fd <= 0 /\ nconn < fd /\ nconn \in Nat
      /\ names' = names /\ inbox' = inbox /\ dests' = dests /\ local' = local /\ crashed' = crashed
  BY <1>1, Known DEF AddConnection
<1>3. PICK s0 \in Slave : s0 = slave[id] BY SlaveKnown
<1>4. s0.queue \in Rings \cup {NULL} /\ id # Self BY <1>3, SlaveKnown
<1>5. PICK s : s = [s0 EXCEPT !.fd = fd] OBVIOUS
<1>6. s \in Slave /\ s.fd = fd /\ s.queue = s0.queue
  <2>1. fd \in -1..MaxConn BY Known
  <2> QED BY <1>5, <2>1 DEF Slave
<1>7. PICK s2 : s2 = IF cmd = "S" THEN [s EXCEPT !.status = "handshake"] ELSE Connected(s) OBVIOUS
<1>8. /\ s2 \in Slave /\ s2.fd = fd /\ s2.status \in {"handshake", "header"}
      /\ cmd = "S" => s2.queue = s.queue /\ s2.status = "handshake"
      /\ cmd = "A" => s2.queue = NULL /\ s2.status = "header"
  <2>1. CASE cmd = "S" BY <1>6, <1>7, <2>1 DEF Slave
  <2>2. CASE cmd = "A" BY <1>6, <1>7, <2>2 DEF Slave, Connected
  <2> QED BY <2>1, <2>2
<1>9. PICK in : in = (IF cmd = "S" THEN <<<<"id", who>>>> ELSE << >>) \o LastFrames(k)[k] OBVIOUS
<1>10. in \in Seq(Unit)
  <2>1. LastFrames(k)[k] \in Seq(Unit)
    <3>1. k \in Nat /\ k \in 0..k BY HarborAssumption
    <3>2. IsFrames(LastFrames(k), k) BY <3>1, FramesForm
    <3> QED BY <3>1, <3>2 DEF IsFrames
  <2>2. PICK a : a = IF cmd = "S" THEN <<<<"id", who>>>> ELSE << >> OBVIOUS
  <2>3. a \in Seq(Unit)
    <3>1. <<"id", who>> \in Unit BY DEF Unit
    <3> QED BY <2>2, <3>1
  <2> QED BY <1>9, <2>1, <2>2, <2>3, ConcatProperties
<1>11. PICK o \in Seq(Nat) : o = IF cmd = "S" THEN << >> ELSE Contents(s0.queue)
  <2>1. << >> \in Seq(Nat) OBVIOUS
  <2>2. Contents(s0.queue) \in Seq(Nat) BY <1>4, ContentsType
  <2> QED BY <2>1, <2>2
<1>12. PICK b \in BOOLEAN : b = (s.got = << >>) OBVIOUS
<1>13. PICK c2 : c2 = [node |-> id, in |-> in, out |-> o, fwd |-> << >>, clean |-> b] OBVIOUS
<1>14. c2 \in Conn /\ c2.node = id /\ c2.out = o
  <2>1. << >> \in Seq(Seq(Unit)) OBVIOUS
  <2> QED BY <1>10, <1>13, <2>1 DEF Conn
<1>15. slave' = [slave EXCEPT ![id] = s2] /\ conn' = [conn EXCEPT ![fd] = c2]
  BY <1>1, <1>3, <1>5, <1>6, <1>7, <1>9, <1>11, <1>12, <1>13 DEF AddConnection, DispatchQueue
<1>16. slave \in [Node \cup {Self} -> Slave] /\ conn \in [1..MaxConn -> Conn] BY Known DEF Typed
<1>17. slave'[id] = s2 /\ slave' \in [Node \cup {Self} -> Slave] /\ \A i \in Node \cup {Self} : i # id => slave'[i] = slave[i]
  BY <1>8, <1>15, <1>16
<1>18. conn' \in [1..MaxConn -> Conn] /\ conn'[fd] = c2 /\ \A i \in 1..MaxConn : i # fd => conn'[i] = conn[i]
  BY <1>14, <1>15, <1>16
<1>19. Typed(conn', slave', names', local') BY <1>2, <1>17, <1>18, Known DEF Typed
<1>20. InboxOK' /\ Taken' = Taken /\ Vals' = Vals BY <1>2, Known DEF InboxOK, Taken, Vals
<1>21. conn[fd].out = << >> BY <1>2 DEF MessagesInv, ConnsOK, ConnFits
<1>22. Good(Now, Taken, dests') /\ NamesFit(Now, dests', Vals) BY <1>2, Known
<1>23. Good(Now, Taken, dests)' /\ NamesFit(Now, dests, Vals)'
  <2>1. CASE cmd = "S"
    <3>1. PICK X : X = {} OBVIOUS
    <3>2. \A i \in 1..MaxConn : conn'[i].out = conn[i].out BY <1>11, <1>14, <1>18, <1>21, <2>1
    <3>3. \A i \in Node \cup {Self} : slave'[i].queue = slave[i].queue BY <1>3, <1>6, <1>8, <1>17, <2>1
    <3>4. \A q \in Places \ X : Now'[q] = Now[q] BY <1>2, <1>19, <3>2, <3>3, NowElsewhere
    <3>5. Now \in [Places -> Seq(Nat)] /\ Now' \in [Places -> Seq(Nat)] BY <1>19, NowForm, NextForm
    <3>6. Now' = Now BY <3>1, <3>4, <3>5
    <3> QED BY <1>20, <1>22, <3>6
  <2>2. CASE cmd = "A"
    <3>1. PICK X : X = {<<"slave", id>>, <<"conn", fd>>} OBVIOUS
    <3>2. \A i \in 1..MaxConn : <<"conn", i>> \notin X => conn'[i].out = conn[i].out BY <1>18, <3>1
    <3>3. \A i \in Node \cup {Self} : <<"slave", i>> \notin X => slave'[i].queue = slave[i].queue BY <1>17, <3>1
    <3>4. \A q \in Places \ X : Now'[q] = Now[q] BY <1>2, <1>19, <3>2, <3>3, NowElsewhere
    <3>5. slave'[id].queue = NULL BY <1>8, <1>17, <2>2
    <3>6. conn'[fd].out = conn[fd].out \o Contents(slave[id].queue)
      <4>1. conn'[fd].out = Contents(s0.queue) BY <1>11, <1>14, <1>18, <2>2
      <4>2. PICK u \in Seq(Nat) : u = Contents(s0.queue) BY <1>4, ContentsType
      <4>3. << >> \o u = u OBVIOUS
      <4> QED BY <1>3, <1>21, <4>1, <4>2, <4>3
    <3>7. Precedes(conn[fd].out, Contents(slave[id].queue), dests') BY <1>21, EmptyPrecedes
    <3> QED BY <1>19, <1>20, <1>22, <3>1, <3>4, <3>5, <3>6, <3>7, SlaveMoved
  <2> QED BY <2>1, <2>2
<1>24. SlaveFits(s2, id, nconn', conn', dests')
  <2>1. cmd = "S" => Precedes(conn'[fd].out, Contents(s2.queue), dests') BY <1>11, <1>14, <1>18, EmptyPrecedes
  <2>2. cmd = "A" => Contents(s2.queue) = << >> BY <1>8, NoRing
  <2>3. cmd = "A" => Precedes(conn'[fd].out, Contents(s2.queue), dests') BY <2>2, EmptyPrecedes
  <2>4. fd > 0 OBVIOUS
  <2> QED BY <1>2, <1>8, <1>14, <1>18, <2>1, <2>2, <2>3, <2>4 DEF SlaveFits
<1>25. ASSUME NEW i \in Node PROVE SlaveFits(slave'[i], i, nconn', conn', dests')
  <2>1. CASE i = id BY <1>17, <1>24, <2>1
  <2>2. CASE i # id
    <3>1. PICK u \in Slave : u = slave[i] /\ SlaveFits(u, i, nconn, conn, dests) BY SlaveKnown
    <3>2. u.fd > 0 => u.fd \in 1..MaxConn /\ u.fd # fd
      BY <1>2, <3>1, SlaveKnown DEF SlaveFits
    <3>3. PICK c, e, n1, n2, ds : c = conn /\ e = conn' /\ n1 = nconn /\ n2 = nconn' /\ ds = dests OBVIOUS
    <3>4. u.fd > 0 => e[u.fd].out = c[u.fd].out /\ e[u.fd].node = c[u.fd].node BY <1>18, <3>2, <3>3
    <3>5. n1 \in Nat /\ n2 \in Nat /\ n1 <= n2 /\ SlaveFits(u, i, n1, c, ds) BY <1>2, <3>1, <3>3
    <3>6. SlaveFits(u, i, n2, e, ds) BY <3>1, <3>4, <3>5, SlaveKept
    <3> QED BY <1>2, <1>17, <2>2, <3>1, <3>3, <3>6
  <2> QED BY <2>1, <2>2
<1>26. SlavesOK'
  <2>1. slave'[Self] = slave[Self] BY <1>4, <1>17
  <2> QED BY <1>25, <2>1 DEF SlavesOK, MessagesInv
<1>27. HarborShape'
  <2>1. nconn' \in 0..MaxConn BY <1>2
  <2> QED BY <1>2, <1>19, <2>1, Known DEF HarborShape
<1>28. ConnsOK'
  <2>1. ASSUME NEW i \in 1..MaxConn PROVE ConnFits(conn'[i], i, nconn')
    <3>1. CASE i = fd
      <4>1. ~(fd > fd) OBVIOUS
      <4> QED BY <1>2, <1>14, <1>18, <3>1, <4>1 DEF ConnFits
    <3>2. CASE i # fd
      <4>1. ConnFits(conn[i], i, nconn) /\ conn'[i] = conn[i] BY <1>18, <3>2 DEF MessagesInv, ConnsOK
      <4>2. (i > fd => i > nconn) /\ (i <= fd => i <= nconn) BY <1>1, <1>2, <3>2
      <4> QED BY <1>2, <4>1, <4>2 DEF ConnFits
    <3> QED BY <3>1, <3>2
  <2> QED BY <2>1 DEF ConnsOK
<1> QED BY <1>20, <1>23, <1>26, <1>27, <1>28 DEF MessagesInv

-----------------------------------------------------------------------------
(* push_socket_data.                                                       *)

Loop == [s : Slave, buf : Seq(Unit), on : BOOLEAN, sent : Seq(Nat), fwd : Seq(Seq(Unit)), crash : BOOLEAN]
Loops == {a \in Loop : a.s.status = "handshake" => a.buf # << >>}

LoopOf(s, buf, on, sent, fwd, crash) ==
    [s |-> s, buf |-> buf, on |-> on, sent |-> sent, fwd |-> fwd, crash |-> crash]
\* The loop goes on while there is something to read.
GoOn(s, buf, sent, fwd, crash) ==
    [s |-> s, buf |-> buf, on |-> buf # << >>, sent |-> sent, fwd |-> fwd, crash |-> crash]
IsLoop(b, s, buf, on, sent, fwd, crash) ==
    /\ b \in Loops /\ b.s = s /\ b.buf = buf /\ b.on = on /\ b.sent = sent /\ b.fwd = fwd /\ b.crash = crash

LEMMA LoopMade ==
    ASSUME NEW s2 \in Slave, s2.status # "handshake", NEW buf \in Seq(Unit), NEW on \in BOOLEAN,
           NEW sent \in Seq(Nat), NEW fwd \in Seq(Seq(Unit)), NEW crash \in BOOLEAN, NEW b,
           b = LoopOf(s2, buf, on, sent, fwd, crash)
    PROVE  IsLoop(b, s2, buf, on, sent, fwd, crash)
  BY DEF Loops, Loop, LoopOf, IsLoop

Goes(b, s, buf, sent, fwd, crash) ==
    /\ b \in Loops /\ b.s = s /\ b.buf = buf /\ b.sent = sent /\ b.fwd = fwd /\ b.crash = crash
    /\ b.on <=> buf # << >>

LEMMA GoesOn ==
    ASSUME NEW s2 \in Slave, s2.status # "handshake", NEW buf \in Seq(Unit),
           NEW sent \in Seq(Nat), NEW fwd \in Seq(Seq(Unit)), NEW crash \in BOOLEAN, NEW b,
           b = GoOn(s2, buf, sent, fwd, crash)
    PROVE  Goes(b, s2, buf, sent, fwd, crash)
  BY DEF Loops, Loop, GoOn, Goes

LEMMA LoopParts ==
    ASSUME NEW a \in Loops
    PROVE  /\ a.s \in Slave /\ a.buf \in Seq(Unit) /\ a.on \in BOOLEAN /\ a.sent \in Seq(Nat)
           /\ a.fwd \in Seq(Seq(Unit)) /\ a.crash \in BOOLEAN
           /\ a = LoopOf(a.s, a.buf, a.on, a.sent, a.fwd, a.crash)
           /\ a.s.status = "handshake" => a.buf # << >>
           /\ a.s.status \in {"wait", "handshake", "header", "content", "down"} /\ a.s.queue \in Rings \cup {NULL}
           /\ a.s.length \in Nat /\ a.s.got \in Seq(Unit) /\ Need(a.s) \in Int /\ Len(a.buf) \in Nat
<1>1. /\ a.s \in Slave /\ a.buf \in Seq(Unit) /\ a.on \in BOOLEAN /\ a.sent \in Seq(Nat)
      /\ a.fwd \in Seq(Seq(Unit)) /\ a.crash \in BOOLEAN
      /\ a = LoopOf(a.s, a.buf, a.on, a.sent, a.fwd, a.crash)
      /\ a.s.status = "handshake" => a.buf # << >>
  BY DEF Loops, Loop, LoopOf
<1>2. /\ a.s.status \in {"wait", "handshake", "header", "content", "down"} /\ a.s.queue \in Rings \cup {NULL}
      /\ a.s.length \in Nat /\ a.s.got \in Seq(Unit)
  BY <1>1 DEF Slave
<1>3. Need(a.s) \in Int
  <2>1. Len(a.s.got) \in Nat /\ HeaderLen \in Nat BY <1>2, HarborAssumption
  <2> QED BY SMTT(60), <1>2, <2>1 DEF Need
<1>4. Len(a.buf) \in Nat BY <1>1
<1> QED BY <1>1, <1>2, <1>3, <1>4

\* The content has been read, or some of it.
FrameEnd(s) == [s EXCEPT !.status = "header", !.length = 0, !.got = << >>]
GotMore(s, x) == [s EXCEPT !.got = s.got \o x]

\* The branches of a round.
LEMMA RoundRefused ==
    ASSUME NEW a \in Loops, a.s.status = "handshake", NEW id, NEW b, b = Round(a, id), a.buf[1] # <<"id", id>>
    PROVE  b = LoopOf(Closed(a.s), a.buf, FALSE, a.sent, a.fwd, a.crash)
<1>1. b = [a EXCEPT !.s = Closed(a.s), !.on = FALSE] BY DEF Round
<1> QED BY <1>1, LoopParts DEF LoopOf
LEMMA RoundConnected ==
    ASSUME NEW a \in Loops, a.on, a.s.status = "handshake", NEW id, NEW b, b = Round(a, id), a.buf[1] = <<"id", id>>
    PROVE  b = LoopOf(Connected(a.s), Tail(a.buf), TRUE, Contents(a.s.queue), a.fwd, a.crash)
<1>1. b = [a EXCEPT !.s = Connected(a.s), !.buf = Tail(a.buf), !.sent = Contents(a.s.queue)]
  BY DEF Round, DispatchQueue
<1> QED BY <1>1, LoopParts DEF LoopOf
LEMMA RoundCrash ==
    ASSUME NEW a \in Loops, a.s.status \in {"header", "content"}, Need(a.s) < 0, NEW id, NEW b, b = Round(a, id)
    PROVE  b = LoopOf(a.s, a.buf, FALSE, a.sent, a.fwd, TRUE)
<1>1. PICK z \in Int : z = Need(a.s) BY LoopParts
<1>2. PICK l \in Nat : l = Len(a.buf) BY LoopParts
<1>3. z < 0 /\ z \notin 0..l BY <1>1, <1>2
<1>4. b = [a EXCEPT !.crash = TRUE, !.on = FALSE] BY <1>1, <1>2, <1>3 DEF Round
<1> QED BY <1>4, LoopParts DEF LoopOf
LEMMA RoundShort ==
    ASSUME NEW a \in Loops, a.s.status \in {"header", "content"}, ~(Need(a.s) < 0), Len(a.buf) < Need(a.s),
           NEW id, NEW b, b = Round(a, id)
    PROVE  b = LoopOf(GotMore(a.s, a.buf), a.buf, FALSE, a.sent, a.fwd, a.crash)
<1>1. PICK z \in Int : z = Need(a.s) BY LoopParts
<1>2. PICK l \in Nat : l = Len(a.buf) BY LoopParts
<1>3. ~(z < 0) /\ l < z /\ z \notin 0..l BY <1>1, <1>2
<1>4. b = [a EXCEPT !.s.got = a.s.got \o a.buf, !.on = FALSE] BY <1>1, <1>2, <1>3 DEF Round
<1> QED BY <1>4, LoopParts DEF LoopOf, GotMore
LEMMA RoundHeader ==
    ASSUME NEW a \in Loops, a.s.status = "header", Need(a.s) \in 0..Len(a.buf), NEW id, NEW b, b = Round(a, id),
           NEW all, all = a.s.got \o SubSeq(a.buf, 1, Need(a.s)),
           NEW rest, rest = SubSeq(a.buf, Need(a.s) + 1, Len(a.buf))
    PROVE  b = IF HeaderOf(all) = 0 THEN LoopOf(Closed(a.s), a.buf, FALSE, a.sent, a.fwd, a.crash)
               ELSE GoOn(NewFrame(a.s, Size(HeaderOf(all))), rest, a.sent, a.fwd, a.crash)
<1>1. PICK z \in Int : z = Need(a.s) BY LoopParts
<1>2. PICK l \in Nat : l = Len(a.buf) BY LoopParts
<1>3. ~(z < 0) /\ ~(l < z) /\ z \in 0..l BY <1>1, <1>2
<1>4. b = IF HeaderOf(all) = 0 THEN [a EXCEPT !.s = Closed(a.s), !.on = FALSE]
          ELSE [a EXCEPT !.s = NewFrame(a.s, Size(HeaderOf(all))), !.buf = rest, !.on = rest # << >>]
  BY <1>1, <1>2, <1>3 DEF Round
<1> QED BY <1>4, LoopParts DEF LoopOf, GoOn
LEMMA RoundContent ==
    ASSUME NEW a \in Loops, a.s.status = "content", Need(a.s) \in 0..Len(a.buf), NEW id, NEW b, b = Round(a, id),
           NEW all, all = a.s.got \o SubSeq(a.buf, 1, Need(a.s)),
           NEW rest, rest = SubSeq(a.buf, Need(a.s) + 1, Len(a.buf))
    PROVE  b = GoOn(FrameEnd(a.s), rest, a.sent, Append(a.fwd, all), a.crash)
<1>1. PICK z \in Int : z = Need(a.s) BY LoopParts
<1>2. PICK l \in Nat : l = Len(a.buf) BY LoopParts
<1>3. ~(z < 0) /\ ~(l < z) /\ z \in 0..l BY <1>1, <1>2
<1>4. b = [a EXCEPT !.s = [a.s EXCEPT !.status = "header", !.length = 0, !.got = << >>],
                    !.fwd = Append(a.fwd, all), !.buf = rest, !.on = rest # << >>]
  BY <1>1, <1>2, <1>3 DEF Round
<1> QED BY <1>4, LoopParts DEF LoopOf, GoOn, FrameEnd
LEMMA RoundNone ==
    ASSUME NEW a \in Loops, a.s.status \in {"wait", "down"}, NEW id, NEW b, b = Round(a, id)
    PROVE  b = LoopOf(a.s, a.buf, FALSE, a.sent, a.fwd, a.crash)
<1>1. b = [a EXCEPT !.on = FALSE] BY DEF Round
<1> QED BY <1>1, LoopParts DEF LoopOf

LEMMA SlaveEdits ==
    ASSUME NEW s \in Slave
    PROVE  /\ Closed(s) \in Slave /\ Closed(s).fd = s.fd /\ Closed(s).status = "down" /\ Closed(s).queue = NULL
           /\ Connected(s) \in Slave /\ Connected(s).fd = s.fd /\ Connected(s).status = "header"
           /\ Connected(s).queue = NULL /\ Connected(s).got = s.got
           /\ \A z \in Nat : LET u == NewFrame(s, z) IN
                /\ u \in Slave /\ u.fd = s.fd /\ u.status = "content" /\ u.queue = s.queue
                /\ u.length = z /\ u.got = << >>
<1>0. << >> \in Seq(Unit) /\ 0 \in Nat OBVIOUS
<1>1. Closed(s) \in Slave /\ Closed(s).fd = s.fd /\ Closed(s).status = "down" /\ Closed(s).queue = NULL
  BY DEF Closed, Slave
<1>2. /\ Connected(s) \in Slave /\ Connected(s).fd = s.fd /\ Connected(s).status = "header"
      /\ Connected(s).queue = NULL /\ Connected(s).got = s.got
  BY DEF Connected, Slave
<1>3. ASSUME NEW z \in Nat
      PROVE  /\ NewFrame(s, z) \in Slave /\ NewFrame(s, z).fd = s.fd /\ NewFrame(s, z).status = "content"
             /\ NewFrame(s, z).queue = s.queue /\ NewFrame(s, z).length = z /\ NewFrame(s, z).got = << >>
  BY <1>0 DEF NewFrame, Slave
<1> QED BY <1>1, <1>2, <1>3

LEMMA FrameEndParts ==
    ASSUME NEW s \in Slave, NEW u, u = FrameEnd(s)
    PROVE  u \in Slave /\ u.fd = s.fd /\ u.status = "header" /\ u.queue = s.queue /\ u.length = 0 /\ u.got = << >>
<1>0. << >> \in Seq(Unit) /\ 0 \in Nat OBVIOUS
<1> QED BY <1>0 DEF FrameEnd, Slave

LEMMA GotMoreParts ==
    ASSUME NEW s \in Slave, NEW x \in Seq(Unit), NEW u, u = GotMore(s, x)
    PROVE  /\ u \in Slave /\ u.fd = s.fd /\ u.status = s.status /\ u.queue = s.queue
           /\ u.length = s.length /\ u.got = s.got \o x
<1>1. s.got \o x \in Seq(Unit)
  <2>1. s.got \in Seq(Unit) BY DEF Slave
  <2> QED BY <2>1, ConcatProperties
<1> QED BY <1>1 DEF GotMore, Slave

\* What was read and what is left.
Parted(S, got, buf, z) ==
    /\ SubSeq(buf, 1, z) \in Seq(S)
    /\ got \o SubSeq(buf, 1, z) \in Seq(S) /\ Len(got \o SubSeq(buf, 1, z)) = Len(got) + z
    /\ SubSeq(buf, z + 1, Len(buf)) \in Seq(S) /\ Len(SubSeq(buf, z + 1, Len(buf))) = Len(buf) - z
    /\ SubSeq(buf, 1, z) \o SubSeq(buf, z + 1, Len(buf)) = buf
LEMMA ReadParts ==
    ASSUME NEW S, NEW got \in Seq(S), NEW buf \in Seq(S), NEW z, z \in 0..Len(buf)
    PROVE  Parted(S, got, buf, z)
<1>1. PICK u, v : u = SubSeq(buf, 1, z) /\ v = SubSeq(buf, z + 1, Len(buf)) OBVIOUS
<1>2. z \in Nat /\ Len(buf) \in Nat /\ Len(got) \in Nat OBVIOUS
<1>3. u \in Seq(S) /\ Len(u) = z BY <1>1, <1>2
<1>4. v \in Seq(S) /\ Len(v) = Len(buf) - z BY <1>1, <1>2
<1>5. got \o u \in Seq(S) /\ Len(got \o u) = Len(got) + z BY <1>3, ConcatProperties
<1>6. u \o v = buf
  <2>1. 1 \in 1..(Len(buf) + 1) /\ z \in (1 - 1)..Len(buf) /\ Len(buf) \in z..Len(buf) BY <1>2
  <2>2. u \o v = SubSeq(buf, 1, Len(buf)) BY <1>1, <2>1, ConcatAdjacentSubSeq
  <2> QED BY <2>2, SubSeqFull
<1> QED BY <1>1, <1>3, <1>4, <1>5, <1>6 DEF Parted

LEMMA HeaderSize == ASSUME NEW u, HeaderOf(u) # 0 PROVE Size(HeaderOf(u)) \in Nat
<1>1. PICK m \in 1..MaxIn : u = Header(m) /\ HeaderOf(u) = u[1][2] BY DEF HeaderOf
<1>2. u[1] = <<"len", m, 1>>
  <2>1. 1 \in 1..HeaderLen BY HarborAssumption
  <2> QED BY <1>1, <2>1 DEF Header
<1>3. HeaderOf(u) = m /\ m \in Nat BY <1>1, <1>2, HarborAssumption
<1>4. Size(m) \in Nat \ {0} BY <1>3, FrameForm
<1> QED BY <1>3, <1>4

LEMMA RoundKeeps ==
    ASSUME NEW a \in Loops, NEW id, NEW b, a.on, b = Round(a, id), a.sent = << >> \/ a.s.status # "handshake"
    PROVE  /\ b \in Loops /\ b.s.fd = a.s.fd /\ b.s.status # "handshake"
           /\ a.s.status # "wait" => b.s.status # "wait"
           /\ \/ /\ b.s.queue = a.s.queue /\ b.sent = a.sent /\ a.s.status # "handshake"
                 /\ a.s.status = "down" => b.s.status = "down"
              \/ b.s.queue = NULL /\ b.sent = a.sent /\ b.s.status = "down"
              \/ b.s.queue = NULL /\ b.sent = Contents(a.s.queue) /\ a.s.status = "handshake"
<1>0. PICK s \in Slave, buf \in Seq(Unit), sent \in Seq(Nat), fwd \in Seq(Seq(Unit)), cr \in BOOLEAN :
         /\ a.s = s /\ a.buf = buf /\ a.sent = sent /\ a.fwd = fwd /\ a.crash = cr
  BY LoopParts
<1>1. /\ s.status = "handshake" => buf # << >>
      /\ s.status \in {"wait", "handshake", "header", "content", "down"} /\ s.queue \in Rings \cup {NULL}
      /\ s.length \in Nat /\ s.got \in Seq(Unit) /\ Need(s) \in Int /\ Len(buf) \in Nat
  BY <1>0, LoopParts
<1>t. TRUE \in BOOLEAN /\ FALSE \in BOOLEAN OBVIOUS
<1>2. CASE s.status = "handshake"
  <2>2. CASE buf[1] # <<"id", id>>
    <3>1. PICK s2 \in Slave : s2 = Closed(s) /\ s2.fd = s.fd /\ s2.status = "down" /\ s2.queue = NULL BY SlaveEdits
    <3>2. b = LoopOf(s2, buf, FALSE, sent, fwd, cr)
      BY <1>0, <1>2, <2>2, <3>1, RoundRefused
    <3>3. b \in Loops /\ b.s = s2 /\ b.sent = sent
      <4>1. IsLoop(b, s2, buf, FALSE, sent, fwd, cr) BY ZenonT(60), <1>0, <1>t, <3>1, <3>2, LoopMade
      <4> QED BY <4>1 DEF IsLoop
    <3> QED BY <1>0, <3>1, <3>3
  <2>3. CASE buf[1] = <<"id", id>>
    <3>1. PICK s2 \in Slave : s2 = Connected(s) /\ s2.fd = s.fd /\ s2.status = "header" /\ s2.queue = NULL BY SlaveEdits
    <3>5. buf # << >> /\ Contents(s.queue) \in Seq(Nat) BY <1>1, <1>2, ContentsType
    <3>6. Tail(buf) \in Seq(Unit) BY <1>0, <3>5, HeadTailProperties
    <3>4. PICK u \in Seq(Unit), w \in Seq(Nat) : u = Tail(buf) /\ w = Contents(s.queue) BY <3>5, <3>6
    <3>2. b = LoopOf(s2, u, TRUE, w, fwd, cr)
      BY <1>0, <1>2, <2>3, <3>1, <3>4, RoundConnected
    <3>3. b \in Loops /\ b.s = s2 /\ b.sent = w
      <4>1. IsLoop(b, s2, u, TRUE, w, fwd, cr) BY ZenonT(60), <1>0, <1>t, <3>1, <3>2, <3>4, LoopMade
      <4> QED BY <4>1 DEF IsLoop
    <3> QED BY <1>0, <1>2, <3>1, <3>3, <3>4
  <2> QED BY <2>2, <2>3
<1>3. CASE s.status \in {"header", "content"} /\ Need(s) < 0
  <2>2. b = LoopOf(s, buf, FALSE, sent, fwd, TRUE) BY <1>0, <1>3, RoundCrash
  <2>3. b \in Loops /\ b.s = s /\ b.sent = sent
    <3>1. IsLoop(b, s, buf, FALSE, sent, fwd, TRUE) BY <1>0, <1>3, <1>t, <2>2, LoopMade
    <3> QED BY <3>1 DEF IsLoop
  <2> QED BY <1>0, <1>3, <2>3
<1>4. CASE s.status \in {"header", "content"} /\ ~(Need(s) < 0) /\ Len(buf) < Need(s)
  <2>3. PICK s2 : s2 = GotMore(s, buf) OBVIOUS
  <2>4. s2 \in Slave /\ s2.fd = s.fd /\ s2.status = s.status /\ s2.queue = s.queue BY <1>0, <2>3, GotMoreParts
  <2>5. b = LoopOf(s2, buf, FALSE, sent, fwd, cr)
    BY <1>0, <1>4, <2>3, RoundShort
  <2>6. b \in Loops /\ b.s = s2 /\ b.sent = sent
    <3>1. IsLoop(b, s2, buf, FALSE, sent, fwd, cr) BY <1>0, <1>4, <1>t, <2>4, <2>5, LoopMade
    <3> QED BY <3>1 DEF IsLoop
  <2> QED BY <1>0, <1>4, <2>4, <2>6
<1>5. CASE s.status \in {"header", "content"} /\ ~(Need(s) < 0) /\ ~(Len(buf) < Need(s))
  <2>0. PICK z \in 0..Len(buf) : z = Need(s) BY <1>1, <1>5
  <2>1. PICK all \in Seq(Unit), rest \in Seq(Unit) : all = s.got \o SubSeq(buf, 1, z) /\ rest = SubSeq(buf, z + 1, Len(buf))
    <3>1. PICK S : S = Unit OBVIOUS
    <3>2. s.got \in Seq(S) /\ buf \in Seq(S) BY <1>0, <1>1, <3>1
    <3>3. Parted(S, s.got, buf, z) BY <2>0, <3>2, ReadParts
    <3> QED BY <3>1, <3>3 DEF Parted
  <2>3. CASE s.status = "header"
    <3>1. b = IF HeaderOf(all) = 0 THEN LoopOf(Closed(s), buf, FALSE, sent, fwd, cr)
              ELSE GoOn(NewFrame(s, Size(HeaderOf(all))), rest, sent, fwd, cr)
      <4>1. a.s.status = "header" /\ Need(a.s) \in 0..Len(a.buf) BY <1>0, <2>0, <2>3
      <4>2. all = a.s.got \o SubSeq(a.buf, 1, Need(a.s)) /\ rest = SubSeq(a.buf, Need(a.s) + 1, Len(a.buf))
        BY <1>0, <2>0, <2>1
      <4>3. b = IF HeaderOf(all) = 0 THEN LoopOf(Closed(a.s), a.buf, FALSE, a.sent, a.fwd, a.crash)
                ELSE GoOn(NewFrame(a.s, Size(HeaderOf(all))), rest, a.sent, a.fwd, a.crash)
        BY <4>1, <4>2, RoundHeader
      <4> QED BY <1>0, <4>3
    <3>2. CASE HeaderOf(all) = 0
      <4>1. PICK s2 \in Slave : s2 = Closed(s) /\ s2.fd = s.fd /\ s2.status = "down" /\ s2.queue = NULL BY SlaveEdits
      <4>2. b = LoopOf(s2, buf, FALSE, sent, fwd, cr)
        BY <1>0, <3>1, <3>2, <4>1
      <4>3. b \in Loops /\ b.s = s2 /\ b.sent = sent
        <5>1. IsLoop(b, s2, buf, FALSE, sent, fwd, cr) BY ZenonT(60), <1>0, <1>t, <4>1, <4>2, LoopMade
        <5> QED BY <5>1 DEF IsLoop
      <4> QED BY <1>0, <4>1, <4>3
    <3>3. CASE HeaderOf(all) # 0
      <4>1. PICK y \in Nat : y = Size(HeaderOf(all)) BY <3>3, HeaderSize
      <4>2. PICK s2 \in Slave : s2 = NewFrame(s, y) /\ s2.fd = s.fd /\ s2.status = "content" /\ s2.queue = s.queue
        BY SlaveEdits
      <4>3. b = GoOn(s2, rest, sent, fwd, cr)
        BY <1>0, <3>1, <3>3, <4>1, <4>2
      <4>4. b \in Loops /\ b.s = s2 /\ b.sent = sent
        <5>1. Goes(b, s2, rest, sent, fwd, cr) BY ZenonT(60), <1>0, <2>1, <4>2, <4>3, GoesOn
        <5> QED BY <5>1 DEF Goes
      <4> QED BY <1>0, <2>3, <4>2, <4>4
    <3> QED BY <3>2, <3>3
  <2>4. CASE s.status = "content"
    <3>1. b = GoOn(FrameEnd(s), rest, sent, Append(fwd, all), cr)
      <4>1. a.s.status = "content" /\ Need(a.s) \in 0..Len(a.buf) BY <1>0, <2>0, <2>4
      <4>2. all = a.s.got \o SubSeq(a.buf, 1, Need(a.s)) /\ rest = SubSeq(a.buf, Need(a.s) + 1, Len(a.buf))
        BY <1>0, <2>0, <2>1
      <4>3. b = GoOn(FrameEnd(a.s), rest, a.sent, Append(a.fwd, all), a.crash)
        BY <4>1, <4>2, RoundContent
      <4> QED BY <1>0, <4>3
    <3>2. PICK s2 \in Slave : s2 = FrameEnd(s) /\ s2.fd = s.fd /\ s2.status = "header" /\ s2.queue = s.queue
      BY FrameEndParts
    <3>6. PICK U : U = Seq(Unit) OBVIOUS
    <3>7. Append(fwd, all) \in Seq(U) BY <1>0, <2>1, <3>6, AppendProperties
    <3>3. PICK w \in Seq(Seq(Unit)) : w = Append(fwd, all) BY <3>6, <3>7
    <3>4. b = GoOn(s2, rest, sent, w, cr)
      BY <3>1, <3>2, <3>3
    <3>5. b \in Loops /\ b.s = s2 /\ b.sent = sent
      <4>1. w \in Seq(Seq(Unit)) BY <3>3
      <4>2. rest \in Seq(Unit) /\ sent \in Seq(Nat) /\ cr \in BOOLEAN BY <1>0, <2>1
      <4>3. s2 \in Slave /\ s2.status # "handshake" BY <3>2
      <4>4. Goes(b, s2, rest, sent, w, cr) BY <3>4, <4>1, <4>2, <4>3, GoesOn
      <4> QED BY <4>4 DEF Goes
    <3> QED BY <1>0, <2>4, <3>2, <3>5
  <2> QED BY <1>5, <2>3, <2>4
<1>6. CASE s.status \in {"wait", "down"}
  <2>2. b = LoopOf(s, buf, FALSE, sent, fwd, cr) BY <1>0, <1>6, RoundNone
  <2>3. b \in Loops /\ b.s = s /\ b.sent = sent
    <3>1. IsLoop(b, s, buf, FALSE, sent, fwd, cr) BY ZenonT(60), <1>0, <1>6, <1>t, <2>2, LoopMade
    <3> QED BY <3>1 DEF IsLoop
  <2> QED BY <1>0, <1>6, <2>3
<1> QED BY <1>1, <1>2, <1>3, <1>4, <1>5, <1>6

\* The loop, before and after any of its rounds.
Running == {a \in Loops : a.s.status = "handshake" => a.sent = << >>}
NextRound(a, id) == IF a.on THEN Round(a, id) ELSE a
IsRun(f, n, s, id, buf) ==
    f \in [0..n -> Running] /\ f[0] = Start(s, buf) /\ \A i \in 1..n : f[i] = NextRound(f[i - 1], id)

LEMMA StartLoop == ASSUME NEW s \in Slave, NEW buf \in Seq(Unit), buf # << >>
                   PROVE  Start(s, buf) \in Running
<1>0. << >> \in Seq(Nat) /\ << >> \in Seq(Seq(Unit)) OBVIOUS
<1>1. PICK e, w : e \in Seq(Nat) /\ w \in Seq(Seq(Unit)) /\ e = << >> /\ w = << >> BY <1>0
<1>2. Start(s, buf) = [s |-> s, buf |-> buf, on |-> TRUE, sent |-> e, fwd |-> w, crash |-> FALSE] BY <1>1 DEF Start
<1>3. Start(s, buf) \in Loop BY <1>1, <1>2 DEF Loop
<1>4. Start(s, buf).buf = buf /\ Start(s, buf).sent = << >> BY <1>1, <1>2
<1> QED BY <1>3, <1>4 DEF Running, Loops

LEMMA RoundRuns == ASSUME NEW a \in Running, NEW id, NEW b, b = NextRound(a, id) PROVE b \in Running
<1>1. a \in Loops /\ (a.sent = << >> \/ a.s.status # "handshake") BY DEF Running
<1>2. CASE a.on
  <2>1. b = Round(a, id) BY <1>2 DEF NextRound
  <2>2. b \in Loops /\ b.s.status # "handshake" BY <1>1, <1>2, <2>1, RoundKeeps
  <2> QED BY <2>2 DEF Running
<1>3. CASE ~a.on BY <1>3 DEF NextRound
<1> QED BY <1>2, <1>3

LEMMA LoopForm ==
    ASSUME NEW s \in Slave, NEW id, NEW buf \in Seq(Unit), buf # << >>, NEW n \in Nat, n = 2 * Len(buf) + 1
    PROVE  \E f : IsRun(f, n, s, id, buf) /\ PushSocketData(s, id, buf) = f[n]
<1> DEFINE step == [i \in 1..n |-> [a \in Running |-> NextRound(a, id)]]
<1>2. step \in [1..n -> [Running -> Running]] BY RoundRuns
<1>3. PICK a0 \in Running : a0 = Start(s, buf) BY StartLoop
<1>4. PICK f \in [0..n -> Running] : f[0] = a0 /\ \A i \in 1..n : f[i] = step[i][f[i - 1]]
  <2> HIDE DEF step
  <2>1. PICK st, S : st = step /\ S = Running OBVIOUS
  <2>2. HasRun(n, S, a0, st) BY <1>2, <1>3, <2>1, Rounds
  <2> QED BY <2>1, <2>2 DEF HasRun
<1>5. \A i \in 1..n : f[i] = NextRound(f[i - 1], id)
  <2> SUFFICES ASSUME NEW i \in 1..n PROVE f[i] = NextRound(f[i - 1], id) OBVIOUS
  <2>1. i - 1 \in 0..n OBVIOUS
  <2>2. f[i - 1] \in Running BY <2>1, <1>4
  <2> QED BY <1>4, <2>2
<1> HIDE DEF step
<1>6. f = [i \in 0..n |-> IF i = 0 THEN a0 ELSE NextRound(f[i - 1], id)]
  <2>1. ASSUME NEW i \in 0..n PROVE f[i] = IF i = 0 THEN a0 ELSE NextRound(f[i - 1], id)
    <3>1. i # 0 => i \in 1..n OBVIOUS
    <3> QED BY <1>4, <1>5, <3>1
  <2> QED BY <1>4, <2>1
<1> DEFINE g == CHOOSE e : e = [i \in 0..n |-> IF i = 0 THEN a0 ELSE NextRound(e[i - 1], id)]
<1>7. g = [i \in 0..n |-> IF i = 0 THEN a0 ELSE NextRound(g[i - 1], id)]
  BY <1>6
<1>8. PushSocketData(s, id, buf) = g[n] BY <1>3 DEF PushSocketData, NextRound
<1> HIDE DEF g
<1>9. PICK e : e = g OBVIOUS
<1>10. e = [i \in 0..n |-> IF i = 0 THEN a0 ELSE NextRound(e[i - 1], id)] BY <1>7, <1>9
<1>11. 0 \in 0..n /\ \A i \in 1..n : i \in 0..n /\ i # 0 OBVIOUS
<1>12. e[0] = a0 /\ \A i \in 1..n : e[i] = NextRound(e[i - 1], id) BY <1>10, <1>11
<1>13. \A i \in 0..n : e[i] \in Running
  <2> DEFINE G == {i \in 0..n : e[i] \in Running}
  <2>1. 0 \in G BY <1>3, <1>11, <1>12
  <2>2. ASSUME NEW i \in 1..n, i - 1 \in G PROVE i \in G
    <3>1. PICK a \in Running : a = e[i - 1] BY <2>2
    <3>2. e[i] = NextRound(a, id) BY <1>12, <3>1
    <3>3. e[i] \in Running BY <3>2, RoundRuns
    <3> QED BY <3>3
  <2> HIDE DEF G
  <2>3. \A i \in 0..n : i \in G BY <2>1, <2>2, EveryRound
  <2> QED BY <2>3 DEF G
<1>14. e \in [0..n -> Running] BY <1>10, <1>13
<1>15. IsRun(e, n, s, id, buf) BY <1>3, <1>12, <1>14 DEF IsRun
<1>16. PushSocketData(s, id, buf) = e[n] BY <1>8, <1>9
<1> QED BY <1>15, <1>16

\* What the loop does to the queue of the slave.
Kept(a, s) ==
    /\ a \in Running /\ a.s.fd = s.fd
    /\ s.status # "wait" => a.s.status # "wait"
    /\ \/ a.s.queue = s.queue /\ a.sent = << >> /\ (a.s.status = "handshake" <=> s.status = "handshake")
       \/ a.s.queue = NULL /\ a.sent = << >> /\ a.s.status = "down"
       \/ a.s.queue = NULL /\ a.sent = Contents(s.queue) /\ a.s.status # "handshake"

LEMMA DataKeeps ==
    ASSUME NEW s \in Slave, NEW id, NEW buf \in Seq(Unit), buf # << >>, NEW r, r = PushSocketData(s, id, buf)
    PROVE  Kept(r, s)
<1>1. PICK n \in Nat : n = 2 * Len(buf) + 1 OBVIOUS
<1>2. PICK f : IsRun(f, n, s, id, buf) /\ r = f[n] BY <1>1, LoopForm
<1> DEFINE G == {i \in 0..n : Kept(f[i], s)}
<1>3. 0 \in G
  <2>1. PICK a \in Running : a = f[0] /\ a = Start(s, buf) BY <1>2, StartLoop DEF IsRun
  <2>2. a.s = s /\ a.sent = << >> BY <2>1 DEF Start
  <2>3. Kept(a, s) BY <2>2 DEF Kept
  <2>4. 0 \in 0..n OBVIOUS
  <2> QED BY <2>1, <2>3, <2>4
<1>4. ASSUME NEW i \in 1..n, i - 1 \in G PROVE i \in G
  <2>1. PICK a, b : a = f[i - 1] /\ b = f[i] OBVIOUS
  <2>2. Kept(a, s) /\ b = NextRound(a, id) BY <1>2, <1>4, <2>1 DEF IsRun
  <2>3. a \in Loops /\ (a.s.status = "handshake" => a.sent = << >>) BY <2>2 DEF Kept, Running
  <2>4. CASE a.on
    <3>1. b = Round(a, id) BY <2>2, <2>4 DEF NextRound
    <3>2. /\ b \in Loops /\ b.s.fd = a.s.fd /\ b.s.status # "handshake"
          /\ a.s.status # "wait" => b.s.status # "wait"
          /\ \/ /\ b.s.queue = a.s.queue /\ b.sent = a.sent /\ a.s.status # "handshake"
                /\ a.s.status = "down" => b.s.status = "down"
             \/ b.s.queue = NULL /\ b.sent = a.sent /\ b.s.status = "down"
             \/ b.s.queue = NULL /\ b.sent = Contents(a.s.queue) /\ a.s.status = "handshake"
      BY <2>3, <2>4, <3>1, RoundKeeps
    <3>3. b \in Running BY <3>2 DEF Running
    <3>4. Kept(b, s)
      <4>1. CASE /\ b.s.queue = a.s.queue /\ b.sent = a.sent /\ a.s.status # "handshake"
                 /\ a.s.status = "down" => b.s.status = "down"
        BY <2>2, <3>2, <3>3, <4>1 DEF Kept
      <4>2. CASE b.s.queue = NULL /\ b.sent = a.sent /\ b.s.status = "down"
        BY <2>2, <3>2, <3>3, <4>2 DEF Kept
      <4>3. CASE b.s.queue = NULL /\ b.sent = Contents(a.s.queue) /\ a.s.status = "handshake"
        BY <2>2, <3>2, <3>3, <4>3 DEF Kept
      <4> QED BY <3>2, <4>1, <4>2, <4>3
    <3> QED BY <2>1, <3>4
  <2>5. CASE ~a.on
    <3>1. b = a BY <2>2, <2>5 DEF NextRound
    <3>2. Kept(b, s) BY <2>2, <3>1
    <3> QED BY <2>1, <3>2
  <2> QED BY <2>4, <2>5
<1> HIDE DEF G
<1>5. \A i \in 0..n : i \in G BY <1>3, <1>4, EveryRound
<1>6. n \in 0..n OBVIOUS
<1>7. Kept(f[n], s) BY <1>5, <1>6 DEF G
<1> QED BY <1>2, <1>7

\* Node i has another connection than fd, the only one that changes.
LEMMA OthersLater ==
    ASSUME MessagesInv, NEW id \in Node, NEW fd, slave[id].fd = fd, fd > 0,
           \A k \in 1..MaxConn : k # fd => conn'[k] = conn[k], nconn' = nconn,
           NEW i \in Node, i # id, SlaveFits(slave[i], i, nconn, conn, dests')
    PROVE  SlaveFits(slave[i], i, nconn', conn', dests')
<1>1. PICK s \in Slave : s = slave[i] BY SlaveKnown
<1>3. s.fd > 0 => s.fd \in 1..MaxConn /\ s.fd # fd BY <1>1, SlaveKnown, OwnConn
<1>4. PICK c, c2, nc, ds : c = conn /\ c2 = conn' /\ nc = nconn /\ ds = dests' OBVIOUS
<1>5. s.fd > 0 => c2[s.fd].out = c[s.fd].out /\ c2[s.fd].node = c[s.fd].node BY <1>3, <1>4
<1>6. SlaveFits(s, i, nc, c2, ds)
  <2>1. nc \in Nat /\ nc <= nc BY <1>4, Known
  <2>2. SlaveFits(s, i, nc, c, ds) BY <1>1, <1>4
  <2> QED BY <1>5, <2>1, <2>2, SlaveKept
<1> QED BY <1>1, <1>4, <1>6

\* Connection c after units were read from it, with ms sent and w forwarded.
ReadFrom(c, k, ms, w) == [c EXCEPT !.in = SubSeq(c.in, k + 1, Len(c.in)), !.out = c.out \o ms, !.fwd = c.fwd \o w]

WasRead(c2, c, k, ms, w) ==
    /\ c2 \in Conn /\ c2.node = c.node /\ c2.out = c.out \o ms /\ c2.fwd = c.fwd \o w /\ c2.clean = c.clean
    /\ c2.in = SubSeq(c.in, k + 1, Len(c.in))

LEMMA ReadConn ==
    ASSUME NEW c \in Conn, NEW k, k \in 1..Len(c.in), NEW ms \in Seq(Nat), NEW w \in Seq(Seq(Unit)), NEW c2, c2 = ReadFrom(c, k, ms, w)
    PROVE  WasRead(c2, c, k, ms, w)
<1>1. c.in \in Seq(Unit) /\ c.out \in Seq(Nat) /\ c.fwd \in Seq(Seq(Unit)) BY DEF Conn
<1>2. PICK i \in Seq(Unit) : i = SubSeq(c.in, k + 1, Len(c.in))
  <2>1. PICK u \in Seq(Unit) : u = c.in BY <1>1
  <2>2. k \in 0..Len(u) BY <2>1
  <2>4. Parted(Unit, u, u, k) BY <2>1, <2>2, ReadParts
  <2>3. SubSeq(u, k + 1, Len(u)) \in Seq(Unit) BY <2>4 DEF Parted
  <2> QED BY <2>1, <2>3
<1>3. PICK o \in Seq(Nat) : o = c.out \o ms BY <1>1, ConcatProperties
<1>4. c.fwd \o w \in Seq(Seq(Unit)) BY <1>1, ConcatProperties
<1>5. PICK v \in Seq(Seq(Unit)) : v = c.fwd \o w BY <1>4
<1>6. c2 = [c EXCEPT !.in = i, !.out = o, !.fwd = v] BY <1>2, <1>3, <1>5 DEF ReadFrom
<1>7. c2 \in Conn /\ c2.node = c.node /\ c2.out = o /\ c2.fwd = v /\ c2.clean = c.clean /\ c2.in = i
  BY <1>2, <1>3, <1>5, <1>6 DEF Conn
<1> QED BY <1>2, <1>3, <1>5, <1>7 DEF WasRead

\* The facts of a step in which connection fd of node id is read.
DataOf(fd, k, dead, id, c, s, r) ==
    /\ id \in Node /\ c \in Conn /\ s \in Slave /\ c = conn[fd] /\ s = slave[id] /\ c.node = id /\ s.fd = fd
    /\ k \in 1..Len(c.in) /\ fd <= nconn /\ r = PushSocketData(s, id, SubSeq(c.in, 1, k))
    /\ Kept(r, s) /\ r \in Loops
    /\ slave' = [slave EXCEPT ![id] = r.s]
    /\ conn' = [conn EXCEPT ![fd] = ReadFrom(c, k, r.sent, r.fwd)]
    /\ crashed' = IF r.crash THEN fd ELSE 0
    /\ ToHarbor(IF dead THEN [i \in DOMAIN r.fwd |-> id] ELSE << >>)
    /\ dropped' = dropped \cup Refused(s, r) /\ blank' = blank /\ merged' = merged
    /\ names' = names /\ nconn' = nconn /\ local' = local /\ toSlave' = toSlave

LEMMA DataParts ==
    ASSUME MessagesInv, NEW fd \in 1..MaxConn, NEW k \in 1..Len(conn[fd].in), NEW dead \in BOOLEAN, Data(fd, k, dead),
           Owns(conn[fd].node, fd)
    PROVE  \E id \in Node, c \in Conn, s \in Slave, r \in Loops : DataOf(fd, k, dead, id, c, s, r)
<1>1. PICK c \in Conn : c = conn[fd] BY Known DEF Typed
<1>2. PICK id : id = c.node OBVIOUS
<1>3. fd <= nconn BY DEF Data
<1>4. id \in Node BY <1>1, <1>2, <1>3 DEF MessagesInv, ConnsOK, ConnFits
<1>5. PICK s \in Slave : s = slave[id] BY <1>4, SlaveKnown
<1>6. PICK buf : buf = SubSeq(c.in, 1, k) OBVIOUS
<1>7. buf \in Seq(Unit) /\ buf # << >>
  <2>1. c.in \in Seq(Unit) /\ k \in 1..Len(c.in) BY <1>1 DEF Conn
  <2>2. Len(buf) = k /\ k # 0 /\ buf \in Seq(Unit) BY <1>6, <2>1
  <2> QED BY <2>2
<1>8. PICK r : r = PushSocketData(s, id, buf) OBVIOUS
<1>9. Kept(r, s) /\ r \in Loops
  <2>1. Kept(r, s) BY <1>7, <1>8, DataKeeps
  <2> QED BY <2>1 DEF Kept, Running
<1>10. slave[id].fd = fd BY <1>1, <1>2 DEF Owns
<1>11. /\ slave' = [slave EXCEPT ![id] = r.s]
       /\ conn' = [conn EXCEPT ![fd] = ReadFrom(c, k, r.sent, r.fwd)]
       /\ crashed' = (IF r.crash THEN fd ELSE 0)
       /\ ToHarbor(IF dead THEN [i \in DOMAIN r.fwd |-> id] ELSE << >>)
       /\ dropped' = dropped \cup Refused(s, r) /\ blank' = blank /\ merged' = merged
       /\ names' = names /\ nconn' = nconn /\ local' = local /\ toSlave' = toSlave
  BY SMTT(60), <1>1, <1>2, <1>5, <1>6, <1>8 DEF Data, ReadFrom
<1>12. DataOf(fd, k, dead, id, c, s, r) BY <1>1, <1>2, <1>3, <1>4, <1>5, <1>6, <1>8, <1>9, <1>10, <1>11 DEF DataOf
<1> QED BY <1>4, <1>9, <1>12

\* The units that arrive are for node id.
LEMMA DataOwned ==
    ASSUME MessagesInv, NEW fd \in 1..MaxConn, NEW k, NEW dead \in BOOLEAN, NEW id \in Node, NEW c \in Conn, NEW s \in Slave,
           NEW r, DataOf(fd, k, dead, id, c, s, r)
    PROVE  MessagesInv'
<1>0. PICK s2, c2 : s2 = r.s /\ c2 = ReadFrom(c, k, r.sent, r.fwd) OBVIOUS
<1>1. /\ c = conn[fd] /\ s = slave[id] /\ c.node = id /\ s.fd = fd /\ k \in 1..Len(c.in) /\ fd <= nconn
      /\ Kept(r, s) /\ r \in Loops /\ slave' = [slave EXCEPT ![id] = s2] /\ conn' = [conn EXCEPT ![fd] = c2]
      /\ crashed' = (IF r.crash THEN fd ELSE 0) /\ names' = names /\ nconn' = nconn /\ local' = local
  BY <1>0 DEF DataOf
<1>2. r.s \in Slave /\ r.sent \in Seq(Nat) /\ r.fwd \in Seq(Seq(Unit)) BY <1>1, LoopParts
<1>3. PICK ms \in Seq(Nat), w \in Seq(Seq(Unit)) : ms = r.sent /\ w = r.fwd BY <1>2
<1>4. c2 \in Conn /\ c2.node = c.node /\ c2.out = c.out \o ms
  <2>1. c2 = ReadFrom(c, k, ms, w) BY <1>0, <1>3
  <2>2. k \in 1..Len(c.in) /\ ms \in Seq(Nat) /\ w \in Seq(Seq(Unit)) BY <1>1, <1>3
  <2>3. WasRead(c2, c, k, ms, w) BY <2>1, <2>2, ReadConn
  <2> QED BY <2>3 DEF WasRead
<1>5. PICK x \in Seq(Dest) : ToHarbor(x)
  <2>1. ToHarbor(IF dead THEN [i \in DOMAIN r.fwd |-> id] ELSE << >>) BY DEF DataOf
  <2>2. id \in Dest BY DEF Dest
  <2>3. [i \in DOMAIN w |-> id] \in Seq(Dest)
    <3>1. PICK L \in Nat : L = Len(w) /\ DOMAIN w = 1..L BY <1>3
    <3>2. [i \in 1..L |-> id] \in Seq(Dest) BY <2>2, <3>1
    <3> QED BY <3>1, <3>2
  <2>4. << >> \in Seq(Dest) OBVIOUS
  <2>5. CASE dead BY <1>3, <2>1, <2>3, <2>5
  <2>6. CASE ~dead BY <2>1, <2>4, <2>6
  <2> QED BY <2>5, <2>6
<1>6. /\ inbox' \in Seq(Item) /\ dests' \in Seq(Dest) /\ Len(dests') <= MaxMsg
      /\ InboxOK' /\ Taken' = Taken
      /\ Good(Now, Taken, dests') /\ NamesFit(Now, dests', Vals)
      /\ \A i \in Node : SlaveFits(slave[i], i, nconn, conn, dests')
  BY <1>5, MoreSent
<1>7. s2 \in Slave /\ s2.fd = fd /\ s2.status # "wait"
  <2>1. SlaveFits(s, id, nconn, conn, dests) BY <1>1, SlaveKnown
  <2>2. s.status # "wait" BY <1>1, <2>1 DEF SlaveFits
  <2> QED BY <1>0, <1>1, <1>2, <2>2 DEF Kept
<1>8. slave \in [Node \cup {Self} -> Slave] /\ conn \in [1..MaxConn -> Conn] BY Known DEF Typed
<1>9. slave'[id] = s2 /\ slave' \in [Node \cup {Self} -> Slave] /\ \A i \in Node \cup {Self} : i # id => slave'[i] = slave[i]
  BY <1>1, <1>7, <1>8
<1>10. conn' \in [1..MaxConn -> Conn] /\ conn'[fd] = c2 /\ \A i \in 1..MaxConn : i # fd => conn'[i] = conn[i]
  BY <1>1, <1>4, <1>8
<1>11. Typed(conn', slave', names', local') BY <1>1, <1>9, <1>10, Known DEF Typed
<1>12. Vals' = Vals BY <1>1 DEF Vals
<1>14. Good(Now, Taken, dests)' /\ NamesFit(Now, dests, Vals)'
  <2>3. CASE s2.queue = s.queue /\ ms = << >>
    <3>1. PICK X : X = {} OBVIOUS
    <3>2. c2.out = c.out
      <4>1. c.out \in Seq(Nat) BY DEF Conn
      <4> QED BY <1>4, <2>3, <4>1
    <3>3. \A i \in 1..MaxConn : conn'[i].out = conn[i].out BY <1>1, <1>10, <3>2
    <3>4. \A i \in Node \cup {Self} : slave'[i].queue = slave[i].queue BY <1>1, <1>9, <2>3
    <3>5. \A q \in Places \ X : Now'[q] = Now[q] BY <1>1, <1>11, <3>3, <3>4, NowElsewhere
    <3>6. Now \in [Places -> Seq(Nat)] /\ Now' \in [Places -> Seq(Nat)] BY <1>11, NowForm, NextForm
    <3>7. Now' = Now BY <3>1, <3>5, <3>6
    <3> QED BY <1>6, <1>12, <3>7
  <2>1. CASE s2.queue = NULL /\ ms = << >>
    <3>1. PICK X : X = {<<"slave", id>>} OBVIOUS
    <3>2. c2.out = c.out
      <4>1. c.out \in Seq(Nat) BY DEF Conn
      <4> QED BY <1>4, <2>1, <4>1
    <3>3. \A i \in 1..MaxConn : conn'[i].out = conn[i].out BY <1>1, <1>10, <3>2
    <3>4. \A i \in Node \cup {Self} : <<"slave", i>> \notin X => slave'[i].queue = slave[i].queue BY <1>9, <3>1
    <3>5. \A q \in Places \ X : Now'[q] = Now[q] BY <1>1, <1>11, <3>3, <3>4, NowElsewhere
    <3>6. slave'[id].queue = NULL BY <1>9, <2>1
    <3> QED BY <1>6, <1>11, <1>12, <3>1, <3>5, <3>6, SlaveDropped
  <2>2. CASE s2.queue = NULL /\ ms = Contents(s.queue)
    <3>1. PICK X : X = {<<"slave", id>>, <<"conn", fd>>} OBVIOUS
    <3>3. \A i \in 1..MaxConn : <<"conn", i>> \notin X => conn'[i].out = conn[i].out BY <1>10, <3>1
    <3>4. \A i \in Node \cup {Self} : <<"slave", i>> \notin X => slave'[i].queue = slave[i].queue BY <1>9, <3>1
    <3>5. \A q \in Places \ X : Now'[q] = Now[q] BY <1>1, <1>11, <3>3, <3>4, NowElsewhere
    <3>6. slave'[id].queue = NULL BY <1>9, <2>2
    <3>7. conn'[fd].out = conn[fd].out \o Contents(slave[id].queue) BY <1>1, <1>4, <1>10, <2>2
    <3>8. Precedes(conn[fd].out, Contents(slave[id].queue), dests')
      <4>1. SlaveFits(slave[id], id, nconn, conn, dests') /\ slave[id].fd = fd /\ fd > 0 BY <1>1, <1>6
      <4> QED BY <4>1 DEF SlaveFits
    <3> QED BY <1>6, <1>11, <1>12, <3>1, <3>5, <3>6, <3>7, <3>8, SlaveMoved
  <2> QED BY <1>0, <1>1, <1>3, <2>1, <2>2, <2>3 DEF Kept
<1>15. SlaveFits(s2, id, nconn', conn', dests')
  <2>1. fd > 0 OBVIOUS
  <2>2. SlaveFits(s, id, nconn, conn, dests') BY <1>1, <1>6
  <2>5. fd <= nconn' /\ conn'[fd] = c2 /\ c2.node = id BY <1>1, <1>4, <1>10
  <2>3. CASE s2.queue = s.queue /\ ms = << >> /\ (s2.status = "handshake" <=> s.status = "handshake")
    <3>1. c.out \in Seq(Nat) BY DEF Conn
    <3>2. c2.out = c.out BY <1>4, <2>3, <3>1
    <3>3. /\ Precedes(c2.out, Contents(s2.queue), dests')
          /\ s2.status # "handshake" => Contents(s2.queue) = << >>
      BY <1>1, <2>1, <2>2, <2>3, <3>2 DEF SlaveFits
    <3> QED BY <1>7, <2>1, <2>5, <3>3 DEF SlaveFits
  <2>4. CASE s2.queue = NULL
    <3>1. Contents(s2.queue) = << >> BY <2>4, NoRing
    <3>2. Precedes(c2.out, Contents(s2.queue), dests') BY <3>1, EmptyPrecedes
    <3> QED BY <1>7, <2>1, <2>5, <3>1, <3>2 DEF SlaveFits
  <2> QED BY <1>0, <1>1, <1>3, <2>3, <2>4 DEF Kept
<1>16. ASSUME NEW i \in Node PROVE SlaveFits(slave'[i], i, nconn', conn', dests')
  <2>1. CASE i = id BY <1>9, <1>15, <2>1
  <2>2. CASE i # id
    <3>1. SlaveFits(slave[i], i, nconn', conn', dests')
      <4>1. fd > 0 /\ slave[id].fd = fd BY <1>1
      <4>2. SlaveFits(slave[i], i, nconn, conn, dests') BY <1>6
      <4> QED BY <1>1, <1>10, <2>2, <4>1, <4>2, OthersLater
    <3> QED BY <1>9, <2>2, <3>1
  <2> QED BY <2>1, <2>2
<1>17. SlavesOK'
  <2>1. slave'[Self] = slave[Self] BY <1>9, SlaveKnown
  <2> QED BY <1>16, <2>1 DEF SlavesOK, MessagesInv
<1>18. HarborShape'
  <2>1. crashed' \in 0..MaxConn BY <1>1, HarborAssumption
  <2> QED BY <1>1, <1>6, <1>11, <2>1, Known DEF HarborShape
<1>19. ConnsOK' BY <1>1, <1>4, <1>10, ConnsSent
<1> QED BY <1>6, <1>14, <1>17, <1>18, <1>19 DEF MessagesInv

LEMMA DataInv ==
    ASSUME MessagesInv, NEW fd \in 1..MaxConn, NEW k \in 1..Len(conn[fd].in), NEW dead \in BOOLEAN, Data(fd, k, dead)
    PROVE  MessagesInv'
<1>1. CASE Owns(conn[fd].node, fd)
  <2>1. PICK id \in Node, c \in Conn, s \in Slave, r \in Loops : DataOf(fd, k, dead, id, c, s, r) BY <1>1, DataParts
  <2> QED BY <2>1, DataOwned
<1>2. CASE ~Owns(conn[fd].node, fd)
  <2>1. /\ fd <= nconn /\ conn' = [conn EXCEPT ![fd].in = SubSeq(@, k + 1, Len(@))] /\ slave' = slave
        /\ crashed' = crashed /\ inbox' = inbox /\ dests' = dests /\ names' = names /\ nconn' = nconn /\ local' = local
    BY <1>2 DEF Data
  <2>2. conn \in [1..MaxConn -> Conn] BY Known DEF Typed
  <2>3. PICK c \in Conn : c = conn[fd] BY <2>2
  <2>4. PICK u \in Seq(Unit) : u = SubSeq(c.in, k + 1, Len(c.in))
    <3>1. PICK v \in Seq(Unit) : v = c.in BY DEF Conn
    <3>2. k \in 0..Len(v) BY <2>3, <3>1
    <3>4. Parted(Unit, v, v, k) BY <3>1, <3>2, ReadParts
    <3>3. SubSeq(v, k + 1, Len(v)) \in Seq(Unit) BY <3>4 DEF Parted
    <3> QED BY <3>1, <3>3
  <2>5. PICK c2 : c2 = [c EXCEPT !.in = u] OBVIOUS
  <2>6. c2 \in Conn /\ c2.node = c.node /\ c2.out = c.out BY <2>4, <2>5 DEF Conn
  <2>7. conn' = [conn EXCEPT ![fd] = c2] BY <2>1, <2>2, <2>3, <2>4, <2>5
  <2>8. conn' \in [1..MaxConn -> Conn] /\ conn'[fd] = c2 /\ \A i \in 1..MaxConn : i # fd => conn'[i] = conn[i]
    BY <2>2, <2>6, <2>7
  <2>9. Typed(conn', slave', names', local') BY <2>1, <2>8, Known DEF Typed
  <2>10. Now' = Now
    <3>1. PICK X : X = {} OBVIOUS
    <3>2. \A i \in 1..MaxConn : conn'[i].out = conn[i].out BY <2>3, <2>6, <2>8
    <3>5. \A q \in Places \ X : Now'[q] = Now[q] BY <2>1, <2>9, <3>2, NowElsewhere
    <3>6. Now \in [Places -> Seq(Nat)] /\ Now' \in [Places -> Seq(Nat)] BY <2>9, NowForm, NextForm
    <3> QED BY <3>1, <3>5, <3>6
  <2>11. InboxOK' /\ Taken' = Taken /\ Vals' = Vals BY <2>1, Known DEF InboxOK, Taken, Vals
  <2>12. ASSUME NEW i \in Node PROVE SlaveFits(slave'[i], i, nconn', conn', dests')
    <3>1. PICK s \in Slave : s = slave[i] BY SlaveKnown
    <3>6. PICK e, e2, nc, ds : e = conn /\ e2 = conn' /\ nc = nconn /\ ds = dests OBVIOUS
    <3>2. SlaveFits(s, i, nc, e, ds) /\ (s.fd > 0 => s.fd \in 1..MaxConn) BY <3>1, <3>6, SlaveKnown
    <3>3. s.fd > 0 => e2[s.fd].out = e[s.fd].out /\ e2[s.fd].node = e[s.fd].node BY <2>3, <2>6, <2>8, <3>1, <3>2, <3>6
    <3>4. nc \in Nat /\ nc <= nc BY <3>6, Known
    <3>5. SlaveFits(s, i, nc, e2, ds) BY <3>1, <3>2, <3>3, <3>4, SlaveKept
    <3> QED BY <2>1, <3>1, <3>5, <3>6
  <2>13. SlavesOK' BY <2>1, <2>12 DEF SlavesOK, MessagesInv
  <2>14. HarborShape' BY <2>1, <2>9, Known DEF HarborShape
  <2>15. ConnsOK' BY <2>1, <2>3, <2>6, <2>8, ConnsSent
  <2>16. Good(Now, Taken, dests)' /\ NamesFit(Now, dests, Vals)' BY <2>1, <2>10, <2>11, Known
  <2> QED BY <2>11, <2>13, <2>14, <2>15, <2>16 DEF MessagesInv
<1> QED BY <1>1, <1>2

LEMMA InitMessages == ASSUME HarborInit PROVE MessagesInv
<1>0. << >> \in Seq(Unit) /\ << >> \in Seq(Nat) /\ << >> \in Seq(Seq(Unit)) /\ << >> \in Seq(Item) /\ << >> \in Seq(Dest)
  OBVIOUS
<1>1. PICK s : s = [fd |-> 0, status |-> "wait", queue |-> NULL, length |-> 0, got |-> << >>] OBVIOUS
<1>2. PICK c : c = [node |-> 0, in |-> << >>, out |-> << >>, fwd |-> << >>, clean |-> TRUE] OBVIOUS
<1>3. PICK u : u = [value |-> 0, queue |-> NULL] OBVIOUS
<1>4. s \in Slave /\ s.fd = 0 /\ s.status = "wait" /\ s.queue = NULL
  <2>1. 0 \in -1..MaxConn BY HarborAssumption
  <2> QED BY <1>0, <1>1, <2>1 DEF Slave
<1>5. c \in Conn /\ c.out = << >> /\ c.fwd = << >> BY <1>0, <1>2 DEF Conn
<1>6. u \in Named /\ u.value = 0 /\ u.queue = NULL BY <1>3 DEF Named
<1>7. /\ slave = [id \in Node \cup {Self} |-> s] /\ names = [n \in Name |-> u] /\ conn = [fd \in 1..MaxConn |-> c]
      /\ inbox = << >> /\ dests = << >> /\ nconn = 0 /\ local = << >> /\ crashed = 0
  BY <1>1, <1>2, <1>3 DEF HarborInit
<1>8. Typed(conn, slave, names, local) BY <1>0, <1>4, <1>5, <1>6, <1>7 DEF Typed
<1>9. HarborShape
  <2>1. Len(dests) = 0 /\ 0 <= MaxMsg /\ 0 \in 0..MaxConn BY <1>7, HarborAssumption
  <2> QED BY <1>0, <1>7, <1>8, <2>1 DEF HarborShape
<1>10. InboxOK /\ Taken = 0
  <2>1. Len(inbox) = 0 /\ Len(dests) = 0 /\ DOMAIN inbox = {} BY <1>7
  <2> QED BY <2>1 DEF InboxOK, InboxFits, Taken, TakenOf
<1>11. \A p \in Places : Now[p] = << >>
  <2>1. PICK c1, s1, n1, l1, f : c1 = conn /\ s1 = slave /\ n1 = names /\ l1 = local /\ f = Now OBVIOUS
  <2>2. Typed(c1, s1, n1, l1) /\ f = Where(c1, s1, n1, l1) BY <1>8, <2>1 DEF Now
  <2>3. /\ f \in [Places -> Seq(Nat)]
        /\ \A fd \in 1..MaxConn : f[<<"conn", fd>>] = c1[fd].out
        /\ \A id \in Node \cup {Self} : f[<<"slave", id>>] = Contents(s1[id].queue)
        /\ \A n \in Name : f[<<"name", n>>] = Contents(n1[n].queue)
        /\ f[<<"local", 0>>] = l1
    BY <2>2, WhereForm
  <2>4. /\ \A fd \in 1..MaxConn : f[<<"conn", fd>>] = << >>
        /\ \A id \in Node \cup {Self} : f[<<"slave", id>>] = << >>
        /\ \A n \in Name : f[<<"name", n>>] = << >>
        /\ f[<<"local", 0>>] = << >>
    BY <1>4, <1>5, <1>6, <1>7, <2>1, <2>3, NoRing
  <2>5. \A p \in Places : f[p] = << >> BY <2>4 DEF Places
  <2> QED BY <2>1, <2>5
<1>12. Now \in [Places -> Seq(Nat)]
  <2>1. PICK c1, s1, n1, l1, f : c1 = conn /\ s1 = slave /\ n1 = names /\ l1 = local /\ f = Now OBVIOUS
  <2>2. Typed(c1, s1, n1, l1) /\ f = Where(c1, s1, n1, l1) BY <1>8, <2>1 DEF Now
  <2>3. f \in [Places -> Seq(Nat)] BY <2>2, WhereForm
  <2> QED BY <2>1, <2>3
<1>13. PICK f, ds, v : f = Now /\ ds = dests /\ v = Vals OBVIOUS
<1>14. f \in [Places -> Seq(Nat)] /\ \A p \in Places : f[p] = << >> BY <1>11, <1>12, <1>13
<1>e. DOMAIN << >> = {} OBVIOUS
<1>15. Good(f, 0, ds)
  <2>1. \A p \in Places : DOMAIN f[p] = {} BY <1>14, <1>e
  <2>2. \A p \in Places : Below(f[p], 0) /\ Sorted(f[p], ds) BY <2>1 DEF Below, Sorted
  <2>3. Once(f) BY <2>1 DEF Once
  <2>4. 0 \in Nat OBVIOUS
  <2> QED BY <1>14, <2>2, <2>3, <2>4 DEF Good
<1>16. NamesFit(f, ds, v)
  <2>1. \A p \in Places : DOMAIN f[p] = {} BY <1>14, <1>e
  <2>2. \A n \in Name : <<"name", n>> \in Places BY PlacesOf
  <2>3. \A n \in Name : Only(f[<<"name", n>>], n, ds) BY <2>1, <2>2 DEF Only
  <2>4. \A n \in Name, p \in Places : Never(f[p], n, ds) BY <2>1 DEF Never
  <2> QED BY <1>14, <2>2, <2>3, <2>4 DEF NamesFit
<1>17. SlavesOK
  <2>1. \A id \in Node : SlaveFits(slave[id], id, nconn, conn, dests) BY <1>4, <1>7 DEF SlaveFits
  <2> QED BY <1>4, <1>7, <2>1 DEF SlavesOK
<1>18. ConnsOK
  <2>1. ASSUME NEW fd \in 1..MaxConn PROVE ConnFits(conn[fd], fd, nconn)
    <3>1. ~(fd <= 0) OBVIOUS
    <3> QED BY <1>5, <1>7, <3>1 DEF ConnFits
  <2> QED BY <2>1 DEF ConnsOK
<1>19. Good(Now, Taken, dests) /\ NamesFit(Now, dests, Vals) BY <1>10, <1>13, <1>15, <1>16
<1> QED BY <1>9, <1>10, <1>17, <1>18, <1>19 DEF MessagesInv

LEMMA NextMessages == ASSUME MessagesInv, [HarborNext]_harborVars PROVE MessagesInv'
<1>1. ASSUME NEW dest \in Node \cup Name, LocalSend(dest) PROVE MessagesInv'
  <2>1. dest \in Dest BY DEF Dest
  <2> QED BY <1>1, <2>1, LocalSendInv
<1>2. ASSUME RemoteOut PROVE MessagesInv' BY <1>2, RemoteOutInv
<1>3. ASSUME QueryName PROVE MessagesInv' BY <1>3, QueryNameInv
<1>4. ASSUME NEW n \in Name, NEW id \in Node \cup {Self}, UpdateName(n, id) PROVE MessagesInv' BY <1>4, UpdateNameInv
<1>5. ASSUME NEW cmd \in {"S", "A"}, NEW id \in Node, NEW who \in Node \cup {Self}, NEW k \in 1..MaxIn,
             AddConnection(cmd, id, who, k)
      PROVE  MessagesInv'
  BY <1>5, AddConnectionInv
<1>6. ASSUME NEW fd \in 1..MaxConn, NEW k \in 1..Len(conn[fd].in), NEW dead \in BOOLEAN, Data(fd, k, dead) PROVE MessagesInv'
  BY <1>6, DataInv
<1>7. ASSUME NEW fd \in 1..MaxConn, SocketClosed(fd) PROVE MessagesInv' BY <1>7, SocketClosedInv
<1>8. ASSUME UNCHANGED harborVars PROVE MessagesInv'
  <2>1. /\ slave' = slave /\ names' = names /\ inbox' = inbox /\ dests' = dests /\ conn' = conn /\ nconn' = nconn
        /\ local' = local /\ crashed' = crashed
    BY <1>8 DEF harborVars
  <2>2. Now' = Now /\ Taken' = Taken /\ Vals' = Vals BY <2>1 DEF Now, Taken, Vals
  <2>3. HarborShape' /\ InboxOK' BY <2>1 DEF MessagesInv, HarborShape, InboxOK
  <2>4. Good(Now, Taken, dests)' /\ NamesFit(Now, dests, Vals)' BY <2>1, <2>2, Known
  <2>5. SlavesOK' /\ ConnsOK' BY <2>1 DEF MessagesInv, SlavesOK, ConnsOK
  <2> QED BY <2>3, <2>4, <2>5 DEF MessagesInv
<1> QED BY <1>1, <1>2, <1>3, <1>4, <1>5, <1>6, <1>7, <1>8 DEF HarborNext

-----------------------------------------------------------------------------
(* Headers and losses.                                                     *)

\* Message m is at some place.
In(c, s, ns, l, m) ==
    \/ \E fd \in 1..MaxConn : m \in ToSet(c[fd].out)
    \/ \E id \in Node \cup {Self} : m \in ToSet(Contents(s[id].queue))
    \/ \E n \in Name : m \in ToSet(Contents(ns[n].queue))
    \/ m \in ToSet(l)
Somewhere(m) == In(conn, slave, names, local, m)

\* What was taken was dropped or is somewhere; a header is blank only while the
\* message waits for its name, after it has moved to the queue of a node, or when
\* it was delivered here.
AllFound == \A m \in 1..Taken : m \in dropped \/ Somewhere(m)
BlankFits == \A m \in blank : \/ m \in merged \/ m \in ToSet(local)
                              \/ \E n \in Name : m \in ToSet(Contents(names[n].queue))
FatesInv == AllFound /\ BlankFits

LEMMA SetOfCat == ASSUME NEW s \in Seq(Nat), NEW r \in Seq(Nat), NEW t, t = s \o r
                  PROVE  ToSet(t) = ToSet(s) \cup ToSet(r)
<1>1. Catted(t, s, r) BY CatParts
<1>2. \A i \in DOMAIN t : t[i] \in ToSet(s) \cup ToSet(r) BY <1>1 DEF Catted, ToSet
<1>3. \A i \in DOMAIN s : s[i] \in ToSet(t) BY <1>1 DEF Catted, ToSet
<1>4. \A j \in DOMAIN r : r[j] \in ToSet(t) BY <1>1 DEF Catted, ToSet
<1>5. \A v \in ToSet(t) : v \in ToSet(s) \cup ToSet(r) BY <1>2 DEF ToSet
<1>6. \A v \in ToSet(s) : v \in ToSet(t) BY <1>3 DEF ToSet
<1>7. \A v \in ToSet(r) : v \in ToSet(t) BY <1>4 DEF ToSet
<1> QED BY <1>5, <1>6, <1>7

LEMMA SetOfOne == ASSUME NEW s \in Seq(Nat), NEW m \in Nat, NEW t, t = Append(s, m)
                  PROVE  ToSet(t) = ToSet(s) \cup {m}
<1>1. Len(s) \in Nat /\ DOMAIN s = 1..Len(s) /\ DOMAIN t = 1..(Len(s) + 1) OBVIOUS
<1>2. \A i \in 1..Len(s) : t[i] = s[i] BY <1>1
<1>3. t[Len(s) + 1] = m BY <1>1
<1>4. Len(s) + 1 \in DOMAIN t /\ \A i \in DOMAIN t : i \in DOMAIN s \/ i = Len(s) + 1 BY <1>1
<1>5. \A i \in DOMAIN s : i \in DOMAIN t BY <1>1
<1> QED BY <1>1, <1>2, <1>3, <1>4, <1>5 DEF ToSet

LEMMA SetOfNone == ToSet(<< >>) = {} BY DEF ToSet

\* Nothing goes away but what is dropped, and the message that is taken comes to a place.
LEMMA FoundNext ==
    ASSUME AllFound, Taken \in Nat, dropped \subseteq dropped',
           \/ Taken' = Taken
           \/ Taken' = Taken + 1 /\ (Taken + 1 \in dropped' \/ In(conn', slave', names', local', Taken + 1)),
           \A m : Somewhere(m) => m \in dropped' \/ In(conn', slave', names', local', m)
    PROVE  AllFound'
<1> SUFFICES ASSUME NEW m \in 1..Taken' PROVE m \in dropped' \/ Somewhere(m)' BY DEF AllFound
<1>1. m \in 1..Taken \/ (Taken' = Taken + 1 /\ m = Taken + 1) OBVIOUS
<1>2. CASE m \in 1..Taken BY <1>2 DEF AllFound, Somewhere
<1>3. CASE Taken' = Taken + 1 /\ m = Taken + 1
  <2>1. Taken' # Taken BY <1>3
  <2>2. Taken + 1 \in dropped' \/ In(conn', slave', names', local', Taken + 1) BY <2>1
  <2> QED BY <1>3, <2>2 DEF Somewhere
<1> QED BY <1>1, <1>2, <1>3

\* Places only grow.
LEMMA FatesGrow ==
    ASSUME FatesInv, Taken \in Nat, dropped \subseteq dropped', blank' = blank, merged' = merged,
           names' = names, \A m \in ToSet(local) : m \in ToSet(local'),
           \/ Taken' = Taken
           \/ Taken' = Taken + 1 /\ (Taken + 1 \in dropped' \/ In(conn', slave', names', local', Taken + 1)),
           \A fd \in 1..MaxConn : \A m \in ToSet(conn[fd].out) : m \in ToSet(conn'[fd].out),
           \A id \in Node \cup {Self} : \A m \in ToSet(Contents(slave[id].queue)) :
               m \in dropped' \/ In(conn', slave', names', local', m)
    PROVE  FatesInv'
<1>1. \A m : Somewhere(m) => m \in dropped' \/ In(conn', slave', names', local', m) BY DEF Somewhere, In
<1>2. AllFound' BY <1>1, FoundNext DEF FatesInv
<1>3. BlankFits' BY DEF FatesInv, BlankFits
<1> QED BY <1>2, <1>3 DEF FatesInv

\* What a slave has queued is somewhere while its queue is kept.
LEMMA SlaveStays ==
    ASSUME NEW i \in Node \cup {Self}, NEW m \in ToSet(Contents(slave[i].queue)), slave'[i].queue = slave[i].queue
    PROVE  In(conn', slave', names', local', m)
  BY DEF In

LEMMA RemoteOutFates == ASSUME MessagesInv, FatesInv, RemoteOut PROVE FatesInv'
<1>1. PICK m, d : m = Head(inbox).m /\ d = Head(inbox).dest OBVIOUS
<1>2. PICK id : id = IF d \in Name THEN names[d].value ELSE d OBVIOUS
<1>3. /\ inbox # << >> /\ inbox' = Tail(inbox) /\ id # 0 /\ RemoteSendHandle(m, id)
      /\ names' = names /\ dests' = dests /\ blank' = blank /\ merged' = merged
  BY <1>1, <1>2 DEF RemoteOut, Entry
<1>4. Taken' = Taken + 1 /\ Taken \in Nat /\ m = Taken + 1 /\ d \in Dest /\ m \in Nat
  BY <1>1, <1>3, TakeStep
<1>5. id \in Node \cup {Self}
  <2>2. CASE d \in Name
    <3>1. names[d] \in Named BY <2>2, Known DEF Typed
    <3> QED BY <1>2, <1>3, <2>2, <3>1 DEF Named
  <2>3. CASE d \notin Name BY <1>2, <1>4, <2>3 DEF Dest
  <2> QED BY <2>2, <2>3
<1>6. CASE id = Self
  <2>1. local' = Append(local, m) /\ slave' = slave /\ conn' = conn /\ dropped' = dropped
    BY <1>3, <1>6 DEF RemoteSendHandle
  <2>2. local \in Seq(Nat) BY Known DEF Typed
  <2>3. ToSet(local') = ToSet(local) \cup {m} BY <1>4, <2>1, <2>2, SetOfOne
  <2>4. In(conn', slave', names', local', m) BY <2>3 DEF In
  <2>5. ASSUME NEW i \in Node \cup {Self}, NEW k \in ToSet(Contents(slave[i].queue))
        PROVE  In(conn', slave', names', local', k)
    BY <2>1, <2>5, SlaveStays
  <2> QED BY <1>3, <1>4, <2>1, <2>3, <2>4, <2>5, FatesGrow
<1>7. CASE id # Self /\ MustWait(slave[id])
  <2>0. id \in Node BY <1>5, <1>7
  <2>1. SlaveFits(slave[id], id, nconn, conn, dests) BY <2>0, SlaveKnown
  <2>2. slave[id].status # "down" BY <1>7, <2>1 DEF SlaveFits, MustWait
  <2>3. /\ slave' = [slave EXCEPT ![id].queue = PushQueue(@, m)]
        /\ conn' = conn /\ local' = local /\ dropped' = dropped
    BY <1>3, <1>7, <2>2 DEF RemoteSendHandle
  <2>4. PICK s \in Slave : s = slave[id] BY <2>0, SlaveKnown
  <2>5. PICK w : w = PushQueue(s.queue, m) OBVIOUS
  <2>6. s.queue \in Rings \cup {NULL} BY <2>0, <2>4, SlaveKnown
  <2>7. Contents(w) = Append(Contents(s.queue), m) BY <1>4, <2>5, <2>6, PushAny DEF Pushed
  <2>8. ToSet(Contents(w)) = ToSet(Contents(s.queue)) \cup {m}
    <3>1. PICK u \in Seq(Nat) : u = Contents(s.queue) BY <2>6, ContentsType
    <3> QED BY <1>4, <2>7, <3>1, SetOfOne
  <2>9. slave \in [Node \cup {Self} -> Slave] BY Known DEF Typed
  <2>10. PICK s2 : s2 = [s EXCEPT !.queue = w] OBVIOUS
  <2>11. s2.queue = w BY <2>4, <2>10 DEF Slave
  <2>12. slave' = [slave EXCEPT ![id] = s2] BY <2>3, <2>4, <2>5, <2>10
  <2>13. slave'[id].queue = w /\ \A i \in Node \cup {Self} : i # id => slave'[i] = slave[i]
    BY <1>5, <2>9, <2>11, <2>12
  <2>14. In(conn', slave', names', local', m) BY <1>5, <2>8, <2>13 DEF In
  <2>15. ASSUME NEW i \in Node \cup {Self}, NEW k \in ToSet(Contents(slave[i].queue))
         PROVE  In(conn', slave', names', local', k)
    <3>1. CASE i = id BY <1>5, <2>4, <2>8, <2>13, <2>15, <3>1 DEF In
    <3>2. CASE i # id BY <2>13, <2>15, <3>2, SlaveStays
    <3> QED BY <3>1, <3>2
  <2> QED BY <1>3, <1>4, <2>3, <2>14, <2>15, FatesGrow
<1>8. CASE id # Self /\ ~MustWait(slave[id])
  <2>0. id \in Node BY <1>5, <1>8
  <2>1. /\ conn' = Send(conn, slave[id].fd, <<m>>) /\ slave' = slave /\ local' = local
        /\ dropped' = dropped \cup Unsent(slave[id].fd, <<m>>)
    BY <1>3, <1>8 DEF RemoteSendHandle
  <2>2. ASSUME NEW i \in Node \cup {Self}, NEW k \in ToSet(Contents(slave[i].queue))
        PROVE  In(conn', slave', names', local', k)
    BY <2>1, <2>2, SlaveStays
  <2>3. PICK ms : ms = <<m>> OBVIOUS
  <2>4. ms \in Seq(Nat) /\ ToSet(ms) = {m} BY <1>4, <2>3 DEF ToSet
  <2>5. CASE slave[id].fd > 0
    <3>1. PICK fd \in 1..MaxConn : fd = slave[id].fd BY <2>0, <2>5, SlaveKnown
    <3>2. conn' = Send(conn, fd, ms) BY <2>1, <2>3, <3>1
    <3>3. conn'[fd].out = conn[fd].out \o ms /\ \A i \in 1..MaxConn : i # fd => conn'[i] = conn[i]
      BY <2>4, <3>2, SendParts
    <3>4. ToSet(conn'[fd].out) = ToSet(conn[fd].out) \cup {m}
      <4>1. PICK o \in Seq(Nat) : o = conn[fd].out BY Known DEF Typed, Conn
      <4>2. PICK o2 : o2 = conn'[fd].out OBVIOUS
      <4>3. o2 = o \o ms BY <3>3, <4>1, <4>2
      <4>4. ToSet(o2) = ToSet(o) \cup ToSet(ms) BY <2>4, <4>3, SetOfCat
      <4> QED BY <2>4, <4>1, <4>2, <4>4
    <3>5. In(conn', slave', names', local', m) BY <3>4 DEF In
    <3>6. \A i \in 1..MaxConn : \A k \in ToSet(conn[i].out) : k \in ToSet(conn'[i].out) BY <3>3, <3>4
    <3>7. dropped \subseteq dropped' BY <2>1
    <3> QED BY <1>3, <1>4, <2>1, <2>2, <3>5, <3>6, <3>7, FatesGrow
  <2>6. CASE ~(slave[id].fd > 0)
    <3>1. conn' = conn BY <2>1, <2>6 DEF Send
    <3>2. m \in dropped' /\ dropped \subseteq dropped' BY <2>1, <2>3, <2>4, <2>6 DEF Unsent
    <3> QED BY <1>3, <1>4, <2>1, <2>2, <3>1, <3>2, FatesGrow
  <2> QED BY <2>5, <2>6
<1> QED BY <1>6, <1>7, <1>8

LEMMA QueryNameFates == ASSUME MessagesInv, FatesInv, QueryName PROVE FatesInv'
<1>1. PICK m, n : m = Head(inbox).m /\ n = Head(inbox).dest OBVIOUS
<1>2. /\ inbox # << >> /\ n \in Name /\ inbox' = Tail(inbox) /\ dests' = dests
      /\ names' = [names EXCEPT ![n].queue = PushQueue(@, m)] /\ blank' = blank \cup {m}
      /\ slave' = slave /\ conn' = conn /\ local' = local /\ merged' = merged /\ dropped' = dropped
  BY <1>1 DEF QueryName, Entry
<1>3. Taken' = Taken + 1 /\ Taken \in Nat /\ m = Taken + 1 /\ m \in Nat BY <1>1, <1>2, TakeStep
<1>4. PICK q : q = names[n].queue OBVIOUS
<1>5. q \in Rings \cup {NULL} /\ names \in [Name -> Named] BY <1>2, <1>4, Known DEF Typed, Named
<1>6. PICK w : w = PushQueue(q, m) OBVIOUS
<1>7. Contents(w) = Append(Contents(q), m) BY <1>3, <1>5, <1>6, PushAny DEF Pushed
<1>8. ToSet(Contents(w)) = ToSet(Contents(q)) \cup {m}
  <2>1. PICK u \in Seq(Nat) : u = Contents(q) BY <1>5, ContentsType
  <2> QED BY <1>3, <1>7, <2>1, SetOfOne
<1>9. names'[n].queue = w /\ \A k \in Name : k # n => names'[k] = names[k]
  <2>1. names' = [names EXCEPT ![n].queue = w] BY <1>2, <1>4, <1>6
  <2> QED BY <1>2, <1>5, <2>1 DEF Named
<1>10. \A k \in Name : \A x \in ToSet(Contents(names[k].queue)) : x \in ToSet(Contents(names'[k].queue))
  BY <1>4, <1>8, <1>9
<1>11. m \in ToSet(Contents(names'[n].queue)) BY <1>8, <1>9
<1>12. AllFound'
  <2>1. In(conn', slave', names', local', m) BY <1>2, <1>11 DEF In
  <2>2. \A x : Somewhere(x) => In(conn', slave', names', local', x) BY <1>2, <1>10 DEF Somewhere, In
  <2> QED BY <1>2, <1>3, <2>1, <2>2, FoundNext DEF FatesInv
<1>13. BlankFits' BY <1>2, <1>10, <1>11 DEF FatesInv, BlankFits
<1> QED BY <1>12, <1>13 DEF FatesInv

\* The queue of name n goes: its messages are somewhere else or dropped, and their
\* headers are filled, or they were moved to a node or delivered.
LEMMA NameEmptied ==
    ASSUME MessagesInv, FatesInv, NEW n, NEW id, NameKnown(n, id), NEW x, x = ToSet(Contents(names[n].queue)),
           dropped \subseteq dropped', merged \subseteq merged', blank' \subseteq blank,
           \A m \in ToSet(local) : m \in ToSet(local'),
           \A m \in x : m \in blank' => m \in merged' \/ m \in ToSet(local'),
           \A m \in x : m \in dropped' \/ In(conn', slave', names', local', m),
           \A fd \in 1..MaxConn : \A m \in ToSet(conn[fd].out) : m \in ToSet(conn'[fd].out),
           \A i \in Node \cup {Self} : \A m \in ToSet(Contents(slave[i].queue)) : In(conn', slave', names', local', m)
    PROVE  FatesInv'
<1>1. n \in Name /\ (\A k \in Name : k # n => names'[k] = names[k]) /\ Taken' = Taken
  BY NameKnownParts DEF NameKnown
<1>2. ASSUME NEW m, Somewhere(m) PROVE m \in dropped' \/ In(conn', slave', names', local', m)
  <2>1. CASE \E fd \in 1..MaxConn : m \in ToSet(conn[fd].out) BY <2>1 DEF In
  <2>2. CASE \E i \in Node \cup {Self} : m \in ToSet(Contents(slave[i].queue)) BY <2>2
  <2>3. CASE m \in x BY <2>3
  <2>4. CASE \E k \in Name : k # n /\ m \in ToSet(Contents(names[k].queue)) BY <1>1, <2>4 DEF In
  <2>5. CASE m \in ToSet(local) BY <2>5 DEF In
  <2> QED BY <1>2, <2>1, <2>2, <2>3, <2>4, <2>5 DEF Somewhere, In
<1>3. AllFound' BY <1>1, <1>2, Known, FoundNext DEF FatesInv
<1>4. BlankFits'
  <2> SUFFICES ASSUME NEW m \in blank'
               PROVE  \/ m \in merged' \/ m \in ToSet(local')
                      \/ \E k \in Name : m \in ToSet(Contents(names'[k].queue))
    BY DEF BlankFits
  <2>1. \/ m \in merged \/ m \in ToSet(local)
        \/ \E k \in Name : m \in ToSet(Contents(names[k].queue))
    BY DEF FatesInv, BlankFits
  <2>2. CASE m \in merged \/ m \in ToSet(local) BY <2>2
  <2>3. CASE m \in x BY <2>3
  <2>4. CASE \E k \in Name : k # n /\ m \in ToSet(Contents(names[k].queue)) BY <1>1, <2>4
  <2> QED BY <2>1, <2>2, <2>3, <2>4
<1> QED BY <1>3, <1>4 DEF FatesInv

LEMMA UpdateNameFates ==
    ASSUME MessagesInv, FatesInv, NEW n \in Name, NEW id \in Node \cup {Self}, UpdateName(n, id)
    PROVE  FatesInv'
<1>1. PICK q, s : q = names[n].queue /\ s = slave[id] OBVIOUS
<1>2. NameKnown(n, id) BY DEF UpdateName, NameKnown
<1>3. q \in Rings \cup {NULL} BY <1>1, Known DEF Typed, Named
<1>m. PICK ms \in Seq(Nat) : ms = Contents(q) BY <1>3, ContentsType
<1>x. PICK x : x = ToSet(ms) OBVIOUS
<1>t. /\ conn \in [1..MaxConn -> Conn] /\ slave \in [Node \cup {Self} -> Slave] /\ local \in Seq(Nat)
  BY Known DEF Typed
<1>y. x = ToSet(Contents(names[n].queue)) BY <1>1, <1>m, <1>x
<1>4. CASE q = NULL
  <2>1. /\ slave' = slave /\ conn' = conn /\ local' = local
        /\ blank' = blank /\ merged' = merged /\ dropped' = dropped
    BY <1>1, <1>4 DEF UpdateName, Entry, fates
  <2>2. x = {} BY <1>4, <1>m, <1>x, NoRing, SetOfNone
  <2>3. ASSUME NEW i \in Node \cup {Self}, NEW m \in ToSet(Contents(slave[i].queue))
        PROVE  In(conn', slave', names', local', m)
    BY <2>1, <2>3, SlaveStays
  <2> QED BY <1>2, <1>y, <2>1, <2>2, <2>3, NameEmptied
<1>5. CASE q # NULL /\ s.fd # 0
  <2>1. /\ conn' = Send(conn, s.fd, ms) /\ slave' = slave /\ local' = local /\ merged' = merged
        /\ blank' = blank \ x /\ dropped' = dropped \cup Unsent(s.fd, ms)
    BY <1>1, <1>5, <1>m, <1>x DEF UpdateName, Entry, Addressed
  <2>2. id \in Node BY <1>1, <1>5 DEF MessagesInv, SlavesOK
  <2>3. ASSUME NEW i \in Node \cup {Self}, NEW m \in ToSet(Contents(slave[i].queue))
        PROVE  In(conn', slave', names', local', m)
    BY <2>1, <2>3, SlaveStays
  <2>4. CASE s.fd > 0
    <3>1. PICK fd \in 1..MaxConn : fd = s.fd BY <1>1, <2>2, <2>4, SlaveKnown
    <3>2. conn' = Send(conn, fd, ms) BY <2>1, <3>1
    <3>3. conn'[fd].out = conn[fd].out \o ms /\ \A i \in 1..MaxConn : i # fd => conn'[i] = conn[i]
      BY <3>2, SendParts
    <3>4. ToSet(conn'[fd].out) = ToSet(conn[fd].out) \cup x
      <4>1. PICK o \in Seq(Nat) : o = conn[fd].out BY <1>t DEF Conn
      <4> QED BY <1>x, <3>3, <4>1, SetOfCat
    <3>5. \A m \in x : In(conn', slave', names', local', m) BY <3>4 DEF In
    <3>6. \A i \in 1..MaxConn : \A k \in ToSet(conn[i].out) : k \in ToSet(conn'[i].out) BY <3>3, <3>4
    <3> QED BY <1>2, <1>y, <2>1, <2>3, <3>5, <3>6, NameEmptied
  <2>5. CASE ~(s.fd > 0)
    <3>1. conn' = conn BY <2>1, <2>5 DEF Send
    <3>2. \A m \in x : m \in dropped' BY <1>x, <2>1, <2>5 DEF Unsent
    <3> QED BY <1>2, <1>y, <2>1, <2>3, <3>1, <3>2, NameEmptied
  <2> QED BY <2>4, <2>5
<1>6. CASE q # NULL /\ s.fd = 0 /\ id = Self
  <2>1. s.status = "wait" /\ s.queue = NULL BY <1>1, <1>6 DEF MessagesInv, SlavesOK
  <2>2. /\ local' = local \o Contents(Merged(s.queue, q)) /\ conn' = conn
        /\ slave' = [slave EXCEPT ![id].queue = NULL]
        /\ blank' = blank /\ merged' = merged /\ dropped' = dropped
    BY <1>1, <1>6, <2>1 DEF UpdateName, Entry, fates
  <2>3. local' = local \o ms BY <1>m, <2>1, <2>2 DEF Merged
  <2>4. ToSet(local') = ToSet(local) \cup x BY <1>t, <1>x, <2>3, SetOfCat
  <2>5. \A m \in x : In(conn', slave', names', local', m) BY <2>4 DEF In
  <2>6. ASSUME NEW i \in Node \cup {Self}, NEW m \in ToSet(Contents(slave[i].queue))
        PROVE  In(conn', slave', names', local', m)
    <3>1. CASE i = id
      <4>1. Contents(slave[i].queue) = << >> BY <1>1, <2>1, <3>1, NoRing
      <4> QED BY <2>6, <4>1, SetOfNone
    <3>2. CASE i # id
      <4>1. slave'[i].queue = slave[i].queue BY <1>t, <2>2, <3>2
      <4> QED BY <2>6, <4>1, SlaveStays
    <3> QED BY <3>1, <3>2
  <2> QED BY <1>2, <1>y, <2>2, <2>4, <2>5, <2>6, NameEmptied
<1>7. CASE q # NULL /\ s.fd = 0 /\ id # Self
  <2>0. id \in Node BY <1>7
  <2>1. SlaveFits(s, id, nconn, conn, dests) BY <1>1, <2>0, SlaveKnown
  <2>2. s.status # "down" BY <1>7, <2>1 DEF SlaveFits
  <2>3. /\ slave' = [slave EXCEPT ![id].queue = Merged(@, q)] /\ conn' = conn /\ local' = local
        /\ blank' = blank /\ merged' = merged \cup x /\ dropped' = dropped
    BY <1>1, <1>7, <1>m, <1>x, <2>2 DEF UpdateName, Entry
  <2>4. q \in Rings /\ s \in Slave /\ s.queue \in Rings \cup {NULL} BY <1>1, <1>3, <1>7, <2>0, SlaveKnown
  <2>5. PICK w : w = Merged(s.queue, q) OBVIOUS
  <2>6. Contents(w) = Contents(s.queue) \o Contents(q) BY <2>4, <2>5, MergedRing
  <2>7. ToSet(Contents(w)) = ToSet(Contents(s.queue)) \cup x
    <3>1. PICK u \in Seq(Nat) : u = Contents(s.queue) BY <2>4, ContentsType
    <3> QED BY <1>m, <1>x, <2>6, <3>1, SetOfCat
  <2>8. PICK s2 : s2 = [s EXCEPT !.queue = w] OBVIOUS
  <2>9. s2.queue = w BY <2>4, <2>8 DEF Slave
  <2>10. slave' = [slave EXCEPT ![id] = s2] BY <1>1, <2>3, <2>5, <2>8
  <2>11. slave'[id].queue = w /\ \A i \in Node \cup {Self} : i # id => slave'[i] = slave[i]
    BY <1>t, <2>9, <2>10
  <2>12. \A m \in ToSet(Contents(w)) : In(conn', slave', names', local', m) BY <2>11 DEF In
  <2>13. ASSUME NEW i \in Node \cup {Self}, NEW m \in ToSet(Contents(slave[i].queue))
         PROVE  In(conn', slave', names', local', m)
    <3>1. CASE i = id BY <1>1, <2>7, <2>12, <2>13, <3>1
    <3>2. CASE i # id BY <2>11, <2>13, <3>2, SlaveStays
    <3> QED BY <3>1, <3>2
  <2>14. \A m \in x : In(conn', slave', names', local', m) BY <2>7, <2>12
  <2> QED BY <1>2, <1>y, <2>3, <2>13, <2>14, NameEmptied
<1> QED BY <1>4, <1>5, <1>6, <1>7

LEMMA AddConnectionFates ==
    ASSUME MessagesInv, FatesInv, NEW cmd \in {"S", "A"}, NEW id \in Node, NEW who \in Node \cup {Self},
           NEW k \in 1..MaxIn, AddConnection(cmd, id, who, k)
    PROVE  FatesInv'
<1>1. PICK fd \in 1..MaxConn : fd = nconn + 1 BY Known DEF AddConnection
<1>2. /\ names' = names /\ inbox' = inbox /\ dests' = dests /\ local' = local
      /\ blank' = blank /\ merged' = merged /\ dropped' = dropped
  BY DEF AddConnection, fates
<1>3. Taken' = Taken /\ Taken \in Nat BY <1>2, Known DEF Taken
<1>4. slave \in [Node \cup {Self} -> Slave] /\ conn \in [1..MaxConn -> Conn] BY Known DEF Typed
<1>5. PICK s \in Slave : s = slave[id] BY <1>4
<1>p. PICK s1, f1, u : /\ s1 = [s EXCEPT !.fd = fd] /\ f1 = (s1.got = << >>)
                       /\ u = (IF cmd = "S" THEN <<<<"id", who>>>> ELSE << >>) \o LastFrames(k)[k]
  OBVIOUS
<1>q. PICK o : o = IF cmd = "S" THEN << >> ELSE Contents(s1.queue) OBVIOUS
<1>r. PICK s2, c2 : /\ s2 = (IF cmd = "S" THEN [s1 EXCEPT !.status = "handshake"] ELSE Connected(s1))
                    /\ c2 = [node |-> id, in |-> u, out |-> o, fwd |-> << >>, clean |-> f1]
  OBVIOUS
<1>6. /\ slave' = [slave EXCEPT ![id] = s2] /\ conn' = [conn EXCEPT ![fd] = c2]
      /\ cmd = "S" => s2 = [[s EXCEPT !.fd = fd] EXCEPT !.status = "handshake"]
      /\ cmd = "A" => c2.out = Contents([s EXCEPT !.fd = fd].queue)
  <2>1. slave' = [slave EXCEPT ![id] = s2] BY <1>1, <1>5, <1>p, <1>r DEF AddConnection
  <2>2. conn' = [conn EXCEPT ![fd] = c2] BY <1>1, <1>5, <1>p, <1>q, <1>r DEF AddConnection, DispatchQueue
  <2>3. c2.out = o BY <1>r
  <2> QED BY <1>p, <1>q, <1>r, <2>1, <2>2, <2>3
<1>7. slave'[id] = s2 /\ \A i \in Node \cup {Self} : i # id => slave'[i] = slave[i] BY <1>4, <1>6
<1>8. conn'[fd] = c2 /\ \A i \in 1..MaxConn : i # fd => conn'[i] = conn[i] BY <1>4, <1>6
<1>9. \A i \in 1..MaxConn : \A m \in ToSet(conn[i].out) : m \in ToSet(conn'[i].out)
  <2>1. nconn \in Nat /\ fd > nconn BY <1>1, Known
  <2>2. conn[fd].out = << >> BY <2>1 DEF MessagesInv, ConnsOK, ConnFits
  <2> QED BY <1>8, <2>2, SetOfNone
<1>10. ASSUME NEW i \in Node \cup {Self}, NEW m \in ToSet(Contents(slave[i].queue))
       PROVE  In(conn', slave', names', local', m)
  <2>1. CASE i # id BY <1>7, <1>10, <2>1, SlaveStays
  <2>2. CASE i = id /\ cmd = "S"
    <3>1. s2.queue = s.queue BY <1>5, <1>6, <2>2 DEF Slave
    <3>2. slave'[i].queue = slave[i].queue BY <1>5, <1>7, <2>2, <3>1
    <3> QED BY <1>10, <3>2, SlaveStays
  <2>3. CASE i = id /\ cmd = "A"
    <3>1. [s EXCEPT !.fd = fd].queue = s.queue BY <1>5 DEF Slave
    <3>2. conn'[fd].out = Contents(s.queue) BY <1>6, <1>8, <2>3, <3>1
    <3>3. m \in ToSet(conn'[fd].out) BY <1>5, <1>10, <2>3, <3>2
    <3> QED BY <3>3 DEF In
  <2> QED BY <2>1, <2>2, <2>3
<1> QED BY <1>2, <1>3, <1>9, <1>10, FatesGrow

LEMMA DataOwnedFates ==
    ASSUME MessagesInv, FatesInv, NEW fd \in 1..MaxConn, NEW k, NEW dead \in BOOLEAN, NEW id \in Node, NEW c \in Conn,
           NEW s \in Slave, NEW r, DataOf(fd, k, dead, id, c, s, r), Taken' = Taken
    PROVE  FatesInv'
<1>0. PICK s2, c2 : s2 = r.s /\ c2 = ReadFrom(c, k, r.sent, r.fwd) OBVIOUS
<1>1. /\ c = conn[fd] /\ s = slave[id] /\ Kept(r, s) /\ r \in Loops /\ k \in 1..Len(c.in)
      /\ slave' = [slave EXCEPT ![id] = s2] /\ conn' = [conn EXCEPT ![fd] = c2]
      /\ names' = names /\ local' = local /\ blank' = blank /\ merged' = merged
      /\ dropped' = dropped \cup Refused(s, r)
  BY <1>0 DEF DataOf
<1>2. PICK ms \in Seq(Nat), w \in Seq(Seq(Unit)) : ms = r.sent /\ w = r.fwd BY <1>1, LoopParts
<1>3. c2.out = c.out \o ms
  <2>1. c2 = ReadFrom(c, k, ms, w) BY <1>0, <1>2
  <2>2. WasRead(c2, c, k, ms, w) BY <1>1, <2>1, ReadConn
  <2> QED BY <2>2 DEF WasRead
<1>4. slave \in [Node \cup {Self} -> Slave] /\ conn \in [1..MaxConn -> Conn] BY Known DEF Typed
<1>5. slave'[id] = s2 /\ \A i \in Node \cup {Self} : i # id => slave'[i] = slave[i] BY <1>1, <1>4
<1>6. conn'[fd] = c2 /\ \A i \in 1..MaxConn : i # fd => conn'[i] = conn[i] BY <1>1, <1>4
<1>7. ToSet(c2.out) = ToSet(c.out) \cup ToSet(ms)
  <2>1. PICK o \in Seq(Nat) : o = c.out BY DEF Conn
  <2> QED BY <1>3, <2>1, SetOfCat
<1>8. \A i \in 1..MaxConn : \A m \in ToSet(conn[i].out) : m \in ToSet(conn'[i].out) BY <1>1, <1>6, <1>7
<1>9. ASSUME NEW i \in Node \cup {Self}, NEW m \in ToSet(Contents(slave[i].queue))
      PROVE  m \in dropped' \/ In(conn', slave', names', local', m)
  <2>1. CASE i # id BY <1>5, <1>9, <2>1, SlaveStays
  <2>2. CASE i = id /\ s2.queue = s.queue
    <3>1. slave'[i].queue = slave[i].queue BY <1>1, <1>5, <2>2
    <3> QED BY <1>9, <3>1, SlaveStays
  <2>3. CASE i = id /\ s2.status = "down" /\ ms = << >>
    <3>1. m \in Refused(s, r) BY <1>0, <1>1, <1>2, <1>9, <2>3, SetOfNone DEF Refused
    <3> QED BY <1>1, <3>1
  <2>4. CASE i = id /\ ms = Contents(s.queue)
    <3>1. m \in ToSet(conn'[fd].out) BY <1>1, <1>6, <1>7, <1>9, <2>4
    <3> QED BY <3>1 DEF In
  <2> QED BY <1>0, <1>1, <1>2, <2>1, <2>2, <2>3, <2>4 DEF Kept
<1>10. Taken \in Nat /\ dropped \subseteq dropped' BY <1>1, Known
<1> QED BY <1>1, <1>8, <1>9, <1>10, FatesGrow

LEMMA DataFates ==
    ASSUME MessagesInv, FatesInv, NEW fd \in 1..MaxConn, NEW k \in 1..Len(conn[fd].in), NEW dead \in BOOLEAN, Data(fd, k, dead)
    PROVE  FatesInv'
<1>1. CASE Owns(conn[fd].node, fd)
  <2>1. PICK id \in Node, c \in Conn, s \in Slave, r \in Loops : DataOf(fd, k, dead, id, c, s, r) BY <1>1, DataParts
  <2>2. PICK x \in Seq(Dest) : ToHarbor(x)
    <3>1. ToHarbor(IF dead THEN [i \in DOMAIN r.fwd |-> id] ELSE << >>) BY <2>1 DEF DataOf
    <3>2. PICK w \in Seq(Seq(Unit)) : w = r.fwd BY LoopParts
    <3>3. PICK L \in Nat : L = Len(w) /\ DOMAIN w = 1..L OBVIOUS
    <3>4. [i \in 1..L |-> id] \in Seq(Dest)
      <4>1. id \in Dest BY DEF Dest
      <4> QED BY <3>3, <4>1
    <3>5. << >> \in Seq(Dest) OBVIOUS
    <3>6. CASE dead BY <3>1, <3>2, <3>3, <3>4, <3>6
    <3>7. CASE ~dead BY <3>1, <3>5, <3>7
    <3> QED BY <3>6, <3>7
  <2>3. Taken' = Taken BY <2>2, MoreSent
  <2> QED BY <2>1, <2>3, DataOwnedFates
<1>2. CASE ~Owns(conn[fd].node, fd)
  <2>1. /\ conn' = [conn EXCEPT ![fd].in = SubSeq(@, k + 1, Len(@))] /\ slave' = slave
        /\ inbox' = inbox /\ dests' = dests /\ names' = names /\ local' = local
        /\ blank' = blank /\ merged' = merged /\ dropped' = dropped
    BY <1>2 DEF Data
  <2>2. Taken' = Taken /\ Taken \in Nat BY <2>1, Known DEF Taken
  <2>3. conn \in [1..MaxConn -> Conn] BY Known DEF Typed
  <2>4. \A i \in 1..MaxConn : conn'[i].out = conn[i].out BY <2>1, <2>3 DEF Conn
  <2>5. ASSUME NEW i \in Node \cup {Self}, NEW m \in ToSet(Contents(slave[i].queue))
        PROVE  In(conn', slave', names', local', m)
    BY <2>1, <2>5, SlaveStays
  <2> QED BY <2>1, <2>2, <2>4, <2>5, FatesGrow
<1> QED BY <1>1, <1>2

LEMMA SocketClosedFates == ASSUME MessagesInv, FatesInv, NEW fd \in 1..MaxConn, SocketClosed(fd) PROVE FatesInv'
<1>1. PICK id : id = conn[fd].node OBVIOUS
<1>2. /\ fd <= nconn /\ slave' = [slave EXCEPT ![id].fd = -1] /\ conn' = [conn EXCEPT ![fd].in = << >>]
      /\ names' = names /\ inbox' = inbox /\ dests' = dests /\ local' = local
      /\ blank' = blank /\ merged' = merged /\ dropped' = dropped
  BY <1>1 DEF SocketClosed, fates
<1>3. Taken' = Taken /\ Taken \in Nat BY <1>2, Known DEF Taken
<1>4. slave \in [Node \cup {Self} -> Slave] /\ conn \in [1..MaxConn -> Conn] BY Known DEF Typed
<1>5. \A i \in 1..MaxConn : conn'[i].out = conn[i].out BY <1>2, <1>4 DEF Conn
<1>6. \A i \in Node \cup {Self} : slave'[i].queue = slave[i].queue BY <1>2, <1>4 DEF Slave
<1>7. ASSUME NEW i \in Node \cup {Self}, NEW m \in ToSet(Contents(slave[i].queue))
      PROVE  In(conn', slave', names', local', m)
  BY <1>6, <1>7, SlaveStays
<1> QED BY <1>2, <1>3, <1>5, <1>7, FatesGrow

LEMMA NextFates == ASSUME MessagesInv, FatesInv, [HarborNext]_harborVars PROVE FatesInv'
<1>1. ASSUME NEW dest \in Node \cup Name, LocalSend(dest) PROVE FatesInv'
  <2>1. dest \in Dest BY DEF Dest
  <2>2. PICK x : x = <<dest>> OBVIOUS
  <2>3. x \in Seq(Dest) /\ ToHarbor(x) BY <1>1, <2>1, <2>2 DEF LocalSend
  <2>4. Taken' = Taken /\ Taken \in Nat BY <2>3, MoreSent, Known
  <2>5. /\ slave' = slave /\ names' = names /\ conn' = conn /\ local' = local
        /\ blank' = blank /\ merged' = merged /\ dropped' = dropped
    BY <1>1 DEF LocalSend, fates
  <2>6. ASSUME NEW i \in Node \cup {Self}, NEW m \in ToSet(Contents(slave[i].queue))
        PROVE  In(conn', slave', names', local', m)
    BY <2>5, <2>6, SlaveStays
  <2> QED BY <2>4, <2>5, <2>6, FatesGrow
<1>2. ASSUME RemoteOut PROVE FatesInv' BY <1>2, RemoteOutFates
<1>3. ASSUME QueryName PROVE FatesInv' BY <1>3, QueryNameFates
<1>4. ASSUME NEW n \in Name, NEW id \in Node \cup {Self}, UpdateName(n, id) PROVE FatesInv' BY <1>4, UpdateNameFates
<1>5. ASSUME NEW cmd \in {"S", "A"}, NEW id \in Node, NEW who \in Node \cup {Self}, NEW k \in 1..MaxIn,
             AddConnection(cmd, id, who, k)
      PROVE  FatesInv'
  BY <1>5, AddConnectionFates
<1>6. ASSUME NEW fd \in 1..MaxConn, NEW k \in 1..Len(conn[fd].in), NEW dead \in BOOLEAN, Data(fd, k, dead) PROVE FatesInv'
  BY <1>6, DataFates
<1>7. ASSUME NEW fd \in 1..MaxConn, SocketClosed(fd) PROVE FatesInv' BY <1>7, SocketClosedFates
<1>8. ASSUME UNCHANGED harborVars PROVE FatesInv'
  <2>1. /\ slave' = slave /\ names' = names /\ inbox' = inbox /\ dests' = dests /\ conn' = conn
        /\ local' = local /\ blank' = blank /\ merged' = merged /\ dropped' = dropped
    BY <1>8 DEF harborVars, fates
  <2> QED BY <2>1 DEF FatesInv, AllFound, BlankFits, Somewhere, Taken
<1> QED BY <1>1, <1>2, <1>3, <1>4, <1>5, <1>6, <1>7, <1>8 DEF HarborNext

LEMMA InitFates == ASSUME HarborInit PROVE FatesInv
<1>1. inbox = << >> /\ dests = << >> /\ blank = {} BY DEF HarborInit
<1>2. Taken = 0 BY <1>1 DEF Taken, TakenOf
<1> QED BY <1>1, <1>2 DEF FatesInv, AllFound, BlankFits

-----------------------------------------------------------------------------

LEMMA RingInRange == ASSUME NEW q \in Rings \cup {NULL} PROVE RingOK(q)
<1>1. CASE q = NULL BY <1>1 DEF RingOK
<1>2. CASE q \in Rings
  <2>1. PICK z \in Nat \ {0} : q \in RingOf(z) BY <1>2 DEF Rings
  <2> QED BY <2>1 DEF RingOf, RingOK
<1> QED BY <1>1, <1>2

LEMMA MessagesImply == ASSUME MessagesInv, FatesInv PROVE MessagesKept
<1>1. HarborTypeOK
  <2>1. ASSUME NEW id \in Node \cup {Self}
        PROVE  /\ slave[id].fd \in -1..MaxConn
               /\ slave[id].status \in {"wait", "handshake", "header", "content", "down"}
               /\ RingOK(slave[id].queue)
    <3>1. slave[id] \in Slave BY Known DEF Typed
    <3>2. slave[id].queue \in Rings \cup {NULL} BY <3>1 DEF Slave
    <3> QED BY <3>1, <3>2, RingInRange DEF Slave
  <2>2. ASSUME NEW n \in Name PROVE names[n].value \in {0, Self} \cup Node /\ RingOK(names[n].queue)
    <3>1. names[n] \in Named BY Known DEF Typed
    <3>2. names[n].queue \in Rings \cup {NULL} BY <3>1 DEF Named
    <3> QED BY <3>1, <3>2, RingInRange DEF Named
  <2> QED BY <2>1, <2>2, Known DEF HarborTypeOK
<1>2. NothingLeftBehind
  <2>1. ASSUME NEW n \in Name, names[n].value # 0 PROVE Contents(names[n].queue) = << >>
    <3>1. Vals[n] # 0 BY <2>1 DEF Vals
    <3>2. Now[<<"name", n>>] = << >> BY <3>1, Known DEF NamesFit
    <3> QED BY <3>2, NowForm
  <2>2. ASSUME NEW id \in Node, slave[id].fd > 0, slave[id].status \in {"header", "content"}
        PROVE  Contents(slave[id].queue) = << >>
    <3>1. SlaveFits(slave[id], id, nconn, conn, dests) /\ slave[id].status # "handshake" BY <2>2, SlaveKnown
    <3> QED BY <2>2, <3>1 DEF SlaveFits
  <2> QED BY <2>1, <2>2 DEF NothingLeftBehind
<1>3. \A p \in Places : At(p) = Now[p]
  <2>1. ASSUME NEW p \in Places PROVE At(p) = Now[p]
    BY DEF At, Now, Where
  <2> QED BY <2>1
<1>4. AtMostOnce
  <2>1. PICK f : f = Now OBVIOUS
  <2>2. Once(f) BY <2>1, Known DEF Good
  <2>3. ASSUME NEW p \in Places, NEW q \in Places PROVE \A i \in DOMAIN At(p), j \in DOMAIN At(q) : At(p)[i] = At(q)[j] => p = q /\ i = j
    <3>1. At(p) = f[p] /\ At(q) = f[q] BY <1>3, <2>1
    <3> QED BY <2>2, <3>1 DEF Once
  <2> QED BY <2>3 DEF AtMostOnce
<1>5. InOrderToNode
  <2>1. ASSUME NEW fd \in 1..MaxConn PROVE Sorted(conn[fd].out, dests)
    <3>1. <<"conn", fd>> \in Places BY PlacesOf
    <3>2. Sorted(Now[<<"conn", fd>>], dests) BY <3>1, Known DEF Good
    <3> QED BY <3>2, NowForm
  <2> QED BY <2>1 DEF InOrderToNode, Sorted
<1>6. NothingLost
  <2>1. ASSUME NEW m, Somewhere(m) PROVE \E p \in Places : m \in ToSet(At(p))
    <3>1. CASE \E fd \in 1..MaxConn : m \in ToSet(conn[fd].out)
      <4>1. PICK fd \in 1..MaxConn : m \in ToSet(conn[fd].out) BY <3>1
      <4>2. PICK p \in Places : p = <<"conn", fd>> BY PlacesOf
      <4> QED BY <4>1, <4>2 DEF At
    <3>2. CASE \E id \in Node \cup {Self} : m \in ToSet(Contents(slave[id].queue))
      <4>1. PICK id \in Node \cup {Self} : m \in ToSet(Contents(slave[id].queue)) BY <3>2
      <4>2. PICK p \in Places : p = <<"slave", id>> BY PlacesOf
      <4> QED BY <4>1, <4>2 DEF At
    <3>3. CASE \E n \in Name : m \in ToSet(Contents(names[n].queue))
      <4>1. PICK n \in Name : m \in ToSet(Contents(names[n].queue)) BY <3>3
      <4>2. PICK p \in Places : p = <<"name", n>> BY PlacesOf
      <4> QED BY <4>1, <4>2 DEF At
    <3>4. CASE m \in ToSet(local)
      <4>1. PICK p \in Places : p = <<"local", 0>> BY PlacesOf
      <4> QED BY <3>4, <4>1 DEF At
    <3> QED BY <2>1, <3>1, <3>2, <3>3, <3>4 DEF Somewhere, In
  <2> QED BY <2>1 DEF NothingLost, FatesInv, AllFound, Taken, TakenOf
<1>7. HeadersFilled
  <2> SUFFICES ASSUME NEW fd \in 1..MaxConn, NEW m \in ToSet(conn[fd].out), m \in blank, m \notin merged PROVE FALSE
    BY DEF HeadersFilled
  <2>1. PICK f : f = Now OBVIOUS
  <2>2. Once(f) BY <2>1, Known DEF Good
  <2>3. PICK p \in Places : p = <<"conn", fd>> /\ f[p] = conn[fd].out BY <2>1, NowForm, PlacesOf
  <2>4. PICK i \in DOMAIN f[p] : f[p][i] = m BY <2>3 DEF ToSet
  <2>5. PICK q \in Places : q # p /\ m \in ToSet(f[q])
    <3>1. CASE m \in ToSet(local)
      <4>1. PICK q \in Places : q = <<"local", 0>> BY PlacesOf
      <4>2. q # p /\ f[q] = local BY <2>1, <2>3, <4>1, NowForm
      <4> QED BY <3>1, <4>2
    <3>2. CASE \E n \in Name : m \in ToSet(Contents(names[n].queue))
      <4>1. PICK n \in Name : m \in ToSet(Contents(names[n].queue)) BY <3>2
      <4>2. PICK q \in Places : q = <<"name", n>> BY PlacesOf
      <4>3. q # p /\ f[q] = Contents(names[n].queue) BY <2>1, <2>3, <4>2, NowForm
      <4> QED BY <4>1, <4>3
    <3> QED BY <3>1, <3>2 DEF FatesInv, BlankFits
  <2>6. PICK j \in DOMAIN f[q] : f[q][j] = m BY <2>5 DEF ToSet
  <2>7. OneSpot(p, i, q, j) BY <2>2, <2>4, <2>6, OnceApart
  <2> QED BY <2>5, <2>7 DEF OneSpot
<1> QED BY <1>1, <1>2, <1>4, <1>5, <1>6, <1>7 DEF MessagesKept

\* service_harbor.c keeps the messages of local services, for every number of nodes,
\* names and connections: a message waits only while the handle of its name or the
\* connection to its node is missing, is sent at most once, and after those that were
\* sent before it to the same destination, also when rings are expanded and merged; none
\* is lost but with a node that is down, and all that leave carry their handle, but
\* for those that moved from the queue of a name to that of a node.
THEOREM MessagesKeptAlways == HarborSpec => []MessagesKept
<1>1. HarborInit => MessagesInv /\ FatesInv BY InitMessages, InitFates
<1>2. MessagesInv /\ FatesInv /\ [HarborNext]_harborVars => MessagesInv' /\ FatesInv'
  BY NextMessages, NextFates
<1>3. MessagesInv /\ FatesInv => MessagesKept BY MessagesImply
<1> QED BY <1>1, <1>2, <1>3, PTL DEF HarborSpec

-----------------------------------------------------------------------------
(* Streams.                                                                *)

\* The messages a node has sent that were forwarded, m of them.
Forwarded(m) == [i \in 1..m |-> Body(i)]

\* Slave s is to read x, of a node that sends k messages; w was forwarded, and
\* message m is the next.
Expects(s, x, w, k, m) ==
    /\ m \in 1..(k + 1) /\ w = Forwarded(m - 1)
    /\ s.status \in {"handshake", "header", "content", "down"}
    /\ s.status = "handshake" =>
         m = 1 /\ s.got = << >> /\ \E who : x = <<<<"id", who>>>> \o LastFrames(k)[k]
    /\ s.status = "header" => s.got \o x = LastFrames(k)[k + 1 - m] /\ Len(s.got) < HeaderLen
    /\ s.status = "content" =>
         /\ m <= k /\ s.got \o x = Body(m) \o LastFrames(k)[k - m]
         /\ s.length = Size(m) /\ Len(s.got) < Size(m)

\* What slaves and connections have read fits the streams.
ReadsOn(s, c) == \E k \in 1..MaxIn : \E m \in 1..(k + 1) : Expects(s, c.in, c.fwd, k, m)
WellRead(c) == c.clean => \E m \in 0..MaxIn : c.fwd = Forwarded(m)
StreamsOK ==
    /\ \A fd \in 1..MaxConn : WellRead(conn[fd])
    /\ crashed # 0 => ~conn[crashed].clean
    /\ \A id \in Node : slave[id].fd > 0 /\ conn[slave[id].fd].clean => ReadsOn(slave[id], conn[slave[id].fd])

\* Two ways to cut a sequence in two parts at one place.
LEMMA SplitSeq ==
    ASSUME NEW S, NEW x \in Seq(S), NEW y \in Seq(S), NEW h \in Seq(S), NEW t \in Seq(S), x \o y = h \o t, Len(x) = Len(h)
    PROVE  x = h /\ y = t
<1>1. PICK a, b : a = x \o y /\ b = h \o t OBVIOUS
<1>2. Catted(a, x, y) /\ Catted(b, h, t) /\ a = b BY <1>1, CatParts
<1>3. Len(a) = Len(x) + Len(y) /\ Len(b) = Len(h) + Len(t) BY <1>1, ConcatProperties
<1>4. /\ Len(x) \in Nat /\ Len(y) \in Nat /\ Len(t) \in Nat /\ Len(h) \in Nat /\ DOMAIN x = 1..Len(x) /\ DOMAIN h = 1..Len(h)
      /\ DOMAIN y = 1..Len(y) /\ DOMAIN t = 1..Len(t)
  OBVIOUS
<1>5. Len(y) = Len(t)
  <2>1. PICK p \in Nat, q \in Nat, r \in Nat : p = Len(x) /\ q = Len(y) /\ r = Len(t) BY ZenonT(60), <1>4
  <2>2. p + q = p + r BY <1>2, <1>3, <2>1
  <2> QED BY SMTT(60), <2>1, <2>2
<1>6. x = h
  <2>1. ASSUME NEW i \in 1..Len(x) PROVE x[i] = h[i] BY <1>2, <1>4 DEF Catted
  <2> QED BY <2>1, SameSeq
<1>7. y = t
  <2>1. ASSUME NEW i \in 1..Len(y) PROVE y[i] = t[i]
    <3>1. a[Len(x) + i] = y[i] BY <1>2, <1>4 DEF Catted
    <3>2. b[Len(h) + i] = t[i] BY <1>2, <1>4, <1>5 DEF Catted
    <3> QED BY <1>2, <3>1, <3>2
  <2> QED BY <1>5, <2>1, SameSeq
<1> QED BY <1>6, <1>7

\* The units that were read and those still to read, before and after a round.
Regrouped(got, u, v, rem) == got \o ((u \o v) \o rem) = (got \o u) \o (v \o rem)
LEMMA Regroup ==
    ASSUME NEW S, NEW got \in Seq(S), NEW u \in Seq(S), NEW v \in Seq(S), NEW rem \in Seq(S)
    PROVE  Regrouped(got, u, v, rem)
<1>1. (u \o v) \o rem = u \o (v \o rem) BY ConcatAssociative
<1>2. PICK t \in Seq(S) : t = v \o rem BY ConcatProperties
<1>4. t \in Seq(S) BY <1>2
<1>3. (got \o u) \o t = got \o (u \o t)
  <2>1. Assoc(got, u, t) BY <1>4, CatAssoc
  <2> QED BY <2>1 DEF Assoc
<1> QED BY <1>1, <1>2, <1>3 DEF Regrouped

MoreGot(u, s, x) == u.status = s.status /\ u.length = s.length /\ u.got = s.got \o x
LEMMA GotMoreNow == ASSUME NEW s \in Slave, NEW x, NEW u, u = GotMore(s, x) PROVE MoreGot(u, s, x)
  BY DEF GotMore, Slave, MoreGot

LEMMA NewFrameParts ==
    ASSUME NEW s \in Slave, NEW z \in Nat, NEW u, u = NewFrame(s, z)
    PROVE  u.status = "content" /\ u.length = z /\ u.got = << >>
  BY DEF NewFrame, Slave

LEMMA HeaderIs == ASSUME NEW m \in 1..MaxIn PROVE HeaderOf(Header(m)) = m
<1>1. 1 \in 1..HeaderLen BY HarborAssumption
<1>2. Header(m)[1] = <<"len", m, 1>> BY <1>1 DEF Header
<1> QED BY <1>2 DEF HeaderOf

\* The frames that are to come, m the first of them.
LEMMA FramesFrom ==
    ASSUME NEW k \in Nat, NEW m \in 1..(k + 1)
    PROVE  /\ LastFrames(k)[k + 1 - m] \in Seq(Unit)
           /\ m = k + 1 => LastFrames(k)[k + 1 - m] = << >>
           /\ m <= k => /\ LastFrames(k)[k - m] \in Seq(Unit)
                        /\ LastFrames(k)[k + 1 - m] = Header(m) \o (Body(m) \o LastFrames(k)[k - m])
<1>1. PICK f : f = LastFrames(k) /\ IsFrames(f, k) BY FramesForm
<1>2. k + 1 - m \in 0..k OBVIOUS
<1>3. f[k + 1 - m] \in Seq(Unit) BY <1>1, <1>2 DEF IsFrames
<1>4. ASSUME m = k + 1 PROVE f[k + 1 - m] = << >>
  <2>1. k + 1 - m = 0 BY <1>4
  <2> QED BY <1>1, <2>1 DEF IsFrames
<1>5. ASSUME m <= k PROVE f[k - m] \in Seq(Unit) /\ f[k + 1 - m] = Header(m) \o (Body(m) \o f[k - m])
  <2>1. PICK j \in 1..k : j = k + 1 - m BY <1>5
  <2>2. j - 1 = k - m /\ k + 1 - j = m /\ j - 1 \in 0..k /\ m \in Nat BY <1>5, <2>1
  <2>3. f[j] = Frame(m) \o f[j - 1] /\ f[j - 1] \in Seq(Unit) BY <1>1, <2>2 DEF IsFrames
  <2>4. Header(m) \in Seq(Unit) /\ Body(m) \in Seq(Unit) BY <2>2, FrameForm
  <2>5. PICK U, h, b, e : U = Unit /\ h = Header(m) /\ b = Body(m) /\ e = f[j - 1] OBVIOUS
  <2>7. h \in Seq(U) /\ b \in Seq(U) /\ e \in Seq(U) BY <2>3, <2>4, <2>5
  <2>6. (h \o b) \o e = h \o (b \o e) BY SMTT(60), <2>7, ConcatAssociative
  <2> QED BY <2>1, <2>2, <2>3, <2>5, <2>6 DEF Frame
<1> QED BY <1>1, <1>3, <1>4, <1>5

LEMMA ForwardedNext ==
    ASSUME NEW m \in Nat \ {0}
    PROVE  /\ Forwarded(m - 1) \in Seq(Seq(Unit)) /\ Body(m) \in Seq(Unit)
           /\ Append(Forwarded(m - 1), Body(m)) = Forwarded(m)
<1>1. PICK n \in Nat : n = m - 1 OBVIOUS
<1>2. \A i \in Nat : Body(i) \in Seq(Unit) BY FrameForm
<1>3. PICK U : U = Seq(Unit) OBVIOUS
<1>4. PICK b \in [Nat -> U] : b = [i \in Nat |-> Body(i)] BY <1>2, <1>3
<1>5. Forwarded(n) = [i \in 1..n |-> b[i]] /\ Forwarded(m) = [i \in 1..m |-> b[i]]
  <2>1. \A i \in 1..n : i \in Nat OBVIOUS
  <2>2. \A i \in 1..m : i \in Nat OBVIOUS
  <2> QED BY <1>4, <2>1, <2>2 DEF Forwarded
<1>6. PICK u, v : u = Forwarded(n) /\ v = Forwarded(m) OBVIOUS
<1>7. u \in Seq(U) /\ Len(u) = n /\ v \in Seq(U) /\ Len(v) = m
  <2>1. \A i \in 1..n : b[i] \in U OBVIOUS
  <2>2. \A i \in 1..m : b[i] \in U OBVIOUS
  <2> QED BY <1>1, <1>5, <1>6, <2>1, <2>2
<1>8. PICK w : w = Append(u, b[m]) OBVIOUS
<1>9. w \in Seq(U) /\ Len(w) = n + 1 /\ \A i \in 1..n : w[i] = u[i]
  BY <1>4, <1>7, <1>8, AppendProperties
<1>10. w[n + 1] = b[m] BY <1>4, <1>7, <1>8, AppendProperties
<1>11. w = v
  <2>1. ASSUME NEW i \in 1..Len(w) PROVE w[i] = v[i]
    <3>1. CASE i \in 1..n BY <1>1, <1>5, <1>6, <1>9, <3>1
    <3>2. CASE i = n + 1 BY <1>1, <1>5, <1>6, <1>10, <3>2
    <3> QED BY <1>9, <3>1, <3>2
  <2>2. Len(w) = Len(v) BY <1>1, <1>7, <1>9
  <2> QED BY <1>7, <1>9, <2>1, <2>2, SameSeq
<1>12. b[m] = Body(m) BY <1>4
<1> QED BY <1>1, <1>2, <1>3, <1>6, <1>7, <1>8, <1>11, <1>12

\* The loop of push_socket_data after i rounds: what it has not read, with what
\* has not arrived, is what slave and node expect.
Pending(a) == IF a.on THEN a.buf ELSE << >>
OnStream(a, rem, w, k) == \E m \in 1..(k + 1) : Expects(a.s, Pending(a) \o rem, w \o a.fwd, k, m)
Fewer(a, b) == b.on => Len(b.buf) < Len(a.buf)

\* The node identifies itself.
LEMMA StreamConnects ==
    ASSUME NEW a \in Loops, a.on, NEW id, NEW b, b = Round(a, id), ~a.crash, NEW rem \in Seq(Unit), NEW w \in Seq(Seq(Unit)),
           NEW k \in Nat, NEW m, Expects(a.s, a.buf \o rem, w \o a.fwd, k, m), a.s.status = "handshake"
    PROVE  OnStream(b, rem, w, k) /\ ~b.crash /\ Fewer(a, b)
<1>0. PICK s \in Slave, buf \in Seq(Unit), sent \in Seq(Nat), fwd \in Seq(Seq(Unit)) :
         /\ a.s = s /\ a.buf = buf /\ a.sent = sent /\ a.fwd = fwd
         /\ s.got \in Seq(Unit) /\ buf # << >> /\ a.crash = FALSE
  BY LoopParts
<1>1. /\ m = 1 /\ w \o fwd = Forwarded(m - 1) /\ s.got = << >> /\ s.status = "handshake"
      /\ \E who : buf \o rem = <<<<"id", who>>>> \o LastFrames(k)[k]
  BY <1>0 DEF Expects
<1>2. m \in 1..(k + 1) BY <1>1
<1>3. CASE buf[1] # <<"id", id>>
  <2>1. b = LoopOf(Closed(a.s), a.buf, FALSE, a.sent, a.fwd, a.crash) BY <1>0, <1>3, RoundRefused
  <2>2. b.s = Closed(s) /\ b.fwd = fwd /\ b.on = FALSE /\ b.crash = FALSE BY <1>0, <2>1 DEF LoopOf
  <2>3. b.s.status = "down" BY <2>2, SlaveEdits
  <2>4. Expects(b.s, Pending(b) \o rem, w \o b.fwd, k, m) BY <1>1, <1>2, <2>2, <2>3 DEF Expects
  <2> QED BY <1>2, <2>2, <2>4 DEF OnStream, Fewer
<1>4. CASE buf[1] = <<"id", id>>
  <2>1. b = LoopOf(Connected(a.s), Tail(a.buf), TRUE, Contents(a.s.queue), a.fwd, a.crash) BY ZenonT(60), <1>0, <1>4, RoundConnected
  <2>2. b.s = Connected(s) /\ b.fwd = fwd /\ b.on = TRUE /\ b.crash = FALSE /\ b.buf = Tail(buf) BY <1>0, <2>1 DEF LoopOf
  <2>3. PICK t \in Seq(Unit) : t = Tail(buf) /\ Len(t) = Len(buf) - 1 /\ Len(buf) \in Nat
    <3>1. Tail(buf) \in Seq(Unit) /\ Len(Tail(buf)) = Len(buf) - 1 BY <1>0, HeadTailProperties
    <3>2. Len(buf) \in Nat BY <1>0
    <3> QED BY ZenonT(60), <3>1, <3>2
  <2>4. b.s.status = "header" /\ b.s.got = << >> BY <1>1, <2>2, SlaveEdits
  <2>5. PICK who : buf \o rem = <<<<"id", who>>>> \o LastFrames(k)[k] BY <1>1
  <2>6. LastFrames(k)[k] \in Seq(Unit) /\ k + 1 - 1 = k
    <3>1. 1 \in 1..(k + 1) /\ k + 1 - 1 = k OBVIOUS
    <3>2. LastFrames(k)[k + 1 - 1] \in Seq(Unit) BY <3>1, FramesFrom
    <3> QED BY <3>1, <3>2
  <2>7. t \o rem = LastFrames(k)[k]
    <3>1. PICK S : S = Unit \cup {<<"id", who>>} OBVIOUS
    <3>2. PICK h, g, f : h = <<Head(buf)>> /\ g = <<<<"id", who>>>> /\ f = LastFrames(k)[k] OBVIOUS
    <3>3. buf = h \o t BY <1>0, <2>3, <3>2
    <3>4. Head(buf) \in Unit /\ buf[1] \in Unit BY <1>0, HeadTailProperties
    <3>5. h \in Seq(S) /\ g \in Seq(S) /\ Len(h) = 1 /\ Len(g) = 1 BY <3>1, <3>2, <3>4
    <3>6. t \in Seq(S) /\ rem \in Seq(S) /\ f \in Seq(S) BY <2>3, <2>6, <3>1, <3>2
    <3>7. (h \o t) \o rem = h \o (t \o rem)
      <4>1. Assoc(h, t, rem) BY <3>5, <3>6, CatAssoc
      <4> QED BY <4>1 DEF Assoc
    <3>8. PICK y \in Seq(S) : y = t \o rem BY <3>6, ConcatProperties
    <3>9. h \o y = g \o f BY <2>5, <3>2, <3>3, <3>7, <3>8
    <3>10. y = f
      <4>1. y \in Seq(S) BY <3>8
      <4> QED BY <3>5, <3>6, <3>9, <4>1, SplitSeq
    <3> QED BY <3>2, <3>8, <3>10
  <2>8. PICK x \in Seq(Unit) : x = t \o rem BY <2>6, <2>7
  <2>9. << >> \o x = x /\ Len(<< >>) = 0 /\ 0 < HeaderLen BY <2>8, HarborAssumption
  <2>10. b.s.got \o (t \o rem) = LastFrames(k)[k + 1 - m] /\ Len(b.s.got) < HeaderLen
    BY <1>1, <2>4, <2>6, <2>7, <2>8, <2>9
  <2>11. Pending(b) \o rem = t \o rem BY <2>2, <2>3 DEF Pending
  <2>12. Expects(b.s, Pending(b) \o rem, w \o b.fwd, k, m) BY <1>1, <1>2, <2>2, <2>4, <2>10, <2>11 DEF Expects
  <2>13. Fewer(a, b)
    <3>1. Len(b.buf) < Len(a.buf) BY <1>0, <2>2, <2>3
    <3> QED BY <3>1 DEF Fewer
  <2> QED BY <1>2, <2>2, <2>12, <2>13 DEF OnStream
<1> QED BY <1>3, <1>4

\* The rest of a stream: what the slave misses of a header or of a content is a
\* positive number of units.
LEMMA StreamNeeds ==
    ASSUME NEW a \in Loops, NEW x, NEW w, NEW k \in Nat, NEW m, Expects(a.s, x, w, k, m), a.s.status \in {"header", "content"}
    PROVE  /\ Need(a.s) \in Nat \ {0}
           /\ a.s.status = "header" => Len(a.s.got) + Need(a.s) = HeaderLen
           /\ a.s.status = "content" => Len(a.s.got) + Need(a.s) = Size(m)
<1>1. a.s.got \in Seq(Unit) BY LoopParts
<1>2. PICK l \in Nat : l = Len(a.s.got) BY <1>1
<1>3. PICK h \in Nat : h = HeaderLen BY HarborAssumption
<1>4. CASE a.s.status = "header"
  <2>1. l < h BY <1>2, <1>3, <1>4 DEF Expects
  <2>2. Need(a.s) = h - l BY <1>2, <1>3, <1>4 DEF Need
  <2> QED BY <1>2, <1>3, <1>4, <2>1, <2>2
<1>5. CASE a.s.status = "content"
  <2>1. m \in 1..(k + 1) /\ a.s.length = Size(m) /\ l < Size(m) BY <1>2, <1>5 DEF Expects
  <2>2. m \in Nat BY <2>1
  <2>3. PICK z \in Nat : z = Size(m) BY <2>2, FrameForm
  <2>4. Need(a.s) = z - l /\ l < z BY <1>2, <1>5, <2>1, <2>3 DEF Need
  <2> QED BY <1>2, <1>5, <2>3, <2>4
<1> QED BY <1>4, <1>5

\* Not all that is missing has arrived.
LEMMA StreamShort ==
    ASSUME NEW a \in Loops, a.on, NEW id, NEW b, b = Round(a, id), ~a.crash, NEW rem \in Seq(Unit), NEW w \in Seq(Seq(Unit)),
           NEW k \in Nat, NEW m, Expects(a.s, a.buf \o rem, w \o a.fwd, k, m), a.s.status \in {"header", "content"},
           Len(a.buf) < Need(a.s)
    PROVE  OnStream(b, rem, w, k) /\ ~b.crash /\ Fewer(a, b)
<1>0. PICK s \in Slave, buf \in Seq(Unit), fwd \in Seq(Seq(Unit)), got \in Seq(Unit) :
         a.s = s /\ a.buf = buf /\ a.fwd = fwd /\ s.got = got /\ a.crash = FALSE
  BY LoopParts
<1>1. Need(a.s) \in Nat \ {0} BY StreamNeeds
<1>2. b = LoopOf(GotMore(a.s, a.buf), a.buf, FALSE, a.sent, a.fwd, a.crash)
  <2>1. ~(Need(a.s) < 0) BY <1>1
  <2> QED BY <2>1, RoundShort
<1>3. PICK s2 : s2 = GotMore(s, buf) OBVIOUS
<1>4. b.s = s2 /\ b.fwd = fwd /\ b.on = FALSE /\ b.crash = FALSE BY <1>0, <1>2, <1>3 DEF LoopOf
<1>5. s2.status = s.status /\ s2.length = s.length /\ s2.got = got \o buf
  <2>1. s \in Slave BY <1>0
  <2>2. MoreGot(s2, s, buf) BY <1>3, <2>1, GotMoreNow
  <2> QED BY <1>0, <2>2 DEF MoreGot
<1>6. s2.got \o (<< >> \o rem) = got \o (buf \o rem)
  <2>1. << >> \o rem = rem OBVIOUS
  <2>2. Assoc(got, buf, rem) BY <1>0, CatAssoc
  <2> QED BY <1>5, <2>1, <2>2 DEF Assoc
<1>7. Len(s2.got) = Len(got) + Len(buf) /\ Len(got) \in Nat /\ Len(buf) \in Nat BY <1>0, <1>5
<1>8. Pending(b) \o rem = << >> \o rem BY <1>4 DEF Pending
<1>9. /\ m \in 1..(k + 1) /\ w \o b.fwd = Forwarded(m - 1) BY <1>0, <1>4 DEF Expects
<1>10. CASE s.status = "header"
  <2>1. Len(got) + Need(a.s) = HeaderLen BY <1>0, <1>10, StreamNeeds
  <2>2. Len(s2.got) < HeaderLen BY <1>0, <1>1, <1>7, <2>1
  <2>3. got \o (buf \o rem) = LastFrames(k)[k + 1 - m] BY <1>0, <1>10 DEF Expects
  <2>4. Expects(b.s, Pending(b) \o rem, w \o b.fwd, k, m) BY <1>4, <1>5, <1>6, <1>8, <1>9, <1>10, <2>2, <2>3 DEF Expects
  <2> QED BY <1>4, <1>9, <2>4 DEF OnStream, Fewer
<1>11. CASE s.status = "content"
  <2>1. Len(got) + Need(a.s) = Size(m) BY <1>0, <1>11, StreamNeeds
  <2>2. Len(s2.got) < Size(m)
    <3>1. m \in Nat BY <1>9
    <3>2. Size(m) \in Nat BY <3>1, FrameForm
    <3> QED BY <1>0, <1>1, <1>7, <2>1, <3>2
  <2>3. m <= k /\ got \o (buf \o rem) = Body(m) \o LastFrames(k)[k - m] /\ s.length = Size(m) BY <1>0, <1>11 DEF Expects
  <2>4. Expects(b.s, Pending(b) \o rem, w \o b.fwd, k, m) BY <1>4, <1>5, <1>6, <1>8, <1>9, <1>11, <2>2, <2>3 DEF Expects
  <2> QED BY <1>4, <1>9, <2>4 DEF OnStream, Fewer
<1> QED BY <1>0, <1>10, <1>11

\* What was read, all, and what is left of the buffer, rest.
ReadTo(a, rem, all, rest) ==
    /\ all \in Seq(Unit) /\ rest \in Seq(Unit)
    /\ all = a.s.got \o SubSeq(a.buf, 1, Need(a.s)) /\ rest = SubSeq(a.buf, Need(a.s) + 1, Len(a.buf))
    /\ Len(all) = Len(a.s.got) + Need(a.s) /\ Len(rest) < Len(a.buf)
    /\ a.s.got \o (a.buf \o rem) = all \o (rest \o rem) /\ rest \o rem \in Seq(Unit)

LEMMA StreamRead ==
    ASSUME NEW a \in Loops, NEW rem \in Seq(Unit), Need(a.s) \in Nat \ {0}, ~(Len(a.buf) < Need(a.s))
    PROVE  \E all, rest : ReadTo(a, rem, all, rest)
<1>0. PICK buf \in Seq(Unit), got \in Seq(Unit) : a.buf = buf /\ a.s.got = got BY LoopParts
<1>1. PICK z \in 0..Len(buf) : z = Need(a.s) /\ z # 0 BY <1>0
<1>2. /\ SubSeq(buf, 1, z) \in Seq(Unit)
      /\ got \o SubSeq(buf, 1, z) \in Seq(Unit) /\ Len(got \o SubSeq(buf, 1, z)) = Len(got) + z
      /\ SubSeq(buf, z + 1, Len(buf)) \in Seq(Unit) /\ Len(SubSeq(buf, z + 1, Len(buf))) = Len(buf) - z
      /\ SubSeq(buf, 1, z) \o SubSeq(buf, z + 1, Len(buf)) = buf
  <2>1. PICK S : S = Unit OBVIOUS
  <2>2. got \in Seq(S) /\ buf \in Seq(S) BY <1>0, <2>1
  <2>3. Parted(S, got, buf, z) BY <1>1, <2>2, ReadParts
  <2> QED BY <2>1, <2>3 DEF Parted
<1>3. PICK u, v, all : u = SubSeq(buf, 1, z) /\ v = SubSeq(buf, z + 1, Len(buf)) /\ all = got \o u OBVIOUS
<1>4. u \in Seq(Unit) /\ v \in Seq(Unit) /\ all \in Seq(Unit) BY <1>2, <1>3
<1>5. u \o v = buf /\ Len(all) = Len(got) + z /\ Len(v) = Len(buf) - z BY <1>2, <1>3
<1>6. PICK S : S = Unit OBVIOUS
<1>7. got \o ((u \o v) \o rem) = (got \o u) \o (v \o rem)
  <2>1. got \in Seq(S) /\ u \in Seq(S) /\ v \in Seq(S) /\ rem \in Seq(S) BY <1>0, <1>4, <1>6
  <2>2. Regrouped(got, u, v, rem) BY <2>1, Regroup
  <2> QED BY <2>2 DEF Regrouped
<1>8. v \o rem \in Seq(Unit) BY <1>4, ConcatProperties
<1>9. Len(v) < Len(buf) BY <1>0, <1>1, <1>5
<1>10. got \o (buf \o rem) = all \o (v \o rem) BY <1>3, <1>5, <1>7
<1>11. ReadTo(a, rem, all, v) BY <1>0, <1>1, <1>3, <1>4, <1>5, <1>8, <1>9, <1>10 DEF ReadTo
<1> QED BY <1>11

\* A header is complete.
LEMMA StreamHeader ==
    ASSUME NEW a \in Loops, a.on, NEW id, NEW b, b = Round(a, id), ~a.crash, NEW rem \in Seq(Unit), NEW w \in Seq(Seq(Unit)),
           NEW k \in 1..MaxIn, NEW m, Expects(a.s, a.buf \o rem, w \o a.fwd, k, m), a.s.status = "header",
           ~(Len(a.buf) < Need(a.s))
    PROVE  OnStream(b, rem, w, k) /\ ~b.crash /\ Fewer(a, b)
<1>0. PICK s \in Slave, fwd \in Seq(Seq(Unit)) : a.s = s /\ a.fwd = fwd /\ a.crash = FALSE /\ a.buf \in Seq(Unit)
  BY LoopParts
<1>k. k \in Nat /\ MaxIn \in Nat BY HarborAssumption
<1>1. Need(a.s) \in Nat \ {0} /\ Len(a.s.got) + Need(a.s) = HeaderLen BY <1>k, StreamNeeds
<1>2. PICK all, rest : ReadTo(a, rem, all, rest) BY <1>1, StreamRead
<1>3. m \in 1..(k + 1) /\ w \o fwd = Forwarded(m - 1) /\ a.s.got \o (a.buf \o rem) = LastFrames(k)[k + 1 - m]
  BY <1>0 DEF Expects
<1>4. PICK y \in Seq(Unit) : y = rest \o rem BY <1>2 DEF ReadTo
<1>5. all \o y = LastFrames(k)[k + 1 - m] /\ all \in Seq(Unit) /\ Len(all) = HeaderLen BY <1>1, <1>2, <1>3, <1>4 DEF ReadTo
<1>6. m <= k
  <2> SUFFICES ASSUME ~(m <= k) PROVE FALSE OBVIOUS
  <2>1. m = k + 1 BY <1>k, <1>3
  <2>2. LastFrames(k)[k + 1 - m] = << >> BY <1>k, <1>3, <2>1, FramesFrom
  <2>5. y \in Seq(Unit) /\ Len(y) \in Nat BY <1>4
  <2>3. Len(all \o y) = Len(all) + Len(y) BY <1>5, <2>5, ConcatProperties
  <2>4. Len(all \o y) = 0 BY <1>5, <2>2
  <2> QED BY <1>5, <2>3, <2>4, <2>5, HarborAssumption
<1>7. m \in 1..MaxIn /\ m \in Nat BY <1>k, <1>3, <1>6
<1>8. PICK U, h, t : U = Unit /\ h = Header(m) /\ t = Body(m) \o LastFrames(k)[k - m] OBVIOUS
<1>9. LastFrames(k)[k - m] \in Seq(Unit) /\ LastFrames(k)[k + 1 - m] = h \o t BY <1>k, <1>3, <1>6, <1>8, FramesFrom
<1>10. h \in Seq(Unit) /\ Len(h) = HeaderLen /\ Body(m) \in Seq(Unit) /\ Size(m) \in Nat \ {0} BY <1>7, <1>8, FrameForm
<1>11. t \in Seq(Unit) BY <1>8, <1>9, <1>10, ConcatProperties
<1>12. all = h /\ y = t
  <2>1. all \in Seq(U) /\ y \in Seq(U) /\ h \in Seq(U) /\ t \in Seq(U) BY <1>4, <1>5, <1>8, <1>10, <1>11
  <2>2. all \o y = h \o t /\ Len(all) = Len(h) BY <1>5, <1>9, <1>10
  <2> QED BY <2>1, <2>2, SplitSeq
<1>13. HeaderOf(all) = m /\ m # 0 BY <1>7, <1>8, <1>12, HeaderIs
<1>14. b = GoOn(NewFrame(a.s, Size(HeaderOf(all))), rest, a.sent, a.fwd, a.crash)
  <2>1. Need(a.s) \in 0..Len(a.buf) BY SMTT(60), <1>0, <1>1
  <2>2. all = a.s.got \o SubSeq(a.buf, 1, Need(a.s)) /\ rest = SubSeq(a.buf, Need(a.s) + 1, Len(a.buf)) BY <1>2 DEF ReadTo
  <2>3. b = IF HeaderOf(all) = 0 THEN LoopOf(Closed(a.s), a.buf, FALSE, a.sent, a.fwd, a.crash)
            ELSE GoOn(NewFrame(a.s, Size(HeaderOf(all))), rest, a.sent, a.fwd, a.crash)
    BY <2>1, <2>2, RoundHeader
  <2> QED BY <1>13, <2>3
<1>15. PICK z \in Nat : z = Size(m) /\ 0 < z BY <1>10
<1>16. b.s = NewFrame(s, z) /\ b.buf = rest /\ (b.on <=> rest # << >>) /\ b.fwd = fwd /\ b.crash = FALSE
  <2>1. b = GoOn(NewFrame(s, z), rest, a.sent, fwd, FALSE) BY <1>0, <1>13, <1>14, <1>15
  <2>2. b.s = NewFrame(s, z) /\ b.buf = rest /\ b.fwd = fwd /\ b.crash = FALSE BY <2>1 DEF GoOn
  <2>3. b.on = (rest # << >>) BY <2>1 DEF GoOn
  <2> QED BY <2>2, <2>3
<1>17. b.s.status = "content" /\ b.s.length = z /\ b.s.got = << >> BY <1>0, <1>15, <1>16, NewFrameParts
<1>18. Pending(b) = rest BY <1>16 DEF Pending
<1>19. b.s.got \o (Pending(b) \o rem) = Body(m) \o LastFrames(k)[k - m]
  <2>1. << >> \o y = y BY <1>4
  <2> QED BY <1>4, <1>8, <1>12, <1>17, <1>18, <2>1
<1>20. Len(b.s.got) < Size(m)
  <2>1. Len(<< >>) = 0 OBVIOUS
  <2> QED BY <1>15, <1>17, <2>1
<1>21. Expects(b.s, Pending(b) \o rem, w \o b.fwd, k, m)
  BY <1>3, <1>6, <1>15, <1>16, <1>17, <1>19, <1>20 DEF Expects
<1>22. Fewer(a, b) BY <1>2, <1>16 DEF Fewer, ReadTo
<1> QED BY <1>3, <1>16, <1>21, <1>22 DEF OnStream

\* A content is complete: the message is forwarded.
LEMMA StreamContent ==
    ASSUME NEW a \in Loops, a.on, NEW id, NEW b, b = Round(a, id), ~a.crash, NEW rem \in Seq(Unit), NEW w \in Seq(Seq(Unit)),
           NEW k \in 1..MaxIn, NEW m, Expects(a.s, a.buf \o rem, w \o a.fwd, k, m), a.s.status = "content",
           ~(Len(a.buf) < Need(a.s))
    PROVE  OnStream(b, rem, w, k) /\ ~b.crash /\ Fewer(a, b)
<1>0. PICK s \in Slave, fwd \in Seq(Seq(Unit)) : a.s = s /\ a.fwd = fwd /\ a.crash = FALSE /\ a.buf \in Seq(Unit)
  BY LoopParts
<1>k. k \in Nat /\ MaxIn \in Nat BY HarborAssumption
<1>1. Need(a.s) \in Nat \ {0} /\ Len(a.s.got) + Need(a.s) = Size(m) BY <1>k, StreamNeeds
<1>2. PICK all, rest : ReadTo(a, rem, all, rest) BY <1>1, StreamRead
<1>3. /\ m \in 1..(k + 1) /\ w \o fwd = Forwarded(m - 1) /\ m <= k
      /\ a.s.got \o (a.buf \o rem) = Body(m) \o LastFrames(k)[k - m]
  BY <1>0 DEF Expects
<1>4. PICK y \in Seq(Unit) : y = rest \o rem BY <1>2 DEF ReadTo
<1>7. m \in Nat \ {0} /\ m + 1 \in 1..(k + 1) /\ k + 1 - (m + 1) = k - m /\ (m + 1) - 1 = m BY <1>k, <1>3
<1>8. PICK U, h, t : U = Unit /\ h = Body(m) /\ t = LastFrames(k)[k - m] BY ZenonT(60)
<1>5. all \o y = h \o t /\ all \in Seq(Unit) /\ Len(all) = Size(m) BY ZenonT(60), <1>1, <1>2, <1>3, <1>4, <1>8 DEF ReadTo
<1>9. t \in Seq(Unit) BY <1>k, <1>3, <1>8, FramesFrom
<1>10. h \in Seq(Unit) /\ Len(h) = Size(m) BY <1>7, <1>8, FrameForm
<1>12. all = h /\ y = t
  <2>1. all \in Seq(U) /\ y \in Seq(U) /\ h \in Seq(U) /\ t \in Seq(U) BY <1>4, <1>5, <1>8, <1>9, <1>10
  <2>2. all \o y = h \o t /\ Len(all) = Len(h) BY <1>5, <1>10
  <2> QED BY <2>1, <2>2, SplitSeq
<1>14. b = GoOn(FrameEnd(a.s), rest, a.sent, Append(a.fwd, all), a.crash)
  <2>1. Need(a.s) \in 0..Len(a.buf) BY <1>0, <1>1
  <2>2. all = a.s.got \o SubSeq(a.buf, 1, Need(a.s)) /\ rest = SubSeq(a.buf, Need(a.s) + 1, Len(a.buf)) BY <1>2 DEF ReadTo
  <2> QED BY <2>1, <2>2, RoundContent
<1>16. b.s = FrameEnd(s) /\ b.buf = rest /\ (b.on <=> rest # << >>) /\ b.fwd = Append(fwd, h) /\ b.crash = FALSE
  <2>1. b = GoOn(FrameEnd(s), rest, a.sent, Append(fwd, h), FALSE) BY <1>0, <1>12, <1>14
  <2>2. b.s = FrameEnd(s) /\ b.buf = rest /\ b.fwd = Append(fwd, h) /\ b.crash = FALSE BY <2>1 DEF GoOn
  <2>3. b.on = (rest # << >>) BY <2>1 DEF GoOn
  <2> QED BY <2>2, <2>3
<1>17. b.s.status = "header" /\ b.s.got = << >> BY <1>0, <1>16, FrameEndParts
<1>18. Pending(b) = rest BY <1>16 DEF Pending
<1>19. b.s.got \o (Pending(b) \o rem) = LastFrames(k)[k + 1 - (m + 1)]
  <2>1. << >> \o y = y BY <1>4
  <2> QED BY <1>4, <1>7, <1>8, <1>12, <1>17, <1>18, <2>1
<1>20. Len(b.s.got) < HeaderLen
  <2>1. Len(<< >>) = 0 /\ 0 < HeaderLen BY HarborAssumption
  <2> QED BY <1>17, <2>1
<1>21. w \o b.fwd = Forwarded((m + 1) - 1)
  <2>1. PICK V : V = Seq(Unit) OBVIOUS
  <2>2. w \in Seq(V) /\ fwd \in Seq(V) /\ h \in V BY <1>0, <1>10, <2>1
  <2>3. PICK e : e = <<h>> OBVIOUS
  <2>4. e \in Seq(V) BY <2>2, <2>3
  <2>5. Append(fwd, h) = fwd \o e BY <2>2, <2>3, AppendIsConcat
  <2>6. Assoc(w, fwd, e) BY <2>2, <2>4, CatAssoc
  <2>7. PICK g : g = w \o fwd OBVIOUS
  <2>8. g \in Seq(V) BY <2>2, <2>7, ConcatProperties
  <2>9. Append(g, h) = g \o e BY <2>2, <2>3, <2>8, AppendIsConcat
  <2>10. Append(Forwarded(m - 1), Body(m)) = Forwarded(m) BY <1>7, ForwardedNext
  <2>11. w \o b.fwd = Append(g, h) BY <1>16, <2>5, <2>6, <2>7, <2>9 DEF Assoc
  <2> QED BY <1>3, <1>7, <1>8, <2>7, <2>10, <2>11
<1>22. Expects(b.s, Pending(b) \o rem, w \o b.fwd, k, m + 1)
  BY <1>7, <1>17, <1>19, <1>20, <1>21 DEF Expects
<1>23. Fewer(a, b) BY <1>2, <1>16 DEF Fewer, ReadTo
<1> QED BY <1>7, <1>16, <1>22, <1>23 DEF OnStream

LEMMA StreamRound ==
    ASSUME NEW a \in Loops, a.on, NEW id, NEW b, b = Round(a, id), ~a.crash, NEW rem \in Seq(Unit), NEW w \in Seq(Seq(Unit)),
           NEW k \in 1..MaxIn, OnStream(a, rem, w, k)
    PROVE  OnStream(b, rem, w, k) /\ ~b.crash /\ Fewer(a, b)
<1>k. k \in Nat BY HarborAssumption
<1>1. PICK m \in 1..(k + 1) : Expects(a.s, a.buf \o rem, w \o a.fwd, k, m) BY DEF OnStream, Pending
<1>2. CASE a.s.status = "handshake" BY <1>k, <1>1, <1>2, StreamConnects
<1>3. CASE a.s.status \in {"header", "content"} /\ Len(a.buf) < Need(a.s) BY <1>k, <1>1, <1>3, StreamShort
<1>4. CASE a.s.status = "header" /\ ~(Len(a.buf) < Need(a.s)) BY <1>1, <1>4, StreamHeader
<1>5. CASE a.s.status = "content" /\ ~(Len(a.buf) < Need(a.s)) BY <1>1, <1>5, StreamContent
<1>6. CASE a.s.status = "down"
  <2>1. b = LoopOf(a.s, a.buf, FALSE, a.sent, a.fwd, a.crash) BY <1>6, RoundNone
  <2>2. b.s = a.s /\ b.fwd = a.fwd /\ b.on = FALSE /\ b.crash = a.crash BY <2>1 DEF LoopOf
  <2>3. Expects(b.s, Pending(b) \o rem, w \o b.fwd, k, m) BY <1>1, <1>6, <2>2 DEF Expects
  <2> QED BY <2>2, <2>3 DEF OnStream, Fewer
<1>7. a.s.status \in {"handshake", "header", "content", "down"} BY <1>1 DEF Expects
<1> QED BY <1>2, <1>3, <1>4, <1>5, <1>6, <1>7

\* After i rounds that did not end the loop, i units at least were read.
Streaming(a, i, rem, w, k, l) == OnStream(a, rem, w, k) /\ ~a.crash /\ (a.on => i + Len(a.buf) <= l)

LEMMA DataStreams ==
    ASSUME NEW s \in Slave, NEW id, NEW buf \in Seq(Unit), buf # << >>, NEW r, r = PushSocketData(s, id, buf),
           NEW rem \in Seq(Unit), NEW w \in Seq(Seq(Unit)), NEW k \in 1..MaxIn, NEW m \in 1..(k + 1),
           Expects(s, buf \o rem, w, k, m)
    PROVE  ~r.crash /\ \E j \in 1..(k + 1) : Expects(r.s, rem, w \o r.fwd, k, j)
<1>1. PICK l \in Nat : l = Len(buf) OBVIOUS
<1>2. PICK n \in Nat : n = 2 * l + 1 OBVIOUS
<1>3. PICK f : IsRun(f, n, s, id, buf) /\ r = f[n] BY <1>1, <1>2, LoopForm
<1> DEFINE G == {i \in 0..n : Streaming(f[i], i, rem, w, k, l)}
<1>4. 0 \in G
  <2>1. PICK a : a = f[0] /\ a = Start(s, buf) BY <1>3 DEF IsRun
  <2>2. a.s = s /\ a.buf = buf /\ a.on /\ a.fwd = << >> /\ ~a.crash BY <2>1 DEF Start
  <2>3. w \o << >> = w
    <3>1. PICK V : V = Seq(Unit) OBVIOUS
    <3>2. w \in Seq(V) BY <3>1
    <3> QED BY <3>2
  <2>4. OnStream(a, rem, w, k) BY <2>2, <2>3 DEF OnStream, Pending
  <2>5. 0 \in 0..n /\ 0 + l <= l OBVIOUS
  <2>6. Streaming(a, 0, rem, w, k, l) BY <1>1, <2>2, <2>4, <2>5 DEF Streaming
  <2> QED BY <2>1, <2>5, <2>6
<1>5. ASSUME NEW i \in 1..n, i - 1 \in G PROVE i \in G
  <2>1. PICK a, b : a = f[i - 1] /\ b = f[i] OBVIOUS
  <2>2. Streaming(a, i - 1, rem, w, k, l) /\ b = NextRound(a, id) BY <1>3, <1>5, <2>1 DEF IsRun
  <2>3. a \in Running /\ b \in Running
    <3>1. i - 1 \in 0..n OBVIOUS
    <3> QED BY <1>3, <2>1, <3>1 DEF IsRun
  <2>4. CASE a.on
    <3>1. b = Round(a, id) /\ a \in Loops BY <2>2, <2>3, <2>4 DEF NextRound, Running
    <3>2. OnStream(b, rem, w, k) /\ ~b.crash /\ Fewer(a, b) BY <2>2, <2>4, <3>1, StreamRound DEF Streaming
    <3>3. Len(a.buf) \in Nat /\ Len(b.buf) \in Nat BY <2>3, LoopParts DEF Running
    <3>4. b.on => i + Len(b.buf) <= l BY SMTT(60), <2>2, <2>4, <3>2, <3>3 DEF Streaming, Fewer
    <3>5. Streaming(b, i, rem, w, k, l) BY <3>2, <3>4 DEF Streaming
    <3> QED BY <2>1, <3>5
  <2>5. CASE ~a.on
    <3>1. b = a BY <2>2, <2>5 DEF NextRound
    <3>2. Streaming(b, i, rem, w, k, l) BY <2>2, <2>5, <3>1 DEF Streaming
    <3> QED BY <2>1, <3>2
  <2> QED BY <2>4, <2>5
<1>6. Streaming(r, n, rem, w, k, l)
  <2> HIDE DEF G
  <2>1. \A i \in 0..n : i \in G BY <1>4, <1>5, EveryRound
  <2>2. n \in 0..n OBVIOUS
  <2>3. n \in G BY <2>1, <2>2
  <2> QED BY <1>3, <2>3 DEF G
<1>7. ~r.on
  <2>1. r \in Loops
    <3>1. n \in 0..n OBVIOUS
    <3> QED BY <1>3, <3>1 DEF IsRun, Running
  <2>2. PICK z \in Nat : z = Len(r.buf) BY <2>1, LoopParts
  <2>3. ~(n + z <= l) BY <1>2
  <2> QED BY <1>6, <2>2, <2>3 DEF Streaming
<1>8. << >> \o rem = rem OBVIOUS
<1>9. Pending(r) \o rem = rem BY <1>7, <1>8 DEF Pending
<1> QED BY <1>6, <1>9 DEF Streaming, OnStream

\* Nothing of what the streams depend on has changed.
SameRead(c, c2) == c2.in = c.in /\ c2.fwd = c.fwd /\ c2.clean = c.clean
SameReader(s, s2) == s2.fd = s.fd /\ s2.status = s.status /\ s2.got = s.got /\ s2.length = s.length

LEMMA ReadsSame ==
    ASSUME NEW s, NEW s2, SameReader(s, s2), NEW c, NEW c2, SameRead(c, c2), ReadsOn(s, c)
    PROVE  ReadsOn(s2, c2)
  BY ZenonT(60) DEF ReadsOn, Expects, SameReader, SameRead

LEMMA StreamsSame ==
    ASSUME MessagesInv, StreamsOK, crashed' = crashed, \A fd \in 1..MaxConn : SameRead(conn[fd], conn'[fd]),
           \A id \in Node : SameReader(slave[id], slave'[id])
    PROVE  StreamsOK'
<1>1. ASSUME NEW fd \in 1..MaxConn PROVE WellRead(conn'[fd])
  <2>1. WellRead(conn[fd]) BY DEF StreamsOK
  <2> QED BY <2>1 DEF WellRead, SameRead
<1>2. crashed' # 0 => ~conn'[crashed'].clean
  <2>1. crashed # 0 => crashed \in 1..MaxConn BY Known
  <2> QED BY <2>1 DEF StreamsOK, SameRead
<1>3. ASSUME NEW id \in Node, slave'[id].fd > 0, conn'[slave'[id].fd].clean PROVE ReadsOn(slave'[id], conn'[slave'[id].fd])
  <2>1. PICK fd : fd = slave[id].fd OBVIOUS
  <2>2. SameReader(slave[id], slave'[id]) /\ slave'[id].fd = fd /\ fd > 0 BY <1>3, <2>1 DEF SameReader
  <2>3. fd \in 1..MaxConn BY <2>1, <2>2, SlaveKnown
  <2>4. SameRead(conn[fd], conn'[fd]) BY <2>3
  <2>5. conn[fd].clean BY <1>3, <2>2, <2>4 DEF SameRead
  <2>6. ReadsOn(slave[id], conn[fd]) BY <2>1, <2>2, <2>5 DEF StreamsOK
  <2> QED BY <2>2, <2>4, <2>6, ReadsSame
<1> QED BY <1>1, <1>2, <1>3 DEF StreamsOK

LEMMA SendSame ==
    ASSUME MessagesInv, NEW f, NEW ms, conn' = Send(conn, f, ms)
    PROVE  \A fd \in 1..MaxConn : SameRead(conn[fd], conn'[fd])
<1>1. conn \in [1..MaxConn -> Conn] BY Known DEF Typed
<1>2. ASSUME NEW fd \in 1..MaxConn PROVE SameRead(conn[fd], conn'[fd])
  <2>1. PICK c \in Conn : c = conn[fd] BY <1>1
  <2>2. conn'[fd] = c \/ \E o : conn'[fd] = [c EXCEPT !.out = o] BY <1>1, <2>1 DEF Send
  <2>3. SameRead(c, conn'[fd])
    <3>1. CASE conn'[fd] = c BY <3>1 DEF SameRead
    <3>2. CASE \E o : conn'[fd] = [c EXCEPT !.out = o]
      <4>1. PICK o : conn'[fd] = [c EXCEPT !.out = o] BY <3>2
      <4> QED BY <4>1 DEF SameRead, Conn
    <3> QED BY <2>2, <3>1, <3>2
  <2> QED BY <2>1, <2>3
<1> QED BY <1>2

LEMMA QueueSame ==
    ASSUME MessagesInv, NEW i, NEW q, slave' = [slave EXCEPT ![i].queue = q]
    PROVE  \A id \in Node : SameReader(slave[id], slave'[id])
<1>1. slave \in [Node \cup {Self} -> Slave] BY Known DEF Typed
<1>2. ASSUME NEW id \in Node PROVE SameReader(slave[id], slave'[id])
  <2>1. PICK s \in Slave : s = slave[id] BY <1>1
  <2>2. slave'[id] = s \/ slave'[id] = [s EXCEPT !.queue = q] BY <1>1, <2>1
  <2>3. SameReader(s, slave'[id])
    <3>1. CASE slave'[id] = s BY <3>1 DEF SameReader
    <3>2. CASE slave'[id] = [s EXCEPT !.queue = q] BY <3>2 DEF SameReader, Slave
    <3> QED BY <2>2, <3>1, <3>2
  <2> QED BY <2>1, <2>3
<1> QED BY <1>2

LEMMA StillSame == /\ conn' = conn => \A fd \in 1..MaxConn : SameRead(conn[fd], conn'[fd])
                   /\ slave' = slave => \A id \in Node : SameReader(slave[id], slave'[id])
  BY DEF SameRead, SameReader

LEMMA RemoteOutStreams == ASSUME MessagesInv, StreamsOK, RemoteOut PROVE StreamsOK'
<1>1. crashed' = crashed BY DEF RemoteOut
<1>2. PICK m, id : RemoteSendHandle(m, id) BY DEF RemoteOut
<1>3. \/ slave' = slave /\ conn' = conn
      \/ conn' = conn /\ slave' = [slave EXCEPT ![id].queue = PushQueue(@, m)]
      \/ slave' = slave /\ conn' = Send(conn, slave[id].fd, <<m>>)
  BY <1>2 DEF RemoteSendHandle
<1>4. CASE slave' = slave /\ conn' = conn BY <1>1, <1>4, StillSame, StreamsSame
<1>5. CASE conn' = conn /\ slave' = [slave EXCEPT ![id].queue = PushQueue(@, m)]
  <2>1. PICK q : q = PushQueue(slave[id].queue, m) OBVIOUS
  <2>2. slave' = [slave EXCEPT ![id].queue = q] BY <1>5, <2>1
  <2>3. \A j \in Node : SameReader(slave[j], slave'[j]) BY <2>2, QueueSame
  <2>4. \A fd \in 1..MaxConn : SameRead(conn[fd], conn'[fd]) BY <1>5, StillSame
  <2> QED BY <1>1, <2>3, <2>4, StreamsSame
<1>6. CASE slave' = slave /\ conn' = Send(conn, slave[id].fd, <<m>>)
  <2>1. PICK f, ms : f = slave[id].fd /\ ms = <<m>> OBVIOUS
  <2>2. conn' = Send(conn, f, ms) BY <1>6, <2>1
  <2>3. \A fd \in 1..MaxConn : SameRead(conn[fd], conn'[fd]) BY <2>2, SendSame
  <2>4. \A j \in Node : SameReader(slave[j], slave'[j]) BY <1>6, StillSame
  <2> QED BY <1>1, <2>3, <2>4, StreamsSame
<1> QED BY <1>3, <1>4, <1>5, <1>6

LEMMA UpdateNameStreams ==
    ASSUME MessagesInv, StreamsOK, NEW n \in Name, NEW id \in Node \cup {Self}, UpdateName(n, id) PROVE StreamsOK'
<1>1. crashed' = crashed BY DEF UpdateName
<1>3. \/ slave' = slave /\ conn' = conn
      \/ conn' = conn /\ \E q : slave' = [slave EXCEPT ![id].queue = q]
      \/ slave' = slave /\ conn' = Send(conn, slave[id].fd, Contents(names[n].queue))
  <2>1. PICK q, s : q = names[n].queue /\ s = slave[id] OBVIOUS
  <2>2. slave \in [Node \cup {Self} -> Slave] BY Known DEF Typed
  <2>3. \/ slave' = slave /\ conn' = conn
        \/ conn' = conn /\ slave' = [slave EXCEPT ![id].queue = NULL]
        \/ conn' = conn /\ slave' = [slave EXCEPT ![id].queue = Merged(@, q)]
        \/ slave' = slave /\ conn' = Send(conn, s.fd, Contents(q))
    BY <2>1 DEF UpdateName, Entry
  <2>4. CASE conn' = conn /\ slave' = [slave EXCEPT ![id].queue = Merged(@, q)]
    <3>1. PICK w : w = Merged(slave[id].queue, q) OBVIOUS
    <3>2. slave' = [slave EXCEPT ![id].queue = w] BY <2>4, <3>1
    <3> QED BY <2>4, <3>2
  <2> QED BY <2>1, <2>3, <2>4
<1>4. CASE slave' = slave /\ conn' = conn BY <1>1, <1>4, StillSame, StreamsSame
<1>5. CASE conn' = conn /\ \E q : slave' = [slave EXCEPT ![id].queue = q]
  <2>2. PICK q : slave' = [slave EXCEPT ![id].queue = q] BY <1>5
  <2>3. \A j \in Node : SameReader(slave[j], slave'[j]) BY <2>2, QueueSame
  <2>4. \A fd \in 1..MaxConn : SameRead(conn[fd], conn'[fd]) BY <1>5, StillSame
  <2> QED BY <1>1, <2>3, <2>4, StreamsSame
<1>6. CASE slave' = slave /\ conn' = Send(conn, slave[id].fd, Contents(names[n].queue))
  <2>1. PICK f, ms : f = slave[id].fd /\ ms = Contents(names[n].queue) OBVIOUS
  <2>2. conn' = Send(conn, f, ms) BY <1>6, <2>1
  <2>3. \A fd \in 1..MaxConn : SameRead(conn[fd], conn'[fd]) BY <2>2, SendSame
  <2>4. \A j \in Node : SameReader(slave[j], slave'[j]) BY <1>6, StillSame
  <2> QED BY <1>1, <2>3, <2>4, StreamsSame
<1> QED BY <1>3, <1>4, <1>5, <1>6

\* Only the slave of node id and connection fd change.
LEMMA StreamsElsewhere ==
    ASSUME MessagesInv, StreamsOK, crashed = 0, NEW id \in Node, NEW fd \in 1..MaxConn,
           \A i \in Node : i # id => slave'[i] = slave[i], \A i \in 1..MaxConn : i # fd => conn'[i] = conn[i],
           \A i \in Node : i # id => slave[i].fd # fd,
           WellRead(conn'[fd]), crashed' # 0 => crashed' = fd /\ ~conn'[fd].clean,
           slave'[id].fd > 0 => slave'[id].fd = fd,
           slave'[id].fd > 0 /\ conn'[fd].clean => ReadsOn(slave'[id], conn'[fd])
    PROVE  StreamsOK'
<1>1. ASSUME NEW i \in 1..MaxConn PROVE WellRead(conn'[i])
  <2>1. WellRead(conn[i]) BY DEF StreamsOK
  <2> QED BY <2>1
<1>2. crashed' # 0 => ~conn'[crashed'].clean OBVIOUS
<1>3. ASSUME NEW i \in Node, slave'[i].fd > 0, conn'[slave'[i].fd].clean PROVE ReadsOn(slave'[i], conn'[slave'[i].fd])
  <2>1. CASE i = id BY <1>3, <2>1
  <2>2. CASE i # id
    <3>1. PICK g : g = slave[i].fd OBVIOUS
    <3>2. g > 0 /\ g # fd /\ g \in 1..MaxConn BY <1>3, <2>2, <3>1, SlaveKnown
    <3>3. conn'[g] = conn[g] /\ slave'[i] = slave[i] BY <2>2, <3>2
    <3>4. ReadsOn(slave[i], conn[g]) BY <1>3, <3>1, <3>2, <3>3 DEF StreamsOK
    <3> QED BY <3>1, <3>3, <3>4
  <2> QED BY <2>1, <2>2
<1> QED BY <1>1, <1>2, <1>3 DEF StreamsOK

LEMMA NoneForwarded == Forwarded(0) = << >> /\ 0 \in 0..MaxIn
<1>1. Forwarded(0) = [i \in 1..0 |-> Body(i)] BY DEF Forwarded
<1>2. 1..0 = {} OBVIOUS
<1>3. Forwarded(0) = << >> BY <1>1, <1>2
<1> QED BY <1>3, HarborAssumption

LEMMA SocketClosedStreams ==
    ASSUME MessagesInv, StreamsOK, crashed = 0, NEW fd \in 1..MaxConn, SocketClosed(fd) PROVE StreamsOK'
<1>1. PICK id : id = conn[fd].node OBVIOUS
<1>2. /\ fd <= nconn /\ slave[id].fd = fd /\ slave' = [slave EXCEPT ![id].fd = -1]
      /\ conn' = [conn EXCEPT ![fd].in = << >>] /\ crashed' = crashed
  BY <1>1 DEF SocketClosed, Owns
<1>3. id \in Node BY <1>1, <1>2 DEF MessagesInv, ConnsOK, ConnFits
<1>4. PICK s \in Slave : s = slave[id] BY <1>3, SlaveKnown
<1>5. slave \in [Node \cup {Self} -> Slave] /\ conn \in [1..MaxConn -> Conn] BY Known DEF Typed
<1>6. slave'[id] = [s EXCEPT !.fd = -1] /\ \A i \in Node : i # id => slave'[i] = slave[i] BY <1>2, <1>3, <1>4, <1>5
<1>7. slave'[id].fd = -1 BY <1>6 DEF Slave
<1>8. PICK c \in Conn : c = conn[fd] BY <1>5
<1>9. conn'[fd] = [c EXCEPT !.in = << >>] /\ \A i \in 1..MaxConn : i # fd => conn'[i] = conn[i] BY <1>2, <1>5, <1>8
<1>10. conn'[fd].fwd = c.fwd /\ conn'[fd].clean = c.clean BY <1>9 DEF Conn
<1>11. WellRead(conn'[fd])
  <2>1. WellRead(c) BY <1>8 DEF StreamsOK
  <2> QED BY <1>10, <2>1 DEF WellRead
<1>12. \A i \in Node : i # id => slave[i].fd # fd
  <2>1. fd > 0 OBVIOUS
  <2> QED BY <1>2, <1>3, <2>1, OwnConn
<1>13. ~(slave'[id].fd > 0) BY <1>7
<1> QED BY <1>2, <1>3, <1>6, <1>9, <1>11, <1>12, <1>13, StreamsElsewhere

LEMMA AddConnectionStreams ==
    ASSUME MessagesInv, StreamsOK, crashed = 0, NEW cmd \in {"S", "A"}, NEW id \in Node, NEW who \in Node \cup {Self},
           NEW k \in 1..MaxIn, AddConnection(cmd, id, who, k)
    PROVE  StreamsOK'
<1>1. PICK fd \in 1..MaxConn : fd = nconn + 1 BY Known DEF AddConnection
<1>2. PICK s0 \in Slave : s0 = slave[id] BY SlaveKnown
<1>3. PICK s : s = [s0 EXCEPT !.fd = fd] OBVIOUS
<1>4. s \in Slave /\ s.fd = fd /\ s.got = s0.got /\ s0.got \in Seq(Unit)
  <2>1. fd \in -1..MaxConn BY HarborAssumption
  <2> QED BY <1>3, <2>1 DEF Slave
<1>5. PICK s2 : s2 = IF cmd = "S" THEN [s EXCEPT !.status = "handshake"] ELSE Connected(s) OBVIOUS
<1>6. s2.fd = fd /\ s2.got = s0.got /\ s2.status = IF cmd = "S" THEN "handshake" ELSE "header"
  <2>1. CASE cmd = "S" BY <1>4, <1>5, <2>1 DEF Slave
  <2>2. CASE cmd # "S" BY <1>4, <1>5, <2>2, SlaveEdits
  <2> QED BY <2>1, <2>2
<1>7. PICK in : in = (IF cmd = "S" THEN <<<<"id", who>>>> ELSE << >>) \o LastFrames(k)[k] OBVIOUS
<1>o. PICK out : out = IF cmd = "S" THEN << >> ELSE Contents(s.queue) OBVIOUS
<1>8. PICK c2 : c2 = [node |-> id, in |-> in, out |-> out, fwd |-> << >>, clean |-> s.got = << >>]
  OBVIOUS
<1>9. slave' = [slave EXCEPT ![id] = s2] /\ conn' = [conn EXCEPT ![fd] = c2] /\ crashed' = crashed
  <2>1. slave' = [slave EXCEPT ![id] = s2] /\ crashed' = crashed BY <1>1, <1>2, <1>3, <1>5 DEF AddConnection
  <2>2. conn' = [conn EXCEPT ![fd] = c2]
    BY <1>1, <1>2, <1>3, <1>7, <1>o, <1>8 DEF AddConnection, DispatchQueue
  <2> QED BY <2>1, <2>2
<1>10. slave \in [Node \cup {Self} -> Slave] /\ conn \in [1..MaxConn -> Conn] BY Known DEF Typed
<1>11. slave'[id] = s2 /\ \A i \in Node : i # id => slave'[i] = slave[i] BY <1>9, <1>10
<1>12. conn'[fd] = c2 /\ \A i \in 1..MaxConn : i # fd => conn'[i] = conn[i] BY <1>9, <1>10
<1>13. c2.in = in /\ c2.fwd = << >> /\ c2.clean = (s.got = << >>) BY <1>8
<1>14. WellRead(c2) BY <1>13, NoneForwarded DEF WellRead
<1>15. \A i \in Node : i # id => slave[i].fd # fd
  <2>1. ASSUME NEW i \in Node, slave[i].fd = fd PROVE FALSE
    <3>1. SlaveFits(slave[i], i, nconn, conn, dests) /\ fd > 0 BY SlaveKnown
    <3>2. fd <= nconn BY <2>1, <3>1 DEF SlaveFits
    <3> QED BY <1>1, <3>2, Known
  <2> QED BY <2>1
<1>16. ASSUME c2.clean PROVE ReadsOn(s2, c2)
  <2>1. s2.got = << >> BY <1>4, <1>6, <1>13, <1>16
  <2>2. 1 \in 1..(k + 1) /\ 1 - 1 = 0 /\ k + 1 - 1 = k /\ k \in Nat BY HarborAssumption
  <2>3. PICK t \in Seq(Unit) : t = LastFrames(k)[k]
    <3>1. LastFrames(k)[k + 1 - 1] \in Seq(Unit) BY <2>2, FramesFrom
    <3> QED BY <2>2, <3>1
  <2>4. c2.fwd = Forwarded(1 - 1) BY <1>13, <2>2, NoneForwarded
  <2>5. << >> \o t = t /\ Len(<< >>) = 0 /\ 0 < HeaderLen BY <2>3, HarborAssumption
  <2>6. CASE cmd = "S"
    <3>1. s2.status = "handshake" /\ c2.in = <<<<"id", who>>>> \o LastFrames(k)[k] BY <1>6, <1>7, <1>13, <2>6
    <3>2. Expects(s2, c2.in, c2.fwd, k, 1) BY <2>1, <2>2, <2>4, <3>1 DEF Expects
    <3> QED BY <2>2, <3>2 DEF ReadsOn
  <2>7. CASE cmd # "S"
    <3>1. s2.status = "header" /\ c2.in = t BY <1>6, <1>7, <1>13, <2>3, <2>5, <2>7
    <3>2. s2.got \o c2.in = LastFrames(k)[k + 1 - 1] /\ Len(s2.got) < HeaderLen BY <2>1, <2>2, <2>3, <2>5, <3>1
    <3>3. Expects(s2, c2.in, c2.fwd, k, 1) BY <2>2, <2>4, <3>1, <3>2 DEF Expects
    <3> QED BY <2>2, <3>3 DEF ReadsOn
  <2> QED BY <2>6, <2>7
<1>17. slave'[id].fd = fd BY <1>6, <1>11
<1>18. crashed' = 0 BY <1>9
<1> QED BY <1>11, <1>12, <1>14, <1>15, <1>16, <1>17, <1>18, StreamsElsewhere

LEMMA DataOwnedStreams ==
    ASSUME MessagesInv, StreamsOK, crashed = 0, NEW fd \in 1..MaxConn, NEW k, NEW dead \in BOOLEAN, NEW id \in Node,
           NEW c \in Conn, NEW s \in Slave, NEW r, DataOf(fd, k, dead, id, c, s, r)
    PROVE  StreamsOK'
<1>0. PICK s2, c2 : s2 = r.s /\ c2 = ReadFrom(c, k, r.sent, r.fwd) OBVIOUS
<1>1. /\ c = conn[fd] /\ s = slave[id] /\ c.node = id /\ s.fd = fd /\ k \in 1..Len(c.in)
      /\ Kept(r, s) /\ r \in Loops /\ slave' = [slave EXCEPT ![id] = s2] /\ conn' = [conn EXCEPT ![fd] = c2]
      /\ crashed' = (IF r.crash THEN fd ELSE 0) /\ r = PushSocketData(s, id, SubSeq(c.in, 1, k))
  BY <1>0 DEF DataOf
<1>2. r.s \in Slave /\ r.sent \in Seq(Nat) /\ r.fwd \in Seq(Seq(Unit)) BY <1>1, LoopParts
<1>3. PICK ms \in Seq(Nat), w \in Seq(Seq(Unit)) : ms = r.sent /\ w = r.fwd BY <1>2
<1>4. c2.fwd = c.fwd \o w /\ c2.clean = c.clean /\ c2.in = SubSeq(c.in, k + 1, Len(c.in))
  <2>1. c2 = ReadFrom(c, k, ms, w) BY <1>0, <1>3
  <2>2. k \in 1..Len(c.in) /\ ms \in Seq(Nat) /\ w \in Seq(Seq(Unit)) BY <1>1, <1>3
  <2>3. WasRead(c2, c, k, ms, w) BY <2>1, <2>2, ReadConn
  <2> QED BY <2>3 DEF WasRead
<1>5. slave \in [Node \cup {Self} -> Slave] /\ conn \in [1..MaxConn -> Conn] BY Known DEF Typed
<1>6. slave'[id] = s2 /\ \A i \in Node : i # id => slave'[i] = slave[i] BY <1>1, <1>5
<1>7. conn'[fd] = c2 /\ \A i \in 1..MaxConn : i # fd => conn'[i] = conn[i] BY <1>1, <1>5
<1>8. s2.fd = fd BY <1>0, <1>1 DEF Kept
<1>9. \A i \in Node : i # id => slave[i].fd # fd
  <2>1. fd > 0 /\ slave[id].fd = fd BY <1>1
  <2> QED BY <2>1, OwnConn
<1>10. ASSUME c.clean
       PROVE  /\ ~r.crash
              /\ \E kk \in 1..MaxIn : \E j \in 1..(kk + 1) : Expects(s2, c2.in, c2.fwd, kk, j)
  <2>1. fd > 0 /\ slave[id].fd = fd BY <1>1
  <2>2. ReadsOn(s, c) BY <1>1, <1>10, <2>1 DEF StreamsOK
  <2>3. PICK kk \in 1..MaxIn : \E m \in 1..(kk + 1) : Expects(s, c.in, c.fwd, kk, m) BY <2>2 DEF ReadsOn
  <2>4. PICK m \in 1..(kk + 1) : Expects(s, c.in, c.fwd, kk, m) BY <2>3
  <2>5. PICK u \in Seq(Unit) : u = c.in /\ k \in 1..Len(u) BY <1>1 DEF Conn
  <2>6. PICK buf, rem : buf = SubSeq(u, 1, k) /\ rem = SubSeq(u, k + 1, Len(u)) OBVIOUS
  <2>7. buf \in Seq(Unit) /\ rem \in Seq(Unit) /\ buf \o rem = u
    <3>1. k \in 0..Len(u) BY <2>5
    <3>2. Parted(Unit, u, u, k) BY <2>5, <3>1, ReadParts
    <3> QED BY <2>6, <3>2 DEF Parted
  <2>8. buf # << >>
    <3>1. Len(buf) = k /\ k # 0 BY <2>5, <2>6
    <3> QED BY <3>1
  <2>9. PICK v \in Seq(Seq(Unit)) : v = c.fwd BY DEF Conn
  <2>10. Expects(s, buf \o rem, v, kk, m) /\ r = PushSocketData(s, id, buf) BY <1>1, <2>4, <2>5, <2>6, <2>7, <2>9
  <2>11. ~r.crash /\ \E j \in 1..(kk + 1) : Expects(r.s, rem, v \o r.fwd, kk, j)
    <3>1. v \in Seq(Seq(Unit)) BY <2>9
    <3> QED BY <2>3, <2>4, <2>7, <2>8, <2>10, <3>1, DataStreams
  <2>12. rem = c2.in /\ v \o r.fwd = c2.fwd /\ r.s = s2 BY <1>0, <1>3, <1>4, <2>5, <2>6, <2>9
  <2> QED BY <2>11, <2>12
<1>11. WellRead(c2)
  <2> SUFFICES ASSUME c2.clean PROVE \E m \in 0..MaxIn : c2.fwd = Forwarded(m) BY DEF WellRead
  <2>1. PICK kk \in 1..MaxIn : \E j \in 1..(kk + 1) : Expects(s2, c2.in, c2.fwd, kk, j) BY <1>4, <1>10
  <2>2. PICK j \in 1..(kk + 1) : c2.fwd = Forwarded(j - 1) BY <2>1 DEF Expects
  <2>3. j - 1 \in 0..MaxIn BY HarborAssumption
  <2> QED BY <2>2, <2>3
<1>12. c2.clean => ReadsOn(s2, c2) BY <1>4, <1>10 DEF ReadsOn
<1>13. crashed' # 0 => crashed' = fd /\ ~c2.clean BY <1>1, <1>4, <1>10
<1> QED BY <1>6, <1>7, <1>8, <1>9, <1>11, <1>12, <1>13, StreamsElsewhere

LEMMA DataStreamsOK ==
    ASSUME MessagesInv, StreamsOK, crashed = 0, NEW fd \in 1..MaxConn, NEW k \in 1..Len(conn[fd].in), NEW dead \in BOOLEAN,
           Data(fd, k, dead)
    PROVE  StreamsOK'
<1>1. CASE Owns(conn[fd].node, fd)
  <2>1. PICK id \in Node, c \in Conn, s \in Slave, r \in Loops : DataOf(fd, k, dead, id, c, s, r) BY <1>1, DataParts
  <2> QED BY <2>1, DataOwnedStreams
<1>2. CASE ~Owns(conn[fd].node, fd)
  <2>1. /\ fd <= nconn /\ slave' = slave /\ crashed' = crashed
        /\ \E u : conn' = [conn EXCEPT ![fd].in = u]
    <3>1. conn' = [conn EXCEPT ![fd].in = SubSeq(@, k + 1, Len(@))] BY <1>2 DEF Data
    <3>2. PICK u : u = SubSeq(conn[fd].in, k + 1, Len(conn[fd].in)) OBVIOUS
    <3>3. conn \in [1..MaxConn -> Conn] BY Known DEF Typed
    <3>4. conn' = [conn EXCEPT ![fd].in = u] BY <3>1, <3>2, <3>3
    <3> QED BY <1>2, <3>4 DEF Data
  <2>2. PICK u : conn' = [conn EXCEPT ![fd].in = u] BY <2>1
  <2>3. conn \in [1..MaxConn -> Conn] BY Known DEF Typed
  <2>4. PICK c \in Conn : c = conn[fd] BY <2>3
  <2>5. conn'[fd] = [c EXCEPT !.in = u] /\ \A i \in 1..MaxConn : i # fd => conn'[i] = conn[i] BY <2>2, <2>3, <2>4
  <2>6. conn'[fd].fwd = c.fwd /\ conn'[fd].clean = c.clean BY <2>5 DEF Conn
  <2>7. \A i \in Node : slave[i].fd # fd
    <3>1. ASSUME NEW i \in Node, slave[i].fd = fd PROVE FALSE
      <4>1. SlaveFits(slave[i], i, nconn, conn, dests) /\ fd > 0 BY SlaveKnown
      <4>2. conn[fd].node = i BY <3>1, <4>1 DEF SlaveFits
      <4> QED BY <1>2, <3>1, <4>2 DEF Owns
    <3> QED BY <3>1
  <2>8. PICK id \in Node : id = conn[fd].node BY <2>1 DEF MessagesInv, ConnsOK, ConnFits
  <2>9. WellRead(conn'[fd])
    <3>1. WellRead(c) BY <2>4 DEF StreamsOK
    <3> QED BY <2>6, <3>1 DEF WellRead
  <2>10. ASSUME NEW i \in Node, slave'[i].fd > 0, conn'[slave'[i].fd].clean PROVE ReadsOn(slave'[i], conn'[slave'[i].fd])
    <3>1. slave'[i] = slave[i] BY <2>1
    <3>2. PICK g : g = slave[i].fd OBVIOUS
    <3>3. g \in 1..MaxConn /\ g # fd BY <2>7, <2>10, <3>1, <3>2, SlaveKnown
    <3>4. conn'[g] = conn[g] BY <2>5, <3>3
    <3>5. ReadsOn(slave[i], conn[g]) BY <2>10, <3>1, <3>2, <3>4 DEF StreamsOK
    <3> QED BY <3>1, <3>2, <3>4, <3>5
  <2>11. \A i \in 1..MaxConn : WellRead(conn'[i]) BY <2>5, <2>9 DEF StreamsOK
  <2> QED BY <2>1, <2>10, <2>11 DEF StreamsOK
<1> QED BY <1>1, <1>2

LEMMA NextStreams == ASSUME MessagesInv, StreamsOK, [HarborNext]_harborVars PROVE StreamsOK'
<1>0. CASE UNCHANGED harborVars BY <1>0, StillSame, StreamsSame DEF harborVars
<1>1. ASSUME crashed = 0, NEW dest \in Node \cup Name, LocalSend(dest) PROVE StreamsOK'
  BY <1>1, StillSame, StreamsSame DEF LocalSend
<1>2. ASSUME crashed = 0, RemoteOut PROVE StreamsOK' BY <1>2, RemoteOutStreams
<1>3. ASSUME crashed = 0, QueryName PROVE StreamsOK' BY <1>3, StillSame, StreamsSame DEF QueryName
<1>4. ASSUME crashed = 0, NEW n \in Name, NEW id \in Node \cup {Self}, UpdateName(n, id) PROVE StreamsOK'
  BY <1>4, UpdateNameStreams
<1>5. ASSUME crashed = 0, NEW cmd \in {"S", "A"}, NEW id \in Node, NEW who \in Node \cup {Self}, NEW k \in 1..MaxIn,
             AddConnection(cmd, id, who, k)
      PROVE  StreamsOK'
  BY <1>5, AddConnectionStreams
<1>6. ASSUME crashed = 0, NEW fd \in 1..MaxConn, NEW k \in 1..Len(conn[fd].in), NEW dead \in BOOLEAN, Data(fd, k, dead)
      PROVE  StreamsOK'
  BY <1>6, DataStreamsOK
<1>7. ASSUME crashed = 0, NEW fd \in 1..MaxConn, SocketClosed(fd) PROVE StreamsOK' BY <1>7, SocketClosedStreams
<1> QED BY <1>0, <1>1, <1>2, <1>3, <1>4, <1>5, <1>6, <1>7 DEF HarborNext

LEMMA InitStreams == ASSUME HarborInit PROVE StreamsOK
<1>1. PICK c : c = [node |-> 0, in |-> << >>, out |-> << >>, fwd |-> << >>, clean |-> TRUE] OBVIOUS
<1>2. conn = [fd \in 1..MaxConn |-> c] /\ crashed = 0 BY <1>1 DEF HarborInit
<1>3. c.fwd = << >> BY <1>1
<1>4. \A fd \in 1..MaxConn : WellRead(conn[fd]) BY <1>2, <1>3, NoneForwarded DEF WellRead
<1>5. \A id \in Node : ~(slave[id].fd > 0)
  <2>1. \A id \in Node : slave[id].fd = 0 BY DEF HarborInit
  <2> QED BY <2>1
<1> QED BY <1>2, <1>4, <1>5 DEF StreamsOK

\* Messages that were forwarded one after the other are the first of all.
LEMMA ForwardedPrefix == ASSUME NEW m \in 0..MaxIn PROVE IsPrefix(Forwarded(m), [j \in 1..MaxIn |-> Body(j)])
<1>0. m \in Nat /\ MaxIn \in Nat /\ m <= MaxIn BY HarborAssumption
<1>1. PICK U : U = Seq(Unit) OBVIOUS
<1>2. \A i \in Nat : Body(i) \in U BY <1>1, FrameForm
<1>3. PICK u, v : u = Forwarded(m) /\ v = [j \in 1..MaxIn |-> Body(j)] OBVIOUS
<1>4. u \in Seq(U) /\ Len(u) = m /\ \A i \in 1..m : u[i] = Body(i)
  <2>1. u = [i \in 1..m |-> Body(i)] BY <1>3 DEF Forwarded
  <2>2. \A i \in 1..m : Body(i) \in U BY <1>0, <1>2
  <2> QED BY <1>0, <2>1, <2>2
<1>5. v \in Seq(U) /\ Len(v) = MaxIn /\ \A i \in 1..MaxIn : v[i] = Body(i)
  <2>2. \A i \in 1..MaxIn : Body(i) \in U BY <1>0, <1>2
  <2> QED BY <1>0, <1>3, <2>2
<1>6. SubSeq(v, 1, Len(u)) = u
  <2>1. PICK w : w = SubSeq(v, 1, m) OBVIOUS
  <2>2. w \in Seq(U) /\ Len(w) = m /\ \A i \in 1..m : w[i] = v[i] BY <1>0, <1>5, <2>1
  <2>3. ASSUME NEW i \in 1..m PROVE w[i] = u[i]
    <3>1. i \in 1..MaxIn BY <1>0
    <3> QED BY <1>4, <1>5, <2>2, <3>1
  <2>4. w = u BY <1>4, <2>2, <2>3, SameSeq
  <2> QED BY <1>4, <2>1, <2>4
<1> QED BY <1>0, <1>3, <1>4, <1>5, <1>6 DEF IsPrefix

\* What push_socket_data forwards from a connection are the first messages that the
\* node has sent, whole and in order, for every length of a header, all sizes of messages
\* and every way to cut the stream; and no header is taken from the middle of a message.
THEOREM FramesIntactAlways == HarborSpec => []FramesIntact
<1>1. HarborInit => MessagesInv /\ StreamsOK BY InitMessages, InitStreams
<1>2. MessagesInv /\ StreamsOK /\ [HarborNext]_harborVars => (MessagesInv /\ StreamsOK)' BY NextMessages, NextStreams
<1>3. MessagesInv /\ StreamsOK => FramesIntact
  <2> SUFFICES ASSUME MessagesInv, StreamsOK, NEW fd \in 1..MaxConn, conn[fd].clean
               PROVE  IsPrefix(conn[fd].fwd, [m \in 1..MaxIn |-> Body(m)]) /\ crashed # fd
    BY DEF FramesIntact
  <2>1. PICK m \in 0..MaxIn : conn[fd].fwd = Forwarded(m) BY DEF StreamsOK, WellRead
  <2>2. crashed # fd BY DEF StreamsOK
  <2> QED BY <2>1, <2>2, ForwardedPrefix
<1> QED BY <1>1, <1>2, <1>3, PTL DEF HarborSpec
=============================================================================
