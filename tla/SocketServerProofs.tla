------------------------- MODULE SocketServerProofs -------------------------
(***************************************************************************)
(* Every socket has the requests it needs, and is closed by another only   *)
(* where the code closes a number twice, for every number of services,     *)
(* slots, numbers, ids, calls and accepts.                                 *)
(*                                                                         *)
(* Numbers are given out again and requests of a socket may be on the way  *)
(* when its slot is that of another, so nothing holds of a request and its *)
(* slot alone.  What holds is about ids, which are never used again: an id *)
(* that is being opened has no socket and no request (OpeningOK, AllOK),   *)
(* and an open socket whose id is in the slot has its number there         *)
(* (NumbersOK).  The counts of RequestsKept are replaced by uniqueness     *)
(* (Unique) and existence (Receiving, Accepting, Listening).  Reserving is *)
(* what new_fd asserts, of the slots in which no old close has hit.        *)
(***************************************************************************)
EXTENDS SocketServer, ProofLemmas, FiniteSetTheorems, TLAPS

-----------------------------------------------------------------------------
(* The invariant.                                                          *)

Places == 0..(Slots - 1)
Threads == Svc \cup {Io}

\* The types.
Request == [type : {"C", "L", "R", "A", "S", "s", "a", "k", "f", "t"}, slot : -1..(Slots - 1),
            rid : 0..MaxAlloc, fd : Fd \cup {NoFd}, who : Svc \cup {"none"},
            call : 0..MaxPost, i : 0..Accepts, ok : BOOLEAN]

Socket == [type : {"invalid", "reserve"}, id : 0..MaxAlloc, fd : Fd \cup {NoFd},
           owner : Svc \cup {"none"}, start : BOOLEAN, deaf : BOOLEAN]

Position == [call : {"none", "C", "L", "A", "S", "k"}, stored : BOOLEAN, id : 0..MaxAlloc]

Number == [of : {-1} \cup (0..MaxAlloc) \cup Svc, up : {"closed", "no", "connected", "listening", "udp"}]

PacketsOK == port \in Seq(Request) /\ kernel \in SUBSET Request /\ IsFiniteSet(kernel)

Shape ==
    /\ allocId \in 0..MaxAlloc /\ posts \in 0..MaxPost /\ lost \in BOOLEAN
    /\ slot \in [Places -> Socket]
    /\ caller \in [Threads -> Position]
    /\ os \in [Fd -> Number]
    /\ udp \in [Svc -> Fd \cup {NoFd}]
    /\ PacketsOK

\* A slot has an id that was handed out for it, and a number only with an id.
SlotsOK ==
    \A k \in Places :
        /\ slot[k].id # 0 => slot[k].id \in 1..allocId /\ Hash(slot[k].id) = k
        /\ slot[k].fd \in Fd => slot[k].id # 0

\* An id that is being opened is new: it has no socket, no other thread opens it
\* and none sends to it.
Opening(c) == caller[c].call \in {"C", "L", "A"}
OpeningOK ==
    /\ \A c \in Threads : Opening(c) => caller[c].id \in 1..allocId /\ \A n \in Fd : os[n].of # caller[c].id
    /\ \A c, d \in Threads : Opening(c) /\ Opening(d) /\ caller[c].id = caller[d].id => c = d
    /\ \A c \in Threads : caller[c].call = "S" =>
          caller[c].id \in 1..allocId /\ \A d \in Threads : Opening(d) => caller[d].id # caller[c].id

\* The socket of an id has the number that is in the slot of this id; the socket
\* of a service has the number that the service was given.
NumbersOK ==
    \A n \in Fd :
        /\ os[n].of \in 1..MaxAlloc =>
              /\ os[n].of \in 1..allocId
              /\ slot[Hash(os[n].of)].id = os[n].of => slot[Hash(os[n].of)].fd = n
        /\ os[n].of \in Svc => udp[os[n].of] = n /\ os[n].up = "udp"

\* A request is never of an id that is being opened.
ForId == {"C", "L", "R", "A", "S", "s", "a", "k"}
ReqOK(q) ==
    /\ q.type \in ForId => /\ q.rid \in 1..allocId /\ q.slot = Hash(q.rid)
                           /\ \A c \in Threads : Opening(c) => caller[c].id # q.rid
    /\ q.type = "R" => slot[q.slot].start = TRUE
    /\ q.type = "A" => q.i \in 1..Accepts /\ q.fd \in Fd /\ q.who = "none"
    /\ q.type \notin ForId => q.who \in Svc /\ q.fd \in Fd /\ udp[q.who] = q.fd
AllOK == \A q \in Requests : ReqOK(q)

\* The packet that the socket thread is at stays at the head of the port.
IoOK ==
    /\ caller[Io].call \in {"A", "k"} => port # << >> /\ Head(port).type = caller[Io].call
    /\ caller[Io].call = "k" => caller[Io].id = Head(port).rid

IdInv == Shape /\ SlotsOK /\ OpeningOK /\ NumbersOK /\ AllOK /\ IoOK

\* A thread that opens has its slot, alone.
Reserving ==
    \A c \in Threads : Opening(c) /\ Hash(caller[c].id) \notin raced =>
        LET k == Hash(caller[c].id) IN
        /\ slot[k].type = "reserve"
        /\ caller[c].stored = TRUE => slot[k].id = caller[c].id
        /\ \A d \in Threads : Opening(d) /\ Hash(caller[d].id) = k => d = c

\* A slot has one receive, a service one receive of a datagram.
Single(q) == q.type \in {"R", "f"}
Same(q, p) == /\ q.type = p.type
              /\ q.type = "R" => q.slot = p.slot
              /\ q.type = "f" => q.who = p.who
Unique ==
    /\ \A q, p \in kernel : Single(q) /\ Same(q, p) => q = p
    /\ \A q \in kernel, i \in DOMAIN port : Single(q) => ~Same(q, port[i])
    /\ \A i, j \in DOMAIN port : Single(port[i]) /\ Same(port[i], port[j]) => i = j

\* The requests that a socket must have.
HasReceive(k) == \E q \in Requests : q.type = "R" /\ q.slot = k
HasDatagram(a) == \E q \in Requests : q.type = "f" /\ q.who = a
Sibling(p, q, j) == /\ p.type = "A" /\ p.slot = q.slot /\ p.rid = q.rid
                    /\ p.call = q.call /\ p.i = j
HasAccept(q, j) == \E p \in Requests : Sibling(p, q, j)

Receiving == \A k \in Places :
    OwnOpen(k) /\ slot[k].start = TRUE /\ slot[k].deaf = FALSE =>
        HasReceive(k) /\ Up(slot[k].fd, {"connected", "udp"})
Accepting == \A q \in Requests :
    q.type = "A" /\ OwnOpen(q.slot) /\ slot[q.slot].id = q.rid =>
        /\ Up(slot[q.slot].fd, {"listening"})
        /\ lost = FALSE => \A j \in 1..Accepts : HasAccept(q, j)
Listening == \A a \in Svc : udp[a] \in Fd /\ os[udp[a]].of = a => HasDatagram(a)

SocketInv == IdInv /\ Reserving /\ Unique /\ Receiving /\ Accepting /\ Listening
-----------------------------------------------------------------------------
(* Requests.                                                               *)

\* The same request, but for how it ended and, of an accept, the client.
Like(q, p) == /\ q.type = p.type /\ q.slot = p.slot /\ q.rid = p.rid
              /\ q.who = p.who /\ q.call = p.call /\ q.i = p.i
              /\ q.type = "A" => (p.fd \in Fd => q.fd \in Fd)
              /\ q.type # "A" => q.fd = p.fd

LEMMA HashType == \A x \in Nat : Hash(x) \in Places
  BY SocketAssumption, DivMod DEF Hash, Places

LEMMA ReqType ==
    ASSUME NEW ty \in {"C", "L", "R", "A", "S", "s", "a", "k", "f", "t"},
           NEW k \in -1..(Slots - 1), NEW id \in 0..MaxAlloc, NEW n \in Fd \cup {NoFd},
           NEW who \in Svc \cup {"none"}, NEW call \in 0..MaxPost
    PROVE  /\ Req(ty, k, id, n, who, call) \in Request
           /\ \A j \in 1..Accepts : [Req(ty, k, id, n, who, call) EXCEPT !.i = j] \in Request
<1>1. 0 \in 0..Accepts BY SocketAssumption
<1>2. \A j \in 1..Accepts : j \in 0..Accepts BY SocketAssumption
<1> QED BY <1>1, <1>2 DEF Req, Request

LEMMA LikeSelf == \A q : Like(q, q) BY DEF Like

LEMMA EndedLike ==
    ASSUME NEW q \in Request, NEW b \in BOOLEAN
    PROVE  Ended(q, b) \in Request /\ Like(Ended(q, b), q)
  BY DEF Request, Ended, Like

LEMMA ClientLike ==
    ASSUME NEW q \in Request, q.type = "A", NEW n \in Fd
    PROVE  [q EXCEPT !.fd = n] \in Request /\ Like([q EXCEPT !.fd = n], q)
  BY DEF Request, Like

LEMMA LikeSame ==
    ASSUME NEW p, NEW q, Like(p, q), NEW u, NEW v, Like(u, v)
    PROVE  (Same(p, u) <=> Same(q, v)) /\ (Single(p) <=> Single(q))
  BY DEF Like, Same, Single

\* What the system reports of a closed number are its requests, each once.
FailuresOf(fl, rs) ==
    /\ fl \in Seq(Request)
    /\ \A i \in DOMAIN fl : \E r \in rs : fl[i] = Ended(r, FALSE)
    /\ \A i, j \in DOMAIN fl : fl[i] = fl[j] => i = j
    /\ \A r \in rs : \E i \in DOMAIN fl : fl[i] = Ended(r, FALSE)

LEMMA FailuresRight ==
    ASSUME NEW rs \in SUBSET Request, IsFiniteSet(rs)
    PROVE  FailuresOf(Failures(rs), rs)
<1> DEFINE T == {Ended(r, FALSE) : r \in rs}
           f == [r \in rs |-> Ended(r, FALSE)]
<1>1. f \in Surjection(rs, T) BY DEF Surjection
<1>2. IsFiniteSet(T)
  <2> HIDE DEF f, T
  <2> QED BY <1>1, FS_Surjection
<1>3. T \in SUBSET Request BY EndedLike
<1>4. Cardinality(T) \in Nat /\ ExistsBijection(1..Cardinality(T), T)
  <2> HIDE DEF T
  <2> QED BY <1>2, FS_CardinalityType
<1>5. \E g \in [1..Cardinality(T) -> T] : IsInjective(g)
  <2> HIDE DEF T
  <2>1. PICK g : g \in Bijection(1..Cardinality(T), T) BY <1>4 DEF ExistsBijection
  <2> QED BY <2>1 DEF Bijection, Injection, IsInjective
<1>6. PICK fl : fl = Failures(rs) OBVIOUS
<1>7. fl \in [1..Cardinality(T) -> T] /\ IsInjective(fl)
  <2>1. fl = CHOOSE g \in [1..Cardinality(T) -> T] : IsInjective(g)
    BY <1>6 DEF Failures, SetToSeq
  <2> HIDE DEF T
  <2> QED BY <1>5, <2>1
<1>8. DOMAIN fl = 1..Cardinality(T) BY <1>7
<1>9. fl \in Seq(Request)
  <2> HIDE DEF T
  <2> QED BY <1>3, <1>4, <1>7
<1>10. ASSUME NEW i \in DOMAIN fl PROVE \E r \in rs : fl[i] = Ended(r, FALSE)
  <2>1. fl[i] \in T BY <1>7
  <2> QED BY <2>1
<1>11. \A i, j \in DOMAIN fl : fl[i] = fl[j] => i = j BY <1>7 DEF IsInjective
<1>12. ASSUME NEW r \in rs PROVE \E i \in DOMAIN fl : fl[i] = Ended(r, FALSE)
  <2>1. Ended(r, FALSE) \in T OBVIOUS
  <2> HIDE DEF T
  <2>2. PICK n \in Nat : n = Cardinality(T) BY <1>4
  <2>3. fl \in Injection(1..n, T) BY <1>7, <2>2 DEF Injection, IsInjective
  <2>4. IsFiniteSet(1..n) /\ Cardinality(1..n) = n
    <3>1. 1 \in Int /\ n \in Int /\ (1 > n => n = 0) BY <2>2
    <3> QED BY <3>1, FS_Interval
  <2>5. fl \in Surjection(1..n, T) BY <1>2, <2>2, <2>3, <2>4, FS_Injection
  <2> QED BY <2>1, <2>5, <1>8, <2>2 DEF Surjection
<1> QED BY <1>6, <1>9, <1>10, <1>11, <1>12 DEF FailuresOf

LEMMA NoFailures == Failures({}) = << >>
<1>1. FailuresOf(Failures({}), {}) BY FailuresRight, FS_EmptySet
<1>2. PICK fl : fl = Failures({}) OBVIOUS
<1>3. fl \in Seq(Request) /\ \A i \in DOMAIN fl : FALSE BY <1>1, <1>2 DEF FailuresOf
<1>4. Len(fl) = 0
  <2>1. PICK n \in Nat : n = Len(fl) /\ DOMAIN fl = 1..n BY <1>3
  <2>2. \A i \in 1..n : FALSE BY <1>3, <2>1
  <2>3. n = 0 BY <2>2
  <2> QED BY <2>1, <2>3
<1> QED BY <1>2, <1>3, <1>4
-----------------------------------------------------------------------------
(* The socket thread takes a packet off the port.                          *)

\* u is s without its first element, followed by r.
Shifted(u, s, r) ==
    /\ Len(s) \in Nat /\ Len(s) > 0
    /\ \A i \in 1..(Len(s) - 1) : /\ i \in DOMAIN u /\ u[i] = s[i + 1]
                                  /\ i + 1 \in DOMAIN s /\ i + 1 \in 2..Len(s)
    /\ \A j \in DOMAIN r : (Len(s) - 1) + j \in DOMAIN u /\ u[(Len(s) - 1) + j] = r[j]
    /\ \A i \in DOMAIN u : i \in 1..(Len(s) - 1) \/ \E j \in DOMAIN r : i = (Len(s) - 1) + j

LEMMA TailCat ==
    ASSUME NEW S, NEW s \in Seq(S), s # << >>, NEW r \in Seq(S), NEW u, u = Tail(s) \o r
    PROVE  u \in Seq(S) /\ Shifted(u, s, r)
<1>1. /\ Tail(s) \in Seq(S) /\ Len(s) \in Nat /\ Len(s) > 0 /\ Len(r) \in Nat
      /\ Len(Tail(s)) = Len(s) - 1 /\ DOMAIN r = 1..Len(r)
      /\ \A i \in 1..(Len(s) - 1) : Tail(s)[i] = s[i + 1]
  OBVIOUS
<1>2. PICK w : w = Tail(s) OBVIOUS
<1>3. w \in Seq(S) /\ Len(w) = Len(s) - 1 /\ u = w \o r BY <1>1, <1>2
<1>4. u \in Seq(S) /\ Len(u) = (Len(s) - 1) + Len(r) /\ DOMAIN u = 1..Len(u) BY <1>1, <1>3
<1>5. ASSUME NEW i \in 1..(Len(s) - 1)
      PROVE  i \in DOMAIN u /\ u[i] = s[i + 1] /\ i + 1 \in DOMAIN s /\ i + 1 \in 2..Len(s)
  <2>1. u[i] = w[i]
    <3>1. i \in 1..Len(w) BY <1>3
    <3>2. (w \o r)[i] = w[i] BY <1>3, <3>1
    <3> QED BY <1>3, <3>2
  <2> QED BY <2>1, <1>1, <1>2, <1>4
<1>6. ASSUME NEW j \in DOMAIN r
      PROVE  (Len(s) - 1) + j \in DOMAIN u /\ u[(Len(s) - 1) + j] = r[j]
  <2>1. Len(w) + j \in 1..(Len(w) + Len(r)) /\ Len(w) + j > Len(w) BY <1>1, <1>3
  <2>2. (w \o r)[Len(w) + j] = r[(Len(w) + j) - Len(w)] BY SMTT(60), <1>1, <1>3, <2>1
  <2>3. (Len(w) + j) - Len(w) = j BY <1>1, <1>3
  <2> QED BY <1>1, <1>3, <1>4, <2>1, <2>2, <2>3
<1>7. ASSUME NEW i \in DOMAIN u, i \notin 1..(Len(s) - 1)
      PROVE  \E j \in DOMAIN r : i = (Len(s) - 1) + j
  <2>1. i - (Len(s) - 1) \in DOMAIN r /\ i = (Len(s) - 1) + (i - (Len(s) - 1)) BY <1>1, <1>4, <1>7
  <2> QED BY <2>1
<1> QED BY <1>1, <1>4, <1>5, <1>6, <1>7 DEF Shifted

\* The first packet is gone, requests failed have failed and ks are new.
Turn(failed, ks) == /\ kernel' = (kernel \ failed) \cup ks
                    /\ port' = Tail(port) \o Failures(failed)

Fresh(ks) ==
    \A k \in ks : Single(k) =>
        /\ \A q \in kernel : ~Same(k, q)
        /\ \A i \in 2..Len(port) : ~Same(k, port[i])
        /\ \A q \in ks : Same(k, q) => q = k

\* Where the requests are after a step that makes the requests ks and may have
\* taken the first packet (h).
Remains(q) == \E p \in Requests' : Like(p, q)
Moves(ks, h) ==
    /\ PacketsOK' /\ Unique'
    /\ \A q \in Requests' : q \in ks \/ \E p \in Requests : Like(q, p)
    /\ \A q \in ks : Remains(q)
    /\ \A q \in Requests : Remains(q) \/ (h /\ q = Head(port))

LEMMA TurnParts ==
    ASSUME PacketsOK, port # << >>, NEW failed \in SUBSET kernel, NEW ks,
           Turn(failed, ks)
    PROVE  \E fl : FailuresOf(fl, failed) /\ port' \in Seq(Request) /\ Shifted(port', port, fl)
<1>1. failed \in SUBSET Request /\ IsFiniteSet(failed) BY FS_Subset DEF PacketsOK
<1>2. PICK fl : fl = Failures(failed) OBVIOUS
<1>3. FailuresOf(fl, failed) BY <1>1, <1>2, FailuresRight
<1>4. fl \in Seq(Request) BY <1>3 DEF FailuresOf
<1>5. port' = Tail(port) \o fl BY <1>2 DEF Turn
<1>6. port \in Seq(Request) BY DEF PacketsOK
<1>7. PICK u : u = Tail(port) \o fl OBVIOUS
<1>8. u \in Seq(Request) /\ Shifted(u, port, fl) BY <1>4, <1>6, <1>7, TailCat
<1>9. u = port' BY <1>5, <1>7
<1> QED BY <1>3, <1>8, <1>9

LEMMA TurnMoves ==
    ASSUME PacketsOK, Unique, port # << >>, NEW failed \in SUBSET kernel,
           NEW ks \in SUBSET Request, IsFiniteSet(ks), Turn(failed, ks), Fresh(ks)
    PROVE  Moves(ks, TRUE)
<1>0. PICK fl : FailuresOf(fl, failed) /\ port' \in Seq(Request) /\ Shifted(port', port, fl)
  BY TurnParts
<1>m. PICK m : m = Len(port) - 1 OBVIOUS
<1>1. /\ m = Len(port) - 1 /\ m \in Nat
      /\ \A i \in 1..m : /\ i \in DOMAIN port' /\ port'[i] = port[i + 1]
                         /\ i + 1 \in DOMAIN port /\ i + 1 \in 2..Len(port)
      /\ \A j \in DOMAIN fl : m + j \in DOMAIN port' /\ port'[m + j] = fl[j]
      /\ \A i \in DOMAIN port' : i \in 1..m \/ \E j \in DOMAIN fl : i = m + j
  BY <1>0, <1>m DEF Shifted
<1>2. /\ \A i \in DOMAIN fl : \E r \in failed : fl[i] = Ended(r, FALSE)
      /\ \A i, j \in DOMAIN fl : fl[i] = fl[j] => i = j
      /\ \A r \in failed : \E i \in DOMAIN fl : fl[i] = Ended(r, FALSE)
  BY <1>0 DEF FailuresOf
<1>3. kernel' = (kernel \ failed) \cup ks BY DEF Turn
<1>4. \A r \in failed : Like(Ended(r, FALSE), r) BY EndedLike DEF PacketsOK
<1>5. PacketsOK'
  <2>1. IsFiniteSet(kernel \ failed) BY FS_Subset DEF PacketsOK
  <2>2. IsFiniteSet((kernel \ failed) \cup ks) BY <2>1, FS_Union
  <2> QED BY <1>0, <1>3, <2>2 DEF PacketsOK
<1>6. \A q : Like(q, q) BY LikeSelf
<1>7. ASSUME NEW q \in Requests', q \notin ks PROVE \E p \in Requests : Like(q, p)
  <2>1. CASE q \in kernel' BY <2>1, <1>3, <1>6, <1>7 DEF Requests
  <2>2. CASE q \notin kernel'
    <3>1. PICK i \in DOMAIN port' : q = port'[i] BY <2>2 DEF Requests
    <3>2. CASE i \in 1..m BY <3>1, <3>2, <1>1, <1>6 DEF Requests
    <3>3. CASE \E j \in DOMAIN fl : i = m + j
      <4>1. PICK j \in DOMAIN fl : i = m + j BY <3>3
      <4>2. PICK r \in failed : fl[j] = Ended(r, FALSE) BY <1>2
      <4>3. q = Ended(r, FALSE) BY <3>1, <4>1, <4>2, <1>1
      <4> QED BY <4>2, <4>3, <1>4 DEF Requests
    <3> QED BY <3>1, <3>2, <3>3, <1>1
  <2> QED BY <2>1, <2>2
<1>9. \A q \in ks : Remains(q) BY <1>3, <1>6 DEF Remains, Requests
<1>10. ASSUME NEW q \in Requests, q # Head(port) PROVE Remains(q)
  <2>1. CASE q \in kernel \ failed BY <2>1, <1>3, <1>6 DEF Remains, Requests
  <2>2. CASE q \in failed
    <3>1. PICK j \in DOMAIN fl : fl[j] = Ended(q, FALSE) BY <2>2, <1>2
    <3>2. m + j \in DOMAIN port' /\ port'[m + j] = Ended(q, FALSE) BY <3>1, <1>1
    <3>3. Ended(q, FALSE) \in Requests' BY <3>2 DEF Requests
    <3> QED BY <2>2, <3>3, <1>4 DEF Remains
  <2>3. CASE q \notin kernel
    <3>1. PICK i \in DOMAIN port : q = port[i] BY <2>3 DEF Requests
    <3>2. i \in 1..Len(port) /\ Len(port) \in Nat /\ Head(port) = port[1] BY <3>1 DEF PacketsOK
    <3>3. i # 1 BY <3>1, <3>2, <1>10
    <3>4. i - 1 \in 1..m /\ (i - 1) + 1 = i BY SMTT(60), <3>2, <3>3, <1>1
    <3>5. i - 1 \in DOMAIN port' /\ port'[i - 1] = port[i] BY <3>4, <1>1
    <3>6. q \in Requests' BY <3>1, <3>5 DEF Requests
    <3> QED BY <3>6, <1>6 DEF Remains
  <2> QED BY <2>1, <2>2, <2>3
<1>11. Unique'
  <2>1. ASSUME NEW q \in kernel', NEW p \in kernel', Single(q), Same(q, p) PROVE q = p
    <3>1. CASE q \in kernel /\ p \in kernel BY <2>1, <3>1 DEF Unique
    <3>2. CASE q \in ks BY <2>1, <3>2, <1>3 DEF Fresh
    <3>3. CASE p \in ks
      <4>1. Same(p, q) /\ Single(p) BY <2>1 DEF Same, Single
      <4> QED BY <3>3, <4>1, <1>3 DEF Fresh
    <3> QED BY <3>1, <3>2, <3>3, <1>3
  <2>2. ASSUME NEW q \in kernel', NEW i \in DOMAIN port', Single(q), Same(q, port'[i]) PROVE FALSE
    <3>1. CASE i \in 1..m
      <4>1. port'[i] = port[i + 1] /\ i + 1 \in DOMAIN port /\ i + 1 \in 2..Len(port) BY <3>1, <1>1
      <4>2. CASE q \in kernel BY <2>2, <4>1, <4>2 DEF Unique
      <4>3. CASE q \in ks BY <2>2, <4>1, <4>3 DEF Fresh
      <4> QED BY <4>2, <4>3, <1>3
    <3>2. CASE \E j \in DOMAIN fl : i = m + j
      <4>1. PICK j \in DOMAIN fl : i = m + j BY <3>2
      <4>2. PICK r \in failed : fl[j] = Ended(r, FALSE) BY <1>2
      <4>3. port'[i] = Ended(r, FALSE) BY <4>1, <4>2, <1>1
      <4>4. Same(q, r) BY <2>2, <4>3, <1>4, <1>6, LikeSame
      <4>5. CASE q \in kernel \ failed BY <2>2, <4>2, <4>4, <4>5 DEF Unique
      <4>6. CASE q \in ks BY <2>2, <4>2, <4>4, <4>6 DEF Fresh
      <4> QED BY <4>5, <4>6, <1>3
    <3> QED BY <3>1, <3>2, <1>1
  <2>3. ASSUME NEW i \in DOMAIN port', NEW j \in DOMAIN port', Single(port'[i]), Same(port'[i], port'[j])
        PROVE  i = j
    <3>0. Same(port'[j], port'[i]) /\ Single(port'[j]) BY <2>3 DEF Same, Single
    <3>1. CASE i \in 1..m /\ j \in 1..m
      <4>1. /\ port'[i] = port[i + 1] /\ i + 1 \in DOMAIN port
            /\ port'[j] = port[j + 1] /\ j + 1 \in DOMAIN port
        BY <3>1, <1>1
      <4>2. i + 1 = j + 1 BY <2>3, <4>1 DEF Unique
      <4> QED BY <3>1, <4>2, <1>1
    <3>2. CASE i \in 1..m /\ \E b \in DOMAIN fl : j = m + b
      <4>1. port'[i] = port[i + 1] /\ i + 1 \in DOMAIN port BY <3>2, <1>1
      <4>2. PICK b \in DOMAIN fl : j = m + b BY <3>2
      <4>3. PICK r \in failed : fl[b] = Ended(r, FALSE) BY <1>2
      <4>4. port'[j] = Ended(r, FALSE) BY <4>2, <4>3, <1>1
      <4>5. Same(r, port[i + 1]) /\ Single(r) BY ZenonT(60), <3>0, <4>1, <4>3, <4>4, <1>4, <1>6, LikeSame
      <4> QED BY <4>1, <4>3, <4>5 DEF Unique
    <3>3. CASE j \in 1..m /\ \E a \in DOMAIN fl : i = m + a
      <4>1. port'[j] = port[j + 1] /\ j + 1 \in DOMAIN port BY <3>3, <1>1
      <4>2. PICK a \in DOMAIN fl : i = m + a BY <3>3
      <4>3. PICK r \in failed : fl[a] = Ended(r, FALSE) BY <1>2
      <4>4. port'[i] = Ended(r, FALSE) BY <4>2, <4>3, <1>1
      <4>5. Same(r, port[j + 1]) /\ Single(r) BY <2>3, <4>1, <4>3, <4>4, <1>4, <1>6, LikeSame
      <4> QED BY <4>1, <4>3, <4>5 DEF Unique
    <3>4. CASE (\E a \in DOMAIN fl : i = m + a) /\ (\E b \in DOMAIN fl : j = m + b)
      <4>1. PICK a \in DOMAIN fl : i = m + a BY <3>4
      <4>2. PICK b \in DOMAIN fl : j = m + b BY <3>4
      <4>3. PICK r \in failed : fl[a] = Ended(r, FALSE) BY <1>2
      <4>4. PICK s \in failed : fl[b] = Ended(s, FALSE) BY <1>2
      <4>5. port'[i] = Ended(r, FALSE) /\ port'[j] = Ended(s, FALSE) BY <4>1, <4>2, <4>3, <4>4, <1>1
      <4>6. Same(r, s) /\ Single(r)
        <5>1. Like(port'[i], r) /\ Like(port'[j], s) BY <4>3, <4>4, <4>5, <1>4
        <5> QED BY <2>3, <5>1, LikeSame
      <4>7. r = s BY <4>3, <4>4, <4>6 DEF Unique
      <4>8. a = b BY <4>3, <4>4, <4>7, <1>2
      <4> QED BY <4>1, <4>2, <4>8
    <3> QED BY <3>1, <3>2, <3>3, <3>4, <1>1
  <2> QED BY <2>1, <2>2, <2>3 DEF Unique
<1> QED BY <1>5, <1>7, <1>9, <1>10, <1>11 DEF Moves

-----------------------------------------------------------------------------
(* The other ways in which requests move.                                  *)

LEMMA StayMoves == ASSUME PacketsOK, Unique, UNCHANGED <<port, kernel>> PROVE Moves({}, FALSE)
<1>1. Requests' = Requests BY DEF Requests
<1>2. PacketsOK' /\ Unique' BY DEF PacketsOK, Unique
<1> QED BY <1>1, <1>2, LikeSelf DEF Moves, Remains

\* A request is posted.
LEMMA PostMoves ==
    ASSUME PacketsOK, Unique, NEW r \in Request, ~Single(r), Post(r), UNCHANGED kernel
    PROVE  Moves({r}, FALSE)
<1>1. /\ port' \in Seq(Request) /\ Len(port) \in Nat /\ DOMAIN port = 1..Len(port)
      /\ DOMAIN port' = 1..(Len(port) + 1)
      /\ \A i \in DOMAIN port : port'[i] = port[i]
      /\ port'[Len(port) + 1] = r
  BY DEF Post, PacketsOK
<1>2. \A i \in DOMAIN port' : (i \in DOMAIN port /\ port'[i] = port[i]) \/ port'[i] = r BY <1>1
<1>3. (\A i \in DOMAIN port : i \in DOMAIN port') /\ Len(port) + 1 \in DOMAIN port' BY <1>1
<1>4. \A q : Like(q, q) BY LikeSelf
<1>5. PacketsOK' BY <1>1 DEF PacketsOK
<1>6. ASSUME NEW q \in Requests', q # r PROVE q \in Requests
  <2>1. CASE q \in kernel' BY <2>1 DEF Requests
  <2>2. CASE \E i \in DOMAIN port' : q = port'[i] BY <2>2, <1>2, <1>6 DEF Requests
  <2> QED BY <2>1, <2>2 DEF Requests
<1>7. r \in Requests' BY <1>1, <1>3 DEF Requests
<1>8. ASSUME NEW q \in Requests PROVE Remains(q)
  <2>1. q \in Requests' BY <1>1, <1>3 DEF Requests
  <2> QED BY <2>1, <1>4 DEF Remains
<1>9. Unique'
  <2>1. \A q, p \in kernel' : Single(q) /\ Same(q, p) => q = p BY DEF Unique
  <2>2. ASSUME NEW q \in kernel', NEW i \in DOMAIN port', Single(q), Same(q, port'[i]) PROVE FALSE
    <3>1. port'[i] # r BY <2>2 DEF Same, Single
    <3> QED BY <2>2, <3>1, <1>2 DEF Unique
  <2>3. ASSUME NEW i \in DOMAIN port', NEW j \in DOMAIN port', Single(port'[i]), Same(port'[i], port'[j])
        PROVE  i = j
    <3>1. port'[i] # r /\ port'[j] # r BY <2>3 DEF Same, Single
    <3> QED BY <2>3, <3>1, <1>2 DEF Unique
  <2> QED BY <2>1, <2>2, <2>3 DEF Unique
<1> QED BY <1>4, <1>5, <1>6, <1>7, <1>8, <1>9 DEF Moves, Remains

\* The system is given a request.
LEMMA GrowMoves ==
    ASSUME PacketsOK, Unique, NEW r \in Request, kernel' = kernel \cup {r}, UNCHANGED port,
           \A q \in Requests : Single(r) => ~Same(r, q)
    PROVE  Moves({r}, FALSE)
<1>1. PacketsOK' BY FS_AddElement DEF PacketsOK
<1>2. \A q : Like(q, q) BY LikeSelf
<1>3. Requests' = Requests \cup {r} BY DEF Requests
<1>6. Unique'
  <2>1. ASSUME NEW q \in kernel', NEW p \in kernel', Single(q), Same(q, p) PROVE q = p
    <3>1. Same(p, q) /\ Single(p) BY <2>1 DEF Same, Single
    <3> QED BY <2>1, <3>1 DEF Unique, Requests
  <2>2. ASSUME NEW q \in kernel', NEW i \in DOMAIN port', Single(q), Same(q, port'[i]) PROVE FALSE
    BY <2>2 DEF Unique, Requests
  <2>3. \A i, j \in DOMAIN port' : Single(port'[i]) /\ Same(port'[i], port'[j]) => i = j BY DEF Unique
  <2> QED BY <2>1, <2>2, <2>3 DEF Unique
<1> QED BY <1>1, <1>2, <1>3, <1>6 DEF Moves, Remains

\* The system completes a request.
LEMMA CompleteMoves ==
    ASSUME PacketsOK, Unique, NEW r \in kernel, NEW e \in Request, Like(e, r),
           kernel' = kernel \ {r}, Post(e)
    PROVE  Moves({}, FALSE)
<1>1. /\ port' \in Seq(Request) /\ Len(port) \in Nat /\ DOMAIN port = 1..Len(port)
      /\ DOMAIN port' = 1..(Len(port) + 1)
      /\ \A i \in DOMAIN port : port'[i] = port[i]
      /\ port'[Len(port) + 1] = e
  BY DEF Post, PacketsOK
<1>2. \A i \in DOMAIN port' :
         (i \in DOMAIN port /\ port'[i] = port[i]) \/ (i = Len(port) + 1 /\ port'[i] = e)
  BY <1>1
<1>3. (\A i \in DOMAIN port : i \in DOMAIN port') /\ Len(port) + 1 \in DOMAIN port' BY <1>1
<1>4. \A q : Like(q, q) BY LikeSelf
<1>5. PacketsOK' BY <1>1, FS_RemoveElement DEF PacketsOK
<1>6. ASSUME NEW q \in Requests' PROVE \E p \in Requests : Like(q, p)
  <2>1. CASE q \in kernel' BY <2>1, <1>4 DEF Requests
  <2>2. CASE \E i \in DOMAIN port' : q = port'[i] BY <2>2, <1>2, <1>4 DEF Requests
  <2> QED BY <2>1, <2>2 DEF Requests
<1>8. ASSUME NEW q \in Requests PROVE Remains(q)
  <2>1. CASE q \in kernel
    <3>1. CASE q = r
      <4>1. e \in Requests' BY <1>1, <1>3 DEF Requests
      <4> QED BY <3>1, <4>1 DEF Remains
    <3>2. CASE q # r BY <2>1, <3>2, <1>4 DEF Remains, Requests
    <3> QED BY <3>1, <3>2
  <2>2. CASE q \notin kernel
    <3>1. q \in Requests' BY <2>2, <1>1, <1>3 DEF Requests
    <3> QED BY <3>1, <1>4 DEF Remains
  <2> QED BY <2>1, <2>2
<1>9. Unique'
  <2>1. \A q, p \in kernel' : Single(q) /\ Same(q, p) => q = p BY DEF Unique
  <2>2. ASSUME NEW q \in kernel', NEW i \in DOMAIN port', Single(q), Same(q, port'[i]) PROVE FALSE
    <3>1. CASE i \in DOMAIN port /\ port'[i] = port[i] BY <2>2, <3>1 DEF Unique
    <3>2. CASE port'[i] = e
      <4>1. Same(q, r) BY <2>2, <3>2, <1>4, LikeSame
      <4> QED BY <2>2, <4>1 DEF Unique
    <3> QED BY <3>1, <3>2, <1>2
  <2>3. ASSUME NEW i \in DOMAIN port', NEW j \in DOMAIN port', Single(port'[i]), Same(port'[i], port'[j])
        PROVE  i = j
    <3>0. Same(port'[j], port'[i]) /\ Single(port'[j]) BY <2>3 DEF Same, Single
    <3>1. CASE i = Len(port) + 1 /\ port'[i] = e /\ j \in DOMAIN port /\ port'[j] = port[j]
      <4>1. Same(r, port[j]) /\ Single(r) BY <2>3, <3>1, <1>4, LikeSame
      <4> QED BY <3>1, <4>1 DEF Unique
    <3>2. CASE j = Len(port) + 1 /\ port'[j] = e /\ i \in DOMAIN port /\ port'[i] = port[i]
      <4>1. Same(r, port[i]) /\ Single(r) BY <3>0, <3>2, <1>4, LikeSame
      <4> QED BY <3>2, <4>1 DEF Unique
    <3>3. CASE i \in DOMAIN port /\ port'[i] = port[i] /\ j \in DOMAIN port /\ port'[j] = port[j]
      BY <2>3, <3>3 DEF Unique
    <3> QED BY <3>1, <3>2, <3>3, <1>2
  <2> QED BY <2>1, <2>2, <2>3 DEF Unique
<1> QED BY <1>5, <1>6, <1>8, <1>9 DEF Moves

-----------------------------------------------------------------------------
(* What a step keeps.                                                      *)

\* A step hands out later ids only, and forgets neither starts nor UDP sockets.
Grows ==
    /\ allocId \in Nat /\ allocId' \in Nat /\ allocId <= allocId'
    /\ \A c \in Threads : Opening(c)' =>
          (Opening(c) /\ caller'[c].id = caller[c].id) \/ caller'[c].id > allocId
    /\ \A k \in Places : slot[k].start = TRUE => slot'[k].start = TRUE
    /\ \A a \in Svc : udp[a] \in Fd => udp'[a] = udp[a]

LEMMA ReqPlace ==
    ASSUME NEW p, ReqOK(p), p.type \in ForId, allocId \in Nat
    PROVE  p.rid \in Nat /\ p.rid # 0 /\ p.rid <= allocId /\ p.slot = Hash(p.rid) /\ p.slot \in Places
<1>1. p.rid \in 1..allocId /\ p.slot = Hash(p.rid) BY DEF ReqOK
<1>2. p.rid \in Nat /\ p.rid # 0 /\ p.rid <= allocId BY <1>1
<1> QED BY <1>1, <1>2, HashType

LEMMA ReqKept == ASSUME NEW p, ReqOK(p), Grows PROVE ReqOK(p)'
<1>1. ASSUME p.type \in ForId
      PROVE  /\ p.rid \in 1..allocId' /\ p.slot = Hash(p.rid)
             /\ \A c \in Threads : Opening(c)' => caller'[c].id # p.rid
             /\ p.slot \in Places
  <2>1. p.rid \in Nat /\ p.rid # 0 /\ p.rid <= allocId /\ p.slot = Hash(p.rid) /\ p.slot \in Places
    BY <1>1, ReqPlace DEF Grows
  <2>2. p.rid \in 1..allocId' BY <2>1 DEF Grows
  <2>3. \A c \in Threads : Opening(c) => caller[c].id # p.rid BY <1>1 DEF ReqOK
  <2>4. ASSUME NEW c \in Threads, Opening(c)' PROVE caller'[c].id # p.rid
    <3>1. CASE Opening(c) /\ caller'[c].id = caller[c].id BY <2>3, <3>1
    <3>2. CASE caller'[c].id > allocId BY <2>1, <3>2 DEF Grows
    <3> QED BY <2>4, <3>1, <3>2 DEF Grows
  <2> QED BY <2>1, <2>2, <2>4
<1>2. p.type = "R" => slot'[p.slot].start = TRUE BY <1>1 DEF ReqOK, Grows, ForId
<1>3. p.type = "A" => p.i \in 1..Accepts /\ p.fd \in Fd /\ p.who = "none" BY DEF ReqOK
<1>4. p.type \notin ForId => p.who \in Svc /\ p.fd \in Fd /\ udp'[p.who] = p.fd
  BY DEF ReqOK, Grows
<1> QED BY <1>1, <1>2, <1>3, <1>4 DEF ReqOK, Hash

LEMMA LikeOKNext == ASSUME NEW p, NEW q, Like(p, q), ReqOK(q)' PROVE ReqOK(p)'
<1>1. p.type = q.type /\ p.slot = q.slot /\ p.rid = q.rid /\ p.who = q.who /\ p.i = q.i
  BY DEF Like
<1>2. p.type \in ForId => /\ p.rid \in 1..allocId' /\ p.slot = Hash(p.rid)
                          /\ \A c \in Threads : Opening(c)' => caller'[c].id # p.rid
  BY <1>1 DEF ReqOK, Hash
<1>3. /\ p.type = "R" => slot'[p.slot].start = TRUE
      /\ p.type = "A" => p.i \in 1..Accepts /\ p.fd \in Fd /\ p.who = "none"
  BY <1>1 DEF ReqOK, Like
<1>4. p.type \notin ForId => p.who \in Svc /\ p.fd \in Fd /\ udp'[p.who] = p.fd
  BY <1>1 DEF ReqOK, Like, ForId
<1> QED BY <1>2, <1>3, <1>4 DEF ReqOK, Hash

LEMMA AllKept ==
    ASSUME AllOK, NEW ks, NEW h, Moves(ks, h), Grows, \A q \in ks : ReqOK(q)'
    PROVE  AllOK'
<1> SUFFICES ASSUME NEW q \in Requests' PROVE ReqOK(q)' BY DEF AllOK
<1>1. CASE q \in ks BY <1>1
<1>2. CASE \E p \in Requests : Like(q, p)
  <2>1. PICK p \in Requests : Like(q, p) BY <1>2
  <2>2. ReqOK(p)' BY <2>1, ReqKept DEF AllOK
  <2> QED BY <2>1, <2>2, LikeOKNext
<1> QED BY <1>1, <1>2 DEF Moves

\* A slot keeps its socket, or loses it.
Settled(k) ==
    /\ slot'[k].id = slot[k].id /\ slot'[k].fd = slot[k].fd
    /\ OwnOpen(k)' =>
          /\ OwnOpen(k)
          /\ \A u \in {"connected", "udp", "listening"} :
                os[slot[k].fd].up = u => os'[slot[k].fd].up = u

\* A slot has a new socket, for which nothing has been asked yet, or none.
Renewed(k) ==
    OwnOpen(k)' => /\ slot'[k].start = TRUE => slot'[k].deaf = TRUE
                   /\ \A q \in Requests' : q.type = "A" /\ q.slot = k => q.rid # slot'[k].id

\* A slot keeps its receive.
KeptReceive(k, ks, h) ==
    OwnOpen(k)' /\ slot'[k].start = TRUE /\ slot'[k].deaf = FALSE =>
        \/ Up(slot[k].fd, {"connected", "udp"}) /\ \E q \in ks : q.type = "R" /\ q.slot = k
        \/ /\ slot[k].start = TRUE /\ slot[k].deaf = FALSE
           /\ h => ~(Head(port).type = "R" /\ Head(port).slot = k)

\* OwnOpen in the next state, of a slot named in this one.
OwnOpenNext(k) == slot'[k].fd \in Fd /\ os'[slot'[k].fd].of = slot'[k].id

\* New requests to accept are all of a call, or the present one again.
KeptAccepts(ks, h) ==
    /\ lost' = FALSE => lost = FALSE
    /\ \A q \in ks : q.type = "A" =>
          \/ /\ Up(slot[q.slot].fd, {"listening"})
             /\ \A j \in 1..Accepts : \E p \in ks : Sibling(p, q, j)
          \/ h /\ Like(q, Head(port))
    /\ h /\ Head(port).type = "A" /\ lost' = FALSE =>
          \/ ~OwnOpenNext(Head(port).slot)
          \/ slot'[Head(port).slot].id # Head(port).rid
          \/ \E p \in ks : Like(p, Head(port))

KeptDatagrams(ks, h) ==
    \A a \in Svc : udp'[a] \in Fd /\ os'[udp'[a]].of = a =>
        \/ \E q \in ks : q.type = "f" /\ q.who = a
        \/ /\ udp[a] \in Fd /\ os[udp[a]].of = a
           /\ h => ~(Head(port).type = "f" /\ Head(port).who = a)

LEMMA HeadOK ==
    ASSUME PacketsOK, AllOK, allocId \in Nat, port # << >>
    PROVE  /\ Head(port) \in Requests /\ Head(port) \in Request /\ ReqOK(Head(port))
           /\ Head(port) = port[1] /\ 1 \in DOMAIN port
           /\ Head(port).type \in ForId =>
                /\ Head(port).slot \in Places /\ Head(port).rid \in Nat /\ Head(port).rid # 0
                /\ Head(port).rid <= allocId /\ Head(port).slot = Hash(Head(port).rid)
                /\ \A c \in Threads : Opening(c) => caller[c].id # Head(port).rid
<1>1. port \in Seq(Request) BY DEF PacketsOK
<1>2. Head(port) = port[1] /\ 1 \in DOMAIN port /\ Head(port) \in Request BY <1>1
<1>3. Head(port) \in Requests BY <1>2 DEF Requests
<1>4. ReqOK(Head(port)) BY <1>3 DEF AllOK
<1>5. Head(port).type \in ForId => \A c \in Threads : Opening(c) => caller[c].id # Head(port).rid
  BY <1>4 DEF ReqOK
<1> QED BY <1>2, <1>3, <1>4, <1>5, ReqPlace

LEMMA SiblingLike ==
    ASSUME NEW x, NEW s, NEW q, NEW p, NEW j, Like(x, s), Sibling(s, p, j), Like(q, p)
    PROVE  Sibling(x, q, j)
  BY DEF Like, Sibling

LEMMA NeedsKept ==
    ASSUME PacketsOK, AllOK, allocId \in Nat, Receiving, Accepting, Listening,
           NEW ks, NEW h, Moves(ks, h), h => port # << >>, AllOK', allocId' \in Nat,
           \A k \in Places : Renewed(k) \/ (Settled(k) /\ KeptReceive(k, ks, h)),
           KeptAccepts(ks, h), KeptDatagrams(ks, h)
    PROVE  Receiving' /\ Accepting' /\ Listening'
<1>1. Receiving'
  <2> SUFFICES ASSUME NEW k \in Places, OwnOpen(k)', slot'[k].start = TRUE, slot'[k].deaf = FALSE
               PROVE  HasReceive(k)' /\ Up(slot[k].fd, {"connected", "udp"})'
    BY DEF Receiving, Places
  <2>1. Settled(k) /\ KeptReceive(k, ks, h) BY DEF Renewed
  <2>2. ASSUME Up(slot[k].fd, {"connected", "udp"}) PROVE Up(slot[k].fd, {"connected", "udp"})'
    BY <2>1, <2>2 DEF Settled, Up
  <2>3. CASE Up(slot[k].fd, {"connected", "udp"}) /\ \E q \in ks : q.type = "R" /\ q.slot = k
    <3>1. PICK q \in ks : q.type = "R" /\ q.slot = k BY <2>3
    <3>2. PICK p \in Requests' : Like(p, q) BY DEF Moves, Remains
    <3> QED BY <2>2, <2>3, <3>1, <3>2 DEF HasReceive, Like
  <2>4. CASE /\ slot[k].start = TRUE /\ slot[k].deaf = FALSE
             /\ h => ~(Head(port).type = "R" /\ Head(port).slot = k)
    <3>1. HasReceive(k) /\ Up(slot[k].fd, {"connected", "udp"}) BY <2>1, <2>4 DEF Receiving, Settled
    <3>2. PICK q \in Requests : q.type = "R" /\ q.slot = k BY <3>1 DEF HasReceive
    <3>3. Remains(q) BY <2>4, <3>2 DEF Moves
    <3>4. PICK p \in Requests' : Like(p, q) BY <3>3 DEF Remains
    <3> QED BY <2>2, <3>1, <3>2, <3>4 DEF HasReceive, Like
  <2> QED BY <2>1, <2>3, <2>4 DEF KeptReceive
<1>2. Listening'
  <2> SUFFICES ASSUME NEW a \in Svc, udp'[a] \in Fd, os'[udp'[a]].of = a PROVE HasDatagram(a)'
    BY DEF Listening
  <2>1. CASE \E q \in ks : q.type = "f" /\ q.who = a
    <3>1. PICK q \in ks : q.type = "f" /\ q.who = a BY <2>1
    <3>2. PICK p \in Requests' : Like(p, q) BY DEF Moves, Remains
    <3> QED BY <3>1, <3>2 DEF HasDatagram, Like
  <2>2. CASE /\ udp[a] \in Fd /\ os[udp[a]].of = a
             /\ h => ~(Head(port).type = "f" /\ Head(port).who = a)
    <3>1. PICK q \in Requests : q.type = "f" /\ q.who = a BY <2>2 DEF Listening, HasDatagram
    <3>2. Remains(q) BY <2>2, <3>1 DEF Moves
    <3>3. PICK p \in Requests' : Like(p, q) BY <3>2 DEF Remains
    <3> QED BY <3>1, <3>3 DEF HasDatagram, Like
  <2> QED BY <2>1, <2>2 DEF KeptDatagrams
<1>3. Accepting'
  <2> SUFFICES ASSUME NEW q \in Requests', q.type = "A", OwnOpen(q.slot)', slot'[q.slot].id = q.rid
               PROVE  /\ Up(slot[q.slot].fd, {"listening"})'
                      /\ lost' = FALSE => \A j \in 1..Accepts : HasAccept(q, j)'
    BY DEF Accepting
  <2>1. q.slot \in Places
    <3>1. q.rid \in 1..allocId' /\ q.slot = Hash(q.rid) BY DEF AllOK, ReqOK, ForId, Hash
    <3>2. q.rid \in Nat BY <3>1
    <3> QED BY <3>1, <3>2, HashType
  <2>2. Settled(q.slot) BY <2>1 DEF Renewed
  <2>3. OwnOpen(q.slot) /\ slot[q.slot].id = q.rid BY <2>2 DEF Settled
  <2>4. ASSUME Up(slot[q.slot].fd, {"listening"}) PROVE Up(slot[q.slot].fd, {"listening"})'
    BY <2>2, <2>4 DEF Settled, Up
  <2>5. CASE /\ q \in ks /\ Up(slot[q.slot].fd, {"listening"})
             /\ \A j \in 1..Accepts : \E p \in ks : Sibling(p, q, j)
    <3>1. ASSUME NEW j \in 1..Accepts PROVE HasAccept(q, j)'
      <4>1. PICK p \in ks : Sibling(p, q, j) BY <2>5
      <4>2. PICK x \in Requests' : Like(x, p) BY DEF Moves, Remains
      <4>3. Sibling(x, q, j) BY <4>1, <4>2, SiblingLike, LikeSelf
      <4> QED BY <4>2, <4>3 DEF HasAccept
    <3> QED BY <2>4, <2>5, <3>1
  <2>6. CASE \E p \in Requests : Like(q, p)
    <3>1. PICK p \in Requests : Like(q, p) BY <2>6
    <3>2. p.type = "A" /\ p.slot = q.slot /\ p.rid = q.rid BY <3>1 DEF Like
    <3>3. /\ Up(slot[q.slot].fd, {"listening"})
          /\ lost = FALSE => \A j \in 1..Accepts : HasAccept(p, j)
      BY <2>3, <3>2 DEF Accepting
    <3>4. ASSUME lost' = FALSE, NEW j \in 1..Accepts PROVE HasAccept(q, j)'
      <4>1. HasAccept(p, j) BY <3>3, <3>4 DEF KeptAccepts
      <4>2. PICK s \in Requests : Sibling(s, p, j) BY <4>1 DEF HasAccept
      <4>3. \E x \in Requests' : Like(x, s)
        <5>1. CASE Remains(s) BY <5>1 DEF Remains
        <5>2. CASE h /\ s = Head(port)
          <6>1. s.type = "A" /\ s.slot = q.slot /\ s.rid = q.rid BY <3>2, <4>2 DEF Sibling
          <6>2. PICK u \in ks : Like(u, s) BY <3>4, <5>2, <6>1 DEF KeptAccepts, OwnOpen, OwnOpenNext
          <6>3. PICK x \in Requests' : Like(x, u) BY DEF Moves, Remains
          <6>4. Like(x, s) BY <6>2, <6>3 DEF Like
          <6> QED BY <6>4
        <5> QED BY <5>1, <5>2 DEF Moves
      <4>4. PICK x \in Requests' : Like(x, s) BY <4>3
      <4>5. Sibling(x, q, j) BY <3>1, <4>2, <4>4, SiblingLike
      <4> QED BY <4>4, <4>5 DEF HasAccept
    <3> QED BY <2>4, <3>3, <3>4
  <2>7. CASE q \in ks /\ h /\ Like(q, Head(port))
    <3>1. Head(port) \in Requests BY <2>7, HeadOK
    <3> QED BY <2>6, <2>7, <3>1
  <2> QED BY <2>5, <2>6, <2>7 DEF Moves, KeptAccepts
<1> QED BY <1>1, <1>2, <1>3

\* The slots keep their ids and numbers, and nothing is opened.
Quiet ==
    /\ allocId <= allocId' /\ UNCHANGED udp
    /\ \A k \in Places : /\ slot'[k].id = slot[k].id /\ slot'[k].fd = slot[k].fd
                         /\ slot[k].start = TRUE => slot'[k].start = TRUE
    /\ \A c \in Threads :
          /\ Opening(c)' => Opening(c) /\ caller'[c] = caller[c]
          /\ caller'[c].call = "S" =>
                \/ caller'[c] = caller[c]
                \/ /\ caller'[c].id \in 1..allocId
                   /\ \A d \in Threads : Opening(d) => caller[d].id # caller'[c].id
    /\ \A n \in Fd : \/ os'[n] = os[n] \/ os'[n] = Shut \/ os'[n] = Client
                     \/ os[n].up = "no" /\ os'[n] = [os[n] EXCEPT !.up = "connected"]

\* The facts about ids need no requests.
LEMMA QuietIds ==
    ASSUME SocketInv, Shape', Quiet
    PROVE  /\ SlotsOK' /\ OpeningOK' /\ NumbersOK' /\ Grows
           /\ \A k \in Places : Settled(k)
<1>1. /\ allocId \in Nat /\ allocId' \in Nat /\ allocId <= allocId' /\ udp' = udp
      /\ \A x \in 1..allocId : x \in 1..allocId' /\ x # 0 /\ x # -1
  <2>1. /\ allocId \in Nat /\ allocId' \in Nat /\ allocId <= allocId' /\ udp' = udp
    BY SocketAssumption DEF SocketInv, IdInv, Shape, Quiet
  <2> QED BY <2>1
<1>2. \A k \in Places : /\ slot'[k].id = slot[k].id /\ slot'[k].fd = slot[k].fd
                        /\ slot[k].start = TRUE => slot'[k].start = TRUE
  BY DEF Quiet
<1>3. \A n \in Fd : \/ os'[n] = os[n] \/ os'[n].of = 0 \/ os'[n].of = -1
                    \/ os'[n].of = os[n].of /\ os[n].up = "no" /\ os'[n].up = "connected"
  <2> SUFFICES ASSUME NEW n \in Fd
               PROVE  \/ os'[n] = os[n] \/ os'[n].of = 0 \/ os'[n].of = -1
                      \/ os'[n].of = os[n].of /\ os[n].up = "no" /\ os'[n].up = "connected"
    OBVIOUS
  <2>1. os[n] \in Number BY DEF SocketInv, IdInv, Shape
  <2>2. os'[n] = [os[n] EXCEPT !.up = "connected"] => os'[n].of = os[n].of /\ os'[n].up = "connected"
    BY <2>1 DEF Number
  <2>3. Shut.of = 0 /\ Client.of = -1 BY DEF Shut, Client
  <2> QED BY <2>2, <2>3 DEF Quiet
<1>4. SlotsOK' BY <1>1, <1>2 DEF SocketInv, IdInv, SlotsOK, Places, Hash
<1>5. \A c \in Threads : Opening(c)' => Opening(c) /\ caller'[c] = caller[c] BY DEF Quiet
<1>6. OpeningOK'
  <2>1. ASSUME NEW c \in Threads, Opening(c)'
        PROVE  caller'[c].id \in 1..allocId' /\ \A n \in Fd : os'[n].of # caller'[c].id
    <3>1. caller[c].id \in 1..allocId /\ \A n \in Fd : os[n].of # caller[c].id
      BY <1>5, <2>1 DEF SocketInv, IdInv, OpeningOK
    <3>2. caller[c].id # 0 /\ caller[c].id # -1 BY <1>1, <3>1
    <3> QED BY <1>1, <1>3, <1>5, <2>1, <3>1, <3>2
  <2>2. \A c, d \in Threads : Opening(c)' /\ Opening(d)' /\ caller'[c].id = caller'[d].id => c = d
    BY <1>5 DEF SocketInv, IdInv, OpeningOK
  <2>3. ASSUME NEW c \in Threads, caller'[c].call = "S"
        PROVE  caller'[c].id \in 1..allocId' /\ \A d \in Threads : Opening(d)' => caller'[d].id # caller'[c].id
    <3>1. \/ caller'[c] = caller[c]
          \/ /\ caller'[c].id \in 1..allocId
             /\ \A d \in Threads : Opening(d) => caller[d].id # caller'[c].id
      BY <2>3 DEF Quiet
    <3>2. caller'[c].id \in 1..allocId /\ \A d \in Threads : Opening(d) => caller[d].id # caller'[c].id
      BY <2>3, <3>1 DEF SocketInv, IdInv, OpeningOK
    <3> QED BY <1>1, <1>5, <3>2
  <2> QED BY <2>1, <2>2, <2>3 DEF OpeningOK
<1>7. NumbersOK'
  <2> SUFFICES ASSUME NEW n \in Fd
               PROVE  /\ os'[n].of \in 1..MaxAlloc =>
                            /\ os'[n].of \in 1..allocId'
                            /\ slot'[Hash(os'[n].of)].id = os'[n].of => slot'[Hash(os'[n].of)].fd = n
                      /\ os'[n].of \in Svc => udp'[os'[n].of] = n /\ os'[n].up = "udp"
    BY DEF NumbersOK, Hash
  <2>1. 0 \notin Svc /\ -1 \notin Svc /\ 0 \notin 1..MaxAlloc /\ -1 \notin 1..MaxAlloc
    BY SocketAssumption
  <2>2. CASE os'[n].of = 0 \/ os'[n].of = -1 BY <2>1, <2>2
  <2>3. CASE os'[n].of = os[n].of /\ (os'[n].up = os[n].up \/ os[n].up = "no")
    <3>1. ASSUME os[n].of \in 1..MaxAlloc
          PROVE  /\ os[n].of \in 1..allocId
                 /\ slot'[Hash(os[n].of)].id = os[n].of => slot'[Hash(os[n].of)].fd = n
      <4>1. /\ os[n].of \in 1..allocId
            /\ slot[Hash(os[n].of)].id = os[n].of => slot[Hash(os[n].of)].fd = n
        BY <3>1 DEF SocketInv, IdInv, NumbersOK
      <4>2. os[n].of \in Nat BY <3>1
      <4>3. Hash(os[n].of) \in Places BY <4>2, HashType
      <4> QED BY <1>2, <4>1, <4>3
    <3>2. os[n].of \in Svc => udp[os[n].of] = n /\ os[n].up = "udp"
      BY DEF SocketInv, IdInv, NumbersOK
    <3> QED BY <1>1, <2>3, <3>1, <3>2
  <2> QED BY <1>3, <2>2, <2>3
<1>8. Grows BY <1>1, <1>2, <1>5 DEF Grows
<1>9. ASSUME NEW k \in Places PROVE Settled(k)
  <2> SUFFICES ASSUME OwnOpen(k)'
               PROVE  /\ OwnOpen(k)
                      /\ \A u \in {"connected", "udp", "listening"} :
                            os[slot[k].fd].up = u => os'[slot[k].fd].up = u
    BY <1>2 DEF Settled
  <2>1. slot[k].fd \in Fd /\ os'[slot[k].fd].of = slot[k].id BY <1>2 DEF OwnOpen
  <2>2. slot[k].id # 0 /\ slot[k].id # -1
    <3>1. slot[k].id # 0 BY <2>1 DEF SocketInv, IdInv, SlotsOK
    <3>2. slot[k].id \in 1..allocId BY <3>1 DEF SocketInv, IdInv, SlotsOK
    <3> QED BY <1>1, <3>2
  <2> QED BY <1>3, <2>1, <2>2 DEF OwnOpen
<1> QED BY <1>4, <1>6, <1>7, <1>8, <1>9

LEMMA QuietInv ==
    ASSUME SocketInv, Shape', Quiet, NEW ks, NEW h, Moves(ks, h), h => port # << >>,
           \A q \in ks : ReqOK(q)', IoOK', Reserving',
           \A k \in Places : KeptReceive(k, ks, h), KeptAccepts(ks, h), KeptDatagrams(ks, h)
    PROVE  SocketInv'
<1>1. SlotsOK' /\ OpeningOK' /\ NumbersOK' /\ Grows /\ \A k \in Places : Settled(k) BY QuietIds
<1>2. AllOK' BY <1>1, AllKept DEF SocketInv, IdInv
<1>3. /\ PacketsOK /\ AllOK /\ allocId \in Nat /\ allocId' \in Nat
      /\ Receiving /\ Accepting /\ Listening
  BY <1>1 DEF SocketInv, IdInv, Shape, Grows
<1>4. Receiving' /\ Accepting' /\ Listening' BY <1>1, <1>2, <1>3, NeedsKept
<1> QED BY <1>1, <1>2, <1>4 DEF SocketInv, IdInv, Moves

LEMMA QuietReserving ==
    ASSUME SocketInv, Quiet, \A k \in Places : slot'[k].type = slot[k].type,
           raced \subseteq raced'
    PROVE  Reserving'
<1> SUFFICES ASSUME NEW c \in Threads, Opening(c)', Hash(caller'[c].id) \notin raced'
             PROVE  /\ slot'[Hash(caller'[c].id)].type = "reserve"
                    /\ caller'[c].stored = TRUE => slot'[Hash(caller'[c].id)].id = caller'[c].id
                    /\ \A d \in Threads : Opening(d)' /\ Hash(caller'[d].id) = Hash(caller'[c].id) => d = c
  BY DEF Reserving, Hash
<1>1. \A d \in Threads : Opening(d)' => Opening(d) /\ caller'[d] = caller[d] BY DEF Quiet
<1>2. caller[c].id \in Nat
  <2>1. caller[c].id \in 1..allocId BY <1>1 DEF SocketInv, IdInv, OpeningOK
  <2> QED BY <2>1
<1>3. Hash(caller[c].id) \in Places BY <1>2, HashType
<1>4. /\ slot[Hash(caller[c].id)].type = "reserve"
      /\ caller[c].stored = TRUE => slot[Hash(caller[c].id)].id = caller[c].id
      /\ \A d \in Threads : Opening(d) /\ Hash(caller[d].id) = Hash(caller[c].id) => d = c
  BY <1>1 DEF SocketInv, Reserving
<1> QED BY <1>1, <1>3, <1>4 DEF Quiet

-----------------------------------------------------------------------------
(* The socket thread handles a packet.                                     *)

\* The slots as most packets leave them.
Fits(sl) ==
    /\ sl \in [Places -> Socket]
    /\ \A k \in Places : /\ sl[k].id = slot[k].id /\ sl[k].fd = slot[k].fd /\ sl[k].type = slot[k].type
                         /\ slot[k].start = TRUE => sl[k].start = TRUE

NewOK(ks) ==
    /\ ks \in SUBSET Request /\ IsFiniteSet(ks) /\ Fresh(ks)
    /\ \A q \in ks : ReqOK(q)'

LEMMA PollInv ==
    ASSUME SocketInv, port # << >>, NEW sl, NEW ks, NEW gone, NEW ev, Finish(sl, ks, gone, ev),
           \/ UNCHANGED caller /\ Idle(Io)
           \/ caller' = [caller EXCEPT ![Io] = NoCall],
           Fits(sl), NewOK(ks), lost' \in BOOLEAN, raced \subseteq raced',
           \A k \in Places : KeptReceive(k, ks, TRUE),
           KeptAccepts(ks, TRUE), KeptDatagrams(ks, TRUE)
    PROVE  SocketInv'
<1> DEFINE failed == {r \in kernel : r.fd \in gone}
<1>1. /\ slot' = sl /\ Turn(failed, ks) /\ UNCHANGED <<allocId, udp, posts>>
      /\ os' = [n \in Fd |-> IF n \in gone THEN Shut ELSE os[n]]
  BY DEF Finish, Turn
<1>2. failed \in SUBSET kernel OBVIOUS
<1> HIDE DEF failed
<1>3. PacketsOK /\ Unique BY DEF SocketInv, IdInv, Shape
<1>4. Moves(ks, TRUE) BY <1>1, <1>2, <1>3, TurnMoves DEF NewOK
<1>5. caller \in [Threads -> Position] /\ Io \in Threads BY DEF SocketInv, IdInv, Shape, Threads
<1>6. caller' \in [Threads -> Position] /\ caller'[Io].call = "none"
      /\ \A c \in Threads : caller'[c] = caller[c] \/ (c = Io /\ caller'[c].call = "none")
  <2>1. NoCall \in Position /\ NoCall.call = "none" BY SocketAssumption DEF NoCall, Position
  <2>2. CASE UNCHANGED caller /\ Idle(Io) BY <1>5, <2>1, <2>2 DEF Idle
  <2>3. CASE caller' = [caller EXCEPT ![Io] = NoCall] BY <1>5, <2>1, <2>3
  <2> QED BY <2>2, <2>3
<1>7. os' \in [Fd -> Number]
  <2>1. os \in [Fd -> Number] BY DEF SocketInv, IdInv, Shape
  <2>2. Shut \in Number BY SocketAssumption DEF Shut, Number
  <2> QED BY <1>1, <2>1, <2>2
<1>8. Shape'
  <2>1. PacketsOK' BY <1>4 DEF Moves
  <2>2. /\ allocId' \in 0..MaxAlloc /\ posts' \in 0..MaxPost /\ udp' \in [Svc -> Fd \cup {NoFd}]
    BY <1>1 DEF SocketInv, IdInv, Shape
  <2>3. slot' \in [Places -> Socket] BY <1>1 DEF Fits
  <2> QED BY <1>6, <1>7, <2>1, <2>2, <2>3 DEF Shape, Places, Threads, Socket, Position, Number
<1>9. Quiet
  <2>1. \A n \in Fd : os'[n] = os[n] \/ os'[n] = Shut BY <1>1
  <2>2. \A c \in Threads : /\ Opening(c)' => Opening(c) /\ caller'[c] = caller[c]
                           /\ caller'[c].call = "S" => caller'[c] = caller[c]
    BY <1>6 DEF Opening
  <2>3. \A k \in Places : /\ slot'[k].id = slot[k].id /\ slot'[k].fd = slot[k].fd
                          /\ slot[k].start = TRUE => slot'[k].start = TRUE
    BY <1>1 DEF Fits
  <2>4. allocId <= allocId'
    <3>1. allocId \in 0..MaxAlloc BY DEF SocketInv, IdInv, Shape
    <3> QED BY <1>1, <3>1, SocketAssumption
  <2> QED BY <1>1, <2>1, <2>2, <2>3, <2>4 DEF Quiet
<1>10. \A k \in Places : slot'[k].type = slot[k].type BY <1>1 DEF Fits
<1>11. Reserving' BY <1>9, <1>10, QuietReserving
<1>12. IoOK' BY <1>6 DEF IoOK
<1>13. \A q \in ks : ReqOK(q)' BY DEF NewOK
<1> QED BY <1>4, <1>8, <1>9, <1>11, <1>12, <1>13, QuietInv

LEMMA SameSlots == ASSUME SocketInv PROVE Fits(slot)
  BY DEF SocketInv, IdInv, Shape, Fits

LEMMA NothingNew == NewOK({}) BY FS_EmptySet DEF NewOK, Fresh

\* What is known when a packet is handled.
LEMMA AtHead ==
    ASSUME SocketInv, port # << >>
    PROVE  /\ Head(port) \in Requests /\ Head(port) \in Request /\ ReqOK(Head(port))
           /\ Head(port).type \in ForId =>
                /\ Head(port).slot \in Places /\ Head(port).rid \in Nat /\ Head(port).rid # 0
                /\ Head(port).rid <= allocId /\ Head(port).slot = Hash(Head(port).rid)
                /\ \A c \in Threads : Opening(c) => caller[c].id # Head(port).rid
<1>1. PacketsOK /\ AllOK /\ allocId \in Nat BY DEF SocketInv, IdInv, Shape
<1> QED BY <1>1, HeadOK

\* A closed number belongs to no slot.
LEMMA ClosedNumber ==
    ASSUME SocketInv, NEW k \in Places, slot'[k].id = slot[k].id, slot'[k].fd = slot[k].fd,
           slot[k].fd \in Fd => os'[slot[k].fd] = Shut
    PROVE  ~OwnOpen(k)'
<1>1. slot[k].fd \in Fd => slot[k].id # 0 BY DEF SocketInv, IdInv, SlotsOK
<1> QED BY <1>1 DEF OwnOpen, Shut

LEMMA NothingGone ==
    ASSUME SocketInv, NEW sl, NEW ks, NEW ev, Finish(sl, ks, {}, ev)
    PROVE  /\ os' = os /\ slot' = sl /\ UNCHANGED <<allocId, udp, posts>>
<1>1. os \in [Fd -> Number] BY DEF SocketInv, IdInv, Shape
<1> QED BY <1>1 DEF Finish

\* A packet after which there is nothing new.
LEMMA PlainPoll ==
    ASSUME SocketInv, port # << >>, NEW gone, NEW ev, Finish(slot, {}, gone, ev),
           \/ UNCHANGED caller /\ Idle(Io)
           \/ caller' = [caller EXCEPT ![Io] = NoCall],
           raced \subseteq raced', lost' \in BOOLEAN, lost' = FALSE => lost = FALSE,
           Head(port).type = "R" => slot[Head(port).slot].fd \in gone,
           Head(port).type = "f" => udp[Head(port).who] \in gone,
           Head(port).type = "A" /\ lost' = FALSE => \A n \in Fd : os[n].of # Head(port).rid
    PROVE  SocketInv'
<1>1. /\ slot' = slot /\ UNCHANGED <<allocId, udp, posts>>
      /\ os' = [n \in Fd |-> IF n \in gone THEN Shut ELSE os[n]]
  BY DEF Finish
<1>2. \A n \in Fd : os'[n] = IF n \in gone THEN Shut ELSE os[n] BY <1>1
<1>3. Fits(slot) /\ NewOK({}) BY SameSlots, NothingNew
<1>4. ASSUME NEW k \in Places PROVE KeptReceive(k, {}, TRUE)
  <2>1. ASSUME Head(port).type = "R", Head(port).slot = k PROVE ~OwnOpen(k)'
    <3>1. slot[k].fd \in Fd => os'[slot[k].fd] = Shut BY <1>2, <2>1
    <3> QED BY <1>1, <3>1, ClosedNumber
  <2> QED BY <1>1, <2>1 DEF KeptReceive
<1>5. KeptAccepts({}, TRUE)
  <2>1. ASSUME Head(port).type = "A", lost' = FALSE, OwnOpenNext(Head(port).slot),
               slot'[Head(port).slot].id = Head(port).rid
        PROVE  FALSE
    <3>1. Head(port).rid # 0 BY <2>1, AtHead DEF ForId
    <3>2. PICK n \in Fd : os'[n].of = Head(port).rid BY <1>1, <2>1 DEF OwnOpenNext
    <3>3. os[n].of = Head(port).rid BY <1>2, <3>1, <3>2 DEF Shut
    <3> QED BY <2>1, <3>3
  <2> QED BY <2>1 DEF KeptAccepts
<1>6. KeptDatagrams({}, TRUE)
  <2> SUFFICES ASSUME NEW a \in Svc, udp[a] \in Fd, os'[udp[a]].of = a
               PROVE  os[udp[a]].of = a /\ ~(Head(port).type = "f" /\ Head(port).who = a)
    BY <1>1 DEF KeptDatagrams
  <2>1. 0 \notin Svc BY SocketAssumption
  <2>2. udp[a] \notin gone BY <1>2, <2>1 DEF Shut
  <2> QED BY <1>2, <2>2
<1> QED BY <1>3, <1>4, <1>5, <1>6, PollInv

LEMMA PollConnectInv == ASSUME SocketInv, PollConnect PROVE SocketInv'
<1>1. /\ port # << >> /\ Head(port).type \in {"C", "L"} /\ Idle(Io) /\ UNCHANGED <<caller, lost, raced>>
      /\ Finish(slot, {}, {}, SlotEvent(Head(port).slot, "connect"))
  BY DEF PollConnect, Handle, Poll
<1>2. lost' \in BOOLEAN BY <1>1 DEF SocketInv, IdInv, Shape
<1> QED BY <1>1, <1>2, PlainPoll

LEMMA PollFailedInv == ASSUME SocketInv, PollFailed PROVE SocketInv'
<1>1. /\ port # << >> /\ Head(port).type \in {"C", "R"} /\ Idle(Io) /\ UNCHANGED <<caller, lost, raced>>
      /\ Finish(slot, {}, {slot[Head(port).slot].fd}, SlotEvent(Head(port).slot, "error"))
  BY DEF PollFailed, Handle, Poll
<1>2. lost' \in BOOLEAN BY <1>1 DEF SocketInv, IdInv, Shape
<1> QED BY <1>1, <1>2, PlainPoll

LEMMA PollSentInv == ASSUME SocketInv, PollSent PROVE SocketInv'
<1>1. /\ port # << >> /\ Head(port).type \in {"S", "t"} /\ Idle(Io) /\ UNCHANGED <<caller, lost, raced>>
      /\ Finish(slot, {}, {}, NoEvent)
  BY DEF PollSent, Handle, Poll
<1>2. lost' \in BOOLEAN BY <1>1 DEF SocketInv, IdInv, Shape
<1> QED BY <1>1, <1>2, PlainPoll

LEMMA PollSendFailedInv == ASSUME SocketInv, PollSendFailed PROVE SocketInv'
<1>1. /\ port # << >> /\ Head(port).type = "S" /\ Idle(Io) /\ UNCHANGED <<caller, lost, raced>>
      /\ \E gone, ev : Finish(slot, {}, gone, ev)
  BY DEF PollSendFailed, Handle, Poll
<1>2. PICK gone, ev : Finish(slot, {}, gone, ev) BY <1>1
<1>3. lost' \in BOOLEAN BY <1>1 DEF SocketInv, IdInv, Shape
<1> QED BY <1>1, <1>2, <1>3, PlainPoll

LEMMA PollAcceptFailedInv == ASSUME SocketInv, PollAcceptFailed PROVE SocketInv'
<1>1. /\ port # << >> /\ Head(port).type = "A" /\ Idle(Io) /\ UNCHANGED <<caller, raced>>
      /\ Finish(slot, {}, {}, NoEvent)
      /\ lost' = (lost \/ \E n \in Fd : os[n].of = Head(port).rid)
  BY DEF PollAcceptFailed, Handle, Poll
<1>2. lost \in BOOLEAN BY DEF SocketInv, IdInv, Shape
<1>3. PICK l \in BOOLEAN : l = \E n \in Fd : os[n].of = Head(port).rid OBVIOUS
<1>4. lost' = (lost \/ l) BY <1>1, <1>3
<1>5. lost' \in BOOLEAN /\ (lost' = FALSE => lost = FALSE /\ l = FALSE) BY <1>2, <1>4
<1>6. lost' = FALSE => \A n \in Fd : os[n].of # Head(port).rid BY <1>3, <1>5
<1> QED BY <1>1, <1>5, <1>6, PlainPoll

LEMMA PollDatagramFailedInv ==
    ASSUME SocketInv, NEW t \in {"f", "t"}, PollDatagramFailed(t) PROVE SocketInv'
<1>1. /\ port # << >> /\ Head(port).type = t /\ Idle(Io) /\ UNCHANGED <<caller, lost, raced>>
      /\ \E ev : Finish(slot, {}, {Head(port).fd}, ev)
  BY DEF PollDatagramFailed, Handle, Poll
<1>2. PICK ev : Finish(slot, {}, {Head(port).fd}, ev) BY <1>1
<1>3. lost' \in BOOLEAN BY <1>1 DEF SocketInv, IdInv, Shape
<1>4. t = "f" => udp[Head(port).who] = Head(port).fd BY <1>1, AtHead DEF ReqOK, ForId
<1> QED BY <1>1, <1>2, <1>3, <1>4, PlainPoll

LEMMA CloseFdInv == ASSUME SocketInv, CloseFd PROVE SocketInv'
<1>1. /\ port # << >> /\ Head(port).type = "k" BY DEF CloseFd, SocketInv, IdInv, IoOK
<1>2. /\ caller' = [caller EXCEPT ![Io] = NoCall] /\ UNCHANGED <<lost, raced>>
      /\ Finish(slot, {}, {slot[Head(port).slot].fd}, NoEvent)
  BY DEF CloseFd
<1>3. lost' \in BOOLEAN BY <1>2 DEF SocketInv, IdInv, Shape
<1> QED BY <1>1, <1>2, <1>3, PlainPoll

\* Sets of requests with at most one element.
LEMMA AtMostOne ==
    ASSUME NEW q \in Request, NEW ks \in {{}, {q}},
           ks # {} => /\ ReqOK(q)'
                      /\ Single(q) => /\ \A p \in kernel : ~Same(q, p)
                                      /\ \A i \in 2..Len(port) : ~Same(q, port[i])
    PROVE  NewOK(ks)
<1>1. ks \in SUBSET Request OBVIOUS
<1>2. IsFiniteSet(ks)
  <2>1. IsFiniteSet({q}) BY FS_Singleton
  <2> QED BY <2>1, FS_EmptySet
<1>3. Fresh(ks)
  <2>1. CASE ks = {} BY <2>1 DEF Fresh
  <2>2. CASE ks = {q} BY <2>2 DEF Fresh
  <2> QED BY <2>1, <2>2
<1>4. \A p \in ks : ReqOK(p)'
  <2>1. CASE ks = {} BY <2>1
  <2>2. CASE ks = {q}
    <3> SUFFICES ASSUME NEW p \in ks PROVE ReqOK(p)' OBVIOUS
    <3>1. p = q BY <2>2
    <3> QED BY <2>2, <3>1
  <2> QED BY <2>1, <2>2
<1> QED BY <1>1, <1>2, <1>3, <1>4 DEF NewOK

LEMMA PollStartInv == ASSUME SocketInv, PollStart PROVE SocketInv'
<1>0. port # << >> /\ Head(port).type = "s" /\ Idle(Io) /\ lost' = lost BY DEF PollStart, Handle
<1>1. PICK r : r = Head(port) OBVIOUS
<1>2. PICK k : k = r.slot OBVIOUS
<1>3. PICK id : id = r.rid OBVIOUS
<1>4. /\ k \in Places /\ id \in Nat /\ id # 0 /\ id <= allocId /\ k = Hash(id) /\ r \in Request
      /\ \A c \in Threads : Opening(c) => caller[c].id # id
  BY <1>0, <1>1, <1>2, <1>3, AtHead DEF ForId
<1>5. lost' \in BOOLEAN BY <1>0 DEF SocketInv, IdInv, Shape
<1>6. CASE ~Alive(slot[k], id)
  <2>1. Finish(slot, {}, {}, NoEvent) /\ UNCHANGED <<caller, raced>>
    BY <1>1, <1>2, <1>3, <1>6 DEF PollStart, Poll
  <2> QED BY <1>0, <1>5, <2>1, PlainPoll
<1>7. CASE Alive(slot[k], id)
  <2> DEFINE s == slot[k]
  <2>1. PICK q : q = [Req("R", k, id, NoFd, "none", r.call) EXCEPT !.fd = s.fd] OBVIOUS
  <2>2. PICK ks : ks = Receive(Req("R", k, id, NoFd, "none", r.call), s.fd) OBVIOUS
  <2>3. PICK new : new = IF MustReceive(s) THEN ks ELSE {} OBVIOUS
  <2>4. PICK sl : sl = [slot EXCEPT ![k] = [s EXCEPT !.owner = r.who, !.start = TRUE,
                                                  !.deaf = @ \/ (~s.start /\ ks = {})]]
    OBVIOUS
  <2>5. PICK ev : ev = [to |-> r.who, id |-> id, type |-> "start"] OBVIOUS
  <2>6. Finish(sl, new, {}, ev) /\ UNCHANGED caller /\ Hit(k)
    BY <1>1, <1>2, <1>3, <1>7, <2>2, <2>3, <2>4, <2>5 DEF PollStart, Poll
  <2>7. slot \in [Places -> Socket] /\ s \in Socket BY <1>4 DEF SocketInv, IdInv, Shape
  <2>8. r.who \in Svc \cup {"none"} /\ r.call \in 0..MaxPost BY <1>4 DEF Request
  <2>9. PICK d \in BOOLEAN : d = (s.deaf \/ (~s.start /\ ks = {})) OBVIOUS
  <2>10. PICK e : e = [s EXCEPT !.owner = r.who, !.start = TRUE, !.deaf = d] OBVIOUS
  <2>11. /\ e \in Socket /\ e.id = s.id /\ e.type = s.type /\ e.fd = s.fd
         /\ e.start = TRUE /\ e.deaf = d
    BY <2>7, <2>8, <2>9, <2>10 DEF Socket
  <2>12. sl = [slot EXCEPT ![k] = e] BY <1>4, <2>4, <2>7, <2>9, <2>10
  <2>13. sl[k] = e /\ (\A j \in Places : j # k => sl[j] = slot[j]) /\ sl \in [Places -> Socket]
    BY <1>4, <2>7, <2>11, <2>12
  <2>14. Fits(sl)
    <3>1. ASSUME NEW j \in Places
          PROVE  /\ sl[j].id = slot[j].id /\ sl[j].fd = slot[j].fd /\ sl[j].type = slot[j].type
                 /\ slot[j].start = TRUE => sl[j].start = TRUE
      BY <2>11, <2>13
    <3> QED BY <2>13, <3>1 DEF Fits
  <2>15. os' = os /\ slot' = sl /\ UNCHANGED <<allocId, udp, posts>> BY <2>6, NothingGone
  <2>16. q \in Request /\ q.type = "R" /\ q.slot = k /\ q.rid = id
    <3>1. PICK q0 : q0 = Req("R", k, id, NoFd, "none", r.call) OBVIOUS
    <3>2. q0 \in Request
      <4>1. id \in 0..MaxAlloc
        <5>1. allocId \in 0..MaxAlloc BY DEF SocketInv, IdInv, Shape
        <5> QED BY <5>1, <1>4, SocketAssumption
      <4>2. k \in -1..(Slots - 1) BY <1>4, SocketAssumption DEF Places
      <4> QED BY <3>1, <4>1, <4>2, <2>8, ReqType
    <3>3. q0.type = "R" /\ q0.slot = k /\ q0.rid = id BY <3>1 DEF Req
    <3>4. s.fd \in Fd \cup {NoFd} BY <2>7 DEF Socket
    <3>5. q = [q0 EXCEPT !.fd = s.fd] BY <2>1, <3>1
    <3> QED BY <3>2, <3>3, <3>4, <3>5 DEF Request
  <2>17. ks = IF Up(s.fd, {"connected", "udp"}) THEN {q} ELSE {} BY <2>1, <2>2 DEF Receive
  <2>18. new \in {{}, {q}} /\ (new # {} => s.start # TRUE) BY <2>3, <2>17 DEF MustReceive
  <2>19. NewOK(new)
    <3>1. ASSUME new # {}, NEW p \in Requests PROVE ~Same(q, p)
      <4> SUFFICES ASSUME Same(q, p) PROVE FALSE OBVIOUS
      <4>1. p.type = "R" /\ p.slot = k BY <2>16 DEF Same
      <4>2. ReqOK(p) BY DEF SocketInv, IdInv, AllOK
      <4>3. slot[k].start = TRUE BY <4>1, <4>2 DEF ReqOK
      <4> QED BY <2>18, <3>1, <4>3
    <3>2. \A i \in 2..Len(port) : port[i] \in Requests
      <4>1. port \in Seq(Request) BY DEF SocketInv, IdInv, Shape, PacketsOK
      <4>2. \A i \in 2..Len(port) : i \in DOMAIN port BY <4>1
      <4> QED BY <4>2 DEF Requests
    <3>3. ReqOK(q)'
      <4>1. caller' = caller /\ allocId' = allocId BY <2>6, <2>15
      <4>2. slot'[k].start = TRUE BY <2>11, <2>13, <2>15
      <4>3. \A c \in Threads : Opening(c)' => caller'[c].id # id BY <1>4, <4>1 DEF Opening
      <4>4. id \in 1..allocId'
        <5>1. allocId \in Nat BY DEF SocketInv, IdInv, Shape
        <5> QED BY <1>4, <4>1, <5>1
      <4> QED BY <1>4, <2>16, <4>2, <4>3, <4>4 DEF ReqOK, ForId, Hash
    <3> QED BY <2>16, <2>18, <3>1, <3>2, <3>3, AtMostOne DEF Requests
  <2>20. ASSUME NEW j \in Places PROVE KeptReceive(j, new, TRUE)
    <3>1. CASE j # k BY <1>0, <2>13, <2>15, <3>1 DEF KeptReceive
    <3>2. CASE j = k
      <4>1. CASE d # FALSE BY <2>11, <2>13, <2>15, <3>2, <4>1 DEF KeptReceive
      <4>2. CASE d = FALSE /\ s.start = TRUE
        <5>1. s.deaf = FALSE
          <6>1. s.deaf \in BOOLEAN BY <2>7 DEF Socket
          <6> QED BY <2>9, <4>2, <6>1
        <5> QED BY <1>0, <3>2, <4>2, <5>1 DEF KeptReceive
      <4>3. CASE d = FALSE /\ s.start # TRUE
        <5>1. ks # {}
          <6>1. s.start \in BOOLEAN BY <2>7 DEF Socket
          <6> QED BY <2>9, <4>3, <6>1
        <5>2. s.start = FALSE
          <6>1. s.start \in BOOLEAN BY <2>7 DEF Socket
          <6> QED BY <4>3, <6>1
        <5>3. MustReceive(s) BY <5>2 DEF MustReceive
        <5>4. new = {q} /\ Up(s.fd, {"connected", "udp"}) BY <2>3, <2>17, <5>1, <5>3
        <5> QED BY <2>16, <3>2, <5>4 DEF KeptReceive
      <4> QED BY <4>1, <4>2, <4>3
    <3> QED BY <3>1, <3>2
  <2>21. KeptAccepts(new, TRUE) BY <1>0, <2>16, <2>18 DEF KeptAccepts
  <2>22. KeptDatagrams(new, TRUE) BY <1>0, <2>15 DEF KeptDatagrams
  <2>23. raced \subseteq raced' BY <2>6 DEF Hit
  <2> QED BY <1>0, <1>5, <2>6, <2>14, <2>19, <2>20, <2>21, <2>22, <2>23, PollInv
<1> QED BY <1>6, <1>7

LEMMA PollDataInv == ASSUME SocketInv, PollData PROVE SocketInv'
<1>0. port # << >> /\ Head(port).type = "R" /\ Idle(Io) /\ UNCHANGED <<lost, raced>> BY DEF PollData, Handle
<1>1. PICK r : r = Head(port) OBVIOUS
<1>2. PICK k : k = r.slot OBVIOUS
<1>3. PICK ks : ks = Receive(r, slot[k].fd) OBVIOUS
<1>4. PICK ev : ev = IF ks # {} THEN SlotEvent(k, "data") ELSE [SlotEvent(k, "error") EXCEPT !.id = slot[k].fd]
  OBVIOUS
<1>5. Finish(slot, ks, {}, ev) /\ UNCHANGED caller BY <1>1, <1>2, <1>3, <1>4 DEF PollData, Poll
<1>6. /\ k \in Places /\ r \in Request /\ ReqOK(r) /\ r \in Requests BY <1>0, <1>1, <1>2, AtHead DEF ForId
<1>7. os' = os /\ slot' = slot /\ UNCHANGED <<allocId, udp, posts>> BY <1>5, NothingGone
<1>8. PICK q : q = [r EXCEPT !.fd = slot[k].fd] OBVIOUS
<1>9. /\ q \in Request /\ q.type = "R" /\ q.slot = r.slot /\ q.rid = r.rid
  <2>1. slot[k].fd \in Fd \cup {NoFd} BY <1>6 DEF SocketInv, IdInv, Shape, Socket
  <2> QED BY <1>0, <1>1, <1>6, <1>8, <2>1 DEF Request
<1>10. ks = IF Up(slot[k].fd, {"connected", "udp"}) THEN {q} ELSE {} BY <1>3, <1>8 DEF Receive
<1>11. NewOK(ks)
  <2>1. Single(r) /\ \A p : Same(q, p) => Same(r, p) /\ Same(p, r) BY <1>0, <1>1, <1>9 DEF Single, Same
  <2>2. r = port[1] /\ 1 \in DOMAIN port /\ \A i \in 2..Len(port) : i \in DOMAIN port /\ i # 1
    <3>1. port \in Seq(Request) BY DEF SocketInv, IdInv, Shape, PacketsOK
    <3> QED BY <1>0, <1>1, <3>1
  <2>3. \A p \in kernel : ~Same(q, p) BY <2>1, <2>2, <1>0, <1>1 DEF SocketInv, Unique, Single, Same
  <2>4. \A i \in 2..Len(port) : ~Same(q, port[i]) BY <2>1, <2>2 DEF SocketInv, Unique
  <2>5. ReqOK(q)'
    <3>1. ReqOK(q) BY <1>0, <1>1, <1>6, <1>9 DEF ReqOK, ForId
    <3> QED BY <3>1, <1>5, <1>7 DEF ReqOK, Hash, Opening
  <2> QED BY <1>9, <1>10, <2>3, <2>4, <2>5, AtMostOne
<1>12. ASSUME NEW j \in Places PROVE KeptReceive(j, ks, TRUE)
  <2>1. CASE j # k BY <1>1, <1>2, <1>7, <2>1 DEF KeptReceive
  <2>2. CASE j = k
    <3> SUFFICES ASSUME OwnOpen(k)', slot'[k].start = TRUE, slot'[k].deaf = FALSE
                 PROVE  Up(slot[k].fd, {"connected", "udp"}) /\ \E p \in ks : p.type = "R" /\ p.slot = k
      BY <2>2 DEF KeptReceive
    <3>1. OwnOpen(k) BY <1>7 DEF OwnOpen
    <3>2. Up(slot[k].fd, {"connected", "udp"}) BY <1>6, <1>7, <3>1 DEF SocketInv, Receiving
    <3> QED BY <1>2, <1>9, <1>10, <3>2
  <2> QED BY <2>1, <2>2
<1>13. KeptAccepts(ks, TRUE) BY <1>0, <1>9, <1>10 DEF KeptAccepts
<1>14. KeptDatagrams(ks, TRUE) BY <1>0, <1>7 DEF KeptDatagrams
<1>15. Fits(slot) BY SameSlots
<1>16. lost' \in BOOLEAN BY <1>0 DEF SocketInv, IdInv, Shape
<1> QED BY <1>0, <1>5, <1>11, <1>12, <1>13, <1>14, <1>15, <1>16, PollInv

LEMMA PollDatagramInv == ASSUME SocketInv, PollDatagram PROVE SocketInv'
<1>0. port # << >> /\ Head(port).type = "f" /\ Idle(Io) /\ UNCHANGED <<lost, raced>> BY DEF PollDatagram, Handle
<1>1. PICK r : r = Head(port) OBVIOUS
<1>3. PICK ks : ks = NextDatagram(r) OBVIOUS
<1>4. PICK ev : ev = [to |-> r.who, id |-> r.fd, type |-> IF ks # {} THEN "udp" ELSE "error"] OBVIOUS
<1>5. Finish(slot, ks, {}, ev) /\ UNCHANGED caller BY <1>1, <1>3, <1>4 DEF PollDatagram, Poll
<1>6. r \in Request /\ ReqOK(r) BY <1>0, <1>1, AtHead
<1>7. os' = os /\ slot' = slot /\ UNCHANGED <<allocId, udp, posts>> BY <1>5, NothingGone
<1>8. r.who \in Svc /\ r.fd \in Fd /\ udp[r.who] = r.fd BY <1>0, <1>1, <1>6 DEF ReqOK, ForId
<1>9. [r EXCEPT !.fd = r.fd] = r BY <1>6 DEF Request
<1>10. ks = IF Up(r.fd, {"connected", "udp"}) THEN {r} ELSE {} BY <1>3, <1>9 DEF NextDatagram, Receive
<1>11. NewOK(ks)
  <2>1. Single(r) /\ \A p : Same(r, p) => Same(p, r) BY <1>0, <1>1 DEF Single, Same
  <2>2. r = port[1] /\ 1 \in DOMAIN port /\ \A i \in 2..Len(port) : i \in DOMAIN port /\ i # 1
    <3>1. port \in Seq(Request) BY DEF SocketInv, IdInv, Shape, PacketsOK
    <3> QED BY <1>0, <1>1, <3>1
  <2>3. \A p \in kernel : ~Same(r, p) BY <2>1, <2>2, <1>0, <1>1 DEF SocketInv, Unique, Single, Same
  <2>4. \A i \in 2..Len(port) : ~Same(r, port[i]) BY <2>1, <2>2 DEF SocketInv, Unique
  <2>5. ReqOK(r)' BY <1>5, <1>6, <1>7 DEF ReqOK, Hash, Opening
  <2> QED BY <1>6, <1>10, <2>3, <2>4, <2>5, AtMostOne
<1>12. \A j \in Places : KeptReceive(j, ks, TRUE) BY <1>0, <1>7 DEF KeptReceive
<1>13. KeptAccepts(ks, TRUE) BY <1>0, <1>1, <1>10 DEF KeptAccepts
<1>14. KeptDatagrams(ks, TRUE)
  <2> SUFFICES ASSUME NEW a \in Svc, udp[a] \in Fd, os[udp[a]].of = a, r.who = a
               PROVE  \E q \in ks : q.type = "f" /\ q.who = a
    BY <1>1, <1>7 DEF KeptDatagrams
  <2>1. os[udp[a]].up = "udp" BY DEF SocketInv, IdInv, NumbersOK
  <2>2. Up(r.fd, {"connected", "udp"}) BY <1>8, <2>1 DEF Up
  <2> QED BY <1>0, <1>1, <1>10, <2>2
<1>15. Fits(slot) BY SameSlots
<1>16. lost' \in BOOLEAN BY <1>0 DEF SocketInv, IdInv, Shape
<1> QED BY <1>0, <1>5, <1>11, <1>12, <1>13, <1>14, <1>15, <1>16, PollInv

\* The requests of PostAcceptEx.
AcceptReq(k, id, call, j) == [Req("A", k, id, slot[k].fd, "none", call) EXCEPT !.i = j]

AcceptReqsOK(ks, k, id, is, call) ==
    /\ ks = {AcceptReq(k, id, call, j) : j \in is}
    /\ ks \in SUBSET Request /\ IsFiniteSet(ks)
    /\ \A j \in is : LET q == AcceptReq(k, id, call, j) IN
          /\ q.type = "A" /\ q.slot = k /\ q.rid = id /\ q.call = call /\ q.i = j
          /\ q.fd = slot[k].fd /\ q.who = "none"

LEMMA AcceptReqs ==
    ASSUME SocketInv, NEW k \in Places, NEW id \in 0..MaxAlloc, NEW call \in 0..MaxPost,
           NEW is \in SUBSET (1..Accepts), Up(slot[k].fd, {"listening"})
    PROVE  AcceptReqsOK(PostAcceptEx(k, id, is, call), k, id, is, call)
<1>1. PICK ks : ks = PostAcceptEx(k, id, is, call) OBVIOUS
<1>2. ks = {AcceptReq(k, id, call, j) : j \in is} BY <1>1 DEF PostAcceptEx, AcceptReq
<1>3. slot[k].fd \in Fd \cup {NoFd} BY DEF Up
<1>4. k \in -1..(Slots - 1) BY SocketAssumption DEF Places
<1>5. \A j \in is : AcceptReq(k, id, call, j) \in Request BY <1>3, <1>4, ReqType DEF AcceptReq
<1>6. IsFiniteSet(is)
  <2>1. IsFiniteSet(1..Accepts) BY FS_Interval, SocketAssumption
  <2> QED BY <2>1, FS_Subset
<1>7. IsFiniteSet(ks)
  <2>1. PICK f : f = [j \in is |-> AcceptReq(k, id, call, j)] OBVIOUS
  <2>2. f \in Surjection(is, ks) BY <1>2, <2>1 DEF Surjection
  <2> QED BY <1>6, <2>2, FS_Surjection
<1>8. ASSUME NEW j \in is
      PROVE  LET q == AcceptReq(k, id, call, j) IN
                 q.type = "A" /\ q.slot = k /\ q.rid = id /\ q.call = call /\ q.i = j /\ q.fd = slot[k].fd
                 /\ q.who = "none"
  BY DEF AcceptReq, Req
<1>9. ks \in SUBSET Request BY <1>2, <1>5
<1> QED BY <1>1, <1>2, <1>7, <1>8, <1>9 DEF AcceptReqsOK

LEMMA PollAcceptInv == ASSUME SocketInv, PollAccept PROVE SocketInv'
<1>0. port # << >> /\ Head(port).type = "a" /\ Idle(Io) /\ lost' = lost BY DEF PollAccept, Handle
<1>1. PICK r : r = Head(port) OBVIOUS
<1>2. PICK k : k = r.slot OBVIOUS
<1>3. PICK id : id = r.rid OBVIOUS
<1>4. /\ k \in Places /\ id \in Nat /\ id # 0 /\ id <= allocId /\ k = Hash(id) /\ r \in Request
      /\ \A c \in Threads : Opening(c) => caller[c].id # id
  BY <1>0, <1>1, <1>2, <1>3, AtHead DEF ForId
<1>5. lost' \in BOOLEAN BY <1>0 DEF SocketInv, IdInv, Shape
<1>6. CASE ~Alive(slot[k], id)
  <2>1. Finish(slot, {}, {}, NoEvent) /\ UNCHANGED <<caller, raced>>
    BY <1>1, <1>2, <1>3, <1>6 DEF PollAccept, Poll
  <2> QED BY <1>0, <1>5, <2>1, PlainPoll
<1>7. CASE Alive(slot[k], id)
  <2>1. PICK ks : ks = PostAcceptEx(k, id, 1..Accepts, r.call) OBVIOUS
  <2>2. PICK ev : ev = [to |-> r.who, id |-> id, type |-> "start"] OBVIOUS
  <2>3. Finish(slot, ks, {}, ev) /\ UNCHANGED caller /\ Hit(k)
    BY <1>1, <1>2, <1>3, <1>7, <2>1, <2>2 DEF PollAccept, Poll
  <2>4. os' = os /\ slot' = slot /\ UNCHANGED <<allocId, udp, posts>> BY <2>3, NothingGone
  <2>5. raced \subseteq raced' BY <2>3 DEF Hit
  <2>6. CASE ks = {}
    <3>1. Finish(slot, {}, {}, ev) BY <2>3, <2>6
    <3> QED BY <1>0, <1>5, <2>3, <2>5, <3>1, PlainPoll
  <2>7. CASE Up(slot[k].fd, {"listening"})
    <3>1. id \in 0..MaxAlloc /\ id \in 1..allocId
      <4>1. allocId \in 0..MaxAlloc BY DEF SocketInv, IdInv, Shape
      <4> QED BY <4>1, <1>4, SocketAssumption
    <3>2. r.call \in 0..MaxPost BY <1>4 DEF Request
    <3>3. AcceptReqsOK(ks, k, id, 1..Accepts, r.call)
      <4>1. 1..Accepts \in SUBSET (1..Accepts) OBVIOUS
      <4> QED BY <1>4, <2>1, <2>7, <3>1, <3>2, <4>1, AcceptReqs
    <3>4. ASSUME NEW q \in ks
          PROVE  /\ q.type = "A" /\ q.slot = k /\ q.rid = id /\ q.call = r.call
                 /\ q.i \in 1..Accepts /\ q.fd \in Fd /\ q.who = "none"
      <4>1. PICK j \in 1..Accepts : q = AcceptReq(k, id, r.call, j) BY <3>3 DEF AcceptReqsOK
      <4>2. slot[k].fd \in Fd BY <2>7 DEF Up
      <4> QED BY <3>3, <4>1, <4>2 DEF AcceptReqsOK
    <3>5. ASSUME NEW q \in ks PROVE ReqOK(q)'
      <4>1. caller' = caller /\ allocId' = allocId BY <2>3, <2>4
      <4>2. \A c \in Threads : Opening(c)' => caller'[c].id # id BY <1>4, <4>1 DEF Opening
      <4> QED BY <1>4, <3>1, <3>4, <4>1, <4>2 DEF ReqOK, ForId, Hash
    <3>6. NewOK(ks) BY <3>3, <3>4, <3>5 DEF NewOK, Fresh, Single, AcceptReqsOK
    <3>7. \A j \in Places : KeptReceive(j, ks, TRUE) BY <1>0, <2>4 DEF KeptReceive
    <3>8. KeptAccepts(ks, TRUE)
      <4>1. ASSUME NEW q \in ks, NEW j \in 1..Accepts PROVE \E p \in ks : Sibling(p, q, j)
        BY <3>3, <3>4 DEF Sibling, AcceptReqsOK
      <4> QED BY <1>0, <2>7, <3>4, <4>1 DEF KeptAccepts
    <3>9. KeptDatagrams(ks, TRUE) BY <1>0, <2>4 DEF KeptDatagrams
    <3>10. Fits(slot) BY SameSlots
    <3> QED BY <1>0, <1>5, <2>3, <2>5, <3>6, <3>7, <3>8, <3>9, <3>10, PollInv
  <2> QED BY <2>1, <2>6, <2>7 DEF PostAcceptEx
<1> QED BY <1>6, <1>7

LEMMA PollCloseInv == ASSUME SocketInv, PollClose PROVE SocketInv'
<1>0. port # << >> /\ Head(port).type = "k" /\ Idle(Io) /\ lost' = lost BY DEF PollClose, Handle
<1>1. PICK r : r = Head(port) OBVIOUS
<1>2. PICK k : k = r.slot OBVIOUS
<1>3. PICK id : id = r.rid OBVIOUS
<1>4. /\ k \in Places /\ id \in Nat /\ id # 0 /\ id <= allocId /\ k = Hash(id) /\ r \in Request
      /\ \A c \in Threads : Opening(c) => caller[c].id # id
  BY <1>0, <1>1, <1>2, <1>3, AtHead DEF ForId
<1>5. lost' \in BOOLEAN BY <1>0 DEF SocketInv, IdInv, Shape
<1>6. CASE ~CloseHits(slot[k], id)
  <2>1. Finish(slot, {}, {}, NoEvent) /\ UNCHANGED <<caller, raced>>
    BY <1>1, <1>2, <1>3, <1>6 DEF PollClose, Poll
  <2> QED BY <1>0, <1>5, <2>1, PlainPoll
<1>7. CASE CloseHits(slot[k], id)
  <2>1. slot[k].id = id BY <1>7 DEF CloseHits
  <2>2. PICK p : p = [call |-> "k", stored |-> TRUE, id |-> id] OBVIOUS
  <2>3. /\ slot' = [slot EXCEPT ![k].type = "invalid"] /\ caller' = [caller EXCEPT ![Io] = p] /\ Hit(k)
        /\ UNCHANGED <<allocId, port, kernel, os, udp, posts>>
    BY <1>1, <1>2, <1>3, <1>7, <2>1, <2>2 DEF PollClose
  <2>4. /\ slot \in [Places -> Socket] /\ caller \in [Threads -> Position] /\ Io \in Threads
        /\ allocId \in 0..MaxAlloc
    BY DEF SocketInv, IdInv, Shape, Threads
  <2>5. p \in Position /\ p.call = "k" /\ p.id = id BY <1>4, <2>2, <2>4, SocketAssumption DEF Position
  <2>6. caller' \in [Threads -> Position] /\ caller'[Io] = p
        /\ \A c \in Threads : c # Io => caller'[c] = caller[c]
    BY <2>3, <2>4, <2>5
  <2>7. slot' \in [Places -> Socket]
        /\ \A j \in Places : /\ slot'[j].id = slot[j].id /\ slot'[j].fd = slot[j].fd
                             /\ slot'[j].start = slot[j].start /\ slot'[j].deaf = slot[j].deaf
                             /\ j # k => slot'[j].type = slot[j].type
    <3>1. PICK s : s = [slot[k] EXCEPT !.type = "invalid"] OBVIOUS
    <3>2. slot[k] \in Socket BY <1>4, <2>4
    <3>3. s \in Socket /\ s.id = slot[k].id /\ s.fd = slot[k].fd /\ s.start = slot[k].start /\ s.deaf = slot[k].deaf
      BY <3>1, <3>2 DEF Socket
    <3>4. slot' = [slot EXCEPT ![k] = s] BY <1>4, <2>3, <2>4, <3>1
    <3> QED BY <1>4, <2>4, <3>3, <3>4
  <2>8. Moves({}, FALSE)
    <3>1. PacketsOK /\ Unique BY DEF SocketInv, IdInv, Shape
    <3> QED BY <2>3, <3>1, StayMoves
  <2>9. Shape'
    <3>1. PacketsOK' BY <2>8 DEF Moves
    <3>2. /\ allocId' \in 0..MaxAlloc /\ posts' \in 0..MaxPost /\ udp' \in [Svc -> Fd \cup {NoFd}]
          /\ os' \in [Fd -> Number]
      BY <2>3 DEF SocketInv, IdInv, Shape
    <3> QED BY <1>5, <2>6, <2>7, <3>1, <3>2 DEF Shape, Places, Threads, Socket, Position, Number
  <2>10. \A c \in Threads : /\ Opening(c)' => Opening(c) /\ caller'[c] = caller[c]
                            /\ caller'[c].call = "S" => caller'[c] = caller[c]
    BY <2>5, <2>6 DEF Opening
  <2>11. Quiet
    <3>1. allocId <= allocId' BY <2>3, <2>4, SocketAssumption
    <3> QED BY <2>3, <2>7, <2>10, <3>1 DEF Quiet
  <2>12. IoOK' BY <1>0, <1>1, <1>3, <2>3, <2>5, <2>6 DEF IoOK
  <2>13. Reserving'
    <3> SUFFICES ASSUME NEW c \in Threads, Opening(c)', Hash(caller'[c].id) \notin raced'
                 PROVE  /\ slot'[Hash(caller'[c].id)].type = "reserve"
                        /\ caller'[c].stored = TRUE => slot'[Hash(caller'[c].id)].id = caller'[c].id
                        /\ \A d \in Threads : Opening(d)' /\ Hash(caller'[d].id) = Hash(caller'[c].id) => d = c
      BY DEF Reserving, Hash
    <3>1. Opening(c) /\ caller'[c] = caller[c] BY <2>10
    <3>2. caller[c].id \in Nat
      <4>1. caller[c].id \in 1..allocId BY <3>1 DEF SocketInv, IdInv, OpeningOK
      <4> QED BY <4>1
    <3>3. Hash(caller[c].id) \in Places BY <3>2, HashType
    <3>4. Hash(caller[c].id) \notin raced BY <2>3, <3>1 DEF Hit
    <3>5. /\ slot[Hash(caller[c].id)].type = "reserve"
          /\ caller[c].stored = TRUE => slot[Hash(caller[c].id)].id = caller[c].id
          /\ \A d \in Threads : Opening(d) /\ Hash(caller[d].id) = Hash(caller[c].id) => d = c
      BY <3>1, <3>4 DEF SocketInv, Reserving
    <3>6. Hash(caller[c].id) # k
      <4> SUFFICES ASSUME Hash(caller[c].id) = k PROVE FALSE OBVIOUS
      <4>1. caller[c].id # id BY <1>4, <3>1
      <4>2. caller[c].stored # TRUE BY <2>1, <3>5, <4>1
      <4>3. ~caller[c].stored
        <5>1. caller[c].stored \in BOOLEAN BY <2>4 DEF Position
        <5> QED BY <4>2, <5>1
      <4>4. BeingTaken(k) BY <3>1, <4>3 DEF BeingTaken, Opening, Threads
      <4> QED BY <2>3, <3>1, <4>4 DEF Hit
    <3> QED BY <2>7, <2>10, <3>1, <3>3, <3>5, <3>6
  <2>14. \A j \in Places : KeptReceive(j, {}, FALSE) BY <2>7 DEF KeptReceive
  <2>15. KeptAccepts({}, FALSE) BY <1>0 DEF KeptAccepts
  <2>16. KeptDatagrams({}, FALSE) BY <2>3 DEF KeptDatagrams
  <2> QED BY <2>8, <2>9, <2>11, <2>12, <2>13, <2>14, <2>15, <2>16, QuietInv
<1> QED BY <1>6, <1>7

-----------------------------------------------------------------------------
(* Calls of services, and what the system completes.                       *)

LEMMA KnownIds ==
    ASSUME SocketInv, NEW id \in Known
    PROVE  /\ id \in 1..allocId /\ id \in 0..MaxAlloc /\ id \in Nat /\ Hash(id) \in -1..(Slots - 1)
           /\ \A d \in Threads : Opening(d) => caller[d].id # id
<1>1. id \in 1..allocId BY DEF Known
<1>2. allocId \in 0..MaxAlloc BY DEF SocketInv, IdInv, Shape
<1>3. id \in 0..MaxAlloc /\ id \in Nat BY <1>1, <1>2, SocketAssumption
<1>4. Hash(id) \in -1..(Slots - 1)
  <2>1. Hash(id) \in Places BY <1>3, HashType
  <2> QED BY <2>1, SocketAssumption DEF Places
<1>5. \A d \in Threads : Opening(d) => caller[d].id # id BY DEF Known, Opening, Threads
<1> QED BY <1>1, <1>3, <1>4, <1>5

\* What a step outside of the socket thread's handling does to numbers.
SystemKeeps == \A n \in Fd : \/ os'[n] = os[n] \/ os'[n] = Client
                             \/ os[n].up = "no" /\ os'[n] = [os[n] EXCEPT !.up = "connected"]

\* A step that leaves the slots alone and the packets on the port.
ServiceStep(ks) ==
    /\ Moves(ks, FALSE) /\ UNCHANGED <<slot, udp, lost, raced>>
    /\ allocId' \in 0..MaxAlloc /\ allocId <= allocId' /\ posts' \in 0..MaxPost
    /\ os' \in [Fd -> Number] /\ SystemKeeps
    /\ caller' \in [Threads -> Position] /\ caller'[Io] = caller[Io]
    /\ \A c \in Threads : \/ caller'[c] = caller[c] \/ caller'[c] = NoCall
                          \/ caller'[c].call = "S" /\ caller'[c].id \in Known
    /\ port # << >> => port' # << >> /\ Head(port') = Head(port)
    /\ \A q \in ks : q.type \notin {"R", "A", "f"} /\ ReqOK(q)'

LEMMA ServiceInv == ASSUME SocketInv, NEW ks, ServiceStep(ks) PROVE SocketInv'
<1>0. /\ Moves(ks, FALSE) /\ UNCHANGED <<slot, udp, lost, raced>>
      /\ allocId' \in 0..MaxAlloc /\ allocId <= allocId' /\ posts' \in 0..MaxPost
      /\ os' \in [Fd -> Number] /\ SystemKeeps
      /\ caller' \in [Threads -> Position] /\ caller'[Io] = caller[Io]
      /\ \A c \in Threads : \/ caller'[c] = caller[c] \/ caller'[c] = NoCall
                            \/ caller'[c].call = "S" /\ caller'[c].id \in Known
      /\ port # << >> => port' # << >> /\ Head(port') = Head(port)
      /\ \A q \in ks : q.type \notin {"R", "A", "f"} /\ ReqOK(q)'
  BY DEF ServiceStep
<1>1. Shape'
  <2>1. PacketsOK' BY <1>0 DEF Moves
  <2>2. slot' \in [Places -> Socket] /\ lost' \in BOOLEAN /\ udp' \in [Svc -> Fd \cup {NoFd}]
    BY <1>0 DEF SocketInv, IdInv, Shape
  <2> QED BY <1>0, <2>1, <2>2 DEF Shape, Places, Threads, Socket, Position, Number
<1>2. \A c \in Threads : Opening(c)' => Opening(c) /\ caller'[c] = caller[c] BY <1>0 DEF Opening, NoCall
<1>3. Quiet
  <2>1. ASSUME NEW c \in Threads, caller'[c].call = "S"
        PROVE  \/ caller'[c] = caller[c]
               \/ /\ caller'[c].id \in 1..allocId
                  /\ \A d \in Threads : Opening(d) => caller[d].id # caller'[c].id
    <3>1. CASE caller'[c] = NoCall BY <2>1, <3>1 DEF NoCall
    <3>2. CASE caller'[c].id \in Known BY <3>2, KnownIds
    <3> QED BY <1>0, <3>1, <3>2
  <2> QED BY <1>0, <1>2, <2>1 DEF Quiet, SystemKeeps
<1>4. IoOK' BY <1>0 DEF SocketInv, IdInv, IoOK
<1>5. Reserving' BY <1>0, <1>3, QuietReserving
<1>6. \A k \in Places : KeptReceive(k, ks, FALSE) BY <1>0 DEF KeptReceive
<1>7. KeptAccepts(ks, FALSE) BY <1>0 DEF KeptAccepts
<1>8. KeptDatagrams(ks, FALSE)
  <2> SUFFICES ASSUME NEW a \in Svc, udp[a] \in Fd, os'[udp[a]].of = a PROVE os[udp[a]].of = a
    BY <1>0 DEF KeptDatagrams
  <2>1. os[udp[a]] \in Number /\ -1 \notin Svc BY SocketAssumption DEF SocketInv, IdInv, Shape
  <2> QED BY <1>0, <2>1 DEF SystemKeeps, Client, Number
<1> QED BY <1>0, <1>1, <1>3, <1>4, <1>5, <1>6, <1>7, <1>8, QuietInv

LEMMA Types ==
    ASSUME SocketInv
    PROVE  /\ PacketsOK /\ Unique /\ allocId \in 0..MaxAlloc /\ allocId \in Nat /\ allocId <= allocId
           /\ posts \in 0..MaxPost /\ os \in [Fd -> Number] /\ caller \in [Threads -> Position]
           /\ slot \in [Places -> Socket] /\ udp \in [Svc -> Fd \cup {NoFd}] /\ lost \in BOOLEAN
           /\ NoCall \in Position /\ Io \in Threads /\ \A a \in Svc : a \in Threads /\ a # Io
           /\ posts < MaxPost => posts + 1 \in 0..MaxPost
<1>1. /\ PacketsOK /\ Unique /\ allocId \in 0..MaxAlloc /\ posts \in 0..MaxPost
      /\ os \in [Fd -> Number] /\ caller \in [Threads -> Position] /\ slot \in [Places -> Socket]
      /\ udp \in [Svc -> Fd \cup {NoFd}] /\ lost \in BOOLEAN
  BY DEF SocketInv, IdInv, Shape
<1>2. allocId \in Nat /\ allocId <= allocId BY <1>1, SocketAssumption
<1>3. posts < MaxPost => posts + 1 \in 0..MaxPost BY <1>1, SocketAssumption
<1>4. NoCall \in Position BY SocketAssumption DEF NoCall, Position
<1>5. Io \in Threads /\ \A a \in Svc : a \in Threads /\ a # Io BY SocketAssumption DEF Threads
<1> QED BY <1>1, <1>2, <1>3, <1>4, <1>5

LEMMA HeadPosted ==
    ASSUME PacketsOK, NEW r \in Request, Post(r)
    PROVE  port # << >> => port' # << >> /\ Head(port') = Head(port)
<1>1. port \in Seq(Request) /\ port' = Append(port, r) BY DEF PacketsOK, Post
<1> QED BY <1>1

LEMMA CallInv ==
    ASSUME SocketInv, NEW a \in Svc, NEW t \in {"s", "a", "k"}, NEW id, Call(a, t, id)
    PROVE  SocketInv'
<1>1. PICK r : r = Req(t, Hash(id), id, NoFd, a, posts') OBVIOUS
<1>2. /\ id \in Known /\ posts < MaxPost /\ posts' = posts + 1 /\ Post(r)
      /\ UNCHANGED <<allocId, slot, caller, kernel, os, udp, lost, raced>>
  BY <1>1 DEF Call
<1>3. posts' \in 0..MaxPost BY <1>2, Types
<1>4. r \in Request
  <2>1. t \in {"C", "L", "R", "A", "S", "s", "a", "k", "f", "t"} OBVIOUS
  <2> QED BY <1>1, <1>2, <1>3, <2>1, KnownIds, ReqType
<1>5. r.type = t /\ r.slot = Hash(id) /\ r.rid = id BY <1>1 DEF Req
<1>6. Moves({r}, FALSE) BY <1>2, <1>4, <1>5, Types, PostMoves DEF Single
<1>7. ReqOK(r)'
  <2>1. id \in 1..allocId' /\ \A d \in Threads : Opening(d)' => caller'[d].id # id
    BY <1>2, KnownIds DEF Opening
  <2> QED BY <1>5, <2>1 DEF ReqOK, ForId, Hash
<1>8. \A q \in {r} : q.type \notin {"R", "A", "f"} /\ ReqOK(q)'
  <2> SUFFICES ASSUME NEW q \in {r} PROVE q.type \notin {"R", "A", "f"} /\ ReqOK(q)' OBVIOUS
  <2>1. q = r OBVIOUS
  <2> QED BY <1>5, <1>7, <2>1
<1>9. port # << >> => port' # << >> /\ Head(port') = Head(port) BY <1>2, <1>4, Types, HeadPosted
<1>10. SystemKeeps BY <1>2 DEF SystemKeeps
<1>s. ServiceStep({r}) BY <1>2, <1>3, <1>6, <1>8, <1>9, <1>10, Types DEF ServiceStep
<1> QED BY <1>s, ServiceInv

LEMMA CheckSendInv == ASSUME SocketInv, NEW a \in Svc, NEW id, CheckSend(a, id) PROVE SocketInv'
<1>1. PICK p : p = [call |-> "S", stored |-> TRUE, id |-> id] OBVIOUS
<1>2. /\ id \in Known /\ posts < MaxPost /\ posts' = posts + 1 /\ caller' = [caller EXCEPT ![a] = p]
      /\ UNCHANGED <<allocId, slot, port, kernel, os, udp, lost, raced>>
  BY <1>1 DEF CheckSend
<1>3. p \in Position BY <1>1, <1>2, KnownIds DEF Position
<1>4. /\ caller' \in [Threads -> Position] /\ caller'[a] = p
      /\ \A c \in Threads : c # a => caller'[c] = caller[c]
  BY <1>2, <1>3, Types
<1>5. ASSUME NEW c \in Threads
      PROVE  \/ caller'[c] = caller[c] \/ caller'[c] = NoCall
             \/ caller'[c].call = "S" /\ caller'[c].id \in Known
  BY <1>1, <1>2, <1>4
<1>6. caller'[Io] = caller[Io] BY <1>4, Types
<1>7. Moves({}, FALSE) BY <1>2, Types, StayMoves
<1>8. SystemKeeps BY <1>2 DEF SystemKeeps
<1>9. posts' \in 0..MaxPost BY <1>2, Types
<1>10. port # << >> => port' # << >> /\ Head(port') = Head(port) BY <1>2
<1>s. ServiceStep({}) BY <1>2, <1>4, <1>5, <1>6, <1>7, <1>8, <1>9, <1>10, Types DEF ServiceStep
<1> QED BY <1>s, ServiceInv

LEMMA SendDataInv == ASSUME SocketInv, NEW a \in Svc, SendData(a) PROVE SocketInv'
<1>1. PICK id : id = caller[a].id OBVIOUS
<1>2. PICK n : n = slot[Hash(id)].fd OBVIOUS
<1>3. PICK r : r = Req("S", Hash(id), id, n, a, posts) OBVIOUS
<1>4. /\ caller[a].call = "S" /\ caller' = [caller EXCEPT ![a] = NoCall]
      /\ kernel' = kernel \cup (IF Up(n, {"connected"}) THEN {r} ELSE {})
      /\ UNCHANGED <<allocId, slot, port, os, udp, posts, lost, raced>>
  BY <1>1, <1>2, <1>3 DEF SendData
<1>5. /\ caller' \in [Threads -> Position] /\ caller'[a] = NoCall /\ caller'[Io] = caller[Io]
      /\ \A c \in Threads : c # a => caller'[c] = caller[c]
  BY <1>4, Types
<1>6. \A c \in Threads : caller'[c] = caller[c] \/ caller'[c] = NoCall BY <1>5
<1>7. SystemKeeps BY <1>4 DEF SystemKeeps
<1>8. port # << >> => port' # << >> /\ Head(port') = Head(port) BY <1>4
<1>9. posts' \in 0..MaxPost BY <1>4, Types
<1>10. CASE ~Up(n, {"connected"})
  <2>1. kernel' = kernel BY <1>4, <1>10
  <2>2. Moves({}, FALSE) BY <1>4, <2>1, Types, StayMoves
  <2>s. ServiceStep({}) BY <1>4, <1>5, <1>6, <1>7, <1>8, <1>9, <2>2, Types DEF ServiceStep
  <2> QED BY <2>s, ServiceInv
<1>11. CASE Up(n, {"connected"})
  <2>1. kernel' = kernel \cup {r} BY <1>4, <1>11
  <2>2. id \in 1..allocId /\ \A d \in Threads : Opening(d) => caller[d].id # id
    BY <1>1, <1>4, Types DEF SocketInv, IdInv, OpeningOK
  <2>3. id \in 0..MaxAlloc /\ id \in Nat BY <2>2, Types, SocketAssumption
  <2>4. Hash(id) \in -1..(Slots - 1)
    <3>1. Hash(id) \in Places BY <2>3, HashType
    <3> QED BY <3>1, SocketAssumption DEF Places
  <2>5. n \in Fd \cup {NoFd} BY <1>11 DEF Up
  <2>6. r \in Request BY <1>3, <2>3, <2>4, <2>5, Types, ReqType
  <2>7. r.type = "S" /\ r.slot = Hash(id) /\ r.rid = id BY <1>3 DEF Req
  <2>8. Moves({r}, FALSE) BY <1>4, <2>1, <2>6, <2>7, Types, GrowMoves DEF Single
  <2>9. ReqOK(r)'
    <3>1. id \in 1..allocId' BY <1>4, <2>2
    <3>2. ASSUME NEW d \in Threads, Opening(d)' PROVE caller'[d].id # id
      BY <1>6, <2>2, <3>2 DEF Opening, NoCall
    <3> QED BY <2>7, <3>1, <3>2 DEF ReqOK, ForId, Hash
  <2>10. \A q \in {r} : q.type \notin {"R", "A", "f"} /\ ReqOK(q)'
    <3> SUFFICES ASSUME NEW q \in {r} PROVE q.type \notin {"R", "A", "f"} /\ ReqOK(q)' OBVIOUS
    <3>1. q = r OBVIOUS
    <3> QED BY <2>7, <2>9, <3>1
  <2>s. ServiceStep({r}) BY <1>4, <1>5, <1>6, <1>7, <1>8, <1>9, <2>8, <2>10, Types DEF ServiceStep
  <2> QED BY <2>s, ServiceInv
<1> QED BY <1>10, <1>11

LEMMA UdpSendInv == ASSUME SocketInv, NEW a \in Svc, UdpSend(a) PROVE SocketInv'
<1>1. PICK r : r = [Req("t", -1, 0, NoFd, a, posts') EXCEPT !.fd = udp[a]] OBVIOUS
<1>2. /\ posts < MaxPost /\ posts' = posts + 1
      /\ kernel' = kernel \cup (IF Up(udp[a], {"connected", "udp"}) THEN {r} ELSE {})
      /\ UNCHANGED <<allocId, slot, caller, port, os, udp, lost, raced>>
  BY <1>1 DEF UdpSend, Receive
<1>3. posts' \in 0..MaxPost BY <1>2, Types
<1>4. SystemKeeps BY <1>2 DEF SystemKeeps
<1>5. port # << >> => port' # << >> /\ Head(port') = Head(port) BY <1>2
<1>6. CASE ~Up(udp[a], {"connected", "udp"})
  <2>1. kernel' = kernel BY <1>2, <1>6
  <2>2. Moves({}, FALSE) BY <1>2, <2>1, Types, StayMoves
  <2>s. ServiceStep({}) BY <1>2, <1>3, <1>4, <1>5, <2>2, Types DEF ServiceStep
  <2> QED BY <2>s, ServiceInv
<1>7. CASE Up(udp[a], {"connected", "udp"})
  <2>1. kernel' = kernel \cup {r} /\ udp[a] \in Fd BY <1>2, <1>7 DEF Up
  <2>2. Req("t", -1, 0, NoFd, a, posts') \in Request
    <3>1. -1 \in -1..(Slots - 1) /\ 0 \in 0..MaxAlloc BY SocketAssumption
    <3> QED BY <1>3, <3>1, ReqType
  <2>3. r \in Request /\ r.type = "t" /\ r.who = a /\ r.fd = udp[a]
    <3>1. PICK q \in Request : q = Req("t", -1, 0, NoFd, a, posts') BY <2>2
    <3>2. q.type = "t" /\ q.who = a BY <3>1 DEF Req
    <3>3. r = [q EXCEPT !.fd = udp[a]] BY <1>1, <3>1
    <3> QED BY <2>1, <3>2, <3>3 DEF Request
  <2>4. Moves({r}, FALSE) BY <1>2, <2>1, <2>3, Types, GrowMoves DEF Single
  <2>5. ReqOK(r)' BY <1>2, <2>1, <2>3 DEF ReqOK, ForId
  <2>6. \A q \in {r} : q.type \notin {"R", "A", "f"} /\ ReqOK(q)'
    <3> SUFFICES ASSUME NEW q \in {r} PROVE q.type \notin {"R", "A", "f"} /\ ReqOK(q)' OBVIOUS
    <3>1. q = r OBVIOUS
    <3> QED BY <2>3, <2>5, <3>1
  <2>s. ServiceStep({r}) BY <1>2, <1>3, <1>4, <1>5, <2>4, <2>6, Types DEF ServiceStep
  <2> QED BY <2>s, ServiceInv
<1> QED BY <1>6, <1>7

LEMMA CompleteInv == ASSUME SocketInv, NEW r \in kernel, NEW ok \in BOOLEAN, Complete(r, ok) PROVE SocketInv'
<1>1. /\ kernel' = kernel \ {r} /\ UNCHANGED <<allocId, slot, caller, udp, posts, lost, raced>>
  BY DEF Complete
<1>2. r \in Request BY Types DEF PacketsOK
<1>3. PICK e \in Request : Like(e, r) /\ Post(e) /\ os' \in [Fd -> Number] /\ SystemKeeps
  <2>1. CASE r.type = "A" /\ ok
    <3>1. PICK n \in Free : os' = [os EXCEPT ![n] = Client] /\ Post([r EXCEPT !.fd = n])
      BY <2>1 DEF Complete
    <3>2. n \in Fd BY <3>1 DEF Free
    <3>3. [r EXCEPT !.fd = n] \in Request /\ Like([r EXCEPT !.fd = n], r) BY <1>2, <2>1, <3>2, ClientLike
    <3>4. Client \in Number BY SocketAssumption DEF Client, Number
    <3>5. os' \in [Fd -> Number] BY <3>1, <3>4, Types
    <3>6. SystemKeeps BY <3>1, Types DEF SystemKeeps
    <3> QED BY <3>1, <3>3, <3>5, <3>6
  <2>2. CASE ~(r.type = "A" /\ ok)
    <3>1. Post(Ended(r, ok)) BY <2>2 DEF Complete
    <3>2. Ended(r, ok) \in Request /\ Like(Ended(r, ok), r) BY <1>2, EndedLike
    <3>3. \/ os' = os
          \/ os[r.fd].up = "no" /\ os' = [os EXCEPT ![r.fd].up = "connected"]
      BY <2>2 DEF Complete
    <3>4. os' \in [Fd -> Number] /\ SystemKeeps
      <4>1. CASE os' = os BY <4>1, Types DEF SystemKeeps
      <4>2. CASE os[r.fd].up = "no" /\ os' = [os EXCEPT ![r.fd].up = "connected"]
        <5>1. CASE r.fd \notin Fd
          <6>1. os' = os BY <4>2, <5>1, Types
          <6> QED BY <4>1, <6>1
        <5>2. CASE r.fd \in Fd
          <6>1. PICK x : x = [os[r.fd] EXCEPT !.up = "connected"] OBVIOUS
          <6>2. os[r.fd] \in Number BY <5>2, Types
          <6>3. x \in Number BY <6>1, <6>2 DEF Number
          <6>4. os' = [os EXCEPT ![r.fd] = x] BY <4>2, <5>2, <6>1, Types
          <6>5. os' \in [Fd -> Number] /\ os'[r.fd] = x /\ \A n \in Fd : n # r.fd => os'[n] = os[n]
            BY <5>2, <6>3, <6>4, Types
          <6> QED BY <4>2, <6>1, <6>5 DEF SystemKeeps
        <5> QED BY <5>1, <5>2
      <4> QED BY <3>3, <4>1, <4>2
    <3> QED BY <3>1, <3>2, <3>4
  <2> QED BY <2>1, <2>2
<1>4. Moves({}, FALSE) BY <1>1, <1>3, Types, CompleteMoves
<1>5. port # << >> => port' # << >> /\ Head(port') = Head(port) BY <1>3, Types, HeadPosted
<1>s. ServiceStep({}) BY <1>1, <1>3, <1>4, <1>5, Types DEF ServiceStep
<1> QED BY <1>s, ServiceInv

-----------------------------------------------------------------------------
(* No slot is free.                                                        *)

LEMMA OpenNoneInv ==
    ASSUME SocketInv, TakeNone, allocId + Slots <= MaxAlloc, posts' \in 0..MaxPost,
           UNCHANGED <<port, kernel, os, udp, lost, raced>>
    PROVE  SocketInv'
<1>1. allocId' = allocId + Slots /\ UNCHANGED <<slot, caller>> BY DEF TakeNone
<1>2. allocId' \in 0..MaxAlloc /\ allocId <= allocId' BY <1>1, Types, SocketAssumption
<1>3. Moves({}, FALSE) BY Types, StayMoves
<1>4. SystemKeeps BY DEF SystemKeeps
<1>5. port # << >> => port' # << >> /\ Head(port') = Head(port) OBVIOUS
<1>s. ServiceStep({}) BY <1>1, <1>2, <1>3, <1>4, <1>5, Types DEF ServiceStep
<1> QED BY <1>s, ServiceInv

LEMMA ClientNoneInv ==
    ASSUME SocketInv, TakeNone, allocId + Slots <= MaxAlloc, port # << >>, Head(port).type = "A",
           Idle(Io), port' = Tail(port), lost' = TRUE, UNCHANGED <<kernel, os, udp, posts, raced>>
    PROVE  SocketInv'
<1>1. allocId' = allocId + Slots /\ UNCHANGED <<slot, caller>> BY DEF TakeNone
<1>2. allocId' \in 0..MaxAlloc /\ allocId <= allocId' BY <1>1, Types, SocketAssumption
<1>3. Turn({}, {})
  <2>1. Tail(port) \in Seq(Request) BY Types DEF PacketsOK
  <2>2. Tail(port) \o << >> = Tail(port) BY <2>1
  <2> QED BY <2>2, NoFailures DEF Turn
<1>4. Moves({}, TRUE)
  <2>1. {} \in SUBSET kernel /\ {} \in SUBSET Request /\ IsFiniteSet({}) BY FS_EmptySet
  <2>2. Fresh({}) BY DEF Fresh
  <2> QED BY <1>3, <2>1, <2>2, Types, TurnMoves
<1>5. Shape'
  <2>1. PacketsOK' BY <1>4 DEF Moves
  <2>2. /\ slot' \in [Places -> Socket] /\ lost' \in BOOLEAN /\ udp' \in [Svc -> Fd \cup {NoFd}]
        /\ caller' \in [Threads -> Position] /\ posts' \in 0..MaxPost /\ os' \in [Fd -> Number]
    BY <1>1, Types
  <2> QED BY <1>2, <2>1, <2>2 DEF Shape, Places, Threads, Socket, Position, Number
<1>6. Quiet BY <1>1, <1>2 DEF Quiet, Opening
<1>7. Reserving' BY <1>1, <1>6, QuietReserving
<1>8. IoOK' BY <1>1 DEF IoOK, Idle, NoCall
<1>9. \A k \in Places : KeptReceive(k, {}, TRUE) BY <1>1 DEF KeptReceive
<1>10. KeptAccepts({}, TRUE) BY DEF KeptAccepts
<1>11. KeptDatagrams({}, TRUE) BY DEF KeptDatagrams
<1> QED BY <1>4, <1>5, <1>6, <1>7, <1>8, <1>9, <1>10, <1>11, QuietInv

-----------------------------------------------------------------------------
(* A slot is taken, and gets its id.                                       *)

\* A step that leaves requests, packets and numbers alone.
Resting == UNCHANGED <<port, kernel, os, udp, lost, raced>>

LEMMA RestingNeeds ==
    ASSUME SocketInv, Resting, Grows,
           \A k \in Places : /\ slot'[k].start = slot[k].start /\ slot'[k].deaf = slot[k].deaf
                             /\ \/ ~OwnOpen(k)'
                                \/ slot'[k].id = slot[k].id /\ slot'[k].fd = slot[k].fd
    PROVE  PacketsOK' /\ Unique' /\ AllOK' /\ Receiving' /\ Accepting' /\ Listening'
<1>1. UNCHANGED <<port, kernel, os, udp, lost>> BY DEF Resting
<1>2. Moves({}, FALSE) BY <1>1, Types, StayMoves
<1>3. AllOK'
  <2>1. AllOK BY DEF SocketInv, IdInv
  <2>2. PICK ks : ks = {} OBVIOUS
  <2>3. Moves(ks, FALSE) BY <1>2, <2>2
  <2>4. \A q \in ks : ReqOK(q)' BY <2>2
  <2> QED BY <2>1, <2>3, <2>4, AllKept
<1>4. ASSUME NEW k \in Places PROVE Renewed(k) \/ (Settled(k) /\ KeptReceive(k, {}, FALSE))
  <2>1. KeptReceive(k, {}, FALSE) BY DEF KeptReceive
  <2>2. CASE ~OwnOpen(k)' BY <2>2 DEF Renewed
  <2>3. CASE slot'[k].id = slot[k].id /\ slot'[k].fd = slot[k].fd
    <3>1. OwnOpen(k)' => OwnOpen(k) BY <1>1, <2>3 DEF OwnOpen
    <3> QED BY <1>1, <2>1, <2>3, <3>1 DEF Settled
  <2> QED BY <2>2, <2>3
<1>5. KeptAccepts({}, FALSE) BY <1>1 DEF KeptAccepts
<1>6. KeptDatagrams({}, FALSE) BY <1>1 DEF KeptDatagrams
<1>7. AllOK /\ Receiving /\ Accepting /\ Listening BY DEF SocketInv, IdInv
<1>8. allocId' \in Nat BY DEF Grows
<1>9. Receiving' /\ Accepting' /\ Listening'
  BY <1>2, <1>3, <1>4, <1>5, <1>6, <1>7, <1>8, Types, NeedsKept
<1> QED BY <1>2, <1>3, <1>9 DEF Moves

\* The ids of open sockets, of threads and of slots have been handed out.
LEMMA IdsBelow ==
    ASSUME SocketInv, NEW id \in Nat, id > allocId
    PROVE  /\ id \in 0..MaxAlloc => \A n \in Fd : os[n].of # id
           /\ \A c \in Threads : Opening(c) \/ caller[c].call = "S" => caller[c].id # id
<1>1. allocId \in Nat BY Types
<1>2. ASSUME NEW n \in Fd, os[n].of = id, id \in 0..MaxAlloc PROVE FALSE
  <2>1. id \in 1..MaxAlloc BY <1>1, <1>2
  <2>2. id \in 1..allocId BY <1>2, <2>1 DEF SocketInv, IdInv, NumbersOK
  <2> QED BY <1>1, <2>2
<1>3. ASSUME NEW c \in Threads, Opening(c) \/ caller[c].call = "S" PROVE caller[c].id # id
  <2>1. caller[c].id \in 1..allocId BY <1>3 DEF SocketInv, IdInv, OpeningOK
  <2> QED BY <1>1, <2>1
<1> QED BY <1>2, <1>3

LEMMA TakeInv ==
    ASSUME SocketInv, NEW c \in Threads, NEW t \in {"C", "L", "A"}, Idle(c), Take(c, t),
           allocId + Slots <= MaxAlloc, posts' \in 0..MaxPost, Resting,
           c = Io => t = "A" /\ port # << >> /\ Head(port).type = "A"
    PROVE  SocketInv'
<1>1. PICK d : d = Reserved OBVIOUS
<1>2. d \in 1..Slots /\ slot[Hash(allocId + d)].type = "invalid"
  <2>1. d # 0 BY <1>1 DEF Take
  <2>2. Candidates # {} BY <1>1, <2>1 DEF Reserved
  <2>3. Candidates \in SUBSET Nat BY SocketAssumption DEF Candidates
  <2>4. \E m \in Candidates : \A n \in Candidates : m <= n BY <2>2, <2>3, LeastElement
  <2>5. d \in Candidates BY <1>1, <2>2, <2>4 DEF Reserved
  <2> QED BY <2>5 DEF Candidates
<1>3. PICK id : id = allocId + d OBVIOUS
<1>4. /\ id \in Nat /\ id > allocId /\ id \in 0..MaxAlloc /\ id \in 1..id /\ allocId \in 0..MaxAlloc
      /\ \A x \in 1..allocId : x \in 1..id
  BY <1>2, <1>3, Types, SocketAssumption
<1>5. PICK k : k = Hash(id) OBVIOUS
<1>6. k \in Places /\ slot[k].type = "invalid" BY <1>2, <1>3, <1>4, <1>5, HashType
<1>7. PICK p : p = [call |-> t, stored |-> FALSE, id |-> id] OBVIOUS
<1>8. /\ allocId' = id /\ slot' = [slot EXCEPT ![k].type = "reserve"] /\ caller' = [caller EXCEPT ![c] = p]
  BY <1>1, <1>3, <1>5, <1>7 DEF Take
<1>9. p \in Position /\ p.call = t /\ p.stored = FALSE /\ p.id = id BY <1>4, <1>7 DEF Position
<1>10. /\ caller' \in [Threads -> Position] /\ caller'[c] = p
       /\ \A x \in Threads : x # c => caller'[x] = caller[x]
  BY <1>8, <1>9, Types
<1>11. /\ slot' \in [Places -> Socket] /\ slot'[k].type = "reserve"
       /\ \A j \in Places : /\ slot'[j].id = slot[j].id /\ slot'[j].fd = slot[j].fd
                            /\ slot'[j].start = slot[j].start /\ slot'[j].deaf = slot[j].deaf
                            /\ j # k => slot'[j].type = slot[j].type
  <2>1. PICK s : s = [slot[k] EXCEPT !.type = "reserve"] OBVIOUS
  <2>2. slot[k] \in Socket BY <1>6, Types
  <2>3. s \in Socket /\ s.type = "reserve" /\ s.id = slot[k].id /\ s.fd = slot[k].fd
        /\ s.start = slot[k].start /\ s.deaf = slot[k].deaf
    BY <2>1, <2>2 DEF Socket
  <2>4. slot' = [slot EXCEPT ![k] = s] BY <1>6, <1>8, <2>1, Types
  <2> QED BY <1>6, <2>3, <2>4, Types
<1>12. UNCHANGED <<port, kernel, os, udp, lost, raced>> BY DEF Resting
<1>13. Grows
  <2>1. \A x \in Threads : Opening(x)' =>
          (Opening(x) /\ caller'[x].id = caller[x].id) \/ caller'[x].id > allocId
    BY <1>4, <1>9, <1>10 DEF Opening
  <2>2. allocId \in Nat /\ allocId' \in Nat /\ allocId <= allocId' BY <1>4, <1>8, Types
  <2> QED BY <1>11, <1>12, <2>1, <2>2 DEF Grows
<1>14. PacketsOK' /\ Unique' /\ AllOK' /\ Receiving' /\ Accepting' /\ Listening'
  BY <1>11, <1>13, RestingNeeds
<1>15. Shape'
  <2>1. /\ lost' \in BOOLEAN /\ udp' \in [Svc -> Fd \cup {NoFd}] /\ os' \in [Fd -> Number]
        /\ allocId' \in 0..MaxAlloc
    BY <1>4, <1>8, <1>12, Types
  <2> QED BY <1>10, <1>11, <1>14, <2>1 DEF Shape, Places, Threads, Socket, Position, Number
<1>16. SlotsOK' BY <1>4, <1>8, <1>11 DEF SocketInv, IdInv, SlotsOK, Places, Hash
<1>17. /\ \A n \in Fd : os[n].of # id
       /\ \A x \in Threads : Opening(x) \/ caller[x].call = "S" => caller[x].id # id
  BY <1>4, IdsBelow
<1>18. OpeningOK'
  <2>1. ASSUME NEW x \in Threads, Opening(x)'
        PROVE  caller'[x].id \in 1..allocId' /\ \A n \in Fd : os'[n].of # caller'[x].id
    <3>1. CASE x = c BY <1>4, <1>8, <1>9, <1>10, <1>12, <1>17, <3>1
    <3>2. CASE x # c
      <4>1. Opening(x) /\ caller'[x] = caller[x] BY <1>10, <2>1, <3>2 DEF Opening
      <4>2. caller[x].id \in 1..allocId /\ \A n \in Fd : os[n].of # caller[x].id
        BY <4>1 DEF SocketInv, IdInv, OpeningOK
      <4> QED BY <1>4, <1>8, <1>12, <4>1, <4>2
    <3> QED BY <3>1, <3>2
  <2>2. ASSUME NEW x \in Threads, NEW y \in Threads, Opening(x)', Opening(y)', caller'[x].id = caller'[y].id
        PROVE  x = y
    <3>1. \A z \in Threads : z # c /\ Opening(z)' => Opening(z) /\ caller'[z] = caller[z]
      BY <1>10 DEF Opening
    <3>2. CASE x # c /\ y # c BY <2>2, <3>1, <3>2 DEF SocketInv, IdInv, OpeningOK
    <3>3. CASE x = c /\ y # c BY <1>9, <1>10, <1>17, <2>2, <3>1, <3>3
    <3>4. CASE y = c /\ x # c BY <1>9, <1>10, <1>17, <2>2, <3>1, <3>4
    <3> QED BY <3>2, <3>3, <3>4
  <2>3. ASSUME NEW x \in Threads, caller'[x].call = "S"
        PROVE  caller'[x].id \in 1..allocId' /\ \A y \in Threads : Opening(y)' => caller'[y].id # caller'[x].id
    <3>1. x # c BY <1>9, <1>10, <2>3
    <3>2. caller'[x] = caller[x] BY <1>10, <3>1
    <3>3. /\ caller[x].id \in 1..allocId
          /\ \A y \in Threads : Opening(y) => caller[y].id # caller[x].id
      BY <2>3, <3>2 DEF SocketInv, IdInv, OpeningOK
    <3>4. caller[x].id # id BY <1>17, <2>3, <3>2
    <3>5. ASSUME NEW y \in Threads, Opening(y)' PROVE caller'[y].id # caller'[x].id
      <4>1. CASE y = c BY <1>9, <1>10, <3>2, <3>4, <4>1
      <4>2. CASE y # c BY <1>10, <3>2, <3>3, <3>5, <4>2 DEF Opening
      <4> QED BY <4>1, <4>2
    <3> QED BY <1>4, <1>8, <3>2, <3>3, <3>5
  <2> QED BY <2>1, <2>2, <2>3 DEF OpeningOK
<1>19. NumbersOK'
  <2> SUFFICES ASSUME NEW n \in Fd
               PROVE  /\ os[n].of \in 1..MaxAlloc =>
                            /\ os[n].of \in 1..allocId'
                            /\ slot'[Hash(os[n].of)].id = os[n].of => slot'[Hash(os[n].of)].fd = n
                      /\ os[n].of \in Svc => udp[os[n].of] = n /\ os[n].up = "udp"
    BY <1>12 DEF NumbersOK, Hash
  <2>1. /\ os[n].of \in 1..MaxAlloc =>
              /\ os[n].of \in 1..allocId
              /\ slot[Hash(os[n].of)].id = os[n].of => slot[Hash(os[n].of)].fd = n
        /\ os[n].of \in Svc => udp[os[n].of] = n /\ os[n].up = "udp"
    BY DEF SocketInv, IdInv, NumbersOK
  <2>2. ASSUME os[n].of \in 1..MaxAlloc
        PROVE  /\ os[n].of \in 1..allocId'
               /\ slot'[Hash(os[n].of)].id = os[n].of => slot'[Hash(os[n].of)].fd = n
    <3>1. os[n].of \in Nat BY <2>2
    <3>2. Hash(os[n].of) \in Places BY <3>1, HashType
    <3> QED BY <1>4, <1>8, <1>11, <2>1, <2>2, <3>2
  <2> QED BY <2>1, <2>2
<1>20. IoOK'
  <2>1. CASE c = Io BY <1>9, <1>10, <1>12, <2>1 DEF IoOK
  <2>2. CASE c # Io
    <3>1. caller'[Io] = caller[Io] BY <1>10, <2>2, Types
    <3> QED BY <1>12, <3>1 DEF SocketInv, IdInv, IoOK
  <2> QED BY <2>1, <2>2
<1>21. Reserving'
  <2> SUFFICES ASSUME NEW x \in Threads, Opening(x)', Hash(caller'[x].id) \notin raced
               PROVE  /\ slot'[Hash(caller'[x].id)].type = "reserve"
                      /\ caller'[x].stored = TRUE => slot'[Hash(caller'[x].id)].id = caller'[x].id
                      /\ \A y \in Threads : Opening(y)' /\ Hash(caller'[y].id) = Hash(caller'[x].id) => y = x
    BY <1>12 DEF Reserving, Hash
  <2>0. \A z \in Threads : z # c /\ Opening(z)' => Opening(z) /\ caller'[z] = caller[z]
    BY <1>10 DEF Opening
  <2>1. \A z \in Threads : Opening(z) /\ Hash(caller[z].id) \notin raced => Hash(caller[z].id) # k
    BY <1>6 DEF SocketInv, Reserving
  <2>2. CASE x = c
    <3>1. k \notin raced BY <1>5, <1>9, <1>10, <2>2
    <3>2. \A y \in Threads : Opening(y)' /\ Hash(caller'[y].id) = k => y = c BY <2>0, <2>1, <3>1
    <3> QED BY <1>5, <1>9, <1>10, <1>11, <2>2, <3>2
  <2>3. CASE x # c
    <3>1. Opening(x) /\ caller'[x] = caller[x] BY <2>0, <2>3
    <3>2. Hash(caller[x].id) # k BY <2>1, <3>1
    <3>3. caller[x].id \in Nat
      <4>1. caller[x].id \in 1..allocId BY <3>1 DEF SocketInv, IdInv, OpeningOK
      <4> QED BY <4>1
    <3>4. Hash(caller[x].id) \in Places BY <3>3, HashType
    <3>5. /\ slot[Hash(caller[x].id)].type = "reserve"
          /\ caller[x].stored = TRUE => slot[Hash(caller[x].id)].id = caller[x].id
          /\ \A y \in Threads : Opening(y) /\ Hash(caller[y].id) = Hash(caller[x].id) => y = x
      BY <3>1 DEF SocketInv, Reserving
    <3>6. ASSUME NEW y \in Threads, Opening(y)', Hash(caller'[y].id) = Hash(caller[x].id) PROVE y = x
      <4>1. y # c BY <1>5, <1>9, <1>10, <3>2, <3>6
      <4> QED BY <2>0, <3>5, <3>6, <4>1
    <3> QED BY <1>11, <3>1, <3>2, <3>4, <3>5, <3>6
  <2> QED BY <2>2, <2>3
<1> QED BY <1>14, <1>15, <1>16, <1>18, <1>19, <1>20, <1>21 DEF SocketInv, IdInv

LEMMA BeginOpenInv ==
    ASSUME SocketInv, NEW a \in Svc, NEW t \in {"C", "L"}, BeginOpen(a, t) PROVE SocketInv'
<1>1. /\ Idle(a) /\ allocId + Slots <= MaxAlloc /\ posts' \in 0..MaxPost
      /\ Take(a, t) \/ TakeNone
      /\ UNCHANGED <<port, kernel, os, udp, lost, raced>>
  BY Types DEF BeginOpen
<1>2. Resting BY <1>1 DEF Resting
<1>3. a \in Threads /\ a # Io /\ t \in {"C", "L", "A"} BY Types
<1>4. CASE Take(a, t) BY <1>1, <1>2, <1>3, <1>4, TakeInv
<1>5. CASE TakeNone BY <1>1, <1>5, OpenNoneInv
<1> QED BY <1>1, <1>4, <1>5

LEMMA PollClientInv == ASSUME SocketInv, PollClient PROVE SocketInv'
<1>1. /\ Idle(Io) /\ port # << >> /\ Head(port).type = "A" /\ allocId + Slots <= MaxAlloc
      /\ \/ Take(Io, "A") /\ UNCHANGED <<port, lost>>
         \/ TakeNone /\ port' = Tail(port) /\ lost' = TRUE
      /\ UNCHANGED <<kernel, os, udp, posts, raced>>
  BY DEF PollClient, Handle
<1>2. CASE Take(Io, "A") /\ UNCHANGED <<port, lost>>
  <2>1. Resting BY <1>1, <1>2 DEF Resting
  <2>2. posts' \in 0..MaxPost BY <1>1, Types
  <2> QED BY <1>1, <1>2, <2>1, <2>2, Types, TakeInv
<1>3. CASE TakeNone /\ port' = Tail(port) /\ lost' = TRUE BY <1>1, <1>3, ClientNoneInv
<1> QED BY <1>1, <1>2, <1>3

LEMMA StoreIdInv == ASSUME SocketInv, NEW c \in Threads, StoreId(c) PROVE SocketInv'
<1>1. PICK id : id = caller[c].id OBVIOUS
<1>2. PICK k : k = Hash(id) OBVIOUS
<1>3. PICK s : s = Stored(slot[k], id) OBVIOUS
<1>4. PICK p : p = [caller[c] EXCEPT !.stored = TRUE] OBVIOUS
<1>5. Opening(c) /\ UNCHANGED <<allocId, port, kernel, os, udp, posts, lost, raced>>
  BY DEF StoreId, Opening
<1>6. /\ id \in 1..allocId /\ \A n \in Fd : os[n].of # id
      /\ \A d \in Threads : Opening(d) /\ caller[d].id = id => d = c
  BY <1>1, <1>5 DEF SocketInv, IdInv, OpeningOK
<1>7. id \in Nat /\ id # 0 /\ id \in 0..MaxAlloc BY <1>6, Types, SocketAssumption
<1>8. k \in Places BY <1>2, <1>7, HashType
<1>9. slot[k] \in Socket /\ caller[c] \in Position BY <1>8, Types
<1>10. /\ s \in Socket /\ s.id = id /\ s.fd = NoFd /\ s.type = slot[k].type
       /\ s.start = slot[k].start /\ s.deaf = slot[k].deaf
  BY <1>3, <1>7, <1>9 DEF Stored, Socket
<1>11. p \in Position /\ p.call = caller[c].call /\ p.id = id /\ p.stored = TRUE
  BY <1>1, <1>4, <1>9 DEF Position
<1>12. slot' = [slot EXCEPT ![k] = s] /\ caller' = [caller EXCEPT ![c] = p]
  <2>1. slot' = [slot EXCEPT ![k] = Stored(slot[k], id)] BY <1>1, <1>2 DEF StoreId
  <2>2. caller' = [caller EXCEPT ![c].stored = TRUE] BY DEF StoreId
  <2> QED BY <1>3, <1>4, <2>1, <2>2, Types
<1>13. /\ slot' \in [Places -> Socket] /\ slot'[k] = s /\ \A j \in Places : j # k => slot'[j] = slot[j]
       /\ caller' \in [Threads -> Position] /\ caller'[c] = p
       /\ \A x \in Threads : x # c => caller'[x] = caller[x]
  BY <1>8, <1>10, <1>11, <1>12, Types
<1>14. \A x \in Threads : caller'[x].call = caller[x].call /\ caller'[x].id = caller[x].id
  BY <1>1, <1>11, <1>13
<1>15. \A x \in Threads : Opening(x)' <=> Opening(x) BY <1>14 DEF Opening
<1>16. Grows
  <2>1. allocId \in Nat /\ allocId' \in Nat /\ allocId <= allocId' BY <1>5, Types
  <2>2. \A j \in Places : slot[j].start = TRUE => slot'[j].start = TRUE BY <1>10, <1>13
  <2> QED BY <1>5, <1>14, <1>15, <2>1, <2>2 DEF Grows
<1>17. PacketsOK' /\ Unique' /\ AllOK' /\ Receiving' /\ Accepting' /\ Listening'
  <2>1. Resting BY <1>5 DEF Resting
  <2>2. ~OwnOpen(k)' BY <1>10, <1>13, SocketAssumption DEF OwnOpen
  <2>3. ASSUME NEW j \in Places
        PROVE  /\ slot'[j].start = slot[j].start /\ slot'[j].deaf = slot[j].deaf
               /\ \/ ~OwnOpen(j)'
                  \/ slot'[j].id = slot[j].id /\ slot'[j].fd = slot[j].fd
    <3>1. CASE j = k BY <1>10, <1>13, <2>2, <3>1
    <3>2. CASE j # k BY <1>13, <3>2
    <3> QED BY <3>1, <3>2
  <2> QED BY <1>16, <2>1, <2>3, RestingNeeds
<1>18. Shape'
  <2>1. /\ lost' \in BOOLEAN /\ udp' \in [Svc -> Fd \cup {NoFd}] /\ os' \in [Fd -> Number]
        /\ allocId' \in 0..MaxAlloc /\ posts' \in 0..MaxPost
    BY <1>5, Types
  <2> QED BY <1>13, <1>17, <2>1 DEF Shape, Places, Threads, Socket, Position, Number
<1>19. SlotsOK'
  <2> SUFFICES ASSUME NEW j \in Places
               PROVE  /\ slot'[j].id # 0 => slot'[j].id \in 1..allocId /\ Hash(slot'[j].id) = j
                      /\ slot'[j].fd \in Fd => slot'[j].id # 0
    BY <1>5 DEF SlotsOK, Places, Hash
  <2>1. CASE j = k BY <1>2, <1>6, <1>7, <1>10, <1>13, <2>1
  <2>2. CASE j # k BY <1>13, <2>2 DEF SocketInv, IdInv, SlotsOK
  <2> QED BY <2>1, <2>2
<1>20. OpeningOK' BY <1>5, <1>14, <1>15 DEF SocketInv, IdInv, OpeningOK
<1>21. NumbersOK'
  <2> SUFFICES ASSUME NEW n \in Fd, os[n].of \in 1..MaxAlloc
               PROVE  /\ os[n].of \in 1..allocId
                      /\ slot'[Hash(os[n].of)].id = os[n].of => slot'[Hash(os[n].of)].fd = n
    BY <1>5 DEF SocketInv, IdInv, NumbersOK, Hash
  <2>1. /\ os[n].of \in 1..allocId
        /\ slot[Hash(os[n].of)].id = os[n].of => slot[Hash(os[n].of)].fd = n
    BY DEF SocketInv, IdInv, NumbersOK
  <2>2. os[n].of \in Nat OBVIOUS
  <2>3. Hash(os[n].of) \in Places BY <2>2, HashType
  <2>4. os[n].of # id BY <1>6
  <2> QED BY <1>10, <1>13, <2>1, <2>3, <2>4
<1>22. IoOK'
  <2>1. caller'[Io].call = caller[Io].call /\ caller'[Io].id = caller[Io].id BY <1>14, Types
  <2> QED BY <1>5, <2>1 DEF SocketInv, IdInv, IoOK
<1>23. Reserving'
  <2> SUFFICES ASSUME NEW x \in Threads, Opening(x)', Hash(caller'[x].id) \notin raced
               PROVE  /\ slot'[Hash(caller'[x].id)].type = "reserve"
                      /\ caller'[x].stored = TRUE => slot'[Hash(caller'[x].id)].id = caller'[x].id
                      /\ \A y \in Threads : Opening(y)' /\ Hash(caller'[y].id) = Hash(caller'[x].id) => y = x
    BY <1>5 DEF Reserving, Hash
  <2>1. Opening(x) /\ caller'[x].id = caller[x].id BY <1>14, <1>15
  <2>2. /\ slot[Hash(caller[x].id)].type = "reserve"
        /\ caller[x].stored = TRUE => slot[Hash(caller[x].id)].id = caller[x].id
        /\ \A y \in Threads : Opening(y) /\ Hash(caller[y].id) = Hash(caller[x].id) => y = x
    BY <2>1 DEF SocketInv, Reserving
  <2>3. \A y \in Threads : Opening(y)' /\ Hash(caller'[y].id) = Hash(caller'[x].id) => y = x
    BY <1>14, <1>15, <2>1, <2>2
  <2>4. CASE x = c BY <1>1, <1>2, <1>10, <1>13, <2>1, <2>2, <2>3, <2>4
  <2>5. CASE x # c
    <3>1. Hash(caller[x].id) # k BY <1>1, <1>2, <1>5, <2>2, <2>5
    <3>2. caller[x].id \in Nat
      <4>1. caller[x].id \in 1..allocId BY <2>1 DEF SocketInv, IdInv, OpeningOK
      <4> QED BY <4>1
    <3>3. Hash(caller[x].id) \in Places BY <3>2, HashType
    <3> QED BY <1>13, <2>1, <2>2, <2>3, <2>5, <3>1, <3>3
  <2> QED BY <2>4, <2>5
<1> QED BY <1>17, <1>18, <1>19, <1>20, <1>21, <1>22, <1>23 DEF SocketInv, IdInv

-----------------------------------------------------------------------------
(* A socket gets its number.                                               *)

\* Thread c has ended its call; the socket of its id, in slot k, has number n,
\* which is that of an open socket (h) or of another one.
Numbered(c, k, n, u, h) ==
    /\ UNCHANGED <<allocId, udp, posts, raced>>
    /\ caller' = [caller EXCEPT ![c] = NoCall]
    /\ slot' \in [Places -> Socket] /\ \A j \in Places : j # k => slot'[j] = slot[j]
    /\ slot'[k].id = caller[c].id /\ slot'[k].fd = n /\ slot'[k].type = slot[k].type
    /\ slot'[k].start = slot[k].start /\ (slot[k].start = TRUE => slot'[k].deaf = TRUE)
    /\ IF h THEN os' = [os EXCEPT ![n] = [of |-> caller[c].id, up |-> u]] ELSE os' = os

Ups == {"no", "connected", "listening"}

LEMMA NumberedStep ==
    ASSUME SocketInv, NEW c \in Threads, Opening(c), NEW n \in Fd, NEW owner \in Svc \cup {"none"},
           NEW u \in Ups, NEW h \in BOOLEAN, NewFd(c, n, owner),
           UNCHANGED <<allocId, udp, posts, raced>>,
           IF h THEN Opened(n, caller[c].id, u) ELSE UNCHANGED os
    PROVE  Numbered(c, Hash(caller[c].id), n, u, h)
<1>1. PICK id : id = caller[c].id OBVIOUS
<1>2. PICK k : k = Hash(id) OBVIOUS
<1>3. id \in 1..allocId BY <1>1 DEF SocketInv, IdInv, OpeningOK
<1>4. id \in Nat /\ id \in 0..MaxAlloc BY <1>3, Types, SocketAssumption
<1>5. k \in Places BY <1>2, <1>4, HashType
<1>6. PICK s : s = [slot[k] EXCEPT !.id = id, !.fd = n, !.owner = owner, !.deaf = slot[k].start] OBVIOUS
<1>7. slot[k] \in Socket BY <1>5, Types
<1>8. /\ s \in Socket /\ s.id = id /\ s.fd = n /\ s.type = slot[k].type
      /\ s.start = slot[k].start /\ s.deaf = slot[k].start
  BY <1>4, <1>6, <1>7 DEF Socket
<1>9. slot' = [slot EXCEPT ![k] = s] /\ caller' = [caller EXCEPT ![c] = NoCall]
  BY <1>1, <1>2, <1>6 DEF NewFd
<1>10. slot' \in [Places -> Socket] /\ slot'[k] = s /\ \A j \in Places : j # k => slot'[j] = slot[j]
  BY <1>5, <1>8, <1>9, Types
<1> QED BY <1>1, <1>2, <1>8, <1>9, <1>10 DEF Numbered, Opened

NumberedFacts(c, k) ==
    /\ Grows /\ SlotsOK' /\ OpeningOK' /\ NumbersOK' /\ Reserving'
    /\ caller' \in [Threads -> Position] /\ os' \in [Fd -> Number]
    /\ caller'[c] = NoCall /\ \A x \in Threads : x # c => caller'[x] = caller[x]
    /\ \A x \in Threads : Opening(x)' => x # c /\ Opening(x) /\ caller[x].id # caller[c].id
    /\ \A j \in Places : j # k => Settled(j)
    /\ \A a \in Svc : udp[a] \in Fd /\ os'[udp[a]].of = a => os[udp[a]].of = a

LEMMA NumberedRight ==
    ASSUME SocketInv, NEW c \in Threads, Opening(c), NEW n \in Fd, NEW u \in Ups, NEW h \in BOOLEAN,
           NEW k, k = Hash(caller[c].id), Numbered(c, k, n, u, h),
           h => os[n].of \in {0, -1}
    PROVE  NumberedFacts(c, k)
<1>1. PICK id : id = caller[c].id OBVIOUS
<1>2. /\ id \in 1..allocId /\ \A m \in Fd : os[m].of # id
      /\ \A d \in Threads : Opening(d) /\ caller[d].id = id => d = c
      /\ \A d \in Threads : caller[d].call = "S" => caller[d].id # id
  BY <1>1 DEF SocketInv, IdInv, OpeningOK
<1>3. /\ id \in Nat /\ id # 0 /\ id # -1 /\ id \in 0..MaxAlloc /\ id \notin Svc /\ id \in Int
  <2>1. id \in Nat /\ id # 0 /\ id # -1 /\ id \in 0..MaxAlloc /\ id \in Int BY <1>2, Types, SocketAssumption
  <2> QED BY <2>1, SocketAssumption
<1>4. k \in Places BY <1>1, <1>3, HashType
<1>5. /\ UNCHANGED <<allocId, udp, posts, raced>>
      /\ caller' = [caller EXCEPT ![c] = NoCall]
      /\ slot' \in [Places -> Socket] /\ \A j \in Places : j # k => slot'[j] = slot[j]
      /\ slot'[k].id = id /\ slot'[k].fd = n /\ slot'[k].type = slot[k].type
      /\ slot'[k].start = slot[k].start
      /\ h => os' = [os EXCEPT ![n] = [of |-> id, up |-> u]]
      /\ ~h => os' = os
  BY <1>1 DEF Numbered
<1>6. caller' \in [Threads -> Position] /\ caller'[c] = NoCall
      /\ \A x \in Threads : x # c => caller'[x] = caller[x]
  BY <1>5, Types
<1>7. ASSUME NEW x \in Threads, Opening(x)'
      PROVE  x # c /\ Opening(x) /\ caller'[x] = caller[x] /\ caller[x].id # id
  <2>1. x # c BY <1>6, <1>7 DEF Opening, NoCall
  <2>2. Opening(x) /\ caller'[x] = caller[x] BY <1>6, <1>7, <2>1 DEF Opening
  <2> QED BY <1>2, <2>1, <2>2
<1>8. PICK x : x = [of |-> id, up |-> u] OBVIOUS
<1>9. x \in Number /\ x.of = id BY <1>3, <1>8 DEF Number, Ups
<1>10. os' \in [Fd -> Number] BY <1>5, <1>8, <1>9, Types
<1>11. \A m \in Fd : os'[m] = os[m] \/ (m = n /\ h /\ os'[m].of = id) BY <1>5, <1>8, <1>9, Types
<1>12. Grows
  <2>1. allocId \in Nat /\ allocId' \in Nat /\ allocId <= allocId' BY <1>5, Types
  <2>2. \A j \in Places : slot[j].start = TRUE => slot'[j].start = TRUE BY <1>5
  <2> QED BY <1>5, <1>7, <2>1, <2>2 DEF Grows
<1>13. SlotsOK'
  <2> SUFFICES ASSUME NEW j \in Places
               PROVE  /\ slot'[j].id # 0 => slot'[j].id \in 1..allocId /\ Hash(slot'[j].id) = j
                      /\ slot'[j].fd \in Fd => slot'[j].id # 0
    BY <1>5 DEF SlotsOK, Places, Hash
  <2>1. CASE j = k BY <1>1, <1>2, <1>3, <1>5, <2>1
  <2>2. CASE j # k BY <1>5, <2>2 DEF SocketInv, IdInv, SlotsOK
  <2> QED BY <2>1, <2>2
<1>14. OpeningOK'
  <2>1. ASSUME NEW y \in Threads, Opening(y)'
        PROVE  caller'[y].id \in 1..allocId' /\ \A m \in Fd : os'[m].of # caller'[y].id
    <3>1. /\ caller[y].id \in 1..allocId /\ \A m \in Fd : os[m].of # caller[y].id
          /\ caller'[y] = caller[y] /\ caller[y].id # id
      BY <1>7, <2>1 DEF SocketInv, IdInv, OpeningOK
    <3> QED BY <1>5, <1>11, <3>1
  <2>2. \A y, z \in Threads : Opening(y)' /\ Opening(z)' /\ caller'[y].id = caller'[z].id => y = z
    BY <1>7 DEF SocketInv, IdInv, OpeningOK
  <2>3. ASSUME NEW y \in Threads, caller'[y].call = "S"
        PROVE  caller'[y].id \in 1..allocId' /\ \A d \in Threads : Opening(d)' => caller'[d].id # caller'[y].id
    <3>1. caller'[y] = caller[y] BY <1>6, <2>3 DEF NoCall
    <3>2. caller[y].id \in 1..allocId /\ \A d \in Threads : Opening(d) => caller[d].id # caller[y].id
      BY <2>3, <3>1 DEF SocketInv, IdInv, OpeningOK
    <3> QED BY <1>5, <1>7, <3>1, <3>2
  <2> QED BY <2>1, <2>2, <2>3 DEF OpeningOK
<1>15. NumbersOK'
  <2> SUFFICES ASSUME NEW m \in Fd
               PROVE  /\ os'[m].of \in 1..MaxAlloc =>
                            /\ os'[m].of \in 1..allocId
                            /\ slot'[Hash(os'[m].of)].id = os'[m].of => slot'[Hash(os'[m].of)].fd = m
                      /\ os'[m].of \in Svc => udp[os'[m].of] = m /\ os'[m].up = "udp"
    BY <1>5 DEF NumbersOK, Hash
  <2>1. CASE m = n /\ os'[m].of = id BY <1>1, <1>2, <1>3, <1>5, <2>1
  <2>2. CASE os'[m] = os[m]
    <3>1. /\ os[m].of \in 1..MaxAlloc =>
                /\ os[m].of \in 1..allocId
                /\ slot[Hash(os[m].of)].id = os[m].of => slot[Hash(os[m].of)].fd = m
          /\ os[m].of \in Svc => udp[os[m].of] = m /\ os[m].up = "udp"
      BY DEF SocketInv, IdInv, NumbersOK
    <3>2. ASSUME os[m].of \in 1..MaxAlloc
          PROVE  slot'[Hash(os[m].of)].id = os[m].of => slot'[Hash(os[m].of)].fd = m
      <4>1. os[m].of \in Nat BY <3>2
      <4>2. Hash(os[m].of) \in Places BY <4>1, HashType
      <4>3. CASE Hash(os[m].of) = k BY <1>2, <1>5, <4>3
      <4>4. CASE Hash(os[m].of) # k BY <1>5, <3>1, <3>2, <4>2, <4>4
      <4> QED BY <4>3, <4>4
    <3> QED BY <2>2, <3>1, <3>2
  <2> QED BY <1>11, <2>1, <2>2
<1>16. ASSUME NEW j \in Places, j # k PROVE Settled(j)
  <2>1. slot'[j] = slot[j] BY <1>5, <1>16
  <2> SUFFICES ASSUME slot[j].fd \in Fd, os'[slot[j].fd].of = slot[j].id
               PROVE  os'[slot[j].fd] = os[slot[j].fd]
    BY <2>1 DEF Settled, OwnOpen
  <2>2. slot[j].id # 0 /\ Hash(slot[j].id) = j BY DEF SocketInv, IdInv, SlotsOK
  <2>3. slot[j].id # id BY <1>1, <1>16, <2>2
  <2> QED BY <1>11, <2>3
<1>17. \A a \in Svc : udp[a] \in Fd /\ os'[udp[a]].of = a => os[udp[a]].of = a BY <1>3, <1>11
<1>18. Reserving'
  <2> SUFFICES ASSUME NEW y \in Threads, Opening(y)', Hash(caller'[y].id) \notin raced
               PROVE  /\ slot'[Hash(caller'[y].id)].type = "reserve"
                      /\ caller'[y].stored = TRUE => slot'[Hash(caller'[y].id)].id = caller'[y].id
                      /\ \A z \in Threads : Opening(z)' /\ Hash(caller'[z].id) = Hash(caller'[y].id) => z = y
    BY <1>5 DEF Reserving, Hash
  <2>1. y # c /\ Opening(y) /\ caller'[y] = caller[y] BY <1>7
  <2>2. /\ slot[Hash(caller[y].id)].type = "reserve"
        /\ caller[y].stored = TRUE => slot[Hash(caller[y].id)].id = caller[y].id
        /\ \A z \in Threads : Opening(z) /\ Hash(caller[z].id) = Hash(caller[y].id) => z = y
    BY <2>1 DEF SocketInv, Reserving
  <2>3. Hash(caller[y].id) # k BY <1>1, <2>1, <2>2
  <2>4. caller[y].id \in Nat
    <3>1. caller[y].id \in 1..allocId BY <2>1 DEF SocketInv, IdInv, OpeningOK
    <3> QED BY <3>1
  <2>5. Hash(caller[y].id) \in Places BY <2>4, HashType
  <2>6. \A z \in Threads : Opening(z)' /\ Hash(caller'[z].id) = Hash(caller'[y].id) => z = y
    BY <1>7, <2>1, <2>2
  <2> QED BY <1>5, <2>1, <2>2, <2>3, <2>5, <2>6
<1>19. \A y \in Threads : Opening(y)' => y # c /\ Opening(y) /\ caller[y].id # caller[c].id BY <1>1, <1>7
<1> QED BY <1>6, <1>10, <1>12, <1>13, <1>14, <1>15, <1>16, <1>17, <1>18, <1>19 DEF NumberedFacts

\* The requests that such a step makes.
LEMMA NumberedInv ==
    ASSUME SocketInv, NEW c \in Threads, Opening(c), NEW n \in Fd, NEW u \in Ups, NEW o \in BOOLEAN,
           NEW k, k = Hash(caller[c].id), Numbered(c, k, n, u, o), NumberedFacts(c, k),
           NEW ks, NEW h, Moves(ks, h), h => port # << >> /\ Head(port).type = "A",
           \A q \in ks : q.type # "A" \/ (h /\ Like(q, Head(port))),
           \A q \in ks : ReqOK(q)', IoOK', KeptAccepts(ks, h), lost' \in BOOLEAN
    PROVE  SocketInv'
<1>1. /\ Grows /\ SlotsOK' /\ OpeningOK' /\ NumbersOK' /\ Reserving'
      /\ caller' \in [Threads -> Position] /\ os' \in [Fd -> Number]
      /\ \A j \in Places : j # k => Settled(j)
      /\ \A a \in Svc : udp[a] \in Fd /\ os'[udp[a]].of = a => os[udp[a]].of = a
  BY DEF NumberedFacts
<1>2. /\ UNCHANGED <<allocId, udp, posts, raced>>
      /\ slot' \in [Places -> Socket] /\ \A j \in Places : j # k => slot'[j] = slot[j]
      /\ slot'[k].id = caller[c].id
      /\ slot'[k].start = slot[k].start /\ (slot[k].start = TRUE => slot'[k].deaf = TRUE)
  BY DEF Numbered
<1>3. PacketsOK /\ AllOK /\ allocId \in Nat /\ Receiving /\ Accepting /\ Listening
  BY Types DEF SocketInv, IdInv
<1>4. AllOK' BY <1>1, <1>3, AllKept
<1>5. Shape'
  <2>1. PacketsOK' BY DEF Moves
  <2>2. allocId' \in 0..MaxAlloc /\ posts' \in 0..MaxPost /\ udp' \in [Svc -> Fd \cup {NoFd}]
    BY <1>2, Types
  <2> QED BY <1>1, <1>2, <2>1, <2>2 DEF Shape, Places, Threads, Socket, Position, Number
<1>6. \A p \in Requests : p.type = "A" => p.rid # caller[c].id
  BY <1>3 DEF AllOK, ReqOK, ForId
<1>7. ASSUME NEW q \in Requests', q.type = "A" PROVE q.rid # caller[c].id
  <2>1. CASE \E p \in Requests : Like(q, p) BY <1>6, <1>7, <2>1 DEF Like
  <2>2. CASE q \in ks
    <3>1. h /\ Like(q, Head(port)) BY <1>7, <2>2
    <3>2. Head(port) \in Requests BY <3>1, AtHead
    <3> QED BY <2>1, <3>1, <3>2
  <2> QED BY <2>1, <2>2 DEF Moves
<1>8. ASSUME NEW j \in Places PROVE Renewed(j) \/ (Settled(j) /\ KeptReceive(j, ks, h))
  <2>1. CASE j = k BY <1>2, <1>7, <2>1 DEF Renewed
  <2>2. CASE j # k
    <3>1. KeptReceive(j, ks, h) BY <1>2, <2>2 DEF KeptReceive
    <3> QED BY <1>1, <2>2, <3>1
  <2> QED BY <2>1, <2>2
<1>9. KeptDatagrams(ks, h) BY <1>1, <1>2 DEF KeptDatagrams
<1>10. Receiving' /\ Accepting' /\ Listening'
  <2>1. h => port # << >> OBVIOUS
  <2>2. allocId' \in Nat BY <1>2, <1>3
  <2> QED BY <1>3, <1>4, <1>8, <1>9, <2>1, <2>2, NeedsKept
<1> QED BY <1>1, <1>4, <1>5, <1>10 DEF SocketInv, IdInv, Moves

\* The place of the id that thread c opens.
LEMMA OpeningPlace ==
    ASSUME SocketInv, NEW c \in Threads, Opening(c)
    PROVE  /\ caller[c].id \in 1..allocId /\ caller[c].id \in 0..MaxAlloc
           /\ Hash(caller[c].id) \in Places /\ Hash(caller[c].id) \in -1..(Slots - 1)
<1>1. caller[c].id \in 1..allocId BY DEF SocketInv, IdInv, OpeningOK
<1>2. caller[c].id \in 0..MaxAlloc /\ caller[c].id \in Nat BY <1>1, Types, SocketAssumption
<1>3. Hash(caller[c].id) \in Places BY <1>2, HashType
<1> QED BY <1>1, <1>2, <1>3, SocketAssumption DEF Places

\* listen and connect of a service: one request, for the id.
LEMMA OpenInv ==
    ASSUME SocketInv, NEW a \in Svc, NEW t \in {"C", "L"}, caller[a].call = t, NEW n \in Free,
           NEW u \in {"no", "listening"}, NewFd(a, n, a), Opened(n, caller[a].id, u),
           UNCHANGED <<allocId, udp, posts, lost, raced>>, NEW f \in Fd \cup {NoFd}, NEW r,
           r = Req(t, Hash(caller[a].id), caller[a].id, f, a, 0),
           \/ Post(r) /\ UNCHANGED kernel
           \/ kernel' = kernel \cup {r} /\ UNCHANGED port
    PROVE  SocketInv'
<1>1. a \in Threads /\ a # Io /\ Opening(a) BY Types DEF Opening
<1>2. PICK k : k = Hash(caller[a].id) OBVIOUS
<1>3. PICK id : id = caller[a].id OBVIOUS
<1>4. id \in 1..allocId /\ id \in 0..MaxAlloc /\ k \in Places /\ k \in -1..(Slots - 1)
  BY <1>1, <1>2, <1>3, OpeningPlace
<1>5. n \in Fd /\ os[n].of = 0 /\ u \in Ups BY DEF Free, Shut, Ups
<1>6. Numbered(a, k, n, u, TRUE) BY <1>1, <1>2, <1>5, NumberedStep
<1>7. NumberedFacts(a, k) BY <1>1, <1>2, <1>5, <1>6, NumberedRight
<1>8. r \in Request /\ r.type = t /\ r.slot = k /\ r.rid = id
  <2>1. /\ t \in {"C", "L", "R", "A", "S", "s", "a", "k", "f", "t"} /\ 0 \in 0..MaxPost
        /\ a \in Svc \cup {"none"}
    BY SocketAssumption
  <2>2. r \in Request BY <1>2, <1>3, <1>4, <2>1, ReqType
  <2> QED BY <1>2, <1>3, <2>2 DEF Req
<1>9. Moves({r}, FALSE)
  <2>1. ~Single(r) BY <1>8 DEF Single
  <2> QED BY <1>8, <2>1, Types, PostMoves, GrowMoves
<1>10. ReqOK(r)'
  <2>1. \A x \in Threads : Opening(x)' => caller'[x].id # id BY <1>3, <1>7 DEF NumberedFacts
  <2> QED BY <1>2, <1>3, <1>4, <1>8, <2>1 DEF ReqOK, ForId, Hash
<1>11. port # << >> => port' # << >> /\ Head(port') = Head(port)
  BY <1>8, Types, HeadPosted
<1>12. IoOK'
  <2>1. caller'[Io] = caller[Io] BY <1>1, <1>7, Types DEF NumberedFacts
  <2> QED BY <1>11, <2>1 DEF SocketInv, IdInv, IoOK
<1>13. PICK ks : ks = {r} OBVIOUS
<1>14. \A q \in ks : q.type # "A" /\ ReqOK(q)'
  <2> SUFFICES ASSUME NEW q \in ks PROVE q.type # "A" /\ ReqOK(q)' OBVIOUS
  <2>1. q = r BY <1>13
  <2> QED BY <1>8, <1>10, <2>1
<1>15. KeptAccepts(ks, FALSE) BY <1>14 DEF KeptAccepts
<1>16. Moves(ks, FALSE) BY <1>9, <1>13
<1>17. lost' \in BOOLEAN BY Types
<1> QED BY <1>1, <1>2, <1>5, <1>6, <1>7, <1>12, <1>14, <1>15, <1>16, <1>17, NumberedInv

LEMMA ListenInv ==
    ASSUME SocketInv, NEW a \in Svc, NEW n \in Fd, NEW up \in {"listening", "no"}, Listen(a, n, up)
    PROVE  SocketInv'
<1>1. PICK r : r = Req("L", Hash(caller[a].id), caller[a].id, NoFd, a, 0) OBVIOUS
<1>2. /\ caller[a].call = "L" /\ NewFd(a, n, a) /\ n \in Free /\ Opened(n, caller[a].id, up)
      /\ Post(r) /\ UNCHANGED <<allocId, kernel, udp, posts, lost, raced>>
  BY <1>1 DEF Listen
<1> QED BY <1>1, <1>2, OpenInv

LEMMA ConnectInv == ASSUME SocketInv, NEW a \in Svc, NEW n \in Fd, Connect(a, n) PROVE SocketInv'
<1>1. PICK r : r = Req("C", Hash(caller[a].id), caller[a].id, n, a, 0) OBVIOUS
<1>2. /\ caller[a].call = "C" /\ NewFd(a, n, a) /\ n \in Free /\ Opened(n, caller[a].id, "no")
      /\ kernel' = kernel \cup {r} /\ UNCHANGED <<allocId, port, udp, posts, lost, raced>>
  BY <1>1 DEF Connect
<1> QED BY <1>1, <1>2, OpenInv

LEMMA NewClientInv == ASSUME SocketInv, NewClient PROVE SocketInv'
<1>1. PICK r : r = Head(port) OBVIOUS
<1>2. /\ caller[Io].call = "A" /\ Opening(Io) /\ Io \in Threads /\ port # << >> /\ r.type = "A"
  BY <1>1, Types DEF NewClient, Opening, SocketInv, IdInv, IoOK
<1>3. /\ r \in Requests /\ r \in Request /\ r.slot \in Places /\ r.slot = Hash(r.rid)
      /\ r.rid \in Nat /\ r.rid <= allocId
      /\ r.i \in 1..Accepts /\ r.fd \in Fd /\ r.rid \in 1..allocId /\ ReqOK(r)
      /\ \A c \in Threads : Opening(c) => caller[c].id # r.rid
  BY <1>1, <1>2, AtHead DEF ForId, ReqOK
<1>4. PICK ks : ks = AcceptAgain(r) OBVIOUS
<1>5. /\ NewFd(Io, r.fd, slot[r.slot].owner)
      /\ IF os[r.fd] = Client THEN Opened(r.fd, caller[Io].id, "connected") ELSE UNCHANGED os
      /\ kernel' = kernel \cup ks /\ port' = Tail(port)
      /\ UNCHANGED <<allocId, udp, posts, lost, raced>>
  BY <1>1, <1>4 DEF NewClient
<1>6. PICK o \in BOOLEAN : o <=> os[r.fd] = Client OBVIOUS
<1>7. slot[r.slot].owner \in Svc \cup {"none"}
  <2>1. slot[r.slot] \in Socket BY <1>3, Types
  <2> QED BY <2>1 DEF Socket
<1>8. PICK k : k = Hash(caller[Io].id) OBVIOUS
<1>9. IF o THEN Opened(r.fd, caller[Io].id, "connected") ELSE UNCHANGED os BY <1>5, <1>6
<1>10. Numbered(Io, k, r.fd, "connected", o)
  <2>1. "connected" \in Ups BY DEF Ups
  <2> QED BY <1>2, <1>3, <1>5, <1>7, <1>8, <1>9, <2>1, NumberedStep
<1>11. o => os[r.fd].of \in {0, -1} BY <1>6 DEF Client
<1>12. NumberedFacts(Io, k)
  <2>1. "connected" \in Ups BY DEF Ups
  <2> QED BY <1>2, <1>3, <1>8, <1>10, <1>11, <2>1, NumberedRight
<1>13. PICK q : q = AcceptReq(r.slot, r.rid, r.call, r.i) OBVIOUS
<1>14. \/ ks = {} /\ ~Up(slot[r.slot].fd, {"listening"})
       \/ ks = {q} /\ q \in Request /\ Like(q, r) /\ q.fd \in Fd
  <2>1. CASE ~Up(slot[r.slot].fd, {"listening"}) BY <1>4, <2>1 DEF AcceptAgain, PostAcceptEx
  <2>2. CASE Up(slot[r.slot].fd, {"listening"})
    <3>1. r.rid \in 0..MaxAlloc /\ r.call \in 0..MaxPost BY <1>3 DEF Request
    <3>2. {r.i} \in SUBSET (1..Accepts) BY <1>3
    <3>3. PICK is : is = {r.i} OBVIOUS
    <3>4. AcceptReqsOK(PostAcceptEx(r.slot, r.rid, is, r.call), r.slot, r.rid, is, r.call)
      BY <1>3, <2>2, <3>1, <3>2, <3>3, AcceptReqs
    <3>5. AcceptReqsOK(ks, r.slot, r.rid, is, r.call) BY <1>4, <3>3, <3>4 DEF AcceptAgain
    <3>6. ks = {AcceptReq(r.slot, r.rid, r.call, j) : j \in is} /\ ks \in SUBSET Request
      BY <3>5 DEF AcceptReqsOK
    <3>7. ks = {q} BY <1>13, <3>3, <3>6
    <3>8. /\ q.type = "A" /\ q.slot = r.slot /\ q.rid = r.rid /\ q.call = r.call /\ q.i = r.i
          /\ q.fd = slot[r.slot].fd /\ q.who = "none"
      BY <1>13, <3>3, <3>5 DEF AcceptReqsOK
    <3>9. q.fd \in Fd BY <2>2, <3>8 DEF Up
    <3>10. r.who = "none" BY <1>2, <1>3 DEF ReqOK
    <3> QED BY <1>2, <3>6, <3>7, <3>8, <3>9, <3>10 DEF Like
  <2> QED BY <2>1, <2>2
<1>15. ks \in SUBSET Request /\ IsFiniteSet(ks) /\ \A p \in ks : p.type = "A" /\ Like(p, r) /\ p.fd \in Fd
  <2>1. IsFiniteSet({q}) BY FS_Singleton
  <2>2. IsFiniteSet(ks) BY <1>14, <2>1, FS_EmptySet
  <2> QED BY <1>2, <1>14, <2>2 DEF Like
<1>16. Moves(ks, TRUE)
  <2>1. Turn({}, ks)
    <3>1. Tail(port) \in Seq(Request) BY <1>2, Types DEF PacketsOK
    <3>2. Tail(port) \o << >> = Tail(port) BY <3>1
    <3>3. kernel' = (kernel \ {}) \cup ks BY <1>5
    <3> QED BY <1>5, <3>2, <3>3, NoFailures DEF Turn
  <2>2. {} \in SUBSET kernel OBVIOUS
  <2>3. Fresh(ks) BY <1>15 DEF Fresh, Single
  <2> QED BY <1>2, <1>15, <2>1, <2>2, <2>3, Types, TurnMoves
<1>17. ASSUME NEW p \in ks PROVE ReqOK(p)'
  <2>1. p.type = "A" /\ p.slot = r.slot /\ p.rid = r.rid /\ p.i = r.i /\ p.who = r.who /\ p.fd \in Fd
    BY <1>15 DEF Like
  <2>2. \A x \in Threads : Opening(x)' => caller'[x].id # r.rid
    <3> SUFFICES ASSUME NEW x \in Threads, Opening(x)' PROVE caller'[x].id # r.rid OBVIOUS
    <3>1. x # Io /\ Opening(x) /\ caller'[x] = caller[x] BY <1>12 DEF NumberedFacts
    <3> QED BY <1>3, <3>1
  <2>3. r.who = "none" BY <1>2, <1>3 DEF ReqOK
  <2> QED BY <1>3, <1>5, <2>1, <2>2, <2>3 DEF ReqOK, ForId, Hash
<1>18. IoOK' BY <1>12 DEF NumberedFacts, IoOK, NoCall
<1>19. KeptAccepts(ks, TRUE)
  <2>1. \A p \in ks : Like(p, Head(port)) BY <1>1, <1>15
  <2>2. ASSUME OwnOpenNext(r.slot), slot'[r.slot].id = r.rid PROVE \E p \in ks : Like(p, r)
    <3>1. r.slot # k BY <1>2, <1>3, <1>10, <2>2 DEF Numbered
    <3>2. Settled(r.slot) BY <1>3, <1>12, <3>1 DEF NumberedFacts
    <3>3. OwnOpen(r.slot) /\ slot[r.slot].id = r.rid BY <2>2, <3>2 DEF Settled, OwnOpen, OwnOpenNext
    <3>4. Up(slot[r.slot].fd, {"listening"}) BY <1>2, <1>3, <3>3 DEF SocketInv, Accepting
    <3> QED BY <1>14, <3>4
  <2> QED BY <1>1, <1>5, <2>1, <2>2 DEF KeptAccepts
<1>20. lost' \in BOOLEAN BY <1>5, Types
<1>21. "connected" \in Ups BY DEF Ups
<1> QED BY <1>1, <1>2, <1>3, <1>8, <1>10, <1>12, <1>15, <1>16, <1>17, <1>18, <1>19, <1>20, <1>21, NumberedInv

LEMMA UdpInv == ASSUME SocketInv, NEW a \in Svc, NEW n \in Fd, Udp(a, n) PROVE SocketInv'
<1>1. PICK r : r = Req("f", -1, 0, n, a, 0) OBVIOUS
<1>2. PICK x : x = [of |-> a, up |-> "udp"] OBVIOUS
<1>3. /\ udp[a] = NoFd /\ posts < MaxPost /\ posts' = posts + 1 /\ n \in Free
      /\ os' = [os EXCEPT ![n] = x] /\ udp' = [udp EXCEPT ![a] = n] /\ kernel' = kernel \cup {r}
      /\ UNCHANGED <<allocId, slot, caller, port, lost, raced>>
  BY <1>1, <1>2 DEF Udp, Opened
<1>4. a \notin Int /\ NoFd \notin Fd /\ a \in Svc \cup {"none"} BY SocketAssumption
<1>5. x \in Number /\ x.of = a /\ x.up = "udp" BY <1>2 DEF Number
<1>6. /\ os' \in [Fd -> Number] /\ os'[n] = x /\ \A m \in Fd : m # n => os'[m] = os[m]
      /\ udp' \in [Svc -> Fd \cup {NoFd}] /\ udp'[a] = n /\ \A b \in Svc : b # a => udp'[b] = udp[b]
  BY <1>3, <1>5, Types
<1>7. r \in Request /\ r.type = "f" /\ r.who = a /\ r.fd = n
  <2>1. -1 \in -1..(Slots - 1) /\ 0 \in 0..MaxAlloc /\ 0 \in 0..MaxPost BY SocketAssumption
  <2>2. r \in Request BY <1>1, <1>4, <2>1, ReqType
  <2> QED BY <1>1, <2>2 DEF Req
<1>8. Moves({r}, FALSE)
  <2>1. ASSUME NEW q \in Requests, Same(r, q) PROVE FALSE
    <3>1. q.type = "f" /\ q.who = a BY <1>7, <2>1 DEF Same
    <3>2. udp[a] \in Fd BY <3>1 DEF SocketInv, IdInv, AllOK, ReqOK, ForId
    <3> QED BY <1>3, <1>4, <3>2
  <2> QED BY <1>3, <1>7, <2>1, Types, GrowMoves
<1>9. posts' \in 0..MaxPost BY <1>3, Types
<1>10. Shape'
  <2>1. PacketsOK' BY <1>8 DEF Moves
  <2>2. allocId' \in 0..MaxAlloc /\ lost' \in BOOLEAN /\ slot' \in [Places -> Socket]
        /\ caller' \in [Threads -> Position]
    BY <1>3, Types
  <2> QED BY <1>6, <1>9, <2>1, <2>2 DEF Shape, Places, Threads, Socket, Position, Number
<1>11. SlotsOK' /\ IoOK' /\ Reserving'
  <2>1. SlotsOK /\ IoOK /\ Reserving BY DEF SocketInv, IdInv
  <2> QED BY <1>3, <2>1 DEF SlotsOK, IoOK, Reserving, Opening, Hash, Places
<1>12. \A c \in Threads : Opening(c)' <=> Opening(c) BY <1>3 DEF Opening
<1>13. OpeningOK'
  <2>1. ASSUME NEW c \in Threads, Opening(c), NEW m \in Fd PROVE os'[m].of # caller[c].id
    <3>1. caller[c].id \in 1..allocId /\ os[m].of # caller[c].id
      BY <2>1 DEF SocketInv, IdInv, OpeningOK
    <3>2. caller[c].id \in Int BY <3>1
    <3> QED BY <1>4, <1>5, <1>6, <3>1, <3>2
  <2> QED BY <1>3, <1>12, <2>1 DEF SocketInv, IdInv, OpeningOK
<1>14. NumbersOK'
  <2> SUFFICES ASSUME NEW m \in Fd
               PROVE  /\ os'[m].of \in 1..MaxAlloc =>
                            /\ os'[m].of \in 1..allocId
                            /\ slot[Hash(os'[m].of)].id = os'[m].of => slot[Hash(os'[m].of)].fd = m
                      /\ os'[m].of \in Svc => udp'[os'[m].of] = m /\ os'[m].up = "udp"
    BY <1>3 DEF NumbersOK, Hash
  <2>1. CASE m = n
    <3>1. a \notin 1..MaxAlloc BY <1>4
    <3> QED BY <1>5, <1>6, <2>1, <3>1
  <2>2. CASE m # n
    <3>1. os'[m] = os[m] BY <1>6, <2>2
    <3>2. os[m].of \in Svc => udp[os[m].of] = m /\ os[m].up = "udp" /\ os[m].of # a
      BY <1>3, <1>4 DEF SocketInv, IdInv, NumbersOK
    <3>3. os[m].of \in 1..MaxAlloc =>
             /\ os[m].of \in 1..allocId
             /\ slot[Hash(os[m].of)].id = os[m].of => slot[Hash(os[m].of)].fd = m
      BY DEF SocketInv, IdInv, NumbersOK
    <3> QED BY <1>6, <3>1, <3>2, <3>3
  <2> QED BY <2>1, <2>2
<1>15. Grows
  <2>1. allocId \in Nat /\ allocId' \in Nat /\ allocId <= allocId' BY <1>3, Types
  <2>2. \A b \in Svc : udp[b] \in Fd => udp'[b] = udp[b] BY <1>3, <1>4, <1>6
  <2> QED BY <1>3, <1>12, <2>1, <2>2 DEF Grows
<1>16. PICK ks : ks = {r} OBVIOUS
<1>17. \A q \in ks : ReqOK(q)' /\ q.type = "f" /\ q.who = a
  <2> SUFFICES ASSUME NEW q \in ks PROVE ReqOK(q)' /\ q.type = "f" /\ q.who = a OBVIOUS
  <2>1. q = r BY <1>16
  <2>2. udp'[a] = n BY <1>6
  <2> QED BY <1>7, <2>1, <2>2 DEF ReqOK, ForId
<1>18. Moves(ks, FALSE) BY <1>8, <1>16
<1>19. AllOK /\ Receiving /\ Accepting /\ Listening BY DEF SocketInv, IdInv
<1>20. AllOK' BY <1>15, <1>17, <1>18, <1>19, AllKept
<1>21. ASSUME NEW j \in Places PROVE Settled(j) /\ KeptReceive(j, ks, FALSE)
  <2>1. ASSUME slot[j].fd \in Fd, os'[slot[j].fd].of = slot[j].id PROVE os'[slot[j].fd] = os[slot[j].fd]
    <3>1. slot[j] \in Socket BY Types
    <3>2. slot[j].id \in Int BY <3>1, SocketAssumption DEF Socket
    <3> QED BY <1>4, <1>5, <1>6, <2>1, <3>2
  <2>2. Settled(j) BY <1>3, <2>1 DEF Settled, OwnOpen
  <2>3. KeptReceive(j, ks, FALSE) BY <1>3 DEF KeptReceive
  <2> QED BY <2>2, <2>3
<1>22. KeptAccepts(ks, FALSE) BY <1>3, <1>17 DEF KeptAccepts
<1>23. KeptDatagrams(ks, FALSE)
  <2> SUFFICES ASSUME NEW b \in Svc, udp'[b] \in Fd, os'[udp'[b]].of = b
               PROVE  \/ \E q \in ks : q.type = "f" /\ q.who = b
                      \/ udp[b] \in Fd /\ os[udp[b]].of = b
    BY DEF KeptDatagrams
  <2>1. CASE b = a BY <1>16, <1>17, <2>1
  <2>2. CASE b # a
    <3>1. udp'[b] = udp[b] BY <1>6, <2>2
    <3>2. udp[b] # n BY <1>5, <1>6, <2>2, <3>1
    <3> QED BY <1>6, <3>1, <3>2
  <2> QED BY <2>1, <2>2
<1>24. Receiving' /\ Accepting' /\ Listening'
  <2>1. allocId' \in Nat BY <1>3, Types
  <2> QED BY <1>18, <1>19, <1>20, <1>21, <1>22, <1>23, <2>1, Types, NeedsKept
<1> QED BY <1>10, <1>11, <1>13, <1>14, <1>18, <1>20, <1>24 DEF SocketInv, IdInv, Moves

-----------------------------------------------------------------------------
(* The invariant holds always.                                             *)

LEMMA SocketInitInv == ASSUME SocketInit PROVE SocketInv
<1>1. /\ allocId = 0 /\ posts = 0 /\ lost = FALSE /\ raced = {} /\ port = << >> /\ kernel = {}
      /\ os = [n \in Fd |-> Shut] /\ udp = [a \in Svc |-> NoFd]
      /\ caller = [c \in Threads |-> NoCall]
      /\ \A k \in Places : slot[k].id = 0 /\ slot[k].fd = NoFd
  BY DEF SocketInit, Threads, Places
<1>2. 0 \in 0..MaxAlloc /\ 0 \in 0..MaxPost /\ NoFd \notin Fd /\ 0 \notin Svc BY SocketAssumption
<1>3. Shape
  <2>1. slot \in [Places -> Socket] BY <1>2 DEF SocketInit, Places, Socket
  <2>2. NoCall \in Position BY <1>2 DEF NoCall, Position
  <2>3. Shut \in Number BY <1>2 DEF Shut, Number
  <2>4. PacketsOK BY <1>1, FS_EmptySet DEF PacketsOK
  <2> QED BY <1>1, <1>2, <2>1, <2>2, <2>3, <2>4 DEF Shape
<1>4. \A c \in Threads : ~Opening(c) /\ caller[c].call = "none" BY <1>1 DEF Opening, NoCall
<1>5. Requests = {} BY <1>1 DEF Requests
<1>6. SlotsOK BY <1>1, <1>2 DEF SlotsOK
<1>7. OpeningOK /\ Reserving BY <1>4 DEF OpeningOK, Reserving
<1>8. NumbersOK
  <2>1. \A n \in Fd : os[n].of = 0 BY <1>1 DEF Shut
  <2> QED BY <1>2, <2>1 DEF NumbersOK
<1>9. IoOK BY <1>4 DEF IoOK, Threads
<1>10. AllOK /\ Accepting BY <1>5 DEF AllOK, Accepting
<1>11. Unique BY <1>1 DEF Unique
<1>12. Receiving BY <1>1, <1>2 DEF Receiving, OwnOpen
<1>13. Listening BY <1>1, <1>2 DEF Listening
<1> QED BY <1>3, <1>6, <1>7, <1>8, <1>9, <1>10, <1>11, <1>12, <1>13 DEF SocketInv, IdInv

LEMMA SocketStutter == ASSUME SocketInv, UNCHANGED socketVars PROVE SocketInv'
<1>1. UNCHANGED <<allocId, slot, caller, port, kernel, os, udp, posts, lost, raced>> BY DEF socketVars
<1>2. Shape' /\ SlotsOK' /\ OpeningOK' /\ NumbersOK' /\ IoOK' /\ Reserving'
  BY <1>1 DEF SocketInv, IdInv, Shape, PacketsOK, SlotsOK, OpeningOK, NumbersOK, IoOK, Reserving,
              Opening, Hash, Places, Threads, Socket, Position, Number
<1>3. Resting /\ Grows BY <1>1, Types DEF Resting, Grows, Opening
<1>4. PacketsOK' /\ Unique' /\ AllOK' /\ Receiving' /\ Accepting' /\ Listening'
  BY <1>1, <1>3, RestingNeeds
<1> QED BY <1>2, <1>4 DEF SocketInv, IdInv

ServiceStepOf(a) ==
    \/ \E t \in {"C", "L"} : BeginOpen(a, t)
    \/ \E n \in Fd : Connect(a, n) \/ Udp(a, n) \/ \E up \in {"listening", "no"} : Listen(a, n, up)
    \/ \E t \in {"s", "a", "k"}, id \in 1..MaxAlloc : Call(a, t, id)
    \/ \E id \in 1..MaxAlloc : CheckSend(a, id)
    \/ SendData(a) \/ UdpSend(a)

LEMMA NextCases ==
    ASSUME SocketNext
    PROVE  \/ SocketThread \/ \E c \in Threads : StoreId(c)
           \/ \E a \in Svc : ServiceStepOf(a)
           \/ \E r \in kernel, ok \in BOOLEAN : Complete(r, ok)
  BY DEF SocketNext, ServiceStepOf, Threads

LEMMA ServicesInv == ASSUME SocketInv, NEW a \in Svc, ServiceStepOf(a) PROVE SocketInv'
<1>1. CASE \E t \in {"C", "L"} : BeginOpen(a, t) BY <1>1, BeginOpenInv
<1>2. CASE \E n \in Fd : Connect(a, n) \/ Udp(a, n) \/ \E up \in {"listening", "no"} : Listen(a, n, up)
  BY <1>2, ConnectInv, UdpInv, ListenInv
<1>3. CASE \E t \in {"s", "a", "k"}, id \in 1..MaxAlloc : Call(a, t, id) BY <1>3, CallInv
<1>4. CASE \E id \in 1..MaxAlloc : CheckSend(a, id) BY <1>4, CheckSendInv
<1>5. CASE SendData(a) \/ UdpSend(a) BY <1>5, SendDataInv, UdpSendInv
<1> QED BY <1>1, <1>2, <1>3, <1>4, <1>5 DEF ServiceStepOf

LEMMA SocketStep == ASSUME SocketInv, [SocketNext]_socketVars PROVE SocketInv'
<1>1. CASE UNCHANGED socketVars BY <1>1, SocketStutter
<1>2. CASE SocketThread
  <2>1. CASE PollConnect \/ PollFailed \/ PollStart \/ PollData \/ PollSent \/ PollSendFailed
    BY <2>1, PollConnectInv, PollFailedInv, PollStartInv, PollDataInv, PollSentInv, PollSendFailedInv
  <2>2. CASE PollAccept \/ PollClient \/ NewClient \/ PollAcceptFailed \/ PollClose \/ CloseFd
    BY <2>2, PollAcceptInv, PollClientInv, NewClientInv, PollAcceptFailedInv, PollCloseInv, CloseFdInv
  <2>3. CASE PollDatagram \/ \E t \in {"f", "t"} : PollDatagramFailed(t)
    BY <2>3, PollDatagramInv, PollDatagramFailedInv
  <2> QED BY <1>2, <2>1, <2>2, <2>3 DEF SocketThread
<1>3. CASE \E c \in Threads : StoreId(c) BY <1>3, StoreIdInv
<1>4. CASE \E a \in Svc : ServiceStepOf(a) BY <1>4, ServicesInv
<1>5. CASE \E r \in kernel, ok \in BOOLEAN : Complete(r, ok) BY <1>5, CompleteInv
<1> QED BY <1>1, <1>2, <1>3, <1>4, <1>5, NextCases

LEMMA SocketInvariant == SocketSpec => []SocketInv
<1>1. SocketInit => SocketInv BY SocketInitInv
<1>2. SocketInv /\ [SocketNext]_socketVars => SocketInv' BY SocketStep
<1> QED BY <1>1, <1>2, PTL DEF SocketSpec

-----------------------------------------------------------------------------
(* What the invariant says of the sockets.                                 *)

LEMMA CountOne ==
    ASSUME NEW S, \A x, y \in S : x = y
    PROVE  Cardinality(S) \in {0, 1} /\ (S # {} => Cardinality(S) = 1) /\ (S = {} => Cardinality(S) = 0)
<1>1. CASE S = {} BY <1>1, FS_EmptySet
<1>2. CASE S # {}
  <2>1. PICK x \in S : TRUE BY <1>2
  <2>2. S = {x} BY <2>1
  <2> QED BY <1>2, <2>2, FS_Singleton
<1> QED BY <1>1, <1>2

\* Of requests that may be there only once there is one, here or there.
LEMMA OnePlace ==
    ASSUME NEW S, NEW T, \A x, y \in S : x = y, \A x, y \in T : x = y, S = {} \/ T = {}
    PROVE  /\ Cardinality(S) + Cardinality(T) <= 1
           /\ S # {} \/ T # {} => Cardinality(S) + Cardinality(T) = 1
<1>1. Cardinality(S) \in {0, 1} /\ (S # {} => Cardinality(S) = 1) /\ (S = {} => Cardinality(S) = 0)
  BY CountOne
<1>2. Cardinality(T) \in {0, 1} /\ (T # {} => Cardinality(T) = 1) /\ (T = {} => Cardinality(T) = 0)
  BY CountOne
<1> QED BY <1>1, <1>2

LEMMA InvOneReceive == ASSUME SocketInv PROVE OneReceive
<1> SUFFICES ASSUME NEW k \in Places, NEW rs, rs = {r \in kernel : r.type = "R" /\ r.slot = k},
                    NEW ps, ps = {i \in DOMAIN port : port[i].type = "R" /\ port[i].slot = k}
             PROVE  /\ Cardinality(rs) + Cardinality(ps) <= 1
                    /\ OwnOpen(k) /\ slot[k].start /\ ~slot[k].deaf => rs # {} \/ ps # {}
  BY DEF OneReceive, Places
<1>1. \A x, y \in rs : x = y BY DEF SocketInv, Unique, Single, Same
<1>2. \A i, j \in ps : i = j BY DEF SocketInv, Unique, Single, Same
<1>3. rs = {} \/ ps = {} BY DEF SocketInv, Unique, Single, Same
<1>4. Cardinality(rs) + Cardinality(ps) <= 1 BY <1>1, <1>2, <1>3, OnePlace
<1>5. ASSUME OwnOpen(k), slot[k].start, ~slot[k].deaf PROVE rs # {} \/ ps # {}
  <2>1. slot[k] \in Socket BY Types
  <2>2. slot[k].start = TRUE /\ slot[k].deaf = FALSE BY <1>5, <2>1 DEF Socket
  <2>3. PICK q \in Requests : q.type = "R" /\ q.slot = k
    BY <1>5, <2>2 DEF SocketInv, Receiving, HasReceive
  <2> QED BY <2>3 DEF Requests
<1> QED BY <1>4, <1>5

LEMMA InvOneDatagram == ASSUME SocketInv PROVE OneDatagram
<1> SUFFICES ASSUME NEW a \in Svc, udp[a] # NoFd,
                    NEW rs, rs = {r \in kernel : r.type = "f" /\ r.who = a},
                    NEW ps, ps = {i \in DOMAIN port : port[i].type = "f" /\ port[i].who = a}
             PROVE  /\ Cardinality(rs) + Cardinality(ps) <= 1
                    /\ os[udp[a]].of = a => Cardinality(rs) + Cardinality(ps) = 1
  BY DEF OneDatagram
<1>1. \A x, y \in rs : x = y BY DEF SocketInv, Unique, Single, Same
<1>2. \A i, j \in ps : i = j BY DEF SocketInv, Unique, Single, Same
<1>3. rs = {} \/ ps = {} BY DEF SocketInv, Unique, Single, Same
<1>4. ASSUME os[udp[a]].of = a PROVE rs # {} \/ ps # {}
  <2>1. udp[a] \in Fd BY Types
  <2>2. PICK q \in Requests : q.type = "f" /\ q.who = a
    BY <1>4, <2>1 DEF SocketInv, Listening, HasDatagram
  <2> QED BY <2>2 DEF Requests
<1> QED BY <1>1, <1>2, <1>3, <1>4, OnePlace

LEMMA InvAcceptsKept == ASSUME SocketInv PROVE AcceptsKept
<1> SUFFICES ASSUME NEW k \in Places, NEW call \in 1..MaxPost, NEW is,
                    is = {r.i : r \in {q \in Requests : /\ q.type = "A" /\ q.slot = k /\ q.call = call
                                                       /\ q.rid = slot[k].id}},
                    is # {}, OwnOpen(k), ~lost
             PROVE  is = 1..Accepts
  BY DEF AcceptsKept, Places
<1>1. PICK q \in Requests : q.type = "A" /\ q.slot = k /\ q.call = call /\ q.rid = slot[k].id
  OBVIOUS
<1>2. lost = FALSE BY Types
<1>3. \A j \in 1..Accepts : HasAccept(q, j) BY <1>1, <1>2 DEF SocketInv, Accepting
<1>4. ASSUME NEW j \in 1..Accepts PROVE j \in is
  <2>1. PICK p \in Requests : Sibling(p, q, j) BY <1>3 DEF HasAccept
  <2> QED BY <1>1, <2>1 DEF Sibling
<1>5. ASSUME NEW j \in is PROVE j \in 1..Accepts
  <2>1. PICK p \in Requests : p.type = "A" /\ j = p.i OBVIOUS
  <2> QED BY <2>1 DEF SocketInv, IdInv, AllOK, ReqOK
<1> QED BY <1>4, <1>5

LEMMA InvTypes == ASSUME SocketInv PROVE SocketTypeOK /\ NewFdReserved
<1>1. allocId \in 0..MaxAlloc /\ posts \in 0..MaxPost BY Types
<1>2. ASSUME NEW k \in Places
      PROVE  /\ slot[k].type \in {"invalid", "reserve"} /\ slot[k].id \in 0..MaxAlloc
             /\ slot[k].id # 0 => Hash(slot[k].id) = k
             /\ slot[k].fd \in Fd \cup {NoFd}
  <2>1. slot[k] \in Socket BY Types
  <2> QED BY <2>1 DEF Socket, SocketInv, IdInv, SlotsOK
<1>3. ASSUME NEW c \in Threads, Opening(c), Hash(caller[c].id) \notin raced
      PROVE  /\ slot[Hash(caller[c].id)].type = "reserve"
             /\ caller[c].stored => slot[Hash(caller[c].id)].id = caller[c].id
  <2>1. caller[c] \in Position BY Types
  <2>2. caller[c].stored \in BOOLEAN BY <2>1 DEF Position
  <2> QED BY <1>3, <2>2 DEF SocketInv, Reserving
<1>4. NewFdReserved BY <1>3 DEF NewFdReserved, Opening, Threads
<1> QED BY <1>1, <1>2, <1>4 DEF SocketTypeOK, Places

\* Every socket of ztask_socket.c has the requests it needs, neither more nor
\* fewer, and new_fd finds the slot reserved unless an old close has hit it,
\* however services, the socket thread and the system interleave.
THEOREM RequestsKeptAlways == SocketSpec => []RequestsKept
<1>1. SocketInv => RequestsKept
  BY InvTypes, InvOneReceive, InvOneDatagram, InvAcceptsKept DEF RequestsKept
<1> QED BY <1>1, SocketInvariant, PTL

-----------------------------------------------------------------------------
(* Who closes a socket.                                                    *)

\* The socket with number n is closed as ForeignCloseIsSecond says.
ClosedRightly(n) ==
    LET r == Head(port) IN
    \/ /\ os[n].of = IF r.type \in {"f", "t"} THEN r.who ELSE r.rid
       /\ r.type \in {"C", "R", "S"} => event' = SlotEvent(r.slot, "error")
    \/ ClosedBefore(r)
    \/ TakenAgain(r)
    \/ r.type = "S" /\ n # slot[r.slot].fd

CloseOK == \A n \in Fd : os[n] # Shut /\ os'[n] = Shut => ClosedRightly(n)

\* The number in a slot that has the id of the request is that of the id's
\* socket, or the id has no socket any more.
LEMMA OwnNumber ==
    ASSUME SocketInv, port # << >>, Head(port).type \in ForId,
           slot[Head(port).slot].id = Head(port).rid
    PROVE  \/ os[slot[Head(port).slot].fd].of = Head(port).rid
           \/ ClosedBefore(Head(port))
<1>1. Head(port).type \in ForId => Head(port).rid \in 1..allocId /\ Head(port).slot = Hash(Head(port).rid)
  BY AtHead DEF ReqOK
<1>2. Head(port).rid \in 1..MaxAlloc BY <1>1, Types, SocketAssumption
<1>3. ASSUME NEW m \in Fd, os[m].of = Head(port).rid PROVE slot[Head(port).slot].fd = m
  BY <1>1, <1>2, <1>3 DEF SocketInv, IdInv, NumbersOK
<1>4. Head(port).type \notin {"f", "t"} BY DEF ForId
<1> QED BY <1>3, <1>4 DEF ClosedBefore

LEMMA KeptOpen == ASSUME SocketInv, \A n \in Fd : os'[n] = os[n] \/ os'[n] # Shut PROVE CloseOK
  BY DEF CloseOK

LEMMA FinishCloses ==
    ASSUME SocketInv, NEW sl, NEW ks, NEW gone, NEW ev, Finish(sl, ks, gone, ev),
           \A n \in gone \cap Fd : ev = event' => ClosedRightly(n)
    PROVE  CloseOK
<1>1. \A n \in Fd : os'[n] = IF n \in gone THEN Shut ELSE os[n] BY DEF Finish
<1>2. event' = ev BY DEF Finish
<1> QED BY <1>1, <1>2 DEF CloseOK

LEMMA FailedCloses == ASSUME SocketInv, PollFailed \/ PollSendFailed PROVE CloseOK
<1>1. PICK r : r = Head(port) OBVIOUS
<1>2. PICK k : k = r.slot OBVIOUS
<1>3. port # << >> /\ r.type \in {"C", "R", "S"} /\ r.type \in ForId
  BY <1>1 DEF PollFailed, PollSendFailed, Handle, ForId
<1>4. CASE PollFailed
  <2>1. Finish(slot, {}, {slot[k].fd}, SlotEvent(k, "error")) /\ r.type \in {"C", "R"}
    BY <1>1, <1>2, <1>4 DEF PollFailed, Poll, Handle
  <2>2. ASSUME NEW n \in {slot[k].fd} \cap Fd, SlotEvent(k, "error") = event' PROVE ClosedRightly(n)
    <3>1. n = slot[k].fd OBVIOUS
    <3>2. CASE slot[k].id # r.rid BY <1>1, <1>2, <2>1, <3>2 DEF ClosedRightly, TakenAgain
    <3>3. CASE slot[k].id = r.rid
      <4>1. os[n].of = r.rid \/ ClosedBefore(r) BY <1>1, <1>2, <1>3, <3>1, <3>3, OwnNumber
      <4> QED BY <1>1, <1>2, <1>3, <2>2, <4>1 DEF ClosedRightly
    <3> QED BY <3>2, <3>3
  <2> QED BY <2>1, <2>2, FinishCloses
<1>5. CASE PollSendFailed
  <2>1. r.type = "S" BY <1>1, <1>5 DEF PollSendFailed, Handle
  <2>2. CASE ~Alive(slot[k], r.rid)
    <3>1. Finish(slot, {}, {}, NoEvent) BY <1>1, <1>2, <1>5, <2>2 DEF PollSendFailed, Poll
    <3>2. os' = os BY <3>1, NothingGone
    <3> QED BY <3>2, KeptOpen
  <2>3. CASE Alive(slot[k], r.rid)
    <3>1. PICK m \in Fd \cup {NoFd} : Finish(slot, {}, {slot[k].fd, m}, SlotEvent(k, "error"))
      BY <1>1, <1>2, <1>5, <2>3 DEF PollSendFailed, Poll
    <3>2. ASSUME NEW n \in {slot[k].fd, m} \cap Fd, SlotEvent(k, "error") = event' PROVE ClosedRightly(n)
      <4>1. CASE n = slot[k].fd
        <5>1. slot[k].id = r.rid BY <2>3 DEF Alive
        <5>2. os[n].of = r.rid \/ ClosedBefore(r) BY <1>1, <1>2, <1>3, <4>1, <5>1, OwnNumber
        <5> QED BY <1>1, <1>2, <2>1, <3>2, <5>2 DEF ClosedRightly
      <4>2. CASE n # slot[k].fd BY <1>1, <1>2, <2>1, <4>2 DEF ClosedRightly
      <4> QED BY <4>1, <4>2
    <3> QED BY <3>1, <3>2, FinishCloses
  <2> QED BY <2>2, <2>3
<1> QED BY <1>4, <1>5

LEMMA CloseFdCloses == ASSUME SocketInv, CloseFd PROVE CloseOK
<1>1. PICK r : r = Head(port) OBVIOUS
<1>2. PICK k : k = r.slot OBVIOUS
<1>3. port # << >> /\ r.type = "k" /\ r.type \in ForId /\ caller[Io].id = r.rid
  BY <1>1 DEF CloseFd, SocketInv, IdInv, IoOK, ForId
<1>4. Finish(slot, {}, {slot[k].fd}, NoEvent) BY <1>1, <1>2 DEF CloseFd
<1>5. ASSUME NEW n \in {slot[k].fd} \cap Fd PROVE ClosedRightly(n)
  <2>1. n = slot[k].fd OBVIOUS
  <2>2. CASE slot[k].id # r.rid BY <1>1, <1>2, <1>3, <2>2 DEF ClosedRightly, TakenAgain
  <2>3. CASE slot[k].id = r.rid
    <3>1. os[n].of = r.rid \/ ClosedBefore(r) BY <1>1, <1>2, <1>3, <2>1, <2>3, OwnNumber
    <3> QED BY <1>1, <1>3, <3>1 DEF ClosedRightly
  <2> QED BY <2>2, <2>3
<1> QED BY <1>4, <1>5, FinishCloses

LEMMA DatagramCloses ==
    ASSUME SocketInv, NEW t \in {"f", "t"}, PollDatagramFailed(t) PROVE CloseOK
<1>1. PICK r : r = Head(port) OBVIOUS
<1>2. port # << >> /\ r.type = t /\ \E ev : Finish(slot, {}, {r.fd}, ev)
  BY <1>1 DEF PollDatagramFailed, Handle, Poll
<1>3. r.who \in Svc /\ r.fd \in Fd /\ udp[r.who] = r.fd BY <1>1, <1>2, AtHead DEF ReqOK, ForId
<1>4. PICK ev : Finish(slot, {}, {r.fd}, ev) BY <1>2
<1>5. ASSUME NEW n \in {r.fd} \cap Fd PROVE ClosedRightly(n)
  <2>1. n = r.fd OBVIOUS
  <2>2. CASE os[n].of = r.who BY <1>1, <1>2, <2>2 DEF ClosedRightly
  <2>3. CASE os[n].of # r.who
    <3>1. \A m \in Fd : os[m].of = r.who => udp[r.who] = m BY <1>3 DEF SocketInv, IdInv, NumbersOK
    <3>2. ClosedBefore(r) BY <1>2, <1>3, <2>1, <2>3, <3>1 DEF ClosedBefore
    <3> QED BY <1>1, <3>2 DEF ClosedRightly
  <2> QED BY <2>2, <2>3
<1> QED BY <1>4, <1>5, FinishCloses

LEMMA OtherPolls ==
    ASSUME SocketInv,
           \/ PollConnect \/ PollStart \/ PollData \/ PollSent \/ PollAccept \/ PollClient
           \/ PollAcceptFailed \/ PollClose \/ PollDatagram
    PROVE  CloseOK
<1>1. ASSUME \E sl, ks, ev : Finish(sl, ks, {}, ev) PROVE CloseOK
  <2>1. PICK sl, ks, ev : Finish(sl, ks, {}, ev) BY <1>1
  <2>2. os' = os BY <2>1, NothingGone
  <2> QED BY <2>2, KeptOpen
<1>2. ASSUME os' = os PROVE CloseOK BY <1>2, KeptOpen
<1>3. CASE PollConnect \/ PollData \/ PollSent \/ PollAcceptFailed \/ PollDatagram
  BY <1>1, <1>3 DEF PollConnect, PollData, PollSent, PollAcceptFailed, PollDatagram, Poll
<1>4. CASE PollStart BY <1>1, <1>4 DEF PollStart, Poll
<1>5. CASE PollAccept BY <1>1, <1>5 DEF PollAccept, Poll
<1>6. CASE PollClient BY <1>2, <1>6 DEF PollClient
<1>7. CASE PollClose BY <1>1, <1>2, <1>7 DEF PollClose, Poll
<1> QED BY <1>3, <1>4, <1>5, <1>6, <1>7

\* A number that a new socket gets is not shut by it.
LEMMA OpenedCloses ==
    ASSUME SocketInv, NEW n, NEW id, NEW up \in Ups \cup {"udp"}, Opened(n, id, up) PROVE CloseOK
<1>1. PICK x : x = [of |-> id, up |-> up] OBVIOUS
<1>2. x # Shut BY <1>1 DEF Shut, Ups
<1>3. os' = [os EXCEPT ![n] = x] BY <1>1 DEF Opened
<1>4. \A m \in Fd : os'[m] = os[m] \/ os'[m] = x BY <1>3, Types
<1> QED BY <1>2, <1>4, KeptOpen

LEMMA ServicesClose == ASSUME SocketInv, NEW a \in Svc, ServiceStepOf(a) PROVE CloseOK
<1>1. ASSUME os' = os PROVE CloseOK BY <1>1, KeptOpen
<1>2. CASE \E t \in {"C", "L"} : BeginOpen(a, t) BY <1>1, <1>2 DEF BeginOpen
<1>3. ASSUME NEW n \in Fd, Connect(a, n) PROVE CloseOK
  <2>1. Opened(n, caller[a].id, "no") BY <1>3 DEF Connect
  <2> QED BY <2>1, OpenedCloses DEF Ups
<1>4. ASSUME NEW n \in Fd, Udp(a, n) PROVE CloseOK
  <2>1. Opened(n, a, "udp") BY <1>4 DEF Udp
  <2> QED BY <2>1, OpenedCloses
<1>5. ASSUME NEW n \in Fd, NEW up \in {"listening", "no"}, Listen(a, n, up) PROVE CloseOK
  <2>1. Opened(n, caller[a].id, up) BY <1>5 DEF Listen
  <2>2. up \in Ups \cup {"udp"} BY DEF Ups
  <2> QED BY <2>1, <2>2, OpenedCloses
<1>6. CASE \E t \in {"s", "a", "k"}, id \in 1..MaxAlloc : Call(a, t, id) BY <1>1, <1>6 DEF Call
<1>7. CASE \E id \in 1..MaxAlloc : CheckSend(a, id) BY <1>1, <1>7 DEF CheckSend
<1>8. CASE SendData(a) \/ UdpSend(a) BY <1>1, <1>8 DEF SendData, UdpSend
<1> QED BY <1>2, <1>3, <1>4, <1>5, <1>6, <1>7, <1>8 DEF ServiceStepOf

LEMMA CompleteCloses == ASSUME SocketInv, NEW r \in kernel, NEW ok \in BOOLEAN, Complete(r, ok) PROVE CloseOK
<1>1. CASE r.type = "A" /\ ok
  <2>1. PICK n \in Free : os' = [os EXCEPT ![n] = Client] BY <1>1 DEF Complete
  <2>2. Client # Shut BY DEF Client, Shut
  <2>3. \A m \in Fd : os'[m] = os[m] \/ os'[m] = Client BY <2>1, Types
  <2> QED BY <2>2, <2>3, KeptOpen
<1>2. CASE ~(r.type = "A" /\ ok)
  <2>1. os' = os \/ os' = [os EXCEPT ![r.fd].up = "connected"] BY <1>2 DEF Complete
  <2>2. CASE os' = os BY <2>2, KeptOpen
  <2>3. CASE os' = [os EXCEPT ![r.fd].up = "connected"]
    <3>1. PICK x : x = [os[r.fd] EXCEPT !.up = "connected"] OBVIOUS
    <3>2. os' = [os EXCEPT ![r.fd] = x] BY <2>3, <3>1, Types
    <3>3. \A m \in Fd : os'[m] = os[m] \/ (m = r.fd /\ os'[m] = x) BY <3>2, Types
    <3>4. r.fd \in Fd => x # Shut
      <4>1. ASSUME r.fd \in Fd PROVE x.up = "connected"
        <5>1. os[r.fd] \in Number BY <4>1, Types
        <5> QED BY <3>1, <5>1 DEF Number
      <4> QED BY <4>1 DEF Shut
    <3> QED BY <3>3, <3>4, KeptOpen
  <2> QED BY <2>1, <2>2, <2>3
<1> QED BY <1>1, <1>2

LEMMA StepCloses == ASSUME SocketInv, [SocketNext]_socketVars PROVE CloseOK
<1>0. ASSUME os' = os PROVE CloseOK BY <1>0, KeptOpen
<1>1. CASE UNCHANGED socketVars BY <1>0, <1>1 DEF socketVars
<1>2. CASE SocketThread
  <2>1. CASE PollFailed \/ PollSendFailed BY <2>1, FailedCloses
  <2>2. CASE CloseFd BY <2>2, CloseFdCloses
  <2>3. CASE \E t \in {"f", "t"} : PollDatagramFailed(t) BY <2>3, DatagramCloses
  <2>4. CASE \/ PollConnect \/ PollStart \/ PollData \/ PollSent \/ PollAccept \/ PollClient
             \/ PollAcceptFailed \/ PollClose \/ PollDatagram
    BY <2>4, OtherPolls
  <2>5. CASE NewClient
    <3>1. Opened(Head(port).fd, caller[Io].id, "connected") \/ os' = os BY <2>5 DEF NewClient
    <3>2. "connected" \in Ups \cup {"udp"} BY DEF Ups
    <3> QED BY <1>0, <3>1, <3>2, OpenedCloses
  <2> QED BY <1>2, <2>1, <2>2, <2>3, <2>4, <2>5 DEF SocketThread
<1>3. CASE \E c \in Threads : StoreId(c) BY <1>0, <1>3 DEF StoreId
<1>4. CASE \E a \in Svc : ServiceStepOf(a) BY <1>4, ServicesClose
<1>5. CASE \E r \in kernel, ok \in BOOLEAN : Complete(r, ok) BY <1>5, CompleteCloses
<1> QED BY <1>1, <1>2, <1>3, <1>4, <1>5, NextCases

\* A socket is closed for its own sake, and then its owner is told; another is
\* closed by a late request only when a number is closed twice, when its slot
\* was taken again, or by the number that equals the id of a failed send.
THEOREM ForeignCloseIsSecondAlways == SocketSpec => ForeignCloseIsSecond
<1>1. SocketInv /\ [SocketNext]_socketVars => [CloseOK]_socketVars BY StepCloses
<1> QED BY <1>1, SocketInvariant, PTL DEF SocketSpec, ForeignCloseIsSecond, CloseOK, ClosedRightly
=============================================================================
