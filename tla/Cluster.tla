------------------------------ MODULE Cluster ------------------------------
(***************************************************************************)
(* The packages of the cluster (lua-cluster.c).  A message longer than     *)
(* MULTI_PART travels in parts, which packages of other messages may come  *)
(* between.  The bytes of a message are abstracted to intervals of it: a   *)
(* body is the message it is cut from, where it begins and its length.     *)
(* Lengths are those of the code, nothing is scaled down; len is what the  *)
(* first word of a package says, the length of what follows.               *)
(***************************************************************************)
EXTENDS Integers, Sequences, SequencesExt

TEMP_LENGTH == 33280
MULTI_PART == 32768
IntMax == 2147483647

Body(m, from, len) == [m |-> m, from |-> from, len |-> len]
NoBody == Body(0, 0, 0)
NoAddr == [name |-> FALSE, len |-> 0, id |-> 0]
Error == [ok |-> FALSE]

Parts(sz) == (sz - 1) \div MULTI_PART + 1

\* fill_header, fill_uint32: the fields of a package.
Pack(len, kind, addr, session, size, body) ==
    [len |-> len, kind |-> kind, addr |-> addr, session |-> session, size |-> size, body |-> body]

\* Mutant: the last part is as long as the others.
Split_Whole(m, sz, more, end, session) ==
    [i \in 1..Parts(sz) |->
        Pack(MULTI_PART + 5, IF i < Parts(sz) THEN more ELSE end, NoAddr, session, 0,
             Body(m, (i - 1) * MULTI_PART, MULTI_PART))]

\* packreq_multi and the loop of lpackresponse
Split(m, sz, more, end, session) ==
    [i \in 1..Parts(sz) |->
        LET from == (i - 1) * MULTI_PART
            last == sz - from <= MULTI_PART
            s == IF last THEN sz - from ELSE MULTI_PART
        IN  Pack(s + 5, IF last THEN end ELSE more, NoAddr, session, 0, Body(m, from, s))]

\* Mutant: what fits the buffer by itself is sent in one package.
PackReq_Large(address, session, m, sz, push) ==
    LET fixed == IF address.name THEN address.len + 2 ELSE 5
        base == IF address.name THEN 128 ELSE 0
    IN  IF sz < TEMP_LENGTH
        THEN Pack(fixed + 4 + sz, base, address, IF push THEN 0 ELSE session, 0, Body(m, 0, sz))
        ELSE Pack(fixed + 8, base + IF push THEN 65 ELSE 1, address, session, sz, NoBody)

\* packreq_number, packreq_string: an address is a number or a name of 1 to 255
\* bytes.  The parts of a push need its session, a push in one package has none.
PackReq(address, session, m, sz, push) ==
    LET fixed == IF address.name THEN address.len + 2 ELSE 5
        base == IF address.name THEN 128 ELSE 0
    IN  IF sz < MULTI_PART
        THEN Pack(fixed + 4 + sz, base, address, IF push THEN 0 ELSE session, 0, Body(m, 0, sz))
        ELSE Pack(fixed + 8, base + IF push THEN 65 ELSE 1, address, session, sz, NoBody)

\* packrequest, lpackrequest, lpackpush: the packages to send.  ++session at INT_MAX
\* is not defined: the test for a negative number may be left out by a compiler.
PackRequest(address, session, m, sz, push) ==
    IF session <= 0 \/ (address.name /\ address.len \notin 1..255) THEN << >>
    ELSE <<PackReq(address, session, m, sz, push)>>
         \o IF sz < MULTI_PART THEN << >> ELSE Split(m, sz, 2, 3, session)
NextSession(session) == IF session < IntMax THEN {session + 1} ELSE {1, -IntMax - 1}

\* unpackreq_number, unpackmreq_number, unpackmreq_part, unpackreq_string,
\* unpackmreq_string: what lunpackrequest returns for a package of sz bytes.
UnpackReq(p) ==
    LET fixed == IF p.addr.name THEN p.addr.len + 2 ELSE 5 IN
    IF p.len < fixed + 4 THEN Error
    ELSE [ok |-> TRUE, addr |-> p.addr, session |-> p.session, size |-> 0, padding |-> FALSE, push |-> p.session = 0,
          msg |-> [p.body EXCEPT !.len = p.len - fixed - 4]]
UnpackMReq(p, push) ==
    LET fixed == IF p.addr.name THEN p.addr.len + 2 ELSE 5 IN
    IF IF p.addr.name THEN p.len < fixed + 8 ELSE p.len # 13 THEN Error
    ELSE [ok |-> TRUE, addr |-> p.addr, session |-> p.session, size |-> p.size, padding |-> TRUE, push |-> push, msg |-> NoBody]
UnpackMReqPart(p) ==
    IF p.len < 5 THEN Error
    ELSE [ok |-> TRUE, addr |-> NoAddr, session |-> p.session, size |-> 0, padding |-> p.kind = 2, push |-> FALSE,
          msg |-> [p.body EXCEPT !.len = p.len - 5]]
LUnpackRequest(p) ==
    CASE p.kind \in {0, 128} -> UnpackReq(p)
      [] p.kind \in {1, 129} -> UnpackMReq(p, FALSE)
      [] p.kind \in {65, 193} -> UnpackMReq(p, TRUE)
      [] p.kind \in {2, 3} -> UnpackMReqPart(p)
      [] OTHER -> Error

-----------------------------------------------------------------------------
\* lpackresponse: an error is cut, a long answer is sent in parts.
LPackResponse(session, ok, m, sz) ==
    IF ok /\ sz > MULTI_PART
    THEN <<Pack(9, 2, NoAddr, session, sz, NoBody)>> \o Split(m, sz, 3, 4, session)
    ELSE LET s == IF ~ok /\ sz > MULTI_PART THEN MULTI_PART ELSE sz IN
         <<Pack(s + 5, IF ok THEN 1 ELSE 0, NoAddr, session, 0, Body(m, 0, s))>>

\* lunpackresponse
LUnpackResponse(p) ==
    IF p.len < 5 \/ p.kind \notin 0..4 \/ (p.kind = 2 /\ p.len # 9) THEN Error
    ELSE [ok |-> TRUE, session |-> p.session, result |-> p.kind # 0, padding |-> p.kind \in {2, 3},
          size |-> p.size, msg |-> [p.body EXCEPT !.len = IF p.kind = 2 THEN 0 ELSE p.len - 5]]

\* lconcat of a size and the bodies that follow it: the whole, NoBody when the
\* sizes do not agree.  A body copied behind another one is the same interval only
\* if it goes on where the other one ended.
LConcat(size, bodies) ==
    LET total == FoldSeq(LAMBDA b, acc : b.len + acc, 0, bodies)
        joined == \A i \in DOMAIN bodies :
                      bodies[i].m = bodies[1].m
                      /\ bodies[i].from = IF i = 1 THEN 0 ELSE bodies[i - 1].from + bodies[i - 1].len
    IN  IF bodies = << >> \/ total # size THEN NoBody
        ELSE IF joined THEN Body(bodies[1].m, 0, total)
        ELSE Body(-1, 0, total)

-----------------------------------------------------------------------------
(* The two ends.  The service that reads requests is not in the repository; *)
(* it keeps what it has of each session as socketchannel.lua does for       *)
(* answers.  A collector has a record for each session with parts, and the  *)
(* messages that are whole.                                                 *)

NoParts == [size |-> 0, addr |-> NoAddr, push |-> FALSE, bodies |-> << >>]
\* external: a request is taken in.
CollectRequest(c, p) ==
    LET u == LUnpackRequest(p)
        parts == c.parts[u.session]
        set(s, v) == [c.parts EXCEPT ![s] = v]
    IN  IF ~u.ok THEN [c EXCEPT !.bad = TRUE]
        ELSE IF u.addr # NoAddr /\ u.padding
        THEN [c EXCEPT !.parts = set(u.session, [size |-> u.size, addr |-> u.addr, push |-> u.push, bodies |-> << >>])]
        ELSE IF u.addr # NoAddr
        THEN [c EXCEPT !.whole = Append(@, [addr |-> u.addr, push |-> u.push, msg |-> u.msg])]
        ELSE IF u.padding THEN [c EXCEPT !.parts[u.session].bodies = Append(@, u.msg)]
        ELSE [c EXCEPT !.parts = set(u.session, NoParts),
                       !.whole = Append(@, [addr |-> parts.addr, push |-> parts.push,
                                            msg |-> LConcat(parts.size, Append(parts.bodies, u.msg))])]
\* dispatch_by_session: an answer is taken in; the session is done when it is whole.
CollectResponse(c, p) ==
    LET u == LUnpackResponse(p)
        parts == c.parts[u.session]
        first == parts.size = 0
    IN  IF ~u.ok THEN [c EXCEPT !.bad = TRUE]
        ELSE IF u.padding /\ u.result
        THEN [c EXCEPT !.parts[u.session] = IF first THEN [@ EXCEPT !.size = u.size] ELSE [@ EXCEPT !.bodies = Append(@, u.msg)]]
        ELSE [c EXCEPT !.parts[u.session] = NoParts,
                       !.whole = Append(@, [session |-> u.session, ok |-> u.result,
                                            msg |-> IF first THEN u.msg ELSE LConcat(parts.size, Append(parts.bodies, u.msg))])]

-----------------------------------------------------------------------------
\* A package is written into a buffer on the stack and announced in two bytes.
Fits(p) == p.len < 65536 /\ p.len + 2 <= TEMP_LENGTH
=============================================================================
