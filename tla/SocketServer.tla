---------------------------- MODULE SocketServer ----------------------------
(***************************************************************************)
(* The sockets of ztask_socket.c: a table of slots, ids that are handed    *)
(* out in turn, and requests on a completion port.  Services call connect, *)
(* listen, start, accept, send and close from their worker threads; the    *)
(* socket thread takes completed requests off the port and sends events to *)
(* the service that owns the socket.  Requests of the kernel point to the  *)
(* slot of their socket (sends carry its id), posted ones carry its id.    *)
(*                                                                         *)
(* The operating system is external: it gives a new socket any number that *)
(* is free, also one that a slot still holds, completes a request in       *)
(* success or failure, and fails the requests of a socket that is closed.  *)
(* Sockets made in advance for accepts get their number with the client.   *)
(***************************************************************************)
EXTENDS Integers, Sequences, SequencesExt, FiniteSets

CONSTANTS Svc,         \* services, each on one thread at a time
          Io,          \* the socket thread
          Fd,          \* the numbers of the operating system's sockets
          NoFd,        \* no number, -1 in the code
          Slots,       \* MAX_SOCKET
          MaxAlloc,    \* bound: ids handed out
          MaxPost,     \* bound: calls of the services
          Accepts      \* accept requests of a listening socket, 10 in the code

ASSUME SocketAssumption ==
    /\ Slots \in Nat \ {0} /\ MaxAlloc \in Nat /\ MaxPost \in Nat /\ Accepts \in Nat
    /\ Io \notin Svc /\ NoFd \notin Fd /\ Svc \cap Int = {}

VARIABLES allocId,   \* ss->alloc_id
          slot,      \* ss->slot
          caller,    \* a thread inside connect, listen, send, the accept of a client, or a close
          port,      \* packets on the completion port
          kernel,    \* requests the operating system works on
          os,        \* its sockets: the id or the service each is of, and its state
          udp,       \* the UDP socket that a service was given
          posts,     \* calls so far
          event,     \* the event sent last: to whom, about which socket
          lost,      \* history: an accept request ended without being made again
          raced      \* history: slots that a call with their old id has hit while they were taken

socketVars == <<allocId, slot, caller, port, kernel, os, udp, posts, event, lost, raced>>

Hash(id) == id % Slots
NoEvent == [to |-> "none", id |-> 0, type |-> "none"]
NoCall == [call |-> "none", stored |-> FALSE, id |-> 0]
Idle(c) == caller[c] = NoCall

\* A closed number, and a client that has no id yet.
Shut == [of |-> 0, up |-> "closed"]
Client == [of |-> -1, up |-> "connected"]
Free == {n \in Fd : os[n] = Shut}
Up(n, states) == n \in Fd /\ os[n].up \in states

\* A request: its type, the slot or the id it names and, as a ghost, the id of the
\* socket it was made for; the number the system works on, the service; which call
\* it goes back to and which of several it is; and how it ended.
Req(t, k, id, n, who, call) == [type |-> t, slot |-> k, rid |-> id, fd |-> n, who |-> who,
                                call |-> call, i |-> 0, ok |-> TRUE]
Post(r) == port' = Append(port, r)

\* Request r as it ends, in success or failure.
Ended(r, ok) == [r EXCEPT !.ok = ok]

\* The operating system closes a socket: its requests rs fail, in some order.
Failures(rs) == SetToSeq({Ended(r, FALSE) : r \in rs})

Alive(s, id) == s.type # "invalid" /\ s.id = id

-----------------------------------------------------------------------------

SocketInit ==
    /\ allocId = 0
    /\ slot = [k \in 0..(Slots - 1) |-> [type |-> "invalid", id |-> 0, fd |-> NoFd,
                                          owner |-> "none", start |-> FALSE, deaf |-> FALSE]]
    /\ caller = [c \in Svc \cup {Io} |-> NoCall]
    /\ port = << >> /\ kernel = {} /\ os = [n \in Fd |-> Shut]
    /\ udp = [a \in Svc |-> NoFd] /\ posts = 0 /\ event = NoEvent
    /\ lost = FALSE /\ raced = {}

\* Ids that reserve_id may return: the first whose slot is free, counting on
\* from alloc_id, within one round over the table.  Requests that point to the
\* slot and calls with its old id may still come.
Candidates == {i \in 1..Slots : slot[Hash(allocId + i)].type = "invalid"}

\* Mutant: the slot is taken without a look at its type.
Reserved_Any == IF Candidates = {} THEN 1 ELSE CHOOSE i \in Candidates : TRUE

\* The distance to the id that is reserved, 0: none is free.
Reserved == IF Candidates = {} THEN 0
            ELSE CHOOSE i \in Candidates : \A j \in Candidates : i <= j

\* reserve_id: the compare-and-swap on type takes the slot for the call t.
Take(c, t) ==
    LET id == allocId + Reserved IN
    /\ Reserved # 0
    /\ allocId' = id
    /\ slot' = [slot EXCEPT ![Hash(id)].type = "reserve"]
    /\ caller' = [caller EXCEPT ![c] = [call |-> t, stored |-> FALSE, id |-> id]]

\* reserve_id: no slot is free.
TakeNone == Reserved = 0 /\ allocId' = allocId + Slots /\ UNCHANGED <<slot, caller>>

\* ztask_socket_connect, ztask_socket_listen: reserve an id.
BeginOpen(a, t) ==
    /\ Idle(a) /\ posts < MaxPost /\ allocId + Slots <= MaxAlloc
    /\ posts' = posts + 1
    /\ Take(a, t) \/ TakeNone
    /\ UNCHANGED <<port, kernel, os, udp, event, lost, raced>>

\* Mutant: the id is read from alloc_id, which has moved on.
Stored_Next(s, id) == [s EXCEPT !.id = id + 1, !.fd = NoFd]

\* The slot with its new id.  start is not cleared.
Stored(s, id) == [s EXCEPT !.id = id, !.fd = NoFd]

\* reserve_id goes on: the slot, taken already, gets its id.
StoreId(c) ==
    LET id == caller[c].id IN
    /\ caller[c].call \in {"C", "L", "A"} /\ ~caller[c].stored
    /\ slot' = [slot EXCEPT ![Hash(id)] = Stored(@, id)]
    /\ caller' = [caller EXCEPT ![c].stored = TRUE]
    /\ UNCHANGED <<allocId, port, kernel, os, udp, posts, event, lost, raced>>

\* new_fd, which asserts that the slot is reserved: the socket with number n
\* belongs to owner.  A slot that counts as started is deaf (a ghost).
NewFd(c, n, owner) ==
    LET id == caller[c].id
        s == slot[Hash(id)]
    IN
    /\ caller[c].stored
    /\ slot' = [slot EXCEPT ![Hash(id)] = [s EXCEPT !.id = id, !.fd = n, !.owner = owner, !.deaf = s.start]]
    /\ caller' = [caller EXCEPT ![c] = NoCall]

\* The socket of id (a service for UDP) gets number n.
Opened(n, id, up) == os' = [os EXCEPT ![n] = [of |-> id, up |-> up]]

\* ztask_socket_listen goes on: its request is posted, also when the socket could
\* not be bound.
Listen(a, n, up) ==
    LET id == caller[a].id IN
    /\ caller[a].call = "L" /\ NewFd(a, n, a)
    /\ n \in Free /\ Opened(n, id, up)
    /\ Post(Req("L", Hash(id), id, NoFd, a, 0))
    /\ UNCHANGED <<allocId, kernel, udp, posts, event, lost, raced>>

\* ztask_socket_connect goes on: its request is the kernel's.
Connect(a, n) ==
    LET id == caller[a].id IN
    /\ caller[a].call = "C" /\ NewFd(a, n, a)
    /\ n \in Free /\ Opened(n, id, "no")
    /\ kernel' = kernel \cup {Req("C", Hash(id), id, n, a, 0)}
    /\ UNCHANGED <<allocId, port, udp, posts, event, lost, raced>>

\* Ids that connect, listen or an event has made known to the services.
Known == {id \in 1..allocId : \A c \in Svc \cup {Io} :
                                 caller[c].call \in {"C", "L", "A"} => caller[c].id # id}

\* ztask_socket_start, _accept, _close and _shutdown post a request with the
\* id; services may call them again, also for a socket that is gone.
Call(a, t, id) ==
    /\ Idle(a) /\ posts < MaxPost
    /\ id \in Known
    /\ posts' = posts + 1
    /\ Post(Req(t, Hash(id), id, NoFd, a, posts'))
    /\ UNCHANGED <<allocId, slot, caller, kernel, os, udp, event, lost, raced>>

\* ztask_socket_send: the id is checked.
CheckSend(a, id) ==
    /\ Idle(a) /\ posts < MaxPost
    /\ id \in Known /\ Alive(slot[Hash(id)], id)
    /\ posts' = posts + 1
    /\ caller' = [caller EXCEPT ![a] = [call |-> "S", stored |-> TRUE, id |-> id]]
    /\ UNCHANGED <<allocId, slot, port, kernel, os, udp, event, lost, raced>>

\* ztask_socket_send goes on: the data is sent over what the slot has now.
SendData(a) ==
    LET id == caller[a].id
        n == slot[Hash(id)].fd
    IN
    /\ caller[a].call = "S"
    /\ kernel' = kernel \cup (IF Up(n, {"connected"}) THEN {Req("S", Hash(id), id, n, a, posts)} ELSE {})
    /\ caller' = [caller EXCEPT ![a] = NoCall]
    /\ UNCHANGED <<allocId, slot, port, os, udp, posts, event, lost, raced>>

\* External: the operating system completes a request.  A connect makes its socket
\* connected; a client is a socket with a number of its own.
Complete(r, ok) ==
    /\ r \in kernel
    /\ kernel' = kernel \ {r}
    /\ IF r.type = "A" /\ ok
       THEN \E n \in Free : os' = [os EXCEPT ![n] = Client] /\ Post([r EXCEPT !.fd = n])
       ELSE /\ os' = IF r.type = "C" /\ ok /\ os[r.fd].up = "no"
                     THEN [os EXCEPT ![r.fd].up = "connected"] ELSE os
            /\ Post(Ended(r, ok))
    /\ UNCHANGED <<allocId, slot, caller, udp, posts, event, lost, raced>>

-----------------------------------------------------------------------------

\* ztask_socket_poll takes a packet p whose handling leaves the slots as sl,
\* adds the requests ks, closes the numbers gone and sends ev.
Handle(t, ok) == Idle(Io) /\ port # << >> /\ Head(port).type = t /\ Head(port).ok = ok
Finish(sl, ks, gone, ev) ==
    LET failed == {r \in kernel : r.fd \in gone} IN
    /\ slot' = sl
    /\ os' = [n \in Fd |-> IF n \in gone THEN Shut ELSE os[n]]
    /\ kernel' = (kernel \ failed) \cup ks
    /\ port' = Tail(port) \o Failures(failed)
    /\ event' = ev
    /\ UNCHANGED <<allocId, udp, posts>>
Poll(sl, ks, gone, ev) == Finish(sl, ks, gone, ev) /\ UNCHANGED caller

\* The event about the socket of slot k, as the slot is now.
SlotEvent(k, type) == [to |-> slot[k].owner, id |-> slot[k].id, type |-> type]

\* Connect is answered, or listen.
PollConnect ==
    /\ Handle("C", TRUE) \/ Handle("L", TRUE)
    /\ Poll(slot, {}, {}, SlotEvent(Head(port).slot, "connect"))
    /\ UNCHANGED <<lost, raced>>

\* Connect failed, or a receive, or a receive returned nothing: the number in the
\* slot is closed and the owner told; the slot stays reserved, and has the number.
PollFailed ==
    /\ Handle("C", FALSE) \/ Handle("R", FALSE)
    /\ LET k == Head(port).slot IN Poll(slot, {}, {slot[k].fd}, SlotEvent(k, "error"))
    /\ UNCHANGED <<lost, raced>>

\* Mutant: a socket that has started is started again.
MustReceive_Again(s) == TRUE

\* if (s->start)
MustReceive(s) == ~s.start

\* WSARecv, WSARecvFrom: refused unless number n is of a socket that has data.
Receive(r, n) == IF Up(n, {"connected", "udp"}) THEN {[r EXCEPT !.fd = n]} ELSE {}

\* Slot k has been taken and not got its id: a call with its old id still finds it.
BeingTaken(k) == \E c \in Svc \cup {Io} : /\ caller[c].call \in {"C", "L", "A"} /\ ~caller[c].stored
                                          /\ Hash(caller[c].id) = k
Hit(k) == raced' = IF BeingTaken(k) THEN raced \cup {k} ELSE raced

\* Start: the socket now belongs to the caller; its first receive is made,
\* unless the slot counts as started, and refused when it is not connected.
\* A socket that is gone gets no answer.
PollStart ==
    /\ Handle("s", TRUE)
    /\ LET r == Head(port)
           k == r.slot
           s == slot[k]
           ks == Receive(Req("R", k, r.rid, NoFd, "none", r.call), s.fd)
       IN
       IF ~Alive(s, r.rid) THEN Poll(slot, {}, {}, NoEvent) /\ UNCHANGED raced
       ELSE /\ Poll([slot EXCEPT ![k] = [s EXCEPT !.owner = r.who, !.start = TRUE,
                                                  !.deaf = @ \/ (~s.start /\ ks = {})]],
                    IF MustReceive(s) THEN ks ELSE {},
                    {}, [to |-> r.who, id |-> r.rid, type |-> "start"])
            /\ Hit(k)
    /\ UNCHANGED lost

\* Data arrived: it is sent to the owner and the next receive is posted; when that
\* is refused, the owner is told, with the number for an id.
PollData ==
    /\ Handle("R", TRUE)
    /\ LET r == Head(port)
           k == r.slot
           ks == Receive(r, slot[k].fd)
       IN  Poll(slot, ks, {}, IF ks # {} THEN SlotEvent(k, "data")
                              ELSE [SlotEvent(k, "error") EXCEPT !.id = slot[k].fd])
    /\ UNCHANGED <<lost, raced>>

\* Data or a datagram was sent.
PollSent ==
    /\ Handle("S", TRUE) \/ Handle("t", TRUE)
    /\ Poll(slot, {}, {}, NoEvent)
    /\ UNCHANGED <<lost, raced>>

\* A send failed, which closes the socket if it is still there.  The code falls
\* through to the failure of a datagram, which closes the number that equals the
\* id: that of any socket, or none.
PollSendFailed ==
    /\ Handle("S", FALSE)
    /\ LET r == Head(port)
           k == r.slot
       IN
       IF Alive(slot[k], r.rid)
       THEN \E n \in Fd \cup {NoFd} : Poll(slot, {}, {slot[k].fd, n}, SlotEvent(k, "error"))
       ELSE Poll(slot, {}, {}, NoEvent)
    /\ UNCHANGED <<lost, raced>>

\* post_acceptex for each i; refused unless the socket of slot k is listening.
PostAcceptEx(k, id, is, call) ==
    IF Up(slot[k].fd, {"listening"})
    THEN {[Req("A", k, id, slot[k].fd, "none", call) EXCEPT !.i = i] : i \in is}
    ELSE {}

\* Accept: the requests for clients are made.
PollAccept ==
    /\ Handle("a", TRUE)
    /\ LET r == Head(port) IN
       IF ~Alive(slot[r.slot], r.rid) THEN Poll(slot, {}, {}, NoEvent) /\ UNCHANGED raced
       ELSE /\ Poll(slot, PostAcceptEx(r.slot, r.rid, 1..Accepts, r.call), {},
                    [to |-> r.who, id |-> r.rid, type |-> "start"])
            /\ Hit(r.slot)
    /\ UNCHANGED lost

\* A client connected: an id is reserved for it; when no slot is free, nothing
\* more is done.
PollClient ==
    /\ Handle("A", TRUE) /\ allocId + Slots <= MaxAlloc
    /\ \/ Take(Io, "A") /\ UNCHANGED <<port, event, lost>>
       \/ TakeNone /\ port' = Tail(port) /\ event' = NoEvent /\ lost' = TRUE
    /\ UNCHANGED <<kernel, os, udp, posts, raced>>

\* Mutant: the request is not made again.
AcceptAgain_None(r) == {}

\* post_acceptex(pOverlapped->u.accept.ns)
AcceptAgain(r) == PostAcceptEx(r.slot, r.rid, {r.i}, r.call)

\* The client belongs to the owner of the listening socket; the request is made again.
NewClient ==
    /\ caller[Io].call = "A"
    /\ LET r == Head(port) IN
       /\ NewFd(Io, r.fd, slot[r.slot].owner)
       /\ IF os[r.fd] = Client THEN Opened(r.fd, caller[Io].id, "connected") ELSE UNCHANGED os
       /\ kernel' = kernel \cup AcceptAgain(r)
       /\ event' = SlotEvent(r.slot, "accept")
    /\ port' = Tail(port)
    /\ UNCHANGED <<allocId, udp, posts, lost, raced>>

\* The listening socket is gone, or the client; the request is not made again.
PollAcceptFailed ==
    /\ Handle("A", FALSE)
    /\ Poll(slot, {}, {}, NoEvent)
    /\ lost' = (lost \/ \E n \in Fd : os[n].of = Head(port).rid)
    /\ UNCHANGED raced

\* Mutant: the id is not compared.
CloseHits_Any(s, id) == TRUE

\* if (s->id != id) break;
CloseHits(s, id) == s.id = id

\* Close: the slot is free again, whatever its type was, and may be taken.
PollClose ==
    /\ Handle("k", TRUE)
    /\ LET r == Head(port)
           k == r.slot
       IN
       IF ~CloseHits(slot[k], r.rid) THEN Poll(slot, {}, {}, NoEvent) /\ UNCHANGED raced
       ELSE /\ slot' = [slot EXCEPT ![k].type = "invalid"]
            /\ caller' = [caller EXCEPT ![Io] = [call |-> "k", stored |-> TRUE, id |-> slot[k].id]]
            /\ Hit(k)
            /\ UNCHANGED <<allocId, port, kernel, os, udp, posts, event>>
    /\ UNCHANGED lost

\* Close goes on: the number is closed that the slot has now.
CloseFd ==
    /\ caller[Io].call = "k"
    /\ Finish(slot, {}, {slot[Head(port).slot].fd}, NoEvent)
    /\ caller' = [caller EXCEPT ![Io] = NoCall]
    /\ UNCHANGED <<lost, raced>>

-----------------------------------------------------------------------------

\* ztask_socket_udp: a UDP socket has no slot; its first receive is made.
Udp(a, n) ==
    /\ udp[a] = NoFd /\ Idle(a) /\ posts < MaxPost
    /\ n \in Free /\ Opened(n, a, "udp")
    /\ udp' = [udp EXCEPT ![a] = n]
    /\ kernel' = kernel \cup {Req("f", -1, 0, n, a, 0)}
    /\ posts' = posts + 1
    /\ UNCHANGED <<allocId, slot, caller, port, event, lost, raced>>

\* ztask_socket_udp_send: to the number, whosever it is now.
UdpSend(a) ==
    /\ udp[a] # NoFd /\ Idle(a) /\ posts < MaxPost
    /\ posts' = posts + 1
    /\ kernel' = kernel \cup Receive(Req("t", -1, 0, NoFd, a, posts'), udp[a])
    /\ UNCHANGED <<allocId, slot, caller, port, os, udp, event, lost, raced>>

\* Mutant: the request is not made again after a datagram.
NextDatagram_None(r) == {}

\* The request is made again with the same number, refused when that is closed.
NextDatagram(r) == Receive(r, r.fd)

\* A datagram came.
PollDatagram ==
    /\ Handle("f", TRUE)
    /\ LET r == Head(port)
           ks == NextDatagram(r)
       IN  Poll(slot, ks, {}, [to |-> r.who, id |-> r.fd, type |-> IF ks # {} THEN "udp" ELSE "error"])
    /\ UNCHANGED <<lost, raced>>

\* The number is closed; the service is told if it was a receive that failed.
PollDatagramFailed(t) ==
    /\ Handle(t, FALSE)
    /\ LET r == Head(port) IN
       Poll(slot, {}, {r.fd}, IF t = "t" THEN NoEvent ELSE [to |-> r.who, id |-> r.fd, type |-> "error"])
    /\ UNCHANGED <<lost, raced>>

SocketThread ==
    \/ PollConnect \/ PollFailed \/ PollStart \/ PollData \/ PollSent \/ PollSendFailed
    \/ PollAccept \/ PollClient \/ NewClient \/ PollAcceptFailed \/ PollClose \/ CloseFd
    \/ PollDatagram \/ \E t \in {"f", "t"} : PollDatagramFailed(t)

SocketNext ==
    \/ SocketThread
    \/ \E c \in Svc \cup {Io} : StoreId(c)
    \/ \E a \in Svc : \/ \E t \in {"C", "L"} : BeginOpen(a, t)
                      \/ \E n \in Fd : Connect(a, n) \/ Udp(a, n) \/ \E up \in {"listening", "no"} : Listen(a, n, up)
                      \/ \E t \in {"s", "a", "k"}, id \in 1..MaxAlloc : Call(a, t, id)
                      \/ \E id \in 1..MaxAlloc : CheckSend(a, id)
                      \/ SendData(a) \/ UdpSend(a)
    \/ \E r \in kernel, ok \in BOOLEAN : Complete(r, ok)

SocketSpec == SocketInit /\ [][SocketNext]_socketVars

-----------------------------------------------------------------------------

\* Types of struct socket_server.
SocketTypeOK ==
    /\ allocId \in 0..MaxAlloc
    /\ \A k \in 0..(Slots - 1) :
         /\ slot[k].type \in {"invalid", "reserve"}
         /\ slot[k].id \in 0..MaxAlloc /\ (slot[k].id # 0 => Hash(slot[k].id) = k)
         /\ slot[k].fd \in Fd \cup {NoFd}
    /\ posts \in 0..MaxPost

\* assert(s->type == SOCKET_TYPE_RESERVE): new_fd finds the slot reserved that
\* reserve_id took for it.
NewFdAsserted == \A c \in Svc \cup {Io} :
    caller[c].call \in {"C", "L", "A"} /\ caller[c].stored => slot[Hash(caller[c].id)].type = "reserve"

\* A service between reserve_id and the request finds its slot reserved for
\* its id, as new_fd asserts, whatever is closed, accepted or opened meanwhile;
\* unless a late call with the old id has hit the slot before it got the new one.
NewFdReserved ==
    \A c \in Svc \cup {Io} :
        LET k == Hash(caller[c].id) IN
        caller[c].call \in {"C", "L", "A"} /\ k \notin raced =>
            slot[k].type = "reserve" /\ (caller[c].stored => slot[k].id = caller[c].id)

\* The socket of slot k is open.
OwnOpen(k) == slot[k].fd \in Fd /\ os[slot[k].fd].of = slot[k].id

\* All requests.
Requests == kernel \cup {port[i] : i \in DOMAIN port}

\* Requests to receive: one at most for a slot, however often it is started
\* and handed on, so that data reaches the service in order; and while its own
\* socket is open and it counts as started there is one, unless the slot was
\* started for an earlier socket or before the socket was connected.
OneReceive ==
    \A k \in 0..(Slots - 1) :
        LET rs == {r \in kernel : r.type = "R" /\ r.slot = k}
            ps == {i \in DOMAIN port : port[i].type = "R" /\ port[i].slot = k}
        IN  /\ Cardinality(rs) + Cardinality(ps) <= 1
            /\ OwnOpen(k) /\ slot[k].start /\ ~slot[k].deaf => rs # {} \/ ps # {}

\* While a UDP socket is open it has its one receive with the system, or on the
\* port, so that datagrams go on to arrive.
OneDatagram ==
    \A a \in Svc : udp[a] # NoFd =>
        LET n == Cardinality({r \in kernel : r.type = "f" /\ r.who = a})
                 + Cardinality({i \in DOMAIN port : port[i].type = "f" /\ port[i].who = a})
        IN  n <= 1 /\ (os[udp[a]].of = a => n = 1)

\* A listening socket keeps all requests of a call of accept, so that it goes on
\* accepting, unless the table of sockets was full or an accept failed.
AcceptsKept ==
    \A k \in 0..(Slots - 1), call \in 1..MaxPost :
        LET is == {r.i : r \in {q \in Requests : /\ q.type = "A" /\ q.slot = k /\ q.call = call
                                                /\ q.rid = slot[k].id}}
        IN  is # {} /\ OwnOpen(k) /\ ~lost => is = 1..Accepts

\* Every socket has the requests it needs, neither more nor fewer, and every slot
\* is the socket's it was reserved for, over all interleavings of the services,
\* the socket thread and the system, with numbers that are given out again.
RequestsKept == SocketTypeOK /\ NewFdReserved /\ OneReceive /\ AcceptsKept /\ OneDatagram

\* The socket that request r was made for is closed, but its slot, or the
\* service, still has the number.
ClosedBefore(r) == /\ r.type \in {"f", "t"} \/ slot[r.slot].id = r.rid
                   /\ \A n \in Fd : os[n].of # IF r.type \in {"f", "t"} THEN r.who ELSE r.rid

\* The slot that request r points to has been taken again since; for a close,
\* since the id was compared.
TakenAgain(r) == \/ r.type \in {"C", "R"} /\ slot[r.slot].id # r.rid
                 \/ r.type = "k" /\ slot[r.slot].id # caller[Io].id

\* A socket is closed by a close of its id or by a request of its own that
\* failed, and then the service that owns it now is told.  It is closed by
\* another only when the number of that other is closed a second time, when the
\* other's slot was taken again before its request was served, or when its
\* number equals the id of a send that failed: a send or a close that comes late
\* never closes it for having the slot.
ForeignCloseIsSecond ==
    [][\A n \in Fd : os[n] # Shut /\ os'[n] = Shut =>
          LET r == Head(port) IN
          \/ /\ os[n].of = IF r.type \in {"f", "t"} THEN r.who ELSE r.rid
             /\ r.type \in {"C", "R", "S"} => event' = SlotEvent(r.slot, "error")
          \/ ClosedBefore(r)
          \/ TakenAgain(r)
          \/ r.type = "S" /\ n # slot[r.slot].fd]_socketVars
=============================================================================
