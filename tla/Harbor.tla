------------------------------- MODULE Harbor -------------------------------
(***************************************************************************)
(* The harbor service of one node (service_harbor.c): it sends messages of *)
(* local services to other nodes and forwards what other nodes send.       *)
(* Messages wait in a ring buffer per node until the node is connected,    *)
(* and in one per global name until the name is known.  The header of a    *)
(* message to a name gets the handle when the name is known, but not when  *)
(* the message moves to the queue of a node first.                         *)
(*                                                                         *)
(* A stream is a sequence of units instead of bytes: one unit of identity  *)
(* when we connected to the node, and for every message HeaderLen units of *)
(* its length and one or two units of content.  Sockets give fresh         *)
(* numbers to connections.  A service handles one message at a time, so an *)
(* action is the handling of one message.                                  *)
(***************************************************************************)
EXTENDS Integers, Sequences, SequencesExt, FiniteSets

CONSTANTS Self,       \* h->id
          Node,       \* ids of other nodes
          Name,       \* global names
          HeaderLen,  \* units of a length, 4 bytes in the code
          Sizes,      \* the sizes of messages in units, which nodes send in turn
          QueueSize,  \* DEFAULT_QUEUE_SIZE
          MaxMsg,     \* bound: messages of local services
          MaxConn,    \* bound: connections
          MaxIn       \* bound: messages a node sends over a connection

ASSUME HarborAssumption ==
    /\ Self \notin Node /\ 0 \notin Node \cup {Self} /\ Node \cap Name = {}
    /\ HeaderLen \in Nat \ {0} /\ QueueSize \in Nat \ {0}
    /\ Sizes \in Seq(Nat \ {0}) /\ Sizes # << >>
    /\ MaxMsg \in Nat /\ MaxConn \in Nat /\ MaxIn \in Nat

VARIABLES slave,    \* h->s
          names,    \* h->map: the node of the handle of a name, 0 if unknown, and its queue
          inbox,    \* messages of local services to the harbor, PTYPE_SYSTEM
          dests,    \* the destinations of all messages of local services so far
          conn,     \* the connections, by socket id
          nconn,    \* connections so far
          toSlave,  \* what was sent to the cslave service: <<"D", id>>, <<"Q", name>>
          local,    \* messages handed to local services
          crashed,  \* the connection for which memcpy got a negative length, 0: none
          blank,    \* messages whose header.destination holds no handle
          merged,   \* history: messages that moved from the queue of a name to that of a node
          dropped   \* history: messages freed unsent, their node being down

fates == <<blank, merged, dropped>>
harborVars == <<slave, names, inbox, dests, conn, nconn, toSlave, local, crashed, fates>>

-----------------------------------------------------------------------------

NULL == [size |-> 0, head |-> 0, tail |-> 0, data |-> << >>]

\* new_queue
NewQueue == [size |-> QueueSize, head |-> 0, tail |-> 0,
             data |-> [i \in 0..(QueueSize - 1) |-> 0]]

\* The messages of a ring, oldest first.
Contents(q) == IF q = NULL THEN << >>
               ELSE [i \in 1..((q.tail - q.head) % q.size) |-> q.data[(q.head + i - 1) % q.size]]

\* Mutant: the index does not wrap.
After_Unwrapped(i, q) == i + 1

\* The cell after cell i.
After(i, q) == (i + 1) % q.size

\* push_queue_msg: the larger buffer starts with the oldest message.
Grown(q) ==
    [size |-> 2 * q.size, head |-> 0, tail |-> q.size - 1,
     data |-> [i \in 0..(2 * q.size - 1) |->
                 IF i < q.size - 1 THEN q.data[(i + q.head) % q.size] ELSE 0]]

\* push_queue_msg: one free cell tells full from empty.
PushQueueMsg(q, m) ==
    LET r == IF After(q.tail, q) = q.head THEN Grown(q) ELSE q
    IN  [r EXCEPT !.data[r.tail] = m, !.tail = After(r.tail, r)]

PushQueue(q, m) == PushQueueMsg(IF q = NULL THEN NewQueue ELSE q, m)

-----------------------------------------------------------------------------

\* The units of message m of a node on the wire.
Size(m) == Sizes[1 + (m % Len(Sizes))]
Header(m) == [i \in 1..HeaderLen |-> <<"len", m, i>>]
Body(m) == [i \in 1..Size(m) |-> <<"body", m, i>>]
Frame(m) == Header(m) \o Body(m)

\* The last j messages of the k a node sends.
LastFrames(k) ==
    LET last[j \in 0..k] == IF j = 0 THEN << >> ELSE Frame(k + 1 - j) \o last[j - 1] IN last

\* The message whose length stands in a header, 0 for bytes that are none.
HeaderOf(u) == IF \E m \in 1..MaxIn : u = Header(m) THEN u[1][2] ELSE 0

\* hash_search, hash_insert: the entry of a name; one is made when it is missing.
Entry(n) == names[n]

\* harbor_id: the slave with socket fd; sockets of nobody are not ours.
Owns(id, fd) == slave[id].fd = fd

\* send_remote: hand messages to the socket, which may be closed.  A node whose
\* connection has broken has fd -1: they go nowhere.
Send(c, fd, ms) == IF fd > 0 THEN [c EXCEPT ![fd].out = @ \o ms] ELSE c
Unsent(fd, ms) == IF fd > 0 THEN {} ELSE ToSet(ms)

\* Mutant: the handle is not filled in.
Addressed_Never(b, ms) == b

\* dispatch_name_queue: header.destination |= handle & HANDLE_MASK.
Addressed(b, ms) == b \ ToSet(ms)

\* Mutant: the queue is released unsent.
DispatchQueue_Frees(q) == << >>

\* dispatch_queue: the messages it sends.
DispatchQueue(q) == Contents(q)

Closed(s) == [s EXCEPT !.status = "down", !.queue = NULL]

\* Mutant: the bytes that were read still count.
NewFrame_Kept(s, len) == [s EXCEPT !.status = "content", !.length = len]

\* The header is complete: the content starts with nothing read.
NewFrame(s, len) == [s EXCEPT !.status = "content", !.length = len, !.got = << >>]

\* Mutant: the queue is not sent when the node has identified itself.
Connected_Silent(s) == [s EXCEPT !.status = "header"]

\* dispatch_queue has sent the queue and released it.
Connected(s) == [s EXCEPT !.status = "header", !.queue = NULL]

\* The loop of push_socket_data as it starts: the slave of the socket, the units
\* to read, whether it goes on, the messages sent from the queue of the slave
\* and those forwarded, and whether memcpy was called with a negative length.
Start(s, buf) == [s |-> s, buf |-> buf, on |-> TRUE, sent |-> << >>, fwd |-> << >>, crash |-> FALSE]

\* What is missing of the header or of the content.
Need(s) == (IF s.status = "header" THEN HeaderLen ELSE s.length) - Len(s.got)

\* One round of the loop, for the slave of node id.
Round(a, id) ==
    LET s == a.s
        need == Need(s)
        all == s.got \o SubSeq(a.buf, 1, need)
        rest == SubSeq(a.buf, need + 1, Len(a.buf))
    IN
    CASE s.status = "handshake" ->
           IF a.buf[1] # <<"id", id>> THEN [a EXCEPT !.s = Closed(s), !.on = FALSE]
           ELSE [a EXCEPT !.s = Connected(s), !.buf = Tail(@), !.sent = DispatchQueue(s.queue)]
      [] s.status \in {"header", "content"} /\ need < 0 -> [a EXCEPT !.crash = TRUE, !.on = FALSE]
      [] s.status \in {"header", "content"} /\ Len(a.buf) < need ->
           [a EXCEPT !.s.got = @ \o a.buf, !.on = FALSE]
      [] s.status = "header" /\ need \in 0..Len(a.buf) ->
           IF HeaderOf(all) = 0 THEN [a EXCEPT !.s = Closed(s), !.on = FALSE]
           ELSE [a EXCEPT !.s = NewFrame(s, Size(HeaderOf(all))), !.buf = rest, !.on = rest # << >>]
      [] s.status = "content" /\ need \in 0..Len(a.buf) ->
           [a EXCEPT !.s = [s EXCEPT !.status = "header", !.length = 0, !.got = << >>],
                     !.fwd = Append(@, all), !.buf = rest, !.on = rest # << >>]
      [] OTHER -> [a EXCEPT !.on = FALSE]

\* push_socket_data: a round that does not end the loop reads a unit, but for one
\* at most, so that these are enough.
PushSocketData(s, id, buf) ==
    LET n == 2 * Len(buf) + 1
        run[i \in 0..n] == IF i = 0 THEN Start(s, buf)
                           ELSE LET a == run[i - 1] IN IF a.on THEN Round(a, id) ELSE a
    IN  run[n]

-----------------------------------------------------------------------------

\* harbor_create, harbor_init
HarborInit ==
    /\ slave = [id \in Node \cup {Self} |->
                  [fd |-> 0, status |-> "wait", queue |-> NULL, length |-> 0, got |-> << >>]]
    /\ names = [n \in Name |-> [value |-> 0, queue |-> NULL]]
    /\ inbox = << >> /\ dests = << >>
    /\ conn = [fd \in 1..MaxConn |->
                 [node |-> 0, in |-> << >>, out |-> << >>, fwd |-> << >>, clean |-> TRUE]]
    /\ nconn = 0 /\ toSlave = << >> /\ local = << >> /\ crashed = 0
    /\ blank = {} /\ merged = {} /\ dropped = {}

\* Messages to ds are sent to the harbor service: ztask_send, ztask_sendname
\* and ztask_harbor_send.  A message is its number.
ToHarbor(ds) ==
    /\ Len(dests) + Len(ds) <= MaxMsg
    /\ dests' = dests \o ds
    /\ inbox' = inbox \o [i \in DOMAIN ds |-> [m |-> Len(dests) + i, dest |-> ds[i]]]

\* A local service sends to a handle of a node or to a name.
LocalSend(dest) ==
    /\ ToHarbor(<<dest>>)
    /\ UNCHANGED <<slave, names, conn, nconn, toSlave, local, crashed, fates>>

\* Mutant: only the socket is asked for.
MustWait_Socket(s) == s.fd = 0

\* Messages wait while there is no socket or the node has not identified itself.
MustWait(s) == s.fd = 0 \/ s.status = "handshake"

\* remote_send_handle, with what happens to the queue of the node.
RemoteSendHandle(m, id) ==
    LET s == slave[id] IN
    IF id = Self
    THEN local' = Append(local, m) /\ UNCHANGED <<slave, conn, dropped>>
    ELSE IF MustWait(s) /\ s.status = "down"
    THEN dropped' = dropped \cup {m} /\ UNCHANGED <<slave, conn, local>>
    ELSE IF MustWait(s)
    THEN /\ slave' = [slave EXCEPT ![id].queue = PushQueue(@, m)]
         /\ UNCHANGED <<conn, local, dropped>>
    ELSE /\ conn' = Send(conn, s.fd, <<m>>)
         /\ dropped' = dropped \cup Unsent(s.fd, <<m>>)
         /\ UNCHANGED <<slave, local>>

\* mainloop, PTYPE_SYSTEM, to a handle or to a name that is known.
RemoteOut ==
    /\ inbox # << >>
    /\ LET r == Head(inbox)
           id == IF r.dest \in Name THEN Entry(r.dest).value ELSE r.dest
       IN  id # 0 /\ RemoteSendHandle(r.m, id)
    /\ inbox' = Tail(inbox)
    /\ UNCHANGED <<names, dests, nconn, toSlave, crashed, blank, merged>>

\* remote_send_name: the name is not known; queue the message, with the type
\* but no handle in its header, and ask.
QueryName ==
    /\ inbox # << >>
    /\ LET r == Head(inbox) IN
       /\ r.dest \in Name /\ Entry(r.dest).value = 0
       /\ names' = [names EXCEPT ![r.dest].queue = PushQueue(@, r.m)]
       /\ toSlave' = Append(toSlave, <<"Q", r.dest>>)
       /\ blank' = blank \cup {r.m}
    /\ inbox' = Tail(inbox)
    /\ UNCHANGED <<slave, dests, conn, nconn, local, crashed, merged, dropped>>

\* dispatch_name_queue: the messages of the name follow those of the node.
Merged(sq, nq) ==
    LET ms == Contents(nq)
        run[i \in 0..Len(ms)] == IF i = 0 THEN sq ELSE PushQueueMsg(run[i - 1], ms[i])
    IN  IF sq = NULL THEN nq ELSE run[Len(ms)]

\* harbor_command N, update_name, dispatch_name_queue: name n is a handle of
\* node id.  Its queue goes to the socket of the node, even before the node
\* has identified itself, or, with headers as they are, to the queue of the
\* node; messages for this node are delivered to the handle.
UpdateName(n, id) ==
    LET q == Entry(n).queue
        ms == Contents(q)
        s == slave[id]
    IN
    /\ names' = [names EXCEPT ![n] = [value |-> id, queue |-> NULL]]
    /\ IF q = NULL THEN UNCHANGED <<slave, conn, local, fates>>
       ELSE IF s.fd # 0
       THEN /\ conn' = Send(conn, s.fd, ms)
            /\ blank' = Addressed(blank, ms)
            /\ dropped' = dropped \cup Unsent(s.fd, ms)
            /\ UNCHANGED <<slave, local, merged>>
       ELSE IF s.status = "down"
       THEN dropped' = dropped \cup ToSet(ms) /\ UNCHANGED <<slave, conn, local, blank, merged>>
       ELSE IF id = Self
       THEN /\ local' = local \o Contents(Merged(s.queue, q))
            /\ slave' = [slave EXCEPT ![id].queue = NULL]
            /\ UNCHANGED <<conn, fates>>
       ELSE /\ slave' = [slave EXCEPT ![id].queue = Merged(@, q)]
            /\ merged' = merged \cup ToSet(ms)
            /\ UNCHANGED <<conn, local, blank, dropped>>
    /\ UNCHANGED <<inbox, dests, nconn, toSlave, crashed>>

\* harbor_command S and A: a connection to node id, made by us (S) or by the
\* node (A).  The node will send its id (S) and k messages.  What the slave
\* had read before is left as it is.
AddConnection(cmd, id, who, k) ==
    LET fd == nconn + 1
        s == [slave[id] EXCEPT !.fd = fd]
    IN
    /\ nconn < MaxConn
    /\ slave[id].fd <= 0
    /\ nconn' = fd
    /\ slave' = [slave EXCEPT ![id] = IF cmd = "S" THEN [s EXCEPT !.status = "handshake"]
                                      ELSE Connected(s)]
    /\ conn' = [conn EXCEPT ![fd] =
                  [node |-> id,
                   in |-> (IF cmd = "S" THEN <<<<"id", who>>>> ELSE << >>) \o LastFrames(k)[k],
                   out |-> IF cmd = "S" THEN << >> ELSE DispatchQueue(s.queue),
                   fwd |-> << >>, clean |-> s.got = << >>]]
    /\ UNCHANGED <<names, inbox, dests, toSlave, local, crashed, fates>>

\* close_harbor frees what has waited for node s and was not sent before.
Refused(s, r) == IF r.s.status = "down" THEN ToSet(Contents(s.queue)) \ ToSet(r.sent) ELSE {}

\* mainloop, ZTASK_SOCKET_TYPE_DATA: k units arrive at connection fd, for the
\* slave that has it; forward_local_message hands on what is complete, or
\* answers with an error when the service it is for is dead.
Data(fd, k, dead) ==
    LET c == conn[fd]
        id == c.node
        r == PushSocketData(slave[id], id, SubSeq(c.in, 1, k))
    IN
    /\ k <= Len(c.in) /\ fd <= nconn
    /\ IF Owns(id, fd)
       THEN /\ slave' = [slave EXCEPT ![id] = r.s]
            /\ conn' = [conn EXCEPT ![fd] = [c EXCEPT !.in = SubSeq(@, k + 1, Len(@)),
                                                      !.out = @ \o r.sent,
                                                      !.fwd = @ \o r.fwd]]
            /\ crashed' = IF r.crash THEN fd ELSE 0
            /\ dropped' = dropped \cup Refused(slave[id], r)
            /\ ToHarbor(IF dead THEN [i \in DOMAIN r.fwd |-> id] ELSE << >>)
       ELSE /\ conn' = [conn EXCEPT ![fd].in = SubSeq(@, k + 1, Len(@))]
            /\ UNCHANGED <<slave, crashed, inbox, dests, dropped>>
    /\ UNCHANGED <<names, nconn, toSlave, local, blank, merged>>

\* mainloop, ZTASK_SOCKET_TYPE_CLOSE and ERROR: report_harbor_down tells the
\* cslave service; the status stays as it is.
SocketClosed(fd) ==
    LET id == conn[fd].node IN
    /\ fd <= nconn /\ Owns(id, fd)
    /\ slave' = [slave EXCEPT ![id].fd = -1]
    /\ toSlave' = Append(toSlave, <<"D", id>>)
    /\ conn' = [conn EXCEPT ![fd].in = << >>]
    /\ UNCHANGED <<names, inbox, dests, nconn, local, crashed, fates>>

HarborNext ==
    /\ crashed = 0
    /\ \/ \E dest \in Node \cup Name : LocalSend(dest)
       \/ RemoteOut
       \/ QueryName
       \/ \E n \in Name, id \in Node \cup {Self} : UpdateName(n, id)
       \/ \E cmd \in {"S", "A"}, id \in Node, who \in Node \cup {Self}, k \in 1..MaxIn :
             AddConnection(cmd, id, who, k)
       \/ \E fd \in 1..MaxConn : \E k \in 1..Len(conn[fd].in), dead \in BOOLEAN : Data(fd, k, dead)
       \/ \E fd \in 1..MaxConn : SocketClosed(fd)

HarborSpec == HarborInit /\ [][HarborNext]_harborVars

-----------------------------------------------------------------------------

RingOK(q) == q = NULL \/ {q.head, q.tail} \subseteq 0..(q.size - 1)

\* Types of struct harbor; a ring has its indices in range.
HarborTypeOK ==
    /\ \A id \in Node \cup {Self} :
         /\ slave[id].fd \in -1..MaxConn
         /\ slave[id].status \in {"wait", "handshake", "header", "content", "down"}
         /\ RingOK(slave[id].queue)
    /\ \A n \in Name : names[n].value \in {0, Self} \cup Node /\ RingOK(names[n].queue)
    /\ Len(dests) <= MaxMsg /\ nconn \in 0..MaxConn /\ crashed \in 0..MaxConn

\* Messages queue up only for what is missing: a name that is known has no
\* queue, and a node whose connection is up and identified has none, in
\* whatever order names and connections became known.
NothingLeftBehind ==
    /\ \A n \in Name : names[n].value # 0 => Contents(names[n].queue) = << >>
    /\ \A id \in Node : /\ slave[id].fd > 0
                        /\ slave[id].status \in {"header", "content"}
                        => Contents(slave[id].queue) = << >>

\* Where the messages of local services are that the harbor has taken.
Places == {<<"conn", fd>> : fd \in 1..MaxConn} \cup {<<"slave", id>> : id \in Node \cup {Self}}
            \cup {<<"name", n>> : n \in Name} \cup {<<"local", 0>>}
At(p) == CASE p[1] = "conn" -> conn[p[2]].out
           [] p[1] = "slave" -> Contents(slave[p[2]].queue)
           [] p[1] = "name" -> Contents(names[p[2]].queue)
           [] OTHER -> local

\* A message is in one place at most: on one connection, once, or in one queue,
\* or delivered.
AtMostOnce ==
    \A p, q \in Places : \A i \in DOMAIN At(p), j \in DOMAIN At(q) :
        At(p)[i] = At(q)[j] => p = q /\ i = j

\* What push_socket_data forwards are the messages the node has sent over
\* this connection, whole, in order and none left out, however the stream was
\* cut into pieces; unless the connection before it broke inside a message,
\* whose beginning the slave still holds.
FramesIntact ==
    \A fd \in 1..MaxConn : conn[fd].clean =>
        /\ IsPrefix(conn[fd].fwd, [m \in 1..MaxIn |-> Body(m)])
        /\ crashed # fd

\* Messages to one handle, or to one name, leave over a connection in the
\* order in which the services sent them, also those that waited in rings
\* that were expanded, for a name and then for a node.
InOrderToNode ==
    \A fd \in 1..MaxConn : LET out == conn[fd].out IN
        \A i, j \in DOMAIN out : i < j /\ dests[out[i]] = dests[out[j]] => out[i] < out[j]

\* Every message the harbor has taken is at a place: it waits, was handed to a
\* socket or was delivered; or it was freed because its node is down.
NothingLost ==
    \A m \in 1..(Len(dests) - Len(inbox)) :
        m \in dropped \/ \E p \in Places : m \in ToSet(At(p))

\* The header of a message on a connection holds the handle it is for, also
\* when the message waited for its name; but for those that moved from the
\* queue of the name to that of the node, which go out to handle 0.
HeadersFilled ==
    \A fd \in 1..MaxConn : ToSet(conn[fd].out) \cap blank \subseteq merged

\* What services send to other nodes waits only for what is missing, is sent
\* once, and in order, with the handle it is for, and none is lost that was
\* not dropped with its node: names and connections may come, break and come
\* again in any order, and rings may expand meanwhile.
MessagesKept ==
    /\ HarborTypeOK /\ NothingLeftBehind /\ AtMostOnce /\ InOrderToNode
    /\ NothingLost /\ HeadersFilled
=============================================================================
