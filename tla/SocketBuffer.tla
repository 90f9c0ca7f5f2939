---------------------------- MODULE SocketBuffer ----------------------------
(***************************************************************************)
(* What a Lua service has received and not read (lua-socket.c): for each   *)
(* socket a list of nodes with messages, of which the first one may be     *)
(* read up to an offset.  The nodes of all sockets come from a pool that   *)
(* grows by larger and larger chunks and is never given back.              *)
(*   free   the list of free nodes (pool[1])                               *)
(*   chunks how many chunks there are, n the nodes in them                 *)
(*   msg    the message of each node, << >> for NULL                       *)
(*   sb     each socket's buffer: size, offset, list of nodes              *)
(***************************************************************************)
EXTENDS Integers, Sequences, FiniteSets, SequencesExt

CONSTANTS First,      \* the smallest chunk is twice this, 8 in the code
          LargePage   \* doublings of it, LARGE_PAGE_NODE - 3

\* lnewbuffer for each socket.
NewPool(Socket) ==
    [free |-> << >>, chunks |-> 0, n |-> 0, msg |-> << >>,
     sb |-> [s \in Socket |-> [size |-> 0, offset |-> 0, list |-> << >>]]]

Least(a, b) == IF a <= b THEN a ELSE b
\* lnewpool, and the size that lpushbuffer asks for: tsz is the length of the pool
\* table, its first entry included.
LNewPool(p) ==
    LET tsz == p.chunks + 1
        size == First * 2^Least(tsz, LargePage)
    IN  [p EXCEPT !.chunks = @ + 1, !.n = @ + size, !.msg = @ \o [i \in 1..size |-> << >>],
                  !.free = [i \in 1..size |-> p.n + i]]

\* lpushbuffer
LPushBuffer(p, s, msg) ==
    LET p1 == IF p.free = << >> THEN LNewPool(p) ELSE p
        node == Head(p1.free)
    IN  [p1 EXCEPT !.free = Tail(@), !.msg[node] = msg,
                   !.sb[s].list = Append(@, node), !.sb[s].size = @ + Len(msg)]

\* Mutant: the head of the free list is not stored again.
ReturnFreeNode_Lost(p, s) ==
    LET node == Head(p.sb[s].list) IN
    [p EXCEPT !.sb[s].offset = 0, !.sb[s].list = Tail(@), !.msg[node] = << >>]

\* return_free_node
ReturnFreeNode(p, s) ==
    LET node == Head(p.sb[s].list) IN
    [p EXCEPT !.sb[s].offset = 0, !.sb[s].list = Tail(@), !.free = <<node>> \o @, !.msg[node] = << >>]

Unread(p, s) ==
    LET b == p.sb[s] IN
    [i \in 1..Len(b.list) |-> IF i = 1 THEN SubSeq(p.msg[b.list[i]], b.offset + 1, Len(p.msg[b.list[i]]))
                              ELSE p.msg[b.list[i]]]
First1(bs, n) == SubSeq(bs, 1, n)

\* pop_lstring: sz bytes, the last skip of them left out of the string.
RECURSIVE PopLString(_, _, _, _)
PopLString(p, s, sz, skip) ==
    LET cur == Unread(p, s)[1]
        bytes == Len(cur)
        real == sz - skip
    IN  IF bytes > sz THEN [p |-> [p EXCEPT !.sb[s].offset = @ + sz], str |-> First1(cur, real)]
        ELSE IF bytes = sz THEN [p |-> ReturnFreeNode(p, s), str |-> First1(cur, real)]
        ELSE LET r == PopLString(ReturnFreeNode(p, s), s, sz - bytes, skip) IN
             [r EXCEPT !.str = First1(cur, IF real > bytes THEN bytes ELSE real) \o @]

\* lpopbuffer: got is << >> for nil.
LPopBuffer(p, s, sz) ==
    IF p.sb[s].size < sz \/ sz = 0 THEN [p |-> p, got |-> << >>]
    ELSE LET r == PopLString(p, s, sz, 0) IN [p |-> [r.p EXCEPT !.sb[s].size = @ - sz], got |-> <<r.str>>]

RECURSIVE ReturnAll(_, _)
ReturnAll(p, s) == IF p.sb[s].list = << >> THEN p ELSE ReturnAll(ReturnFreeNode(p, s), s)
\* lclearbuffer
LClearBuffer(p, s) == [ReturnAll(p, s) EXCEPT !.sb[s].size = 0]
\* lreadall
LReadAll(p, s) == [p |-> LClearBuffer(p, s), got |-> <<FlattenSeq(Unread(p, s))>>]

\* Mutant: a separator that begins in a node must end in it.
CheckSep_OneNode(nodes, from, sep) ==
    LET sz == Len(nodes[1]) - from IN sz >= Len(sep) /\ SubSeq(nodes[1], from + 1, from + Len(sep)) = sep

\* check_sep: the separator may go on in the nodes that follow.
RECURSIVE CheckSep(_, _, _)
CheckSep(nodes, from, sep) ==
    LET sz == Len(nodes[1]) - from
        here == SubSeq(nodes[1], from + 1, from + Least(sz, Len(sep)))
    IN  /\ here = SubSeq(sep, 1, Len(here))
        /\ sz < Len(sep) => CheckSep(Tail(nodes), 0, SubSeq(sep, sz + 1, Len(sep)))

\* lreadline: i bytes are before the place that is looked at, at from of the first
\* of the nodes.  Nothing without the separator.
RECURSIVE FindSep(_, _, _, _, _)
FindSep(nodes, from, i, last, sep) ==
    IF i > last \/ nodes = << >> THEN -1
    ELSE IF CheckSep(nodes, from, sep) THEN i
    ELSE IF from + 1 = Len(nodes[1]) THEN FindSep(Tail(nodes), 0, i + 1, last, sep)
    ELSE FindSep(nodes, from + 1, i + 1, last, sep)
LineEnd(p, s, sep) == FindSep(Unread(p, s), 0, 0, p.sb[s].size - Len(sep), sep)
\* lreadline without a pool only looks.
LCheckLine(p, s, sep) == LineEnd(p, s, sep) >= 0
LReadLine(p, s, sep) ==
    LET i == LineEnd(p, s, sep)
        n == i + Len(sep)
    IN  IF i < 0 THEN [p |-> p, got |-> << >>]
        ELSE LET r == PopLString(p, s, n, Len(sep)) IN
             [p |-> [r.p EXCEPT !.sb[s].size = @ - n], got |-> <<r.str>>]

-----------------------------------------------------------------------------
\* What is unread is what was pushed and not taken, and size says how much it is.
Holds(p, s, bs) == FlattenSeq(Unread(p, s)) = bs /\ p.sb[s].size = Len(bs)
\* Every node is free or in one buffer, once; the free ones hold no message.
NodesKept(p) ==
    LET used == FoldFunction(LAMBDA b, acc : b.list \o acc, << >>, p.sb)
        all == p.free \o used
    IN  /\ Len(all) = p.n /\ ToSet(all) = 1..p.n
        /\ \A i \in DOMAIN p.free : p.msg[p.free[i]] = << >>
        /\ \A i \in DOMAIN used : p.msg[used[i]] # << >>
\* The first line of bs, up to the separator.
FirstLine(bs, sep) ==
    LET at == {i \in 0..Len(bs) - Len(sep) : SubSeq(bs, i + 1, i + Len(sep)) = sep}
        i == CHOOSE j \in at : \A k \in at : j <= k
    IN  IF at = {} THEN [line |-> << >>, rest |-> bs]
        ELSE [line |-> <<SubSeq(bs, 1, i)>>, rest |-> SubSeq(bs, i + Len(sep) + 1, Len(bs))]
=============================================================================
