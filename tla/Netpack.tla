------------------------------ MODULE Netpack ------------------------------
(***************************************************************************)
(* Packages out of the pieces that sockets deliver (lua-netpack.c).  A     *)
(* package is two bytes of size, big endian, and that many bytes.  What is *)
(* left of a piece waits in a hash of uncomplete packages, by socket;      *)
(* whole packages behind the first one of a piece go through a ring that   *)
(* grows when it is full.  mem counts the blocks that are allocated and    *)
(* neither freed nor given to Lua.                                         *)
(***************************************************************************)
EXTENDS Integers, Sequences, SequencesExt

CONSTANTS Base,       \* values of a byte of a size, 256
          QueueSize,  \* QUEUESIZE, 1024
          HashSize    \* HASHSIZE, 4096

NoPack == [id |-> 0, buffer |-> << >>]

\* get_queue: hash has the lists of uncomplete packages, queue the ring.
NewQueue == [cap |-> QueueSize, head |-> 0, tail |-> 0, hash |-> [h \in 0..HashSize - 1 |-> << >>],
             queue |-> [i \in 0..QueueSize - 1 |-> NoPack], mem |-> 0]

HashFd(fd) == (fd \div 2^24 + fd \div 2^12 + fd) % HashSize
ReadSize(hi, lo) == hi * Base + lo
From(bs, i) == SubSeq(bs, i, Len(bs))

\* lpack, write_size
LPack(data) ==
    IF Len(data) >= Base^2 THEN << >> ELSE <<Len(data) \div Base, Len(data) % Base>> \o data

\* find_uncomplete: its place in the list of the hash, 0 for none.
FindUncomplete(q, fd) == SelectInSeq(q.hash[HashFd(fd)], LAMBDA uc : uc.id = fd)
Unlink(q, fd, i) == [q EXCEPT !.hash[HashFd(fd)] = RemoveAt(@, i)]
Link(q, uc) == [q EXCEPT !.hash[HashFd(uc.id)] = <<uc>> \o @]

\* save_uncomplete: of a package whose size is known or (read = -1) half of it.
SaveUncomplete(q, uc) == [Link(q, uc) EXCEPT !.mem = @ + IF uc.read < 0 THEN 1 ELSE 2]
HalfHeader(fd, byte) == [id |-> fd, read |-> -1, header |-> byte, size |-> 0, buffer |-> << >>]
Partial(fd, size, bs) == [id |-> fd, read |-> Len(bs), header |-> 0, size |-> size, buffer |-> bs]

\* Mutant: the packages are copied as they lie in the ring.
ExpandQueue_NoTurn(q) ==
    [q EXCEPT !.cap = @ + QueueSize, !.head = 0, !.tail = q.cap,
              !.queue = [i \in 0..q.cap + QueueSize - 1 |-> IF i < q.cap THEN q.queue[i] ELSE NoPack]]

\* expand_queue
ExpandQueue(q) ==
    [q EXCEPT !.cap = @ + QueueSize, !.head = 0, !.tail = q.cap,
              !.queue = [i \in 0..q.cap + QueueSize - 1 |->
                            IF i < q.cap THEN q.queue[(q.head + i) % q.cap] ELSE NoPack]]

\* push_data: of a block that is counted in mem (clone: a new one).
PushData(q, fd, data, clone) ==
    LET pushed == [q EXCEPT !.queue[q.tail] = [id |-> fd, buffer |-> data],
                            !.tail = IF @ + 1 >= q.cap THEN @ + 1 - q.cap ELSE @ + 1,
                            !.mem = IF clone THEN @ + 1 ELSE @]
    IN  IF pushed.head = pushed.tail THEN ExpandQueue(pushed) ELSE pushed

\* push_more
RECURSIVE PushMore(_, _, _)
PushMore(q, fd, bs) ==
    IF Len(bs) = 1 THEN SaveUncomplete(q, HalfHeader(fd, bs[1]))
    ELSE LET size == ReadSize(bs[1], bs[2])
             rest == From(bs, 3)
             more == From(rest, size + 1)
             q1 == PushData(q, fd, SubSeq(rest, 1, size), TRUE)
         IN  IF Len(rest) < size THEN SaveUncomplete(q, Partial(fd, size, rest))
             ELSE IF more # << >> THEN PushMore(q1, fd, more)
             ELSE q1

\* filter_data_ with an uncomplete package: data is the package that is returned
\* at once ("data"), << >> when there is none ("more", or nothing).
Fill(q, fd, i, bs) ==
    LET old == q.hash[HashFd(fd)][i]
        half == old.read < 0
        uc == IF half THEN [Partial(fd, ReadSize(old.header, bs[1]), << >>) EXCEPT !.header = old.header] ELSE old
        data == IF half THEN Tail(bs) ELSE bs
        need == uc.size - uc.read
        q1 == [Unlink(q, fd, i) EXCEPT !.mem = IF half THEN @ + 1 ELSE @]
        whole == uc.buffer \o SubSeq(data, 1, need)
    IN  IF Len(data) < need
        THEN [q |-> Link(q1, [uc EXCEPT !.read = @ + Len(data), !.buffer = @ \o data]), data |-> << >>]
        ELSE IF Len(data) = need THEN [q |-> [q1 EXCEPT !.mem = @ - 2], data |-> <<whole>>]
        ELSE [q |-> PushMore([PushData(q1, fd, whole, FALSE) EXCEPT !.mem = @ - 1], fd, From(data, need + 1)),
              data |-> << >>]

\* filter_data_: a piece that holds exactly one package gives it at once.
FilterData(q, fd, bs) ==
    LET i == FindUncomplete(q, fd)
        size == ReadSize(bs[1], bs[2])
    IN  IF i > 0 THEN Fill(q, fd, i, bs)
        ELSE IF Len(bs) > 1 /\ size = Len(bs) - 2 THEN [q |-> q, data |-> <<From(bs, 3)>>]
        ELSE [q |-> PushMore(q, fd, bs), data |-> << >>]

\* close_uncomplete, when a socket is closed or failed.
CloseUncomplete(q, fd) ==
    LET i == FindUncomplete(q, fd) IN
    IF i = 0 THEN q
    ELSE [Unlink(q, fd, i) EXCEPT !.mem = @ - IF q.hash[HashFd(fd)][i].read < 0 THEN 1 ELSE 2]

\* lpop: << >> when there is none; the block is Lua's from now on.
LPop(q) ==
    IF q.head = q.tail THEN [q |-> q, data |-> << >>]
    ELSE [q |-> [q EXCEPT !.head = IF @ + 1 >= q.cap THEN 0 ELSE @ + 1, !.mem = @ - 1],
          data |-> <<q.queue[q.head]>>]

Ring(q) == LET n == (q.tail - q.head + q.cap) % q.cap IN [i \in 1..n |-> q.queue[(q.head + i - 1) % q.cap]]
Waiting(q) == FoldFunction(LAMBDA list, acc : list \o acc, << >>, q.hash)
Blocks(ucs) == Len(ucs) + Len(SelectSeq(ucs, LAMBDA uc : uc.read >= 0))

\* Mutant: a ring that goes around is not freed.
LClear_NoTurn(q) ==
    LET freed == Cardinality({i \in 0..q.cap : q.head <= i /\ i < q.tail})
    IN  [q EXCEPT !.hash = [h \in DOMAIN @ |-> << >>], !.head = 0, !.tail = 0,
                  !.mem = @ - freed - Blocks(Waiting(q))]

\* lclear
LClear(q) ==
    LET tail == IF q.head > q.tail THEN q.tail + q.cap ELSE q.tail
        freed == Cardinality({i \in 0..2 * q.cap : q.head <= i /\ i < tail})
    IN  [q EXCEPT !.hash = [h \in DOMAIN @ |-> << >>], !.head = 0, !.tail = 0,
                  !.mem = @ - freed - Blocks(Waiting(q))]

-----------------------------------------------------------------------------
\* The packages of a stream, and what is left of it.
RECURSIVE Packages(_)
Packages(bs) ==
    IF Len(bs) < 2 \/ Len(bs) - 2 < ReadSize(bs[1], bs[2]) THEN [whole |-> << >>, rest |-> bs]
    ELSE LET n == ReadSize(bs[1], bs[2])
             p == Packages(From(bs, n + 3))
         IN  [whole |-> <<SubSeq(bs, 3, n + 2)>> \o p.whole, rest |-> p.rest]

Of(packs, fd) == LET mine == SelectSeq(packs, LAMBDA p : p.id = fd) IN [i \in DOMAIN mine |-> mine[i].buffer]
Pick(s, is) == LET order == SetToSortSeq(is, <) IN [i \in DOMAIN order |-> s[order[i]]]

\* A socket's packages are those of its stream: given at once or through the ring,
\* each once, and in order within both; and the rest of the stream waits.
\* direct: the packages given at once; rung: those popped from the ring.
Reassembled(q, fd, stream, direct, rung) ==
    LET p == Packages(stream)
        ring == rung \o Of(Ring(q), fd)
        i == FindUncomplete(q, fd)
        uc == q.hash[HashFd(fd)][i]
    IN  /\ \E at \in SUBSET (DOMAIN p.whole) :
               direct = Pick(p.whole, at) /\ ring = Pick(p.whole, DOMAIN p.whole \ at)
        /\ p.rest = IF i = 0 THEN << >>
                    ELSE IF uc.read < 0 THEN <<uc.header>>
                    ELSE <<uc.size \div Base, uc.size % Base>> \o uc.buffer
\* Every block is in the ring, in the hash, with Lua or freed.
NothingLeaks(q) == q.mem = Len(Ring(q)) + Blocks(Waiting(q))
=============================================================================
