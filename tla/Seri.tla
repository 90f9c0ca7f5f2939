-------------------------------- MODULE Seri --------------------------------
(***************************************************************************)
(* The serialization of Lua values in messages (lua-seri.c).  A value is a *)
(* tuple with its type first; a table is its array part and its other      *)
(* pairs in the order of lua_next.  Numbers keep their widths, in bytes of *)
(* base Base: one, two, four and eight of them, signed for four and eight. *)
(***************************************************************************)
EXTENDS Integers, Sequences, SequencesExt

CONSTANTS Base,       \* values of a byte, 256
          MaxCookie,  \* MAX_COOKIE, 32
          BlockSize,  \* BLOCK_SIZE, 128
          MaxDepth    \* MAX_DEPTH, 32

NIL == 0
BOOLEANS == 1
NUMBER == 2
USERDATA == 3
SHORT == 4
LONG == 5
TABLE == 6
REAL == 8

Error == <<-1>>
Invalid == <<<<"invalid">>>>
CombineType(t, v) == t + 8 * v

\* The n bytes of a number, least significant first, and back.
Bytes(v, n) == [i \in 1..n |-> ((v % Base^n) \div Base^(i - 1)) % Base]
Unsigned(bs) == FoldRight(LAMBDA b, acc : b + Base * acc, bs, 0)
Signed(bs) == LET u == Unsigned(bs) IN IF 2 * u >= Base^Len(bs) THEN u - Base^Len(bs) ELSE u
Fits32(v) == -(Base^4 \div 2) <= v /\ v < Base^4 \div 2

-----------------------------------------------------------------------------
\* Writing

\* wb_push: bytes go into a chain of blocks; ptr is the place in the last one.
RECURSIVE WbPush(_, _)
WbPush(wb, bs) ==
    LET b == IF wb.ptr = BlockSize THEN [wb EXCEPT !.blocks = Append(@, << >>), !.ptr = 0] ELSE wb
        n == Len(b.blocks)
        copy == BlockSize - b.ptr
    IN  IF b.ptr <= BlockSize - Len(bs)
        THEN [b EXCEPT !.blocks[n] = @ \o bs, !.ptr = @ + Len(bs), !.len = @ + Len(bs)]
        ELSE WbPush([b EXCEPT !.blocks[n] = @ \o SubSeq(bs, 1, copy), !.ptr = BlockSize,
                              !.len = @ + copy],
                    SubSeq(bs, copy + 1, Len(bs)))

Head1(t, v) == <<CombineType(t, v)>>

\* Mutant: the test for a word is off by one.
WbInteger_Word(v) ==
    IF v = 0 THEN Head1(NUMBER, 0)
    ELSE IF ~Fits32(v) THEN Head1(NUMBER, 6) \o Bytes(v, 8)
    ELSE IF v < 0 THEN Head1(NUMBER, 4) \o Bytes(v, 4)
    ELSE IF v <= Base THEN Head1(NUMBER, 1) \o Bytes(v, 1)
    ELSE IF v < Base^2 THEN Head1(NUMBER, 2) \o Bytes(v, 2)
    ELSE Head1(NUMBER, 4) \o Bytes(v, 4)

\* wb_integer: in the shortest width that has it.
WbInteger(v) ==
    IF v = 0 THEN Head1(NUMBER, 0)
    ELSE IF ~Fits32(v) THEN Head1(NUMBER, 6) \o Bytes(v, 8)
    ELSE IF v < 0 THEN Head1(NUMBER, 4) \o Bytes(v, 4)
    ELSE IF v < Base THEN Head1(NUMBER, 1) \o Bytes(v, 1)
    ELSE IF v < Base^2 THEN Head1(NUMBER, 2) \o Bytes(v, 2)
    ELSE Head1(NUMBER, 4) \o Bytes(v, 4)

\* wb_string
WbString(s) ==
    IF Len(s) < MaxCookie THEN Head1(SHORT, Len(s)) \o s
    ELSE IF Len(s) < Base^2 THEN Head1(LONG, 2) \o Bytes(Len(s), 2) \o s
    ELSE Head1(LONG, 4) \o Bytes(Len(s), 4) \o s

\* The pieces that pack_one pushes for a value, Error for a table too deep.
\* wb_table_array, wb_table_hash: the array with its size in the head or after
\* it, then the pairs that are not in the array, then nil.  wb_table_metapairs:
\* a table with __pairs is written as pairs only.
RECURSIVE PackOne(_, _)
PackOne(v, depth) ==
    LET All(vs) == FlattenSeq([i \in DOMAIN vs |-> PackOne(vs[i], depth + 1)])
        Pairs(ps) == All(FlattenSeq(ps))
        n == Len(v[2])
        size == IF n >= MaxCookie - 1 THEN <<Head1(TABLE, MaxCookie - 1), WbInteger(n)>>
                ELSE <<Head1(TABLE, n)>>
    IN
    IF depth > MaxDepth THEN <<Error>>
    ELSE CASE v[1] = "nil" -> <<Head1(NIL, 0)>>
           [] v[1] = "bool" -> <<Head1(BOOLEANS, IF v[2] THEN 1 ELSE 0)>>
           [] v[1] = "int" -> <<WbInteger(v[2])>>
           [] v[1] = "real" -> <<Head1(NUMBER, REAL), Bytes(v[2], 8)>>
           [] v[1] = "ptr" -> <<Head1(USERDATA, 0), Bytes(v[2], 8)>>
           [] v[1] = "str" -> <<WbString(v[2])>>
           [] v[1] = "table" -> size \o All(v[2]) \o Pairs(v[3]) \o <<Head1(NIL, 0)>>
           [] v[1] = "pairs" -> <<Head1(TABLE, 0)>> \o Pairs(v[3]) \o <<Head1(NIL, 0)>>

\* seri: the blocks become one buffer of the length written.
SeriBuffer(wb) == SubSeq(FlattenSeq(wb.blocks), 1, wb.len)

\* luaseri_pack
Pack(vs) ==
    LET pieces == FlattenSeq([i \in DOMAIN vs |-> PackOne(vs[i], 0)])
        wb == FoldLeft(WbPush, [blocks |-> <<<< >>>>, ptr |-> 0, len |-> 0], pieces)
    IN  IF Error \in Range(pieces) THEN Error ELSE SeriBuffer(wb)

-----------------------------------------------------------------------------
\* Reading.  A reader returns a value and the rest of the stream.

Bad == [ok |-> FALSE, v |-> << >>, rest |-> << >>]
Got(v, rest) == [ok |-> TRUE, v |-> v, rest |-> rest]

\* rb_read: there are n bytes left.
Enough(bs, n) == Len(bs) >= n

\* What is made of n bytes; too few make the stream invalid.
RbRead(bs, n, Make(_)) ==
    IF ~Enough(bs, n) THEN Bad ELSE Got(Make(SubSeq(bs, 1, n)), SubSeq(bs, n + 1, Len(bs)))

\* get_integer
GetInteger(bs, cookie) ==
    CASE cookie = 0 -> Got(<<"int", 0>>, bs)
      [] cookie \in {1, 2} -> RbRead(bs, cookie, LAMBDA x : <<"int", Unsigned(x)>>)
      [] cookie = 4 -> RbRead(bs, 4, LAMBDA x : <<"int", Signed(x)>>)
      [] cookie = 6 -> RbRead(bs, 8, LAMBDA x : <<"int", Signed(x)>>)
      [] OTHER -> Bad

\* Mutant: of a long string, what there is.
GetString_Rest(bs, cookie, long) ==
    LET h == RbRead(bs, cookie, Unsigned) IN
    IF ~long THEN RbRead(bs, cookie, LAMBDA x : <<"str", x>>)
    ELSE IF cookie \notin {2, 4} \/ ~h.ok THEN Bad
    ELSE IF h.v > Len(h.rest) THEN Got(<<"str", h.rest>>, << >>)
    ELSE RbRead(h.rest, h.v, LAMBDA x : <<"str", x>>)

\* get_buffer, for a string of either kind.
GetString(bs, cookie, long) ==
    LET h == RbRead(bs, cookie, Unsigned) IN
    IF ~long THEN RbRead(bs, cookie, LAMBDA x : <<"str", x>>)
    ELSE IF cookie \notin {2, 4} \/ ~h.ok THEN Bad
    ELSE RbRead(h.rest, h.v, LAMBDA x : <<"str", x>>)

RECURSIVE UnpackOne(_), UnpackMany(_, _, _), UnpackPairs(_, _, _)

\* n values; then pairs up to a nil.
UnpackMany(bs, n, acc) ==
    LET r == UnpackOne(bs) IN
    IF n = 0 THEN Got(acc, bs) ELSE IF ~r.ok THEN Bad ELSE UnpackMany(r.rest, n - 1, Append(acc, r.v))

UnpackPairs(bs, arr, acc) ==
    LET k == UnpackOne(bs)  v == UnpackOne(k.rest) IN
    IF ~k.ok THEN Bad
    ELSE IF k.v = <<"nil">> THEN Got(<<"table", arr, acc>>, k.rest)
    ELSE IF ~v.ok THEN Bad ELSE UnpackPairs(v.rest, arr, Append(acc, <<k.v, v.v>>))

\* unpack_table
UnpackTable(bs, cookie) ==
    LET n == IF cookie # MaxCookie - 1 THEN Got(<<"int", cookie>>, bs)
             ELSE IF bs = << >> \/ bs[1] % 8 # NUMBER \/ bs[1] \div 8 = REAL THEN Bad
             ELSE GetInteger(Tail(bs), bs[1] \div 8)
        a == UnpackMany(n.rest, n.v[2], << >>)
    IN  IF ~n.ok \/ ~a.ok THEN Bad ELSE UnpackPairs(a.rest, a.v, << >>)

\* unpack_one, push_value
UnpackOne(bs) ==
    LET t == bs[1] % 8  cookie == bs[1] \div 8  rest == Tail(bs) IN
    CASE bs = << >> -> Bad
      [] bs # << >> /\ t = NIL -> Got(<<"nil">>, rest)
      [] bs # << >> /\ t = BOOLEANS -> Got(<<"bool", cookie # 0>>, rest)
      [] bs # << >> /\ t = NUMBER ->
           IF cookie = REAL THEN RbRead(rest, 8, LAMBDA x : <<"real", Unsigned(x)>>)
           ELSE GetInteger(rest, cookie)
      [] bs # << >> /\ t = USERDATA -> RbRead(rest, 8, LAMBDA x : <<"ptr", Unsigned(x)>>)
      [] bs # << >> /\ t \in {SHORT, LONG} -> GetString(rest, cookie, t = LONG)
      [] bs # << >> /\ t = TABLE -> UnpackTable(rest, cookie)
      [] OTHER -> Bad

\* luaseri_unpack
RECURSIVE Unpack(_, _)
Unpack(bs, acc) == LET r == UnpackOne(bs) IN
                   IF bs = << >> THEN acc ELSE IF ~r.ok THEN Invalid ELSE Unpack(r.rest, Append(acc, r.v))

-----------------------------------------------------------------------------

\* What the reader makes of a value: tables with __pairs become plain.
RECURSIVE Plain(_), Depth(_)
Plain(v) == LET Both(p) == <<Plain(p[1]), Plain(p[2])>> IN
            CASE v[1] = "table" -> <<"table", [i \in DOMAIN v[2] |-> Plain(v[2][i])],
                                              [i \in DOMAIN v[3] |-> Both(v[3][i])]>>
              [] v[1] = "pairs" -> <<"table", << >>, [i \in DOMAIN v[3] |-> Both(v[3][i])]>>
              [] OTHER -> v
Depth(v) == LET of(vs) == {0} \cup {Depth(vs[i]) + 1 : i \in DOMAIN vs} IN
            IF v[1] \notin {"table", "pairs"} THEN 0
            ELSE CHOOSE d \in of(v[2] \o FlattenSeq(v[3])) : \A e \in of(v[2] \o FlattenSeq(v[3])) : e <= d

\* Values come out as they went in, unless a table is too deep: packing across
\* blocks, number widths and both size encodings lose nothing.
RoundTrip(vs) ==
    LET bs == Pack(vs) IN
    IF \E i \in DOMAIN vs : Depth(vs[i]) > MaxDepth THEN bs = Error
    ELSE bs # Error /\ Unpack(bs, << >>) = [i \in DOMAIN vs |-> Plain(vs[i])]

\* A stream that was cut short gives an error or the first values, never
\* anything that was not sent.
CutIsNoticed(vs) ==
    LET bs == Pack(vs) IN
    bs # Error => \A n \in 0..(Len(bs) - 1) :
        LET r == Unpack(SubSeq(bs, 1, n), << >>) IN
        r = Invalid \/ IsPrefix(r, [i \in DOMAIN vs |-> Plain(vs[i])])
=============================================================================
