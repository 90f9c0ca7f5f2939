-------------------------------- MODULE Cjson -------------------------------
(***************************************************************************)
(* JSON texts (lua_cjson.c).  Characters are byte values.  A Lua value is  *)
(* a tuple with its type first; a number is a mantissa and a power of ten  *)
(* without trailing zeros, or "near" one because it was computed with      *)
(* rounding, or infinite, or not a number; a table is the set of its pairs.*)
(***************************************************************************)
EXTENDS Integers, Sequences, FiniteSets, SequencesExt, FiniteSetsExt

CONSTANTS BufSize,    \* STRBUF_DEFAULT_SIZE
          Increment,  \* STRBUF_DEFAULT_INCREMENT, negated: the buffer grows by this factor
          MaxDepth,   \* encode_max_depth, decode_max_depth
          Ratio,      \* encode_sparse_ratio
          Safe,       \* encode_sparse_safe
          Precision,  \* encode_number_precision
          Exact,      \* decimal digits of an integer that a double holds, 15
          MaxExp,     \* doubles are below 10^MaxExp, 309, or infinite ...
          MinExp,     \* ... and not below 10^-MinExp, 324, or zero
          ExpoRange   \* 2^32, the range of expo in my_strtod

QUOTE == 34
SLASH == 47
BACKSLASH == 92
True == <<116, 114, 117, 101>>
False == <<102, 97, 108, 115, 101>>
Null == <<110, 117, 108, 108>>

Pow(e) == 10^e
Abs(n) == IF n < 0 THEN -n ELSE n
RECURSIVE Num(_, _), Digits(_)
Num(m, e) == IF m = 0 THEN <<"num", 0, 0>> ELSE IF m % 10 = 0 THEN Num(m \div 10, e + 1) ELSE <<"num", m, e>>
Digits(n) == IF n < 10 THEN <<48 + n>> ELSE Append(Digits(n \div 10), 48 + (n % 10))

-----------------------------------------------------------------------------
\* strbuf: what is written, the size of the memory, and whether a write went
\* past it or a value could not be written.

NewBuf == [s |-> << >>, size |-> BufSize, over |-> FALSE, err |-> FALSE]
EmptyLength(b) == b.size - Len(b.s) - 1
Failed(b) == [b EXCEPT !.err = TRUE]

RECURSIVE Grown(_, _)
Grown(size, req) == IF size < req THEN Grown(size * Increment, req) ELSE size

\* Mutant: no room for the terminating NUL.
CalculateNewSize_NoNul(size, len) == IF size > len THEN len ELSE Grown(size, len)

\* calculate_new_size
CalculateNewSize(size, len) == IF size > len + 1 THEN len + 1 ELSE Grown(size, len + 1)

\* strbuf_ensure_empty_length, strbuf_resize
Ensure(b, len) == IF len > EmptyLength(b) THEN [b EXCEPT !.size = CalculateNewSize(b.size, Len(b.s) + len)] ELSE b

\* strbuf_append_char_unsafe, strbuf_append_mem_unsafe; strbuf_append_mem
Put(b, s) == [b EXCEPT !.s = @ \o s, !.over = @ \/ Len(b.s) + Len(s) > b.size - 1]
AppendMem(b, s) == Put(Ensure(b, Len(s)), s)

-----------------------------------------------------------------------------
\* Encoding

\* char2escape
Hex(n) == IF n < 10 THEN 48 + n ELSE 87 + n
Escape(c) ==
    CASE c \in {QUOTE, SLASH, BACKSLASH} -> <<BACKSLASH, c>>
      [] c = 8 -> <<BACKSLASH, 98>>
      [] c = 9 -> <<BACKSLASH, 116>>
      [] c = 10 -> <<BACKSLASH, 110>>
      [] c = 12 -> <<BACKSLASH, 102>>
      [] c = 13 -> <<BACKSLASH, 114>>
      [] c < 32 \/ c = 127 -> <<BACKSLASH, 117, 48, 48, Hex(c \div 16), Hex(c % 16)>>
      [] OTHER -> <<c>>

\* json_append_string: the room is asked for once, for the worst case.
AppendString(b, s) ==
    LET one(a, c) == IF Len(Escape(c)) > 1 THEN AppendMem(a, Escape(c)) ELSE Put(a, <<c>>)
    IN  Put(FoldLeft(one, Put(Ensure(b, Len(s) * 6 + 2), <<QUOTE>>), s), <<QUOTE>>)

\* fpconv_g_fmt: snprintf with %.<precision>g.
Rounded(m, e) ==
    LET d == Len(Digits(Abs(m)))  p == Pow(d - Precision)
        r == (2 * Abs(m) + p) \div (2 * p)
    IN  IF d <= Precision THEN Num(m, e) ELSE Num(IF m < 0 THEN -r ELSE r, e + d - Precision)
GFmt(num) ==
    LET m == Rounded(num[2], num[3])[2]
        e == Rounded(num[2], num[3])[3]
        ds == Digits(Abs(m))
        X == Len(ds) - 1 + e
        zeros(n) == [i \in 1..n |-> 48]
        point(s) == IF s = << >> THEN s ELSE <<46>> \o s
        two(n) == IF n < 10 THEN <<48>> \o Digits(n) ELSE Digits(n)
    IN  (IF m < 0 THEN <<45>> ELSE << >>) \o
        (IF X < -4 \/ X >= Precision
         THEN <<ds[1]>> \o point(Tail(ds)) \o <<101, IF X < 0 THEN 45 ELSE 43>> \o two(Abs(X))
         ELSE IF e >= 0 THEN ds \o zeros(e)
         ELSE IF X >= 0 THEN SubSeq(ds, 1, X + 1) \o point(SubSeq(ds, X + 2, Len(ds)))
         ELSE <<48, 46>> \o zeros(-X - 1) \o ds)

\* json_append_number: NaN and infinities are not written.  What is near a number
\* is written as that number, up to the last digit.
AppendNumber(b, v) == IF v[1] \notin {"num", "near"} THEN Failed(b) ELSE Put(Ensure(b, 32), GFmt(v))

\* lua_array_length: -1 for what is not an array, -2 for one too sparse.
Keys(t) == {p[1] : p \in t}
At(t, k) == LET ps == {p \in t : p[1] = k} IN IF ps = {} THEN <<"nil">> ELSE (CHOOSE p \in ps : TRUE)[2]
ArrayLength(t) ==
    LET index(k) == k[1] = "num" /\ k[3] >= 0 /\ k[2] >= 1
        max == Max({0} \cup {k[2] * Pow(k[3]) : k \in Keys(t)})
    IN  IF \E k \in Keys(t) : ~index(k) THEN -1
        ELSE IF Ratio > 0 /\ max > Cardinality(t) * Ratio /\ max > Safe THEN -2
        ELSE max

\* json_append_data, json_append_array, json_append_object
RECURSIVE AppendData(_, _, _)
AppendData(b, v, depth) ==
    LET len == ArrayLength(v[2])
        Comma(a) == IF Last(a.s) \in {91, 123} THEN a ELSE AppendMem(a, <<44>>)
        Item(a, i) == AppendData(Comma(a), At(v[2], Num(i, 0)), depth + 1)
        Key(a, k) == IF k[1] = "num" THEN AppendMem(AppendNumber(AppendMem(a, <<QUOTE>>), k), <<QUOTE, 58>>)
                     ELSE IF k[1] = "str" THEN AppendMem(AppendString(a, k[2]), <<58>>)
                     ELSE Failed(a)
        Pair(a, p) == AppendData(Key(Comma(a), p[1]), p[2], depth + 1)
    IN
    CASE b.err -> b
      [] ~b.err /\ v[1] = "str" -> AppendString(b, v[2])
      [] ~b.err /\ v[1] \in {"num", "near", "inf", "nan"} -> AppendNumber(b, v)
      [] ~b.err /\ v[1] = "bool" -> AppendMem(b, IF v[2] THEN True ELSE False)
      [] ~b.err /\ v[1] \in {"nil", "null"} -> AppendMem(b, Null)
      [] ~b.err /\ v[1] = "table" ->
            IF depth + 1 > MaxDepth \/ len = -2 THEN Failed(b)
            ELSE IF len > 0
            THEN AppendMem(FoldLeft(Item, AppendMem(b, <<91>>), [i \in 1..len |-> i]), <<93>>)
            ELSE AppendMem(FoldLeft(Pair, AppendMem(b, <<123>>), SetToSeq(v[2])), <<125>>)
      [] OTHER -> Failed(b)

\* json_encode
Encode(v) == AppendData(NewBuf, v, 0)

-----------------------------------------------------------------------------
\* Decoding: t is the text, p the place of the next character.  A token has its
\* type, its value and the place after it; an error the place where it is.

Char(t, p) == IF p < Len(t) THEN t[p + 1] ELSE 0
Starts(t, p, word) == \A i \in DOMAIN word : Char(t, p + i - 1) = word[i]
Token(type, v, p) == [type |-> type, v |-> v, p |-> p]
TokenError(p) == Token("error", << >>, p)
Digit(c) == c \in 48..57

HexDigit2Int(c) == IF Digit(c) THEN c - 48 ELSE IF c \in 65..70 THEN c - 55 ELSE IF c \in 97..102 THEN c - 87 ELSE -1

\* decode_hex4
DecodeHex4(t, p) ==
    LET d(i) == HexDigit2Int(Char(t, p + i)) IN
    IF \E i \in 0..3 : d(i) < 0 THEN -1 ELSE d(0) * 4096 + d(1) * 256 + d(2) * 16 + d(3)

\* codepoint_to_utf8
CodepointToUtf8(c) ==
    LET tail(n) == 128 + ((c \div n) % 64) IN
    IF c <= 127 THEN <<c>>
    ELSE IF c <= 2047 THEN <<192 + c \div 64, tail(1)>>
    ELSE IF c <= 65535 THEN <<224 + c \div 4096, tail(64), tail(1)>>
    ELSE <<240 + c \div 262144, tail(4096), tail(64), tail(1)>>

\* Mutant: a surrogate pair is not put above the basic plane.
UnicodeEscape_Plane(t, p) ==
    LET c == DecodeHex4(t, p + 2)  low == DecodeHex4(t, p + 8) IN
    IF c < 0 THEN [cp |-> -1, len |-> 0]
    ELSE IF c \div 2048 # 27 THEN [cp |-> c, len |-> 6]
    ELSE [cp |-> (c % 1024) * 1024 + (low % 1024), len |-> 12]

\* json_append_unicode_escape: the code point and the length of the escape.
UnicodeEscape(t, p) ==
    LET c == DecodeHex4(t, p + 2)  low == DecodeHex4(t, p + 8)  bad == [cp |-> -1, len |-> 0] IN
    IF c < 0 THEN bad
    ELSE IF c \div 2048 # 27 THEN [cp |-> c, len |-> 6]
    ELSE IF (c \div 1024) % 2 = 1 \/ Char(t, p + 6) # BACKSLASH \/ Char(t, p + 7) # 117 THEN bad
    ELSE IF low < 0 \/ low \div 1024 # 55 THEN bad
    ELSE [cp |-> (c % 1024) * 1024 + (low % 1024) + 65536, len |-> 12]

\* escape2char
Escape2Char(c) ==
    CASE c \in {QUOTE, SLASH, BACKSLASH, 117} -> c
      [] c = 98 -> 8 [] c = 116 -> 9 [] c = 110 -> 10 [] c = 102 -> 12 [] c = 114 -> 13
      [] OTHER -> 0

\* json_next_string_token, after the quote.
RECURSIVE NextString(_, _, _)
NextString(t, p, acc) ==
    LET c == Char(t, p)  e == Escape2Char(Char(t, p + 1))  u == UnicodeEscape(t, p) IN
    CASE c = QUOTE -> Token("string", acc, p + 1)
      [] c = 0 -> TokenError(p)
      [] c = BACKSLASH /\ e = 117 ->
           IF u.cp < 0 THEN TokenError(p) ELSE NextString(t, p + u.len, acc \o CodepointToUtf8(u.cp))
      [] c = BACKSLASH /\ e = 0 -> TokenError(p)
      [] c = BACKSLASH /\ e \notin {0, 117} -> NextString(t, p + 2, Append(acc, e))
      [] OTHER -> NextString(t, p + 1, Append(acc, c))

\* my_strtod.  Digits from p on: their value behind m, and where they end.
RECURSIVE ReadDigits(_, _, _)
ReadDigits(t, p, m) == IF Digit(Char(t, p)) THEN ReadDigits(t, p + 1, m * 10 + Char(t, p) - 48) ELSE <<m, p>>

\* Mutant: the exponent is applied once too often.
Scale_Twice(expo, factor) == factor * (expo + 1)

\* The loop that squares the factor, with powers of ten for the numbers.
RECURSIVE Scale(_, _)
Scale(expo, factor) ==
    (IF expo % 2 = 1 THEN factor ELSE 0) + (IF expo \div 2 = 0 THEN 0 ELSE Scale(expo \div 2, 2 * factor))

\* The double at or near m * 10^e.
Double(m, e, exact) ==
    LET n == Num(m, e)  top == Len(Digits(Abs(n[2]))) + n[3]
    IN  IF m = 0 \/ top <= -MinExp THEN Num(0, 0)
        ELSE IF top > MaxExp THEN <<"inf">>
        ELSE IF exact THEN n ELSE <<"near", n[2], n[3]>>

\* The last factor of the loop, 10^(2^k), is infinite: it makes NaN of 0.
FactorOverflows(expo) == \E k \in 0..expo : 2^k > MaxExp /\ 2^k <= expo

\* value * 10^expo or value * 0.1^expo for the value m * 10^-places.  Integers are
\* exact while they are short; 0.1 is inexact, and so is what was multiplied by it.
Scaled(m, places, expo, down) ==
    LET n == Num(m, Scale(expo, IF down THEN -1 ELSE 1) - places)
    IN  IF m = 0 /\ ~down /\ FactorOverflows(expo) THEN <<"nan">>
        ELSE Double(m, Scale(expo, IF down THEN -1 ELSE 1) - places,
                    /\ Num(m, -places)[3] >= 0 /\ ~(down /\ expo > 0)
                    /\ Len(Digits(Abs(n[2]))) + n[3] <= Exact)

\* From the fraction on: the number and where it ends; p0 is its beginning, m the
\* digits so far and places those behind the point.
StrtodExponent(t, p0, m, places, q, expo) ==
    IF Char(t, q) \notin {69, 101} THEN [v |-> Scaled(m, places, 0, FALSE), p |-> q]
    ELSE IF Char(t, q + 1) \notin {43, 45} /\ ~Digit(Char(t, q + 1)) THEN [v |-> Num(0, 0), p |-> p0]
    ELSE [v |-> Scaled(m, places, expo[1] % ExpoRange, Char(t, q + 1) = 45), p |-> expo[2]]
StrtodFraction(t, p, int, frac) ==
    StrtodExponent(t, p,
                   IF Char(t, p) = 45 THEN -frac[1] ELSE frac[1],
                   IF frac[2] > int[2] THEN frac[2] - int[2] - 1 ELSE 0,
                   frac[2],
                   ReadDigits(t, IF Char(t, frac[2] + 1) \in {43, 45} THEN frac[2] + 2 ELSE frac[2] + 1, 0))
StrtodInteger(t, p, int) ==
    StrtodFraction(t, p, int, IF Char(t, int[2]) = 46 THEN ReadDigits(t, int[2] + 1, int[1]) ELSE int)
MyStrtod(t, p) ==
    StrtodInteger(t, p, ReadDigits(t, IF Char(t, p) \in {43, 45} THEN p + 1 ELSE p, 0))

\* json_next_number_token
NumberToken(p, n) == IF n.p = p THEN TokenError(p) ELSE Token("number", n.v, n.p)
NextNumber(t, p) == NumberToken(p, MyStrtod(t, p))

\* ch2token
Blank == {32, 9, 10, 13}
Punctuation == {123, 125, 91, 93, 44, 58}

\* json_next_token, with decode_invalid_numbers on.
RECURSIVE NextToken(_, _)
NextToken(t, p) ==
    LET c == Char(t, p) IN
    CASE c \in Blank -> NextToken(t, p + 1)
      [] c = 0 -> Token("end", << >>, p)
      [] c \in Punctuation -> Token("punct", c, p + 1)
      [] c = QUOTE -> NextString(t, p + 1, << >>)
      [] c \in {43, 45} \/ Digit(c) -> NextNumber(t, p)
      [] Starts(t, p, True) -> Token("bool", TRUE, p + 4)
      [] Starts(t, p, False) -> Token("bool", FALSE, p + 5)
      [] Starts(t, p, Null) -> Token("null", << >>, p + 4)
      [] OTHER -> TokenError(p)

Is(k, c) == k.type = "punct" /\ k.v = c
Got(v, p) == [ok |-> TRUE, v |-> v, p |-> p]
Fail(k) == [ok |-> FALSE, v |-> << >>, p |-> k.p]
RawSet(t, k, v) == {q \in t : q[1] # k} \cup {<<k, v>>}

\* Mutant: one level more than configured.
Descend_Late(depth) == depth <= MaxDepth

\* json_decode_descend
Descend(depth) == depth + 1 <= MaxDepth

RECURSIVE ProcessValue(_, _, _), ParseObject(_, _, _, _), ParseArray(_, _, _, _, _)

\* json_parse_object_context: behind a value, its colon, and from the key on.
ObjectNext(t, k, tab, depth) ==
    IF Is(k, 125) THEN Got(<<"table", tab>>, k.p)
    ELSE IF Is(k, 44) THEN ParseObject(t, NextToken(t, k.p), tab, depth) ELSE Fail(k)
ObjectValue(t, key, v, tab, depth) ==
    IF v.ok THEN ObjectNext(t, NextToken(t, v.p), RawSet(tab, <<"str", key.v>>, v.v), depth) ELSE v
ObjectColon(t, key, k, tab, depth) ==
    IF Is(k, 58) THEN ObjectValue(t, key, ProcessValue(t, NextToken(t, k.p), depth), tab, depth) ELSE Fail(k)
ParseObject(t, key, tab, depth) ==
    IF key.type = "string" THEN ObjectColon(t, key, NextToken(t, key.p), tab, depth) ELSE Fail(key)

\* json_parse_array_context: behind element i, and from its token on.
ArrayNext(t, k, i, tab, depth) ==
    IF Is(k, 93) THEN Got(<<"table", tab>>, k.p)
    ELSE IF Is(k, 44) THEN ParseArray(t, NextToken(t, k.p), i + 1, tab, depth) ELSE Fail(k)
ArrayValue(t, v, i, tab, depth) ==
    IF v.ok THEN ArrayNext(t, NextToken(t, v.p), i, RawSet(tab, Num(i, 0), v.v), depth) ELSE v
ParseArray(t, token, i, tab, depth) == ArrayValue(t, ProcessValue(t, token, depth), i, tab, depth)

\* The table that token k opens; first is the token behind it.
ParseTable(t, k, first, depth) ==
    CASE Is(k, 123) /\ Is(first, 125) -> Got(<<"table", {}>>, first.p)
      [] Is(k, 123) /\ ~Is(first, 125) -> ParseObject(t, first, {}, depth)
      [] Is(k, 91) /\ Is(first, 93) -> Got(<<"table", {}>>, first.p)
      [] OTHER -> ParseArray(t, first, 1, {}, depth)

\* json_process_value
ProcessValue(t, k, depth) ==
    CASE k.type = "string" -> Got(<<"str", k.v>>, k.p)
      [] k.type = "number" -> Got(k.v, k.p)
      [] k.type = "bool" -> Got(<<"bool", k.v>>, k.p)
      [] k.type = "null" -> Got(<<"null">>, k.p)
      [] (Is(k, 123) \/ Is(k, 91)) /\ Descend(depth) -> ParseTable(t, k, NextToken(t, k.p), depth + 1)
      [] OTHER -> Fail(k)

\* json_decode, and what it makes of value v when token k follows.
DecodeEnd(v, k) == IF k.type = "end" THEN v ELSE Fail(k)
DecodeRest(t, v) == IF v.ok THEN DecodeEnd(v, NextToken(t, v.p)) ELSE v
Decode(t) ==
    IF Len(t) >= 2 /\ (t[1] = 0 \/ t[2] = 0) THEN [ok |-> FALSE, v |-> << >>, p |-> 0]
    ELSE DecodeRest(t, ProcessValue(t, NextToken(t, 0), 0))

-----------------------------------------------------------------------------

\* What a value becomes on its way through a text: keys of objects are strings,
\* holes of arrays are null, numbers have the precision that was printed, and only
\* integers that need no more digits than that are sure to be read exactly.
RECURSIVE Blurred(_), Through(_)
ShortInteger(num) == num[3] >= 0 /\ Len(Digits(Abs(num[2]))) + num[3] <= Precision
Blurred(v) ==
    CASE v[1] = "num" -> IF ShortInteger(v) THEN v ELSE <<"near", v[2], v[3]>>
      [] v[1] = "table" -> <<"table", {<<p[1], Blurred(p[2])>> : p \in v[2]}>>
      [] OTHER -> v
Through(v) ==
    LET n == ArrayLength(v[2])
        name(k) == IF k[1] = "num" THEN <<"str", GFmt(k)>> ELSE k
        value(i) == At(v[2], Num(i, 0))
    IN  CASE v[1] = "num" -> Blurred(Rounded(v[2], v[3]))
          [] v[1] = "table" /\ n > 0 ->
               <<"table", {<<Num(i, 0), IF value(i)[1] = "nil" THEN <<"null">> ELSE Through(value(i))>> : i \in 1..n}>>
          [] v[1] = "table" /\ n <= 0 -> <<"table", {<<name(p[1]), Through(p[2])>> : p \in v[2]}>>
          [] OTHER -> v

Decoded(d, v) == d.ok /\ Blurred(d.v) = v
Back(b, v) == ~b.err => Decoded(Decode(b.s), Through(v))
RoundTrip(v) == Back(Encode(v), v)
NoOverrun(v) == ~Encode(v).over

\* The strings, numbers and other values in a value and in its keys.
RECURSIVE Atoms(_)
Atoms(v) == IF v[1] = "table" THEN UNION {Atoms(p[1]) \cup Atoms(p[2]) : p \in v[2]} ELSE {v}

\* A text that is accepted has values that fit the buffer for strings, which is
\* as long as the text.  They can be written, unless a number was beyond the range of
\* doubles, and are read again as they were, if they had been read exactly.
Sound(t, d) ==
    d.ok => /\ \A a \in Atoms(d.v) : a[1] = "str" => Len(a[2]) <= Len(t)
            /\ Encode(d.v).err <=> \E a \in Atoms(d.v) : a[1] \in {"inf", "nan"}
            /\ (\A a \in Atoms(d.v) : a[1] # "near") => RoundTrip(d.v)
Accepted(t) == Sound(t, Decode(t))
=============================================================================
