-------------------------------- MODULE Bson --------------------------------
(***************************************************************************)
(* bson (lua-bson.c).  Numbers have bytes of base Base, all other bytes    *)
(* are as they are.  A value is tagged: int, real (its 64 bits), bool,     *)
(* str, obj (a Lua string 0, type, bytes that stands for a BSON type of    *)
(* its own), raw (an encoded document), table (the values of the keys 1,   *)
(* 2, ..., other pairs, and how many of them lua_next gives before key 1   *)
(* if that is in the hash part), len and pairs (tables whose metatable has *)
(* __len or __pairs).                                                      *)
(***************************************************************************)
EXTENDS Integers, Sequences, SequencesExt

CONSTANTS Base,        \* 256
          DefaultCap,  \* DEFAULT_CAP
          MaxDepth     \* MAX_DEPTH

REAL == 1
STR == 2
DOCUMENT == 3
ARRAY == 4
BINARY == 5
OBJECTID == 7
BOOL == 8
DATE == 9
NULL == 10
REGEX == 11
DBPOINTER == 12
JSCODE == 13
SYMBOL == 14
CODEWS == 15
INT32 == 16
TIMESTAMP == 17
INT64 == 18
MAXKEY == 127
MINKEY == 255

Bytes(v, n) == [i \in 1..n |-> ((v % Base^n) \div Base^(i - 1)) % Base]
Unsigned(bs) == FoldRight(LAMBDA b, acc : b + Base * acc, bs, 0)
Signed(bs) == IF 2 * Unsigned(bs) >= Base^Len(bs) THEN Unsigned(bs) - Base^Len(bs) ELSE Unsigned(bs)
Drop(bs, n) == SubSeq(bs, n + 1, Len(bs))

-----------------------------------------------------------------------------
\* The buffer: safe as long as no write went past cap.

Create == [bs |-> << >>, cap |-> DefaultCap, ok |-> TRUE, safe |-> TRUE]

RECURSIVE Double(_, _)
Double(cap, need) == IF 2 * cap <= need THEN Double(2 * cap, need) ELSE 2 * cap

\* Mutant: a string is reserved without its zero byte.
Reserve_Exact(b, n) ==
    IF Len(b.bs) + n <= b.cap + 1 THEN b ELSE [b EXCEPT !.cap = Double(@, Len(b.bs) + n)]

Reserve(b, n) == IF Len(b.bs) + n <= b.cap THEN b ELSE [b EXCEPT !.cap = Double(@, Len(b.bs) + n)]
Put(b, bs) == [b EXCEPT !.bs = @ \o bs, !.safe = @ /\ Len(b.bs) + Len(bs) <= b.cap]
Write(b, bs) == Put(Reserve(b, Len(bs)), bs)
WriteInt32(b, v) == Write(b, Bytes(v, 4))
WriteInt64(b, v) == Write(b, Bytes(v, 8))
ReserveLength(b) == WriteInt32(b, 0)
WriteLength(b, v, off) == [b EXCEPT !.bs = SubSeq(@, 1, off) \o Bytes(v, 4) \o Drop(@, off + 4)]
Error(b) == [b EXCEPT !.ok = FALSE]

\* Mutant: the shortest form is not asked for.
Utf8Copy_Long(s) ==
    LET more == IF s[1] >= 248 THEN 9 ELSE IF s[1] >= 240 THEN 3 ELSE IF s[1] >= 224 THEN 2 ELSE IF s[1] >= 192 THEN 1 ELSE 0 IN
    IF s[1] < 128 THEN 1
    ELSE IF more \in 1..3 /\ more < Len(s) /\ \A i \in 2..(more + 1) : s[i] \in 128..191 THEN more + 1 ELSE 0

\* utf8_copy: the bytes of the first character, 0 if there is none.  The leading
\* byte is shifted by one for each byte that follows.
Utf8Copy(s) ==
    LET Limits == <<255, 127, 2047, 65535>>
        Go[k \in 0..6] ==   \* k bytes have followed
            LET c == s[1] * 2^k  res == FoldLeft(LAMBDA acc, b : acc * 64 + (b % 64), 0, SubSeq(s, 2, k + 1)) IN
            IF (c \div 64) % 2 = 1
            THEN IF Len(s) <= k + 1 \/ s[k + 2] \div 64 # 2 THEN 0 ELSE Go[k + 1]
            ELSE LET r == res + (c % 128) * 32^k IN
                 IF k > 3 \/ r > 1114111 \/ r <= Limits[k + 1] THEN 0 ELSE k + 1
    IN  IF s[1] < 128 THEN 1 ELSE Go[0]

\* write_string
RECURSIVE AllUtf8(_)
AllUtf8(s) == s = << >> \/ \E n \in {Utf8Copy(s)} : n > 0 /\ AllUtf8(Drop(s, n))
WriteString(b, s) == LET r == Reserve(b, Len(s) + 1) IN IF AllUtf8(s) THEN Put(r, Append(s, 0)) ELSE Error(r)
AppendKey(b, type, key) == WriteString(Write(b, <<type>>), key)

-----------------------------------------------------------------------------
\* bson_numstr: array keys are decimals, counted from 0.
RECURSIVE NumStr(_)
NumStr(i) == (IF i < 10 THEN << >> ELSE NumStr(i \div 10)) \o <<48 + (i % 10)>>
StrToL(s) == FoldLeft(LAMBDA acc, d : 10 * acc + d - 48, 0, s)

Is32Bit(v) == -(Base^4 \div 2) <= v /\ v < Base^4 \div 2

\* write_binary: the length does not count the sub type, the first byte.
WriteBinary(b, bs) == Write(WriteInt32(b, Len(bs) - 1), bs)

\* Mutant: the zero that ends the options is taken for the one before them.
LastZero_End(bs) == Len(bs)

\* The place of the zero between a regular expression and its options.
LastZero(bs) == CHOOSE i \in 1..(Len(bs) - 1) : bs[i] = 0 /\ \A j \in (i + 1)..(Len(bs) - 1) : bs[j] # 0

\* append_one, strings 0, type, ..., behind the key
AppendObject(k, type, bs) ==
    LET zero == LastZero(bs) IN
    CASE type = BINARY -> WriteBinary(k, bs)
      [] type = OBJECTID -> IF Len(bs) = 12 THEN Write(k, bs) ELSE Error(k)
      [] type \in {JSCODE, DBPOINTER, SYMBOL, CODEWS} -> Write(k, bs)
      [] type = DATE -> IF Len(bs) = 4 THEN WriteInt64(k, Unsigned(bs) * 1000) ELSE Error(k)
      [] type = TIMESTAMP -> IF Len(bs) = 8 THEN Write(Write(k, SubSeq(bs, 1, 4)), SubSeq(bs, 5, 8)) ELSE Error(k)
      [] type = REGEX -> WriteString(WriteString(k, SubSeq(bs, 1, zero - 1)), SubSeq(bs, zero + 1, Len(bs) - 1))
      [] type \in {MINKEY, MAXKEY, NULL} -> k
      [] OTHER -> Error(k)

RECURSIVE AppendOne(_, _, _, _)

\* pack_array, pack_simple_dict, pack_meta_dict: length, fields, zero byte.
Closed(b, off) == WriteLength(b, Len(b.bs) - off, off)
PackFields(b, fields, depth) ==
    LET add(acc, f) == IF acc.ok THEN AppendOne(acc, f[2], f[1], depth) ELSE acc IN
    Closed(Write(FoldLeft(add, ReserveLength(b), fields), <<0>>), Len(b.bs))
Numbered(s, from) == [i \in DOMAIN s |-> <<NumStr(i - 1 + from), s[i]>>]

\* The pairs of a table as lua_next gives them.
Before(v) == IF Len(v) > 3 THEN v[4] ELSE 0
InOrder(v) == SubSeq(v[3], 1, Before(v)) \o Numbered(v[2], 1) \o Drop(v[3], Before(v))

\* Mutant: a table with an array part is an array.
IsArray_Any(v) == v[1] = "len" \/ (v[1] = "table" /\ v[2] # << >>)

\* is_rawarray, in append_table: no pair follows the last element.
IsArray(v) == v[1] = "len" \/ (v[1] = "table" /\ v[2] # << >> /\ Before(v) = Len(v[3]))
AppendTable(b, v, key, depth) ==
    IF depth > MaxDepth THEN Error(b)
    ELSE PackFields(AppendKey(b, IF IsArray(v) THEN ARRAY ELSE DOCUMENT, key),
                    IF IsArray(v) THEN Numbered(v[2], 0) ELSE InOrder(v), depth)

\* append_one, append_number: type and data of a value.
TypeOfValue(v) ==
    CASE v[1] = "int" -> IF Is32Bit(v[2]) THEN INT32 ELSE INT64
      [] v[1] = "real" -> REAL
      [] v[1] = "raw" -> DOCUMENT
      [] v[1] = "obj" -> v[2]
      [] v[1] = "str" -> STR
      [] v[1] = "bool" -> BOOL
AppendData(k, v) ==
    CASE v[1] = "int" -> IF Is32Bit(v[2]) THEN WriteInt32(k, v[2]) ELSE WriteInt64(k, v[2])
      [] v[1] = "real" -> WriteInt64(k, v[2])
      [] v[1] = "raw" -> Write(k, v[2])
      [] v[1] = "obj" -> AppendObject(k, v[2], v[3])
      [] v[1] = "str" -> WriteLength(WriteString(ReserveLength(k), v[2]), Len(v[2]) + 1, Len(k.bs))
      [] v[1] = "bool" -> Write(k, <<IF v[2] THEN 1 ELSE 0>>)
AppendOne(b, v, key, depth) ==
    CASE v[1] \in {"table", "len", "pairs"} -> AppendTable(b, v, key, depth + 1)
      [] v[1] = "other" -> Error(b)
      [] OTHER -> AppendData(AppendKey(b, TypeOfValue(v), key), v)

\* encode_bson, lencode: the top is a dictionary, even if it is an array;
\* encode_bson_byorder writes the pairs that it is given.
Encode(v) == PackFields(Create, InOrder(v), 0)

\* lencode_order, encode_bson_byorder, pack_ordered_dict: the arguments key, value,
\* key, value ...; the first key has been moved behind the others.
OrderedFields(args) ==
    LET a == Tail(args) \o <<Head(args)>>  n == Len(a) IN
    [i \in 1..(n \div 2) |-> <<a[IF i = 1 THEN n ELSE 2 * i - 2][2], a[2 * i - 1]>>]
EncodeOrder(args) == PackFields(Create, IF args = << >> THEN << >> ELSE OrderedFields(args), 0)

-----------------------------------------------------------------------------
\* The objects: made by the functions of the library, and what type says of them.

LDate(d) == <<"obj", DATE, Bytes(d, 4)>>
LTimestamp(d, inc) == <<"obj", TIMESTAMP, Bytes(inc, 4) \o Bytes(d, 4)>>
LRegex(p, o) == <<"obj", REGEX, p \o <<0>> \o o \o <<0>>>>
LBinary(bs) == <<"obj", BINARY, <<0>> \o bs>>
HexToInt(c) == IF c \in 48..57 THEN c - 48 ELSE IF c \in 97..122 THEN c - 87 ELSE IF c \in 65..90 THEN c - 55 ELSE 0
HexOf(n) == IF n < 10 THEN 48 + n ELSE 87 + n
LObjectId(hex) == <<"obj", OBJECTID, [i \in 1..12 |-> HexToInt(hex[2 * i - 1]) * 16 + HexToInt(hex[2 * i])]>>

\* ltype, lsubtype
TypeOf(v) ==
    LET bs == v[3] IN
    CASE v[1] # "obj" -> v
      [] v[1] = "obj" /\ v[2] = BINARY -> <<"binary", Tail(bs), bs[1]>>
      [] v[1] = "obj" /\ v[2] = OBJECTID ->
           <<"objectid", FlattenSeq([i \in 1..12 |-> <<HexOf(bs[i] \div 16), HexOf(bs[i] % 16)>>])>>
      [] v[1] = "obj" /\ v[2] = DATE -> <<"date", Signed(bs)>>
      [] v[1] = "obj" /\ v[2] = TIMESTAMP -> <<"timestamp", Unsigned(SubSeq(bs, 5, 8)), Unsigned(SubSeq(bs, 1, 4))>>
      [] v[1] = "obj" /\ v[2] = REGEX -> <<"regex", SubSeq(bs, 1, LastZero(bs) - 1), SubSeq(bs, LastZero(bs) + 1, Len(bs) - 1)>>
      [] v[1] = "obj" /\ v[2] \in {MINKEY, MAXKEY, NULL} -> <<"key", v[2]>>
      [] v[1] = "obj" /\ v[2] \in {JSCODE, DBPOINTER, SYMBOL, CODEWS} -> <<"unsupported", bs>>

-----------------------------------------------------------------------------
\* Reading.  A reader is the bytes that are left.

NotOk == [ok |-> FALSE, v |-> << >>, rest |-> << >>]
Ok(v, rest) == [ok |-> TRUE, v |-> v, rest |-> rest]
ReadInt32(bs) == IF Len(bs) < 4 THEN 0 ELSE Signed(SubSeq(bs, 1, 4))
ReadBytes(bs, n) == IF Len(bs) < n THEN NotOk ELSE Ok(SubSeq(bs, 1, n), Drop(bs, n))
ReadCString(bs) == LET i == CHOOSE i \in DOMAIN bs : bs[i] = 0 /\ 0 \notin Range(SubSeq(bs, 1, i - 1)) IN
                   IF 0 \notin Range(bs) THEN NotOk ELSE Ok(SubSeq(bs, 1, i - 1), Drop(bs, i))

\* Mutant: the scope of code, which its length counts, is read behind it.
SizeOf_Scope(bt, bs) ==
    LET sz == ReadInt32(bs)  c1 == ReadCString(bs)  c2 == ReadCString(c1.rest) IN
    CASE bt \in {INT64, TIMESTAMP, DATE, REAL} -> 8
      [] bt = BOOL -> 1
      [] bt \in {JSCODE, SYMBOL, STR, CODEWS} -> sz + 4
      [] bt \in {ARRAY, DOCUMENT} -> sz
      [] bt = BINARY -> sz + 5
      [] bt = OBJECTID -> 12
      [] bt \in {MINKEY, MAXKEY, NULL} -> 0
      [] bt = REGEX -> Len(c1.v) + Len(c2.v) + 2
      [] bt = INT32 -> 4
      [] bt = DBPOINTER -> sz + 16

\* The bytes that a value takes.
SizeOf(bt, bs) ==
    LET sz == ReadInt32(bs)  c1 == ReadCString(bs)  c2 == ReadCString(c1.rest) IN
    CASE bt \in {INT64, TIMESTAMP, DATE, REAL} -> 8
      [] bt = BOOL -> 1
      [] bt \in {JSCODE, SYMBOL, STR} -> sz + 4
      [] bt \in {CODEWS, ARRAY, DOCUMENT} -> sz
      [] bt = BINARY -> sz + 5
      [] bt = OBJECTID -> 12
      [] bt \in {MINKEY, MAXKEY, NULL} -> 0
      [] bt = REGEX -> Len(c1.v) + Len(c2.v) + 2
      [] bt = INT32 -> 4
      [] bt = DBPOINTER -> sz + 16

RECURSIVE UnpackDict(_, _), UnpackFields(_, _, _)

\* unpack_dict, the value of type bt in the bytes bs.
UnpackValue(bt, bs) ==
    CASE bt = REAL -> <<"real", Unsigned(bs)>>
      [] bt = BOOL -> <<"bool", bs[1] # 0>>
      [] bt = STR -> <<"str", SubSeq(bs, 5, Len(bs) - 1)>>
      [] bt \in {DOCUMENT, ARRAY} -> UnpackDict(bs, bt = ARRAY).v
      [] bt = BINARY -> <<"obj", BINARY, Drop(bs, 4)>>
      [] bt = DATE -> <<"obj", DATE, Bytes(Signed(bs) \div 1000, 4)>>
      [] bt \in {INT32, INT64} -> <<"int", Signed(bs)>>
      [] bt \in {OBJECTID, MINKEY, MAXKEY, NULL, REGEX, TIMESTAMP, DBPOINTER, JSCODE, SYMBOL, CODEWS} -> <<"obj", bt, bs>>

Known == {REAL, STR, DOCUMENT, ARRAY, BINARY, OBJECTID, BOOL, DATE, NULL, REGEX, DBPOINTER, JSCODE, SYMBOL,
          CODEWS, INT32, TIMESTAMP, INT64, MINKEY, MAXKEY}

\* The fields in turn; acc has those before.
UnpackRest(bt, name, value, array, acc) ==
    IF ~value.ok \/ (bt \in {DOCUMENT, ARRAY} /\ ~UnpackDict(value.v, bt = ARRAY).ok) THEN NotOk
    ELSE UnpackFields(value.rest, array, Append(acc, <<name, UnpackValue(bt, value.v)>>))
UnpackField(bt, key, array, acc) ==
    IF ~key.ok \/ bt \notin Known \/ (bt = STR /\ ReadInt32(key.rest) <= 0) THEN NotOk
    ELSE UnpackRest(bt, IF array THEN <<"n", StrToL(key.v) + 1>> ELSE <<"k", key.v>>,
                    ReadBytes(key.rest, SizeOf(bt, key.rest)), array, acc)
UnpackFields(bs, array, acc) ==
    IF bs = << >> THEN Ok(acc, << >>) ELSE UnpackField(bs[1], ReadCString(Tail(bs)), array, acc)

\* unpack_dict
Dict(fields, rest) == IF fields.ok THEN Ok(<<"dict", fields.v>>, rest) ELSE NotOk
UnpackDict(bs, array) ==
    LET sz == ReadInt32(bs) IN
    IF sz < 5 \/ Len(bs) < sz \/ bs[sz] # 0 THEN NotOk
    ELSE Dict(UnpackFields(SubSeq(bs, 5, sz - 1), array, << >>), Drop(bs, sz))
Decode(bs) == UnpackDict(bs, FALSE)

\* lmakeindex: type and place of the fields of a fixed size.
RECURSIVE MakeIndex(_, _)
MakeIndex(doc, at) ==
    LET key == ReadCString(SubSeq(doc, at + 2, Len(doc)))
        start == at + 2 + Len(key.v)
        n == SizeOf(doc[at + 1], Drop(doc, start))
        fixed == {INT64, TIMESTAMP, DATE, REAL, BOOL, OBJECTID, INT32}
    IN  IF at = Len(doc) - 1 THEN << >>
        ELSE (IF doc[at + 1] \in fixed THEN <<[key |-> key.v, type |-> doc[at + 1], off |-> start]>> ELSE << >>)
             \o MakeIndex(doc, start + n)

\* lreplace: the values that a field of that type takes.
TypeMatches(type, v) ==
    CASE type = REAL -> v[1] = "real"
      [] type = BOOL -> v[1] = "bool"
      [] type \in {INT32, INT64} -> v[1] = "int"
      [] type \in {OBJECTID, DATE, TIMESTAMP} -> v[1] = "obj" /\ v[2] = type

\* Mutant: a date is replaced by its seconds.
Replacement_Seconds(type, v) ==
    CASE type = BOOL -> <<IF v[2] THEN 1 ELSE 0>>
      [] type = INT32 -> Bytes(v[2], 4)
      [] type \in {INT64, REAL} -> Bytes(v[2], 8)
      [] type = DATE -> Bytes(Unsigned(v[3]), 8)
      [] type \in {OBJECTID, TIMESTAMP} -> v[3]

\* lreplace, replace_object: the bytes of a value for a field of that type.
Replacement(type, v) ==
    CASE type = REAL -> Bytes(v[2], 8)
      [] type = BOOL -> <<IF v[2] THEN 1 ELSE 0>>
      [] type = INT32 -> Bytes(v[2], 4)
      [] type = INT64 -> Bytes(v[2], 8)
      [] type = DATE -> Bytes(Unsigned(v[3]) * 1000, 8)
      [] type \in {OBJECTID, TIMESTAMP} -> v[3]
Replace(doc, e, v) == LET r == Replacement(e.type, v) IN SubSeq(doc, 1, e.off) \o r \o Drop(doc, e.off + Len(r))

-----------------------------------------------------------------------------
\* Pairs that come before the elements of an array, with none behind them, are lost.
Lost(v) == v[1] = "table" /\ v[2] # << >> /\ v[3] # << >> /\ Before(v) = Len(v[3])

\* What a table is when it comes back: number keys are strings, a table without
\* array part is a dictionary, an encoded document is a table.
RECURSIVE Back(_), BackPairs(_)
BackPairs(ps) == <<"dict", [i \in DOMAIN ps |-> <<<<"k", ps[i][1]>>, Back(ps[i][2])>>]>>
Back(v) ==
    CASE v[1] = "raw" -> Decode(v[2]).v
      [] v[1] = "len" \/ Lost(v) \/ (v[1] = "table" /\ v[2] # << >> /\ v[3] = << >>) ->
           <<"dict", [i \in DOMAIN v[2] |-> <<<<"n", i>>, Back(v[2][i])>>]>>
      [] v[1] \in {"table", "pairs"} /\ (v[2] = << >> \/ v[3] # << >>) /\ ~Lost(v) -> BackPairs(InOrder(v))
      [] OTHER -> v

\* Written by order, the fields are the same.
OrderKept(ps) == EncodeOrder(FlattenSeq([i \in DOMAIN ps |-> <<<<"str", ps[i][1]>>, ps[i][2]>>])) = Encode(<<"table", << >>, ps>>)

\* The encoding of a table is read as that table, with all its pairs but the lost
\* ones of tables in it.
RoundTrip(v) ==
    /\ \A e \in {Encode(v)} : e.ok =>
          \E d \in {Decode(e.bs)} : d.ok /\ d.rest = << >> /\ d.v = BackPairs(InOrder(v))
    /\ v[2] = << >> => OrderKept(v[3])

\* An object means what it was made from, after it was written and read too.
ObjectMeans(o, means) == TypeOf(o) = means /\ TypeOf(Decode(Encode(<<"table", << >>, <<<<<<97>>, o>>>>>>).bs).v[2][1][2]) = means

\* No write goes past the buffer.
NoOverrun(v) == Encode(v).safe

\* A field found by the index and replaced is read with its new value, and all
\* other fields as before.
ReplacedOnly(v, news) ==
    \A doc \in {Encode(v).bs} : \A d \in {Decode(doc).v[2]}, e \in Range(MakeIndex(doc, 4)), n \in news :
        TypeMatches(e.type, n) /\ (e.type = INT32 => Is32Bit(n[2])) =>
            \E after \in {Decode(Replace(doc, e, n))} :
                after.ok /\ after.v[2] = [j \in DOMAIN d |-> IF d[j][1] = <<"k", e.key>> THEN <<d[j][1], n>> ELSE d[j]]

\* The strings that are taken as UTF-8 are those of Unicode's table of well-formed
\* byte sequences, with surrogates.
RECURSIVE WellFormed(_)
WellFormed(s) ==
    LET follow(n) == Len(s) > n /\ \A i \in 2..(n + 1) : s[i] \in 128..191 IN
    \/ s = << >>
    \/ s[1] \in 0..127 /\ WellFormed(Tail(s))
    \/ s[1] \in 194..223 /\ follow(1) /\ WellFormed(Drop(s, 2))
    \/ s[1] \in 224..239 /\ follow(2) /\ (s[1] = 224 => s[2] >= 160) /\ WellFormed(Drop(s, 3))
    \/ s[1] \in 240..244 /\ follow(3) /\ (s[1] = 240 => s[2] >= 144) /\ (s[1] = 244 => s[2] <= 143)
       /\ WellFormed(Drop(s, 4))
Utf8Right(s) == AllUtf8(s) <=> WellFormed(s)
=============================================================================
