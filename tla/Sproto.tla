------------------------------- MODULE Sproto -------------------------------
(***************************************************************************)
(* sproto (sproto.c, lsproto.c): schemas, messages and the packing of      *)
(* zeros.  Widths are in bytes of base Base.  An object is a function from *)
(* the tags that it has to values; an array is a sequence.  Buffers are    *)
(* taken as long enough: lsproto.c doubles them until they are.            *)
(***************************************************************************)
EXTENDS Integers, Sequences, FiniteSets, SequencesExt

CONSTANTS Base,    \* values of a byte, 256
          MaxRun   \* segments in a run without zeros, 256

Bytes(v, n) == [i \in 1..n |-> ((v % Base^n) \div Base^(i - 1)) % Base]
Value(bs) == FoldRight(LAMBDA b, acc : b + Base * acc, bs, 0)
Expand(bs) == IF 2 * Value(bs) >= Base^Len(bs) THEN Value(bs) - Base^Len(bs) ELSE Value(bs)
Word(v) == Bytes(v, 2)
Sized(bs) == Bytes(Len(bs), 4) \o bs
ToWord(bs, i) == Value(SubSeq(bs, 2 * i + 1, 2 * i + 2))     \* the i-th word
ToDword(bs) == Value(SubSeq(bs, 1, 4))
Drop(bs, n) == SubSeq(bs, n + 1, Len(bs))
Bad == <<-1>>

-----------------------------------------------------------------------------
\* Schemas.  packfield, packtype, packproto of sprotoparser.lua make them; a
\* builtin type is 0 integer, 1 boolean, 2 string, and 3 is a struct.

PackValue(v) == Word((v + 1) * 2)
Skip == Word(1)
PackField(f) ==
    LET head == (IF f.type < 3 THEN PackValue(f.type) \o (IF f.extra = 0 THEN Skip ELSE PackValue(f.extra))
                 ELSE Skip \o PackValue(f.st - 1)) \o PackValue(f.tag)
        array == IF f.array THEN PackValue(1) ELSE << >>
        key == IF f.key >= 0 THEN PackValue(f.key) ELSE << >>
    IN  Sized(Word(4 + Len(array \o key) \div 2) \o Word(0) \o head \o array \o key \o Sized(f.name))
PackType(t) ==
    LET fields == FlattenSeq([i \in DOMAIN t.f |-> PackField(t.f[i])]) IN
    Sized(IF t.f = << >> THEN Word(1) \o Word(0) \o Sized(t.name)
          ELSE Word(2) \o Word(0) \o Word(0) \o Sized(t.name) \o Sized(fields))
PackProto(p) ==
    LET type(n) == IF n = 0 THEN Skip ELSE PackValue(n - 1)
        rest == IF p.response # 0 THEN type(p.request) \o type(p.response)
                ELSE IF p.confirm THEN type(p.request) \o Skip \o PackValue(1)
                ELSE IF p.request # 0 THEN type(p.request) ELSE << >>
    IN  Sized(Word(2 + Len(rest) \div 2) \o Word(0) \o PackValue(p.tag) \o rest \o Sized(p.name))
PackGroup(types, protos) ==
    LET tt == Sized(FlattenSeq([i \in DOMAIN types |-> PackType(types[i])]))
        tp == Sized(FlattenSeq([i \in DOMAIN protos |-> PackProto(protos[i])]))
    IN  IF protos = << >> THEN Word(1) \o Word(0) \o tt ELSE Word(2) \o Word(0) \o Word(0) \o tt \o tp

\* count_array: the elements of an array.
RECURSIVE Elements(_)
Elements(bs) ==
    LET n == ToDword(bs) + 4 IN
    IF bs = << >> THEN << >>
    ELSE IF Len(bs) < 4 \/ n > Len(bs) THEN <<Bad>>
    ELSE <<SubSeq(bs, 5, n)>> \o Elements(Drop(bs, n))
Valid(es) == Bad \notin Range(es)

\* struct_field: the words of a struct and the data that its zeros stand for.
Struct(words, data) ==
    [ok |-> Valid(data) /\ Len(SelectSeq(words, LAMBDA w : w = 0)) = Len(data), words |-> words, data |-> data]
StructField(bs) ==
    LET fn == ToWord(bs, 0) IN
    IF Len(bs) < 4 \/ Len(bs) < 2 + 2 * fn THEN [ok |-> FALSE, words |-> << >>, data |-> << >>]
    ELSE Struct([i \in 1..fn |-> ToWord(bs, i)], Elements(Drop(bs, 2 + 2 * fn)))

NoField == [name |-> << >>, tag |-> -1, type |-> -1, st |-> 0, key |-> -1, extra |-> 0, array |-> FALSE]

\* import_field: the words in turn, tags counted along.
RECURSIVE ImportWords(_, _, _, _, _)
ImportWords(words, tag, f, name, types) ==
    LET w == words[1]
        v == w \div 2 - 1
        go(g) == ImportWords(Tail(words), tag + 1, g, name, types)
    IN
    CASE words = << >> -> f
      [] words # << >> /\ w % 2 = 1 -> ImportWords(Tail(words), tag + 1 + w \div 2, f, name, types)
      [] words # << >> /\ w % 2 = 0 /\ tag = 0 -> IF w # 0 THEN NoField ELSE go([f EXCEPT !.name = name])
      [] words # << >> /\ w % 2 = 0 /\ tag # 0 /\ w = 0 -> NoField
      [] words # << >> /\ w % 2 = 0 /\ tag = 1 /\ w # 0 -> IF v >= 3 THEN NoField ELSE go([f EXCEPT !.type = v])
      [] words # << >> /\ w % 2 = 0 /\ tag = 2 /\ w # 0 ->
           IF f.type = 0 THEN go([f EXCEPT !.extra = 10^v])
           ELSE IF f.type = 2 THEN go([f EXCEPT !.extra = v])
           ELSE IF v >= types \/ f.type >= 0 THEN NoField
           ELSE go([f EXCEPT !.type = 3, !.st = v + 1])
      [] words # << >> /\ w % 2 = 0 /\ tag = 3 /\ w # 0 -> go([f EXCEPT !.tag = v])
      [] words # << >> /\ w % 2 = 0 /\ tag = 4 /\ w # 0 -> go([f EXCEPT !.array = v # 0])
      [] words # << >> /\ w % 2 = 0 /\ tag = 5 /\ w # 0 -> go([f EXCEPT !.key = v])
      [] OTHER -> NoField
Complete(f) == IF f.tag < 0 \/ f.type < 0 \/ f.name = << >> THEN NoField ELSE f
FieldOf(s, types) == IF ~s.ok THEN NoField ELSE Complete(ImportWords(s.words, 0, NoField, s.data[1], types))
ImportField(bs, types) == FieldOf(StructField(bs), types)

\* Mutant: only gaps between two fields are counted, not the one before the first.
MaxN_Between(f) == Len(f) + Cardinality({i \in 2..Len(f) : f[i].tag > f[i - 1].tag + 1})

\* maxn: the words that a message may need: one for each field and each gap.
MaxN(f) == Len(f) + Cardinality({i \in DOMAIN f : f[i].tag > (IF i = 1 THEN -1 ELSE f[i - 1].tag) + 1})

\* import_type: base is the first tag when the tags have no gaps, else -1.
NoType == [name |-> << >>, f |-> << >>, maxn |-> 0, base |-> 0]
TypeWith(name, f) ==
    LET gapless == f[Len(f)].tag - f[1].tag + 1 = Len(f) IN
    IF NoField \in Range(f) \/ \E i \in 2..Len(f) : f[i].tag <= f[i - 1].tag THEN NoType
    ELSE [name |-> name, f |-> f, maxn |-> MaxN(f), base |-> IF gapless THEN f[1].tag ELSE -1]
TypeFields(name, es, types) ==
    IF ~Valid(es) THEN NoType ELSE TypeWith(name, [i \in DOMAIN es |-> ImportField(es[i], types)])
TypeOf(s, types) ==
    IF ~s.ok \/ Len(s.words) \notin {1, 2} \/ Range(s.words) # {0} THEN NoType
    ELSE IF Len(s.words) = 1 THEN [NoType EXCEPT !.name = s.data[1]]
    ELSE TypeFields(s.data[1], Elements(s.data[2]), types)
ImportType(bs, types) == TypeOf(StructField(bs), types)

\* import_protocol: the i-th word, skips counted too, is the i-th property.
NoProto == [name |-> << >>, tag |-> -1, request |-> 0, response |-> 0, confirm |-> FALSE]
ProtocolOf(s, types) ==
    LET has(i) == i <= Len(s.words) /\ s.words[i] % 2 = 0
        v(i) == s.words[i] \div 2 - 1
        good == /\ s.ok /\ Len(s.words) <= 5 /\ has(1) /\ s.words[1] = 0 /\ has(2) /\ v(2) >= 0
                /\ \A i \in {3, 4} : has(i) => v(i) \in 0..(types - 1)
    IN  IF ~good THEN NoProto
        ELSE [name |-> s.data[1], tag |-> v(2), request |-> IF has(3) THEN v(3) + 1 ELSE 0,
              response |-> IF has(4) THEN v(4) + 1 ELSE 0, confirm |-> has(5) /\ v(5) # 0]
ImportProtocol(bs, types) == ProtocolOf(StructField(bs), types)

\* create_from_bundle
NoSproto == [types |-> << >>, protos |-> << >>]
Group(types, protos) ==
    IF NoType \in Range(types) \/ NoProto \in Range(protos) THEN NoSproto ELSE [types |-> types, protos |-> protos]
GroupWith(ts, ps) ==
    IF ~Valid(ts) \/ ~Valid(ps) THEN NoSproto
    ELSE Group([i \in DOMAIN ts |-> ImportType(ts[i], Len(ts))], [i \in DOMAIN ps |-> ImportProtocol(ps[i], Len(ts))])
GroupOf(s) ==
    IF ~s.ok \/ Len(s.words) \notin {1, 2} \/ Range(s.words) # {0} THEN NoSproto
    ELSE GroupWith(Elements(s.data[1]), IF Len(s.words) = 1 THEN << >> ELSE Elements(s.data[2]))
CreateFromBundle(bs) == GroupOf(StructField(bs))

RECURSIVE Halve(_, _, _, _)
\* Mutant: the end of the range is taken as inclusive.
Halve_Closed(s, tag, begin, end) ==
    LET mid == (begin + end) \div 2  t == s[mid + 1].tag IN
    IF begin >= end THEN 0
    ELSE IF t = tag THEN mid + 1
    ELSE IF tag > t THEN Halve(s, tag, mid + 1, end) ELSE Halve(s, tag, begin, mid - 1)

\* findtag, query_proto: directly, or by halving begin..end.
Halve(s, tag, begin, end) ==
    LET mid == (begin + end) \div 2  t == s[mid + 1].tag IN
    IF begin >= end THEN 0
    ELSE IF t = tag THEN mid + 1
    ELSE IF tag > t THEN Halve(s, tag, mid + 1, end) ELSE Halve(s, tag, begin, mid)
FindTag(st, tag) ==
    IF st.base >= 0 THEN IF tag - st.base \in 0..(Len(st.f) - 1) THEN tag - st.base + 1 ELSE 0
    ELSE Halve(st.f, tag, 0, Len(st.f))
QueryProto(sp, tag) == Halve(sp.protos, tag, 0, Len(sp.protos))

-----------------------------------------------------------------------------
\* Messages

Fits32(v) == -(Base^4 \div 2) <= v /\ v < Base^4 \div 2

\* encode_integer_array: four bytes each until one needs eight; then those
\* before it are made eight bytes too.
Widen(bs) == FlattenSeq([i \in 1..(Len(bs) \div 4) |-> Bytes(Expand(SubSeq(bs, 4 * i - 3, 4 * i)), 8)])
IntegerArray(vs) ==
    LET add(acc, v) ==
            IF acc.len = 4 /\ ~Fits32(v) THEN [len |-> 8, bs |-> Widen(acc.bs) \o Bytes(v, 8)]
            ELSE [acc EXCEPT !.bs = @ \o Bytes(v, acc.len)]
        all == FoldLeft(add, [len |-> 4, bs |-> << >>], vs)
    IN  IF vs = << >> THEN << >> ELSE <<all.len>> \o all.bs

RECURSIVE Encode(_, _, _)

\* encode of lsproto.c: the bytes of one value.
EncodeValue(types, f, v) ==
    CASE f.type = 0 -> IF Fits32(v) THEN Bytes(v, 4) ELSE Bytes(v, 8)
      [] f.type = 1 -> Bytes(IF v THEN 1 ELSE 0, 4)
      [] f.type = 2 -> v
      [] f.type = 3 -> Encode(types, types[f.st], v)

\* encode_array, encode_object, encode_integer, encode_uint64: the word of a field
\* and its data.
Scalar(bs) ==
    IF Len(bs) = 4 /\ Value(bs) < Base^2 \div 2 - 1 THEN [w |-> (Value(bs) + 1) * 2, data |-> << >>]
    ELSE [w |-> 0, data |-> Sized(bs)]
EncodeArray(f, es) ==
    IF f.type = 1 THEN [i \in DOMAIN es |-> Value(es[i])] ELSE FlattenSeq([i \in DOMAIN es |-> Sized(es[i])])
FieldWith(f, v, es) ==
    CASE f.array /\ f.type = 0 -> [w |-> 0, data |-> Sized(IntegerArray(v))]
      [] f.array /\ f.type > 0 -> [w |-> 0, data |-> Sized(EncodeArray(f, es))]
      [] ~f.array /\ f.type > 1 -> [w |-> 0, data |-> Sized(es[1])]
      [] ~f.array /\ f.type <= 1 -> Scalar(es[1])
EncodeField(types, f, v) ==
    LET vs == IF f.array THEN v ELSE <<v>> IN FieldWith(f, v, [i \in DOMAIN vs |-> EncodeValue(types, f, vs[i])])

\* sproto_encode: a word for each field that there is, and one for a gap of tags.
AddField(acc, tag, e) ==
    LET gap == tag - acc.last - 1 IN
    [words |-> acc.words \o (IF gap > 0 THEN <<(gap - 1) * 2 + 1>> ELSE << >>) \o <<e.w>>,
     data |-> acc.data \o e.data, last |-> tag]
Fields(types, st, obj) ==
    FoldLeft(LAMBDA acc, f : IF f.tag \notin DOMAIN obj THEN acc
                             ELSE AddField(acc, f.tag, EncodeField(types, f, obj[f.tag])),
             [words |-> << >>, data |-> << >>, last |-> -1], st.f)
Message(r) == Word(Len(r.words)) \o FlattenSeq([i \in DOMAIN r.words |-> Word(r.words[i])]) \o r.data
Encode(types, st, obj) == Message(Fields(types, st, obj))

NotOk == [ok |-> FALSE, v |-> << >>, rest |-> << >>]
Ok(v) == [ok |-> TRUE, v |-> v, rest |-> << >>]

RECURSIVE Decode(_, _, _), DecodeWords(_, _, _, _, _, _)

\* decode of lsproto.c: a value from its bytes; a struct must use them all.
UsedUp(sub) == IF sub.ok /\ sub.rest = << >> THEN sub ELSE NotOk
DecodeValue(types, f, bs) ==
    CASE f.type = 0 -> Ok(Expand(bs))
      [] f.type = 1 -> Ok(Value(bs) # 0)
      [] f.type = 2 -> Ok(bs)
      [] f.type = 3 -> UsedUp(Decode(types, types[f.st], bs))

\* decode_array, decode_array_object and the fields that have data.
Cut(bs) ==
    LET len == bs[1] IN
    IF len \notin {4, 8} \/ (Len(bs) - 1) % len # 0 THEN <<Bad>>
    ELSE [i \in 1..((Len(bs) - 1) \div len) |-> SubSeq(bs, 2 + len * (i - 1), 1 + len * i)]
Pieces(f, bs) ==
    CASE f.type = 0 -> IF bs = << >> THEN << >> ELSE Cut(bs)
      [] f.type = 1 -> [i \in DOMAIN bs |-> <<bs[i]>>]
      [] f.type > 1 -> Elements(bs)
All(vs) == IF \A i \in DOMAIN vs : vs[i].ok THEN Ok([i \in DOMAIN vs |-> vs[i].v]) ELSE NotOk
DecodeArray(types, f, es) ==
    IF ~Valid(es) THEN NotOk ELSE All([i \in DOMAIN es |-> DecodeValue(types, f, es[i])])
DecodeField(types, f, bs) ==
    IF f.array THEN DecodeArray(types, f, Pieces(f, bs))
    ELSE IF f.type = 1 \/ (f.type = 0 /\ Len(bs) \notin {4, 8}) THEN NotOk
    ELSE DecodeValue(types, f, bs)

\* What a word says of its field i: a value, or a value in the data.
WordValue(types, f, w, data) ==
    IF w = 0 THEN DecodeField(types, f, SubSeq(data, 5, 4 + ToDword(data)))
    ELSE IF f.array \/ f.type > 1 THEN NotOk
    ELSE Ok(IF f.type = 1 THEN w # 2 ELSE w \div 2 - 1)
With(obj, tag, d) ==
    [ok |-> d.ok, v |-> [k \in DOMAIN obj \cup {tag} |-> IF k = tag THEN d.v ELSE obj[k]]]

\* Mutant: the words of fields that the type does not have keep their data.
AfterWord_Stay(st, tag, w, data) ==
    IF w = 0 /\ FindTag(st, tag) # 0 THEN Drop(data, 4 + ToDword(data)) ELSE data
AfterWord(st, tag, w, data) == IF w = 0 THEN Drop(data, 4 + ToDword(data)) ELSE data

\* sproto_decode: the words in turn; data is what is left of it.
DecodeNext(types, st, words, tag, rest, r) ==
    IF r.ok THEN DecodeWords(types, st, words, tag, rest, r.v) ELSE NotOk
DecodeOne(types, st, i, tag, w, data, obj) ==
    IF i = 0 THEN Ok(obj) ELSE With(obj, tag, WordValue(types, st.f[i], w, data))
DecodeWords(types, st, words, tag, data, obj) ==
    LET w == words[1] IN
    IF words = << >> THEN [Ok(obj) EXCEPT !.rest = data]
    ELSE IF w % 2 = 1 THEN DecodeWords(types, st, Tail(words), tag + 1 + w \div 2, data, obj)
    ELSE IF w = 0 /\ (Len(data) < 4 \/ Len(data) < 4 + ToDword(data)) THEN NotOk
    ELSE DecodeNext(types, st, Tail(words), tag + 1, AfterWord(st, tag, w, data),
                    DecodeOne(types, st, FindTag(st, tag), tag, w, data, obj))
Decode(types, st, bs) ==
    LET fn == ToWord(bs, 0) IN
    IF Len(bs) < 2 \/ Len(bs) < 2 + 2 * fn THEN NotOk
    ELSE DecodeWords(types, st, [i \in 1..fn |-> ToWord(bs, i)], 0, Drop(bs, 2 + 2 * fn), << >>)

-----------------------------------------------------------------------------
\* Packing of zeros, eight bytes at a time.

FF == 255
Mask(seg) == FoldRight(LAMBDA b, acc : (IF b # 0 THEN 1 ELSE 0) + 2 * acc, seg, 0)
NotZero(seg) == SelectSeq(seg, LAMBDA b : b # 0)

\* pack_seg: the room that a segment takes, when run segments have gone as they are.
PackSeg(seg, run) == LET nz == Len(NotZero(seg)) IN
    IF nz = 8 \/ (nz \in {6, 7} /\ run > 0) THEN IF run > 0 THEN 8 ELSE 10 ELSE nz + 1

\* sproto_pack, write_ff.  A run is copied from the source, not from the padded
\* segments: when it ends with MaxRun segments and the last one is cut, the bytes
\* behind the source are copied too (Behind stands for each of them).
Behind == 170
\* Mutant: a run is announced with its length, not with the length less one.
WriteFF_Length(run) == IF run = << >> THEN << >> ELSE <<FF, Len(run)>> \o FlattenSeq(run)
WriteFF(run) == IF run = << >> THEN << >> ELSE <<FF, Len(run) - 1>> \o FlattenSeq(run)
PadWith(bs, b) == bs \o [i \in 1..((8 - (Len(bs) % 8)) % 8) |-> b]
Segments(bs) == [i \in 1..(Len(bs) \div 8) |-> SubSeq(bs, 8 * i - 7, 8 * i)]
Pack(bs) ==
    LET copied == Segments(PadWith(bs, Behind))
        add(acc, seg) ==
            LET n == PackSeg(seg, acc.run) IN
            IF n = 10 THEN [acc EXCEPT !.run = 1, !.ff = <<seg>>, !.i = @ + 1]
            ELSE IF n = 8 /\ acc.run > 0
            THEN IF acc.run + 1 = MaxRun
                 THEN [out |-> acc.out \o WriteFF(Append(acc.ff, copied[acc.i])), run |-> 0, ff |-> << >>, i |-> acc.i + 1]
                 ELSE [acc EXCEPT !.run = @ + 1, !.ff = Append(@, seg), !.i = @ + 1]
            ELSE [out |-> acc.out \o WriteFF(acc.ff) \o <<Mask(seg)>> \o NotZero(seg), run |-> 0, ff |-> << >>, i |-> acc.i + 1]
        all == FoldLeft(add, [out |-> << >>, run |-> 0, ff |-> << >>, i |-> 1], Segments(PadWith(bs, 0)))
    IN  all.out \o WriteFF(all.ff)

\* sproto_unpack.  A stream that lacks its last byte is not noticed: the byte
\* behind it is taken.
RECURSIVE Spread(_, _, _), Unpack(_)
Spread(mask, src, i) ==
    IF i = 8 THEN << >>
    ELSE IF (mask \div 2^i) % 2 = 1 THEN <<src[1]>> \o Spread(mask, Tail(src), i + 1)
    ELSE <<0>> \o Spread(mask, src, i + 1)
Unpack(src) ==
    LET more == Append(src, Behind)
        n == (more[2] + 1) * 8
        used == Cardinality({i \in 0..7 : (src[1] \div 2^i) % 2 = 1})
    IN  IF src = << >> THEN << >>
        ELSE IF src[1] = FF
        THEN IF Len(src) < n + 2 THEN Bad ELSE SubSeq(src, 3, n + 2) \o Unpack(Drop(src, n + 2))
        ELSE IF Len(src) < used THEN Bad ELSE Spread(src[1], Tail(more), 0) \o Unpack(Drop(src, used + 1))

-----------------------------------------------------------------------------

RemoveAll(f, lack) == LET keep == SetToSortSeq(DOMAIN f \ lack, <) IN [i \in DOMAIN keep |-> f[keep[i]]]

\* A schema is imported as it was written.
Imported(types, protos) ==
    \E sp \in {CreateFromBundle(PackGroup(types, protos))} :
    /\ Len(sp.types) = Len(types) /\ Len(sp.protos) = Len(protos)
    /\ \A i \in DOMAIN types : sp.types[i].name = types[i].name /\ Len(sp.types[i].f) = Len(types[i].f)
        /\ \A j \in DOMAIN types[i].f :
              sp.types[i].f[j] = [types[i].f[j] EXCEPT !.extra = IF types[i].f[j].type = 0 /\ @ > 0 THEN 10^@ ELSE @]
    /\ \A i \in DOMAIN protos : sp.protos[i] = protos[i] /\ QueryProto(sp, protos[i].tag) = i

\* The words of a message have room in the header that was left for them.
HeaderFits(types, st, obj) == Len(Fields(types, st, obj).words) <= st.maxn

\* A message is read as it was written; and by a reader whose type lacks some of
\* the fields, as the rest of it.
ReadBy(types, st, old, obj) ==
    LET known == {old.f[i].tag : i \in DOMAIN old.f} \cap DOMAIN obj IN
    \E d \in {Decode(types, old, Encode(types, st, obj))} : d.ok /\ d.v = [k \in known |-> obj[k]]

\* Packing and unpacking gives the bytes, up to a multiple of eight, and never
\* takes more room than lpack asks for.
PackRoundTrip(bs) ==
    LET size == Len(bs)  block == 8 * MaxRun  back == Unpack(Pack(bs)) IN
    /\ Len(back) = Len(PadWith(bs, 0)) /\ SubSeq(back, 1, size) = bs
    /\ Len(Pack(bs)) <= ((size + block - 1) \div block) * 2 + size + 2
=============================================================================
