------------------------------ MODULE MCCodecs ------------------------------
(***************************************************************************)
(* The pure algorithms of the libraries.  A behaviour picks one of them    *)
(* and grows an input for it step by step; the invariants compare what the *)
(* code makes of the input with a reference.                               *)
(***************************************************************************)
EXTENDS Integers, Sequences, FiniteSets

VARIABLES focus,  \* the library that this behaviour is about
          x,      \* its input
          step    \* steps taken to build it

mcVars == <<focus, x, step>>

Lpeg == INSTANCE Lpeg WITH Char <- {"a", "b", "c"}, MaxRules <- 3, MaxBehind <- 255
LpegKeys == INSTANCE LpegKeys WITH MaxKeys <- 4
Seri == INSTANCE Seri WITH Base <- 4, MaxCookie <- 4, BlockSize <- 3, MaxDepth <- 2
Cjson == INSTANCE Cjson WITH BufSize <- 2, Increment <- 2, MaxDepth <- 2, Ratio <- 2, Safe <- 3, Precision <- 2,
                        Exact <- 15, MaxExp <- 7, MinExp <- 12, ExpoRange <- 32

Sproto == INSTANCE Sproto WITH Base <- 8, MaxRun <- 2
Bson == INSTANCE Bson WITH Base <- 8, DefaultCap <- 16, MaxDepth <- 1
Netpack == INSTANCE Netpack WITH Base <- 2, QueueSize <- 2, HashSize <- 2
Cluster == INSTANCE Cluster
Sharedata == INSTANCE Sharedata WITH Bits <- 8
Crypt == INSTANCE Crypt WITH Width <- 8, P <- 251, G <- 5, Block <- 4,
                        ESK <- <<7, 130, 64, 255>>
Buffer == INSTANCE SocketBuffer WITH First <- 1, LargePage <- 2

To(v) == x' = v /\ step' = step + 1 /\ UNCHANGED focus

-----------------------------------------------------------------------------
\* lpeg: patterns built by the operators of the library, as the caller wrote
\* them (raw) and as the library keeps them (tree).
LpegLeaves == {<<"char", "a">>, <<"char", "b">>, <<"set", {"a", "b"}>>, <<"true">>, <<"call", 1>>}
LpegInit == x \in {[raw |-> t, tree |-> t, rules |-> << >>] : t \in LpegLeaves \cup {<<"any">>, <<"false">>}}

LpegTo(r, t) == t # Lpeg!Error /\ To([x EXCEPT !.raw = r, !.tree = t])
LpegUnary ==
    /\ focus = "lpeg" /\ x.rules = << >> /\ step < 3
    /\ \/ \E op \in {"not", "and", "cap", "rt"} : LpegTo(<<op, x.raw>>, <<op, x.tree>>)
       \/ LpegTo(<<"behind", x.raw, Lpeg!FixedLen(x.tree, << >>, {})>>, Lpeg!LpBehind(x.tree))
       \/ LpegTo(<<"rep", x.raw>>, Lpeg!LpStar(x.tree, 0))
       \/ LpegTo(<<"choice", x.raw, <<"true">>>>, Lpeg!LpStar(x.tree, -1))
LpegBinary ==
    /\ focus = "lpeg" /\ x.rules = << >> /\ step < 2
    /\ \E t \in LpegLeaves :
        \/ LpegTo(<<"seq", x.raw, t>>, Lpeg!LpSeq(x.tree, t))
        \/ LpegTo(<<"seq", t, x.raw>>, Lpeg!LpSeq(t, x.tree))
        \/ LpegTo(<<"choice", x.raw, t>>, Lpeg!LpChoice(x.tree, t))
        \/ LpegTo(<<"choice", t, x.raw>>, Lpeg!LpChoice(t, x.tree))
        \/ LpegTo(<<"seq", <<"not", t>>, x.raw>>, Lpeg!LpSub(x.tree, t))
LpegGrammar ==
    /\ focus = "lpeg" /\ x.rules = << >> /\ Lpeg!HasCalls(x.tree)
    /\ Lpeg!VerifyGrammar(<<x.tree>>)
    /\ To([x EXCEPT !.rules = <<x.tree>>])

Subjects == UNION {[1..n -> {"a", "b", "c"}] : n \in 0..2} \cup [1..3 -> {"a", "b"}]
LpegReady == focus = "lpeg" /\ (x.rules # << >> \/ ~Lpeg!HasCalls(x.tree))

\* lpcode.c, lpvm.c: the program compiled from a pattern, with its shortcuts,
\* tests and peephole rewrites, matches what the pattern says, and as much of it.
CompiledMatches ==
    LpegReady => \A s \in Subjects :
        Lpeg!VmMatch(x.tree, x.rules, s)
            = Lpeg!Ref(x.raw, IF x.rules = << >> THEN << >> ELSE <<x.raw>>, s, 0)

\* lpcode.c: what the analysis of a pattern tells the code generator is true of
\* its matches: nullable, nofail, fixedlen, getfirst and headfail.
AnalysisSound ==
    LpegReady => \A s \in Subjects : Lpeg!AnalysisHolds(x.tree, x.rules, s)

-----------------------------------------------------------------------------
\* lptree.c: patterns with values, built from values and from each other.
KeysValues == {10, 11}
KeysInit == x = LpegKeys!Empty
KeysTo(h) == h # LpegKeys!Error /\ To(h)
KeysLeaf ==
    /\ focus = "keys" /\ step < 4
    /\ \/ \E v \in KeysValues \cup {LpegKeys!Nil}, w \in KeysValues : KeysTo(LpegKeys!LpConstCapture(x, <<v, w>>))
       \/ \E v \in KeysValues : KeysTo(LpegKeys!LpV(x, v)) \/ KeysTo(LpegKeys!LpConstCapture(x, <<v>>))
       \/ KeysTo(LpegKeys!LpArgCapture(x, 1)) \/ KeysTo(LpegKeys!LpConstCapture(x, << >>))
KeysNode ==
    /\ focus = "keys" /\ step < 4 /\ x.pats # << >>
    /\ LET p == x.pats[Len(x.pats)] IN
       \/ KeysTo(LpegKeys!NewRoot1Sib(x, p)) \/ KeysTo(LpegKeys!NumCapture(x, p, 1))
       \/ \E v \in KeysValues \cup {LpegKeys!Nil} : KeysTo(LpegKeys!CaptureAux(x, p, v))
       \/ \E i \in DOMAIN x.pats : KeysTo(LpegKeys!NewRoot2Sib(x, x.pats[i], p))
       \/ \E i \in DOMAIN x.pats : KeysTo(LpegKeys!NewGrammar(x, <<<<10, x.pats[i]>>, <<11, p>>>>))

\* lptree.c: whatever is built from a pattern, its nodes lead to the Lua values
\* that they were made with; ktables are shared and renumbered.
KeysStayRight == focus = "keys" => LpegKeys!KeysStayRight(x)

-----------------------------------------------------------------------------
\* lua-seri.c: lists of values, growing by a value or by putting them in a table.
Str(n) == [i \in 1..n |-> i % 4]
SeriAtoms == {<<"nil">>, <<"bool", TRUE>>, <<"real", 5>>, <<"ptr", 300>>}
             \cup {<<"int", n>> : n \in {0, 3, 4, 16, 127, 128, -1, -128, -129}}
             \cup {<<"str", Str(n)>> : n \in {0, 3, 4, 17}}
SeriInit == x = << >>
SeriSmall == {<<"nil">>, <<"int", 3>>, <<"str", Str(4)>>}
SeriValue == focus = "seri" /\ Len(x) < 4 /\ step < 4
             /\ \E v \in IF x = << >> THEN SeriAtoms ELSE SeriSmall : To(Append(x, v))
SeriTable ==
    /\ focus = "seri" /\ x # << >> /\ step < 5 /\ <<"nil">> \notin {x[i] : i \in DOMAIN x}
    /\ \/ To(<<<<"table", x, << >>>>>>)
       \/ To(<<<<"table", Tail(x), <<<<<<"str", Str(1)>>, x[1]>>>>>>>>)
       \/ To(<<<<"pairs", << >>, [i \in DOMAIN x |-> <<<<"int", i>>, x[i]>>]>>>>)

\* lua-seri.c: values come out of a message as they went in, across blocks,
\* number widths and size encodings.
SeriRoundTrip == focus = "seri" => Seri!RoundTrip(x)
\* lua-seri.c: a message that was cut short never gives values that were not sent.
SeriCutIsNoticed == focus = "seri" => Seri!CutIsNoticed(x)

-----------------------------------------------------------------------------
\* lua_cjson.c: a value to write, or a text to read, or a string of escapes.
JsonNum(m, e) == <<"num", m, e>>
JsonAtoms == {<<"nan">>, <<"other">>, <<"bool", FALSE>>, <<"null">>, <<"table", {}>>}
             \cup {<<"str", s>> : s \in {<< >>, <<34, 92>>, <<1, 127, 47>>, <<10, 195, 169>>}}
             \cup {JsonNum(0, 0), JsonNum(-12, 0), JsonNum(5, -1), JsonNum(1, 2), JsonNum(1, -7),
                   JsonNum(123, 0), JsonNum(15, 5), JsonNum(1, -11)}
JsonKeys == {<<"str", <<97>>>>, JsonNum(1, 0), JsonNum(2, 0), JsonNum(3, 0), JsonNum(9, 0),
             JsonNum(0, 0), JsonNum(15, -1), <<"bool", TRUE>>}
JsonInit == x \in {[kind |-> "value", v |-> v] : v \in JsonAtoms} \cup {[kind |-> "text", v |-> << >>]}
                 \cup {[kind |-> "string", v |-> << >>, means |-> << >>]}
JsonPair ==
    /\ focus = "json" /\ x.kind = "value" /\ step < 3 /\ x.v[1] = "table"
    /\ \E k \in JsonKeys, v \in {JsonNum(1, 2), <<"str", <<34>>>>} :
          k \notin Cjson!Keys(x.v[2]) /\ To([x EXCEPT !.v = <<"table", @[2] \cup {<<k, v>>}>>])
JsonWrap ==
    /\ focus = "json" /\ x.kind = "value" /\ step < 3
    /\ \E k \in JsonKeys : To([x EXCEPT !.v = <<"table", {<<k, @>>}>>])

\* Texts grow as long as the only fault is that they end.
JsonWords == {<<34>>, <<92>>, <<91>>, <<93>>, <<91, 91>>, <<93, 93>>, <<123>>, <<125>>, <<58>>, <<44>>, <<45>>, <<51>>, <<46>>,
              <<101, 51>>, <<101, 45, 51>>, Cjson!Null}
JsonText ==
    /\ focus = "json" /\ x.kind = "text" /\ step < 5
    /\ \E d \in {Cjson!Decode(x.v)} : d.ok \/ d.p = Len(x.v)
    /\ \E w \in JsonWords : To([x EXCEPT !.v = @ \o w])

\* Escapes and what they mean: A, e with acute, the euro sign, U+10000, U+1F600.
Esc(a, b, c, d) == <<92, 117, a, b, c, d>>
JsonEscapes == {<<Esc(48, 48, 52, 49), <<65>>>>, <<Esc(48, 48, 101, 57), <<195, 169>>>>,
                <<Esc(50, 48, 65, 67), <<226, 130, 172>>>>,
                <<Esc(100, 56, 48, 48) \o Esc(100, 99, 48, 48), <<240, 144, 128, 128>>>>,
                <<Esc(68, 56, 51, 68) \o Esc(68, 69, 48, 48), <<240, 159, 152, 128>>>>,
                <<<<97>>, <<97>>>>, <<<<92, 110>>, <<10>>>>}
JsonEscape ==
    /\ focus = "json" /\ x.kind = "string" /\ step < 3
    /\ \E e \in JsonEscapes : To([x EXCEPT !.v = @ \o e[1], !.means = @ \o e[2]])

\* lua_cjson.c: what was written is read as the same value, but for what JSON
\* cannot say and the last digits of numbers that are not short integers; numbers in
\* every format of %g, arrays with holes, number keys.
JsonRoundTrip == focus = "json" /\ x.kind = "value" => Cjson!RoundTrip(x.v)
\* lua_cjson.c: the unchecked writes of the encoder stay inside the buffer.
JsonNoOverrun == focus = "json" /\ x.kind = "value" => Cjson!NoOverrun(x.v)
\* lua_cjson.c: strings of an accepted text fit the buffer that is never checked;
\* its value can be written unless a number is infinite or none, and what was read
\* exactly is read again as it was.
JsonAccepted == focus = "json" /\ x.kind = "text" => Cjson!Accepted(x.v)
\* lua_cjson.c: escapes, surrogate pairs too, become the UTF-8 of their characters.
JsonEscapesRight ==
    focus = "json" /\ x.kind = "string" =>
        \E d \in {Cjson!Decode(<<34>> \o x.v \o <<34>>)} : d.ok /\ d.v = <<"str", x.means>>

-----------------------------------------------------------------------------
\* sproto.c: a type grows by fields; then a message of it by values.  Or bytes to
\* pack.
SprotoField(name, tag, type, array) ==
    [name |-> <<name>>, tag |-> tag, type |-> type, st |-> IF type = 3 THEN 1 ELSE 0, key |-> -1,
     extra |-> 0, array |-> array]
SprotoInner == [name |-> <<1>>, f |-> <<SprotoField(1, 0, 0, FALSE), SprotoField(2, 2, 2, FALSE)>>]
SprotoInit ==
    x \in {[kind |-> "type", types |-> <<SprotoInner, [name |-> <<2>>, f |-> << >>]>>, protos |-> << >>],
          [kind |-> "bytes", bs |-> << >>]}
SprotoAddField ==
    /\ focus = "sproto" /\ x.kind = "type" /\ Len(x.types[2].f) < 3 /\ x.protos = << >>
    /\ \E gap \in 0..1, type \in 0..3, array \in BOOLEAN, extra \in 0..1 :
        LET f == x.types[2].f
            last == IF f = << >> THEN -1 ELSE f[Len(f)].tag
            new == [SprotoField(3, last + 1 + gap, type, array) EXCEPT
                      !.extra = IF type \in {0, 2} THEN extra ELSE 0,
                      !.key = IF array /\ type = 3 /\ extra = 1 THEN 0 ELSE -1]
        IN  /\ f # << >> => extra = 0 /\ array = (type # 1)
            /\ Len(f) = 2 => type = 2
            /\ To([x EXCEPT !.types[2].f = Append(@, new)])
SprotoAddProto ==
    /\ focus = "sproto" /\ x.kind = "type" /\ Len(x.protos) < 2 /\ x.types[2].f = << >>
    /\ \E q \in 0..2, r \in 0..2, c \in BOOLEAN :
        /\ c => r = 0
        /\ To([x EXCEPT !.protos = Append(@, [name |-> <<4>>, tag |-> 2 * Len(@), request |-> q, response |-> r, confirm |-> c])])
SprotoValues(f) ==
    CASE f.type = 0 /\ ~f.array -> {0, 30, 31, -1, 2047, 2048, -2049}
      [] f.type = 0 /\ f.array -> {<< >>, <<7, -2>>, <<7, 2048>>}
      [] f.type = 1 /\ ~f.array -> BOOLEAN
      [] f.type = 1 /\ f.array -> {<< >>, <<TRUE, FALSE>>}
      [] f.type = 2 /\ ~f.array -> {<< >>, <<0, 1>>}
      [] f.type = 2 /\ f.array -> {<< >>, <<<< >>, <<0, 1>>>>}
      [] f.type = 3 /\ ~f.array -> {<< >>, [t \in {0} |-> -1]}
      [] f.type = 3 /\ f.array -> {<< >>, <<<< >>, [t \in {2} |-> <<1>>]>>}
\* The schemas of the writer and of a reader that lacks some of the fields.
SprotoStart ==
    /\ focus = "sproto" /\ x.kind = "type" /\ x.protos = << >>
    /\ \E lack \in SUBSET (DOMAIN x.types[2].f) :
        LET old == [x.types EXCEPT ![2].f = Sproto!RemoveAll(@, lack)]
            made(t) == Sproto!CreateFromBundle(Sproto!PackGroup(t, << >>)).types
        IN  To([kind |-> "message", types |-> made(x.types), old |-> made(old)[2], obj |-> << >>])
SprotoSetField ==
    /\ focus = "sproto" /\ x.kind = "message"
    /\ \E i \in DOMAIN x.types[2].f :
        LET f == x.types[2].f[i] IN
        /\ f.extra = 0 /\ f.key < 0 /\ \A t \in DOMAIN x.obj : t < f.tag
        /\ \E v \in SprotoValues(f) :
              To([x EXCEPT !.obj = [t \in DOMAIN @ \cup {f.tag} |-> IF t = f.tag THEN v ELSE @[t]]])
\* Segments of eight bytes by where their zeros are, and a last one that is cut.
SprotoSegs == {<<1, 2, 3, 4, 5, 6, 7, 255>>, <<1, 0, 3, 4, 5, 6, 7, 8>>, <<1, 0, 3, 4, 5, 6, 7, 0>>,
               <<0, 0, 3, 4, 5, 6, 7, 0>>, <<0, 0, 0, 0, 0, 0, 0, 0>>, <<9, 9>>, <<0>>, <<1, 2, 3, 4, 5, 6, 7>>}
SprotoAddBytes ==
    /\ focus = "sproto" /\ x.kind = "bytes" /\ Len(x.bs) % 8 = 0 /\ step < 5
    /\ \E seg \in SprotoSegs : To([x EXCEPT !.bs = @ \o seg])

SprotoMessage == focus = "sproto" /\ x.kind = "message"

\* sproto.c: a schema is imported as the parser wrote it, and every protocol of it
\* is found by its tag.
SprotoImported == focus = "sproto" /\ x.kind = "type" => Sproto!Imported(x.types, x.protos)
\* sproto.c: the words of a message never run into the data behind the header.
SprotoHeaderFits == SprotoMessage => Sproto!HeaderFits(x.types, x.types[2], x.obj)
\* sproto.c: a message is read as it was written; and by a reader whose type lacks
\* some of the fields as the rest of it.
SprotoRead == SprotoMessage => Sproto!ReadBy(x.types, x.types[2], x.old, x.obj)
\* sproto.c: packing zeros away loses nothing and keeps to the room that lpack has.
SprotoPacked == focus = "sproto" /\ x.kind = "bytes" => Sproto!PackRoundTrip(x.bs)

-----------------------------------------------------------------------------
\* lua-bson.c: tables that grow, or are put into another one; and strings.
Count(n) == [i \in 1..n |-> i % 8]
BsonObjects == {<<"obj", Bson!BINARY, <<0, 1, 2>>>>, <<"obj", Bson!OBJECTID, Count(12)>>, <<"obj", Bson!DATE, <<7, 7, 7, 7>>>>,
                <<"obj", Bson!TIMESTAMP, Count(8)>>, <<"obj", Bson!REGEX, <<97, 0, 105, 0>>>>, <<"obj", Bson!NULL, << >>>>,
                <<"obj", Bson!DBPOINTER, <<2, 0, 0, 0, 97, 0>> \o Count(12)>>, <<"obj", Bson!JSCODE, <<2, 0, 0, 0, 97, 0>>>>,
                <<"obj", Bson!CODEWS, <<3, 1, 0, 0, 97, 0, 0>> \o <<5, 0, 0, 0>>>>}
BsonAtoms == BsonObjects \cup {<<"int", 5>>, <<"int", -2049>>, <<"real", 77>>, <<"bool", TRUE>>, <<"str", << >>>>, <<"str", <<195, 169>>>>,
                <<"str", <<195>>>>, <<"other">>, <<"raw", <<5, 0, 0, 0, 0>>>>}
BsonNews == {<<"int", -3>>, <<"int", 2050>>, <<"real", 3>>, <<"bool", FALSE>>, <<"obj", Bson!DATE, <<1, 0, 7, 7>>>>,
             <<"obj", Bson!TIMESTAMP, <<7, 1, 7, 1, 7, 1, 7, 1>>>>, <<"obj", Bson!OBJECTID, [i \in 1..12 |-> 7]>>}
Bytes8 == {36, 128, 143, 144, 160, 191, 192, 194, 224, 237, 240, 244, 245, 248}
BsonInit == x \in {[kind |-> "table", v |-> <<"table", << >>, << >>>>], [kind |-> "utf8", v |-> << >>]}
BsonPair ==
    /\ focus = "bson" /\ x.kind = "table" /\ Len(x.v[3]) < 3 /\ step < 3
    /\ \E a \in BsonAtoms : To([x EXCEPT !.v[3] = Append(@, <<<<97 + Len(@)>>, a>>)])
BsonElement ==
    /\ focus = "bson" /\ x.kind = "table" /\ Len(x.v[2]) < 2 /\ step < 3
    /\ \E a \in {<<"int", 5>>, <<"str", <<97, 98>>>>} : To([x EXCEPT !.v[2] = Append(@, a)])
BsonWrap ==
    /\ focus = "bson" /\ x.kind = "table" /\ step < 4
    /\ \/ To([x EXCEPT !.v = <<"table", << >>, <<<<<<107>>, @>>>>>>])
       \/ \E n \in 1..Len(x.v[3]) :
             x.v[2] # << >> /\ To([x EXCEPT !.v = <<"table", << >>, <<<<<<107>>, <<"table", @[2], @[3], n>>>>>>>>])
       \/ To([x EXCEPT !.v = <<"table", << >>, <<<<<<107>>, <<"pairs", << >>, @[3]>>>>>>>>])
       \/ To([x EXCEPT !.v = <<"table", << >>, <<<<<<107>>, <<"len", @[2], << >>>>>>>>>>])
BsonByte == focus = "bson" /\ x.kind = "utf8" /\ step < 4 /\ \E b \in Bytes8 : To([x EXCEPT !.v = Append(@, b)])

BsonTable == focus = "bson" /\ x.kind = "table"
\* lua-bson.c: a table is read from its encoding as it was, with the number keys
\* of dictionaries as strings, and without the pairs that lua_next gives before an array
\* in the hash part.
BsonRoundTrip == BsonTable => Bson!RoundTrip(x.v)
\* lua-bson.c: the writes of the encoder stay inside the buffer that it reserved.
BsonNoOverrun == BsonTable => Bson!NoOverrun(x.v)
\* lua-bson.c: a value written in place through the index of a document changes
\* that field and no other.
BsonReplacedOnly == BsonTable /\ Bson!Encode(x.v).ok => Bson!ReplacedOnly(x.v, BsonNews)
\* lua-bson.c: dates before 1970, timestamps, expressions with their options,
\* object ids and binaries mean what they were made from, read or not.
BsonObjectsMean ==
    focus = "bson" /\ x.kind = "utf8" /\ Len(x.v) = 2 =>
        LET hex == [i \in 1..24 |-> IF i % 3 = 0 THEN 97 + (x.v[1] % 6) ELSE 48 + (x.v[2] % 10)] IN
        /\ \A d \in {0, x.v[1], -x.v[2]} : Bson!ObjectMeans(Bson!LDate(d), <<"date", d>>)
        /\ Bson!ObjectMeans(Bson!LTimestamp(x.v[1], x.v[2]), <<"timestamp", x.v[1], x.v[2]>>)
        /\ Bson!ObjectMeans(Bson!LBinary(x.v), <<"binary", x.v, 0>>)
        /\ Bson!ObjectMeans(Bson!LObjectId(hex), <<"objectid", hex>>)
        /\ \A p \in {<< >>, <<97>>, <<97, 98>>}, o \in {<< >>, <<105>>} :
              Bson!ObjectMeans(Bson!LRegex(p, o), <<"regex", p, o>>)
\* lua-bson.c: exactly well-formed UTF-8 is taken.
BsonUtf8 == focus = "bson" /\ x.kind = "utf8" => Bson!Utf8Right(x.v)

-----------------------------------------------------------------------------
\* lua-netpack.c: two sockets whose packages collide in the hash.  For each one
\* what was sent on it and how much of it has come; socket 2 is opened a second
\* time after a close, with another stream.
NetFd == {2, 4}
NetStream(fd, again) ==
    IF fd = 4 THEN Netpack!LPack(<<41, 42>>) \o Netpack!LPack(<<43>>)
    ELSE IF again THEN Netpack!LPack(<<31>>) \o Netpack!LPack(<< >>)
    ELSE Netpack!LPack(<<21, 22, 23>>) \o Netpack!LPack(<< >>) \o Netpack!LPack(<<24>>)
NetFresh == [come |-> << >>, direct |-> << >>, rung |-> << >>]
NetInit == x = [q |-> Netpack!NewQueue, s |-> [fd \in NetFd |-> NetFresh], again |-> FALSE]
NetData ==
    /\ focus = "netpack"
    /\ \E fd \in NetFd, n \in {1, 2, 3, 4, 10} :
        LET all == NetStream(fd, x.again)
            have == Len(x.s[fd].come)
            r == Netpack!FilterData(x.q, fd, SubSeq(all, have + 1, have + n))
        IN  /\ have + n <= Len(all)
            /\ To([x EXCEPT !.q = r.q, !.s[fd].come = SubSeq(all, 1, have + n), !.s[fd].direct = @ \o r.data])
NetPop ==
    /\ focus = "netpack"
    /\ LET r == Netpack!LPop(x.q)
           p == r.data[1]
       IN  r.data # << >> /\ To([x EXCEPT !.q = r.q, !.s[p.id].rung = Append(@, p.buffer)])
NetClose ==
    /\ focus = "netpack" /\ ~x.again /\ Netpack!Of(Netpack!Ring(x.q), 2) = << >>
    /\ To([x EXCEPT !.q = Netpack!CloseUncomplete(@, 2), !.s[2] = NetFresh, !.again = TRUE])

\* lua-netpack.c: however the bytes of two sockets are cut and mixed, the packages
\* that come out are those that were sent, each once, in order; and a socket that
\* is opened again under an old id begins afresh.
NetReassembled ==
    focus = "netpack" => \A fd \in NetFd :
        LET s == x.s[fd] IN Netpack!Reassembled(x.q, fd, s.come, s.direct, s.rung)
\* lua-netpack.c: every block is in the queue, with Lua or freed, and none is left
\* when the queue is cleared.
NetNothingLeaks == focus = "netpack" => Netpack!NothingLeaks(x.q) /\ Netpack!LClear(x.q).mem = 0

-----------------------------------------------------------------------------
\* lua-socket.c: messages pushed to two sockets' buffers, and read by size, by line
\* or all.  all has what each buffer should hold, got and want the last result.
BufMsgs == {<<97>>, <<13>>, <<10, 97>>, <<97, 13, 10>>}
BufSep == {<<13, 10>>, <<10>>}
BufInit == x = [p |-> Buffer!NewPool({1, 2}), all |-> [s \in {1, 2} |-> << >>], got |-> << >>, want |-> << >>]
BufPush ==
    /\ focus = "buffer" /\ step < 6
    /\ \E s \in {1, 2}, m \in BufMsgs :
        Len(x.all[s]) < 5 /\ (s = 2 => m = <<13>>)
        /\ To([x EXCEPT !.p = Buffer!LPushBuffer(@, s, m), !.all[s] = @ \o m, !.got = << >>, !.want = << >>])
BufRead(s, r, want, rest) == To([x EXCEPT !.p = r.p, !.got = r.got, !.want = want, !.all[s] = rest])
BufPop ==
    /\ focus = "buffer" /\ step < 6
    /\ \E s \in {1, 2}, n \in {0, 1, 3, 4} :
        LET all == x.all[s] IN
        IF n = 0 \/ Len(all) < n THEN BufRead(s, Buffer!LPopBuffer(x.p, s, n), << >>, all)
        ELSE BufRead(s, Buffer!LPopBuffer(x.p, s, n), <<SubSeq(all, 1, n)>>, SubSeq(all, n + 1, Len(all)))
BufLine ==
    /\ focus = "buffer" /\ step < 6
    /\ \E s \in {1, 2}, sep \in BufSep :
        LET l == Buffer!FirstLine(x.all[s], sep) IN BufRead(s, Buffer!LReadLine(x.p, s, sep), l.line, l.rest)
BufAll ==
    /\ focus = "buffer" /\ step < 6
    /\ \E s \in {1, 2} :
        \/ BufRead(s, Buffer!LReadAll(x.p, s), <<x.all[s]>>, << >>)
        \/ To([x EXCEPT !.p = Buffer!LClearBuffer(@, s), !.all[s] = << >>, !.got = << >>, !.want = << >>])

\* lua-socket.c: reads give the bytes as they came, over nodes and offsets, lines up
\* to a separator that may lie in several nodes; the rest stays.
BufReads ==
    focus = "buffer" =>
        /\ x.got = x.want
        /\ \A s \in {1, 2} : Buffer!Holds(x.p, s, x.all[s])
        /\ \A s \in {1, 2}, sep \in BufSep : Buffer!LCheckLine(x.p, s, sep) = (Buffer!FirstLine(x.all[s], sep).line # << >>)
\* lua-socket.c: no node of the pool is lost or used twice.
BufNodesKept == focus = "buffer" => Buffer!NodesKept(x.p)

-----------------------------------------------------------------------------
\* lua-cluster.c: two requests, or two answers, whose packages are sent in turns.
ClusterSizes == {0, 1, 32767, 32768, 32769, 33279, 65536, 65537}
ClusterAddrs == {[name |-> FALSE, len |-> 0, id |-> 7], [name |-> TRUE, len |-> 1, id |-> 8], [name |-> TRUE, len |-> 255, id |-> 9]}
ClusterStart(kind, sent, flight) ==
    [kind |-> kind, sent |-> sent, flight |-> flight,
     c |-> [parts |-> [s \in {1, 2} |-> Cluster!NoParts], whole |-> << >>, bad |-> FALSE]]
ClusterInit ==
    \/ \E a \in ClusterAddrs, n \in ClusterSizes, push \in BOOLEAN, a2 \in ClusterAddrs, n2 \in {1, 65537}, push2 \in BOOLEAN :
          \E second \in Cluster!NextSession(1) :
             x = ClusterStart("request",
                    <<[addr |-> a, push |-> push, msg |-> Cluster!Body(1, 0, n)],
                      [addr |-> a2, push |-> push2, msg |-> Cluster!Body(2, 0, n2)]>>,
                    <<Cluster!PackRequest(a, 1, 1, n, push), Cluster!PackRequest(a2, second, 2, n2, push2)>>)
    \/ \E ok \in BOOLEAN, n \in ClusterSizes, ok2 \in BOOLEAN, n2 \in ClusterSizes :
          LET most(k, o) == IF ~o /\ k > 32768 THEN 32768 ELSE k IN
          x = ClusterStart("response",
                    <<[session |-> 1, ok |-> ok, msg |-> Cluster!Body(1, 0, most(n, ok))],
                      [session |-> 2, ok |-> ok2, msg |-> Cluster!Body(2, 0, most(n2, ok2))]>>,
                    <<Cluster!LPackResponse(1, ok, 1, n), Cluster!LPackResponse(2, ok2, 2, n2)>>)
ClusterArrives ==
    /\ focus = "cluster"
    /\ \E i \in {1, 2} :
        /\ x.flight[i] # << >>
        /\ To([x EXCEPT !.flight[i] = Tail(@),
                        !.c = IF x.kind = "request" THEN Cluster!CollectRequest(@, x.flight[i][1])
                              ELSE Cluster!CollectResponse(@, x.flight[i][1])])

\* lua-cluster.c: requests, pushes and answers of every size arrive whole, with
\* their address and kind, when their packages come in turns.
ClusterWhole ==
    focus = "cluster" =>
        LET done == {i \in {1, 2} : x.flight[i] = << >>} IN
        /\ ~x.c.bad /\ Len(x.c.whole) = Cardinality(done)
        /\ {x.c.whole[i] : i \in DOMAIN x.c.whole} = {x.sent[i] : i \in done}
\* lua-cluster.c: no package is longer than the buffer it is made in, nor than its
\* two bytes of size can say.
ClusterFits == focus = "cluster" => \A i \in {1, 2} : \A k \in DOMAIN x.flight[i] : Cluster!Fits(x.flight[i][k])

-----------------------------------------------------------------------------
\* lua-sharedata.c: a table grows by pairs, in the order of lua_next, or is put into
\* another one.
ConfKeys == {<<"int", k>> : k \in {1, 2, 4, 0, -1}} \cup {<<"str", s>> : s \in {<< >>, <<97>>, <<98>>, <<97, 98>>}}
ConfValues == <<<<"str", <<98>>>>, <<"int", 7>>, <<"bool", FALSE>>, <<"str", <<99>>>>, <<"real", 5>>>>
ConfInit == x = << >>
ConfPair ==
    /\ focus = "conf" /\ Len(x) < IF step = Len(x) THEN 4 ELSE 2
    /\ \E k \in ConfKeys : k \notin {x[i][1] : i \in DOMAIN x} /\ To(Append(x, <<k, ConfValues[Len(x) + 1]>>))
ConfNest ==
    /\ focus = "conf" /\ Len(x) = 2 /\ step = 2
    /\ \E k \in {<<"int", 1>>, <<"str", <<97>>>>}, n \in Sharedata!Borders(x) : To(<<<<k, <<"table", n, x>>>>>>)

\* lua-sharedata.c: the converted table gives what the Lua table has, for every
\* order of the keys and every border, with keys that collide; its keys are walked
\* through once.
ConfSame ==
    focus = "conf" => \A n \in Sharedata!Borders(x) :
        LET t == <<"table", n, x>>
            c == Sharedata!LNewConf(t)
        IN  Sharedata!SameAs(c, c.strs, t, ConfKeys)

-----------------------------------------------------------------------------
\* lua-crypt.c: bytes to encode; the first two are also the keys of an exchange.
CryptBytes == {0, 1, 63, 128, 250, 255}
CryptInit == x \in {<<a>> : a \in 0..255}
CryptByte == focus = "crypt" /\ Len(x) < 5 /\ \E b \in CryptBytes : (Len(x) > 1 => x[1] \in CryptBytes) /\ To(Append(x, b))

\* lua-crypt.c: base64, hexadecimal and DES with its padding give the text back.
CryptTextsBack == focus = "crypt" => Crypt!TextsBack(x)
\* lua-crypt.c: the products of the key exchange do not overflow, and its two ends
\* agree.
CryptSecretsAgree == focus = "crypt" /\ Len(x) = 2 => Crypt!SecretsAgree(x[1], x[2])

-----------------------------------------------------------------------------
MCInit == /\ step = 0
          /\ \/ focus = "lpeg" /\ LpegInit
             \/ focus = "keys" /\ KeysInit
             \/ focus = "seri" /\ SeriInit
             \/ focus = "json" /\ JsonInit
             \/ focus = "sproto" /\ SprotoInit
             \/ focus = "bson" /\ BsonInit
             \/ focus = "netpack" /\ NetInit
             \/ focus = "buffer" /\ BufInit
             \/ focus = "conf" /\ ConfInit
             \/ focus = "crypt" /\ CryptInit
             \/ focus = "cluster" /\ ClusterInit
MCNext == LpegUnary \/ LpegBinary \/ LpegGrammar \/ KeysLeaf \/ KeysNode \/ SeriValue \/ SeriTable
          \/ JsonPair \/ JsonWrap \/ JsonText \/ JsonEscape
          \/ SprotoAddField \/ SprotoAddProto \/ SprotoStart \/ SprotoSetField \/ SprotoAddBytes
          \/ BsonPair \/ BsonElement \/ BsonWrap \/ BsonByte
          \/ NetData \/ NetPop \/ NetClose \/ BufPush \/ BufPop \/ BufLine \/ BufAll \/ ClusterArrives
          \/ ConfPair \/ ConfNest \/ CryptByte
MCSpec == MCInit /\ [][MCNext]_mcVars

-----------------------------------------------------------------------------
\* lpeg: a compiled pattern matches what the pattern means, with an analysis that
\* is sound and values that stay with their nodes.
LpegRight == CompiledMatches /\ AnalysisSound /\ KeysStayRight
\* lua-seri.c: values come back as they were, and a stream cut short is noticed.
SeriRight == SeriRoundTrip /\ SeriCutIsNoticed
\* lua_cjson.c: values come back from their text, buffers have room, texts are
\* accepted and escapes decoded as JSON has them.
JsonRight == JsonRoundTrip /\ JsonNoOverrun /\ JsonAccepted /\ JsonEscapesRight
\* sproto.c: schemas, messages read by another version of their type, and packed
\* bytes come back, and headers fit the room left for them.
SprotoRight == SprotoImported /\ SprotoHeaderFits /\ SprotoRead /\ SprotoPacked
\* lua-bson.c: documents come back, fit their buffers, change only where a value is
\* replaced, and hold what objects mean and only valid UTF-8.
BsonRight == BsonRoundTrip /\ BsonNoOverrun /\ BsonReplacedOnly /\ BsonObjectsMean /\ BsonUtf8
\* lua-netpack.c, lua-socket.c, lua-cluster.c: what is sent in pieces or parts comes
\* out whole and in order, and no memory is lost on the way.
FramingRight ==
    /\ NetReassembled /\ NetNothingLeaks
    /\ BufReads /\ BufNodesKept
    /\ ClusterWhole /\ ClusterFits
\* lua-crypt.c: texts come back from hex, base64 and DES, and both sides of a key
\* exchange get the same secret, with integers that wrap.
CryptRight == CryptTextsBack /\ CryptSecretsAgree
=============================================================================
