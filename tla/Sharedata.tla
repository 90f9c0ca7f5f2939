----------------------------- MODULE Sharedata -----------------------------
(***************************************************************************)
(* Tables shared by the services of a process (lua-sharedata.c): a Lua     *)
(* table is converted once into an array and a hash of exactly as many     *)
(* nodes as it has other keys; strings become places in a list.  A node    *)
(* that finds its main position taken goes into some free one and is       *)
(* chained to the main position.                                           *)
(*                                                                         *)
(* A Lua table is <<"table", n, pairs>>: n is its border (lua_rawlen),     *)
(* pairs are <<key, value>> in the order of lua_next.  A key is            *)
(* <<"int", k>> or <<"str", bytes>>.                                       *)
(***************************************************************************)
EXTENDS Integers, Sequences, SequencesExt, Bitwise

CONSTANT Bits  \* width of an int and of a hash, 32

Wide == 2^Bits
ToInt(k) == LET u == k % Wide IN IF 2 * u >= Wide THEN u - Wide ELSE u

\* calchash
CalcHash(str) ==
    LET skip == Len(str) \div 32 + 1
        RECURSIVE Mix(_, _)
        Mix(h, l1) == IF l1 < skip THEN h
                      ELSE Mix(h ^^ ((h * 32 + h \div 4 + str[l1]) % Wide), l1 - skip)
    IN  Mix(Len(str) % Wide, Len(str))

\* stringindex: the strings by their indexes; 1 is where the state will be.
NoStrings == <<<<-1>>>>
StringIndex(strs, s) ==
    LET i == SelectInSeq(strs, LAMBDA t : t = s) IN
    IF i > 0 THEN [strs |-> strs, i |-> i] ELSE [strs |-> Append(strs, s), i |-> Len(strs) + 1]

Nil == [vt |-> "nil", v |-> 0]
FreeNode == [val |-> Nil, kt |-> "none", key |-> 0, hash |-> 0, next |-> -1, alone |-> FALSE]

\* countsize: the keys that are not in the array.
CountSize(t) == Len(SelectSeq(t[3], LAMBDA p : ~(p[1][1] = "int" /\ p[1][2] \in 1..t[2])))

\* ishashkey: an integer is cut to an int first.  c has the array, the hash and the
\* strings that are known.
IsHashKey(c, k) ==
    IF k[1] = "int"
    THEN [in |-> ToInt(k[2]) \notin 1..Len(c.array), kt |-> "int", key |-> ToInt(k[2]),
          hash |-> ToInt(k[2]) % Wide, strs |-> c.strs]
    ELSE LET s == StringIndex(c.strs, k[2]) IN
         [in |-> TRUE, kt |-> "str", key |-> s.i, hash |-> CalcHash(k[2]), strs |-> s.strs]

MainPos(c, k) == (k.hash % Len(c.hash)) + 1
NewNode(k, next, alone) == [val |-> Nil, kt |-> k.kt, key |-> k.key, hash |-> k.hash, next |-> next, alone |-> alone]

RECURSIVE ConvTable(_, _)
\* setvalue: a table of its own for a table.
SetValue(v, strs) ==
    CASE v[1] = "str" -> LET s == StringIndex(strs, v[2]) IN [val |-> [vt |-> "str", v |-> s.i], strs |-> s.strs]
      [] v[1] = "table" -> LET r == ConvTable(v, strs) IN [val |-> [vt |-> "table", v |-> r], strs |-> r.strs]
      [] OTHER -> [val |-> [vt |-> v[1], v |-> v[2]], strs |-> strs]
\* setarray
SetArray(c, i, v) ==
    LET r == SetValue(v, c.strs) IN [c EXCEPT !.array[i] = r.val, !.strs = r.strs]
SetNode(c, at, node, v, strs) ==
    LET r == SetValue(v, strs) IN [c EXCEPT !.hash[at] = [node EXCEPT !.val = r.val], !.strs = r.strs]

\* fillnocolliding, for one pair
FillNoColliding(c, p) ==
    LET k == IsHashKey(c, p[1])
        at == MainPos(c, k)
    IN  IF ~k.in THEN SetArray(c, k.key, p[2])
        ELSE IF c.hash[at].val.vt = "nil" THEN SetNode(c, at, NewNode(k, -1, TRUE), p[2], k.strs)
        ELSE [c EXCEPT !.strs = k.strs]

\* Mutant: the main position forgets the chain that it has.
FillColliding_NoChain(c, p) ==
    LET k == IsHashKey(c, p[1])
        at == MainPos(c, k)
        free == SelectInSeq(c.hash, LAMBDA n : n.val.vt = "nil")
        chained == [c EXCEPT !.hash[at].next = free - 1, !.hash[at].alone = FALSE]
    IN  IF ~k.in \/ (c.hash[at].kt = k.kt /\ c.hash[at].key = k.key) THEN c
        ELSE SetNode(chained, free, NewNode(k, -1, FALSE), p[2], k.strs)

\* fillcolliding, for one pair: the ones that are not at their main position.
FillColliding(c, p) ==
    LET k == IsHashKey(c, p[1])
        at == MainPos(c, k)
        free == SelectInSeq(c.hash, LAMBDA n : n.val.vt = "nil")
        chained == [c EXCEPT !.hash[at].next = free - 1, !.hash[at].alone = FALSE]
    IN  IF ~k.in \/ (c.hash[at].kt = k.kt /\ c.hash[at].key = k.key) THEN c
        ELSE SetNode(chained, free, NewNode(k, c.hash[at].next, FALSE), p[2], k.strs)

RECURSIVE FillNo(_, _)
FillNo(c, pairs) == IF pairs = << >> THEN c ELSE FillNo(FillNoColliding(c, Head(pairs)), Tail(pairs))
RECURSIVE FillOthers(_, _)
FillOthers(c, pairs) == IF pairs = << >> THEN c ELSE FillOthers(FillColliding(c, Head(pairs)), Tail(pairs))
RECURSIVE FillArray(_, _)
FillArray(c, pairs) == IF pairs = << >> THEN c ELSE FillArray(SetArray(c, Head(pairs)[1][2], Head(pairs)[2]), Tail(pairs))

\* convtable
ConvTable(t, strs) ==
    LET size == CountSize(t)
        c0 == [array |-> [i \in 1..t[2] |-> Nil], hash |-> [i \in 1..size |-> FreeNode], strs |-> strs]
    IN  IF size = 0 THEN FillArray(c0, t[3]) ELSE FillOthers(FillNo(c0, t[3]), t[3])
\* lnewconf, pconv, convert_stringmap: the strings are one list for the table and
\* those in it.
LNewConf(t) == ConvTable(t, NoStrings)

-----------------------------------------------------------------------------
\* Reading.  strs is the list of the outermost table, << >> stands for nil.

\* lookup_key: the place of the node, 0 for none.
LookupKey(tbl, strs, k) ==
    LET RECURSIVE Walk(_)
        Walk(i) ==
            LET n == tbl.hash[i]
                same == n.hash = k.hash /\ n.kt = k.kt
                        /\ IF k.kt = "int" THEN n.key = k.key ELSE strs[n.key] = k.str
            IN  IF same THEN i ELSE IF n.next < 0 THEN 0 ELSE Walk(n.next + 1)
        main == tbl.hash[MainPos(tbl, k)]
    IN  IF tbl.hash = << >> \/ (main.hash # k.hash /\ main.alone) THEN 0 ELSE Walk(MainPos(tbl, k))

KeyOf(k) ==
    IF k[1] = "int" THEN [kt |-> "int", key |-> ToInt(k[2]), hash |-> ToInt(k[2]) % Wide]
    ELSE [kt |-> "str", str |-> k[2], hash |-> CalcHash(k[2])]
\* pushvalue, pushkey
PushValue(strs, val) ==
    CASE val.vt = "nil" -> << >>
      [] val.vt = "str" -> <<"str", strs[val.v]>>
      [] OTHER -> <<val.vt, val.v>>
PushKey(strs, n) == IF n.kt = "int" THEN <<"int", n.key>> ELSE <<"str", strs[n.key]>>

InArray(tbl, k) == k[1] = "int" /\ ToInt(k[2]) \in 1..Len(tbl.array)
\* lindexconf
LIndexConf(tbl, strs, k) ==
    IF InArray(tbl, k) THEN PushValue(strs, tbl.array[ToInt(k[2])])
    ELSE LET i == LookupKey(tbl, strs, KeyOf(k)) IN IF i = 0 THEN << >> ELSE PushValue(strs, tbl.hash[i].val)

\* lnextkey, pushfirsthash: the key after k, the first one after nil.
LNextKey(tbl, strs, k) ==
    LET from == IF k = << >> THEN 1 ELSE ToInt(k[2]) + 1
        rest == {i \in DOMAIN tbl.array : i >= from /\ tbl.array[i].vt # "nil"}
        node(i) == IF i \in DOMAIN tbl.hash THEN PushKey(strs, tbl.hash[i]) ELSE << >>
        at == LookupKey(tbl, strs, KeyOf(k))
    IN  IF k = << >> \/ InArray(tbl, k)
        THEN IF rest # {} THEN <<"int", CHOOSE i \in rest : \A j \in rest : i <= j>> ELSE node(1)
        ELSE IF at = 0 THEN << >> ELSE node(at + 1)

-----------------------------------------------------------------------------
\* Every key leads to its value, and a key that is not there to nothing; walking
\* from key to key meets each key once; and so in the tables inside.
RECURSIVE SameAs(_, _, _, _)
SameAs(tbl, strs, t, probes) ==
    LET keys == {t[3][i][1] : i \in DOMAIN t[3]}
        value(k) == (CHOOSE i \in DOMAIN t[3] : t[3][i][1] = k)
        RECURSIVE Walk(_, _)
        Walk(k, n) == LET next == LNextKey(tbl, strs, k) IN
                      IF next = << >> \/ n = 0 THEN << >> ELSE <<next>> \o Walk(next, n - 1)
        walk == Walk(<< >>, Len(t[3]) + 1)
    IN  /\ \A k \in keys : LET v == t[3][value(k)][2]
                               got == LIndexConf(tbl, strs, k)
                           IN  IF v[1] = "table" THEN got[1] = "table" /\ SameAs(got[2], strs, v, probes) ELSE got = v
        /\ \A k \in probes \ keys : LIndexConf(tbl, strs, k) = << >>
        /\ Len(walk) = Len(t[3]) /\ ToSet(walk) = keys
\* The borders of a table: any of them may be its length.
Borders(pairs) ==
    LET has(i) == \E p \in DOMAIN pairs : pairs[p][1] = <<"int", i>> IN
    {n \in 0..Len(pairs) + 2 : (n = 0 \/ has(n)) /\ ~has(n + 1)}
=============================================================================
