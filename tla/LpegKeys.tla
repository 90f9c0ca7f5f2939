------------------------------ MODULE LpegKeys ------------------------------
(***************************************************************************)
(* The Lua values of lpeg patterns (lptree.c).  A node of a tree names a   *)
(* value by its index in the ktable of the pattern; ktables are Lua tables *)
(* that patterns share.  h is the heap: tables, each a sequence of values, *)
(* and the patterns made so far, each with its keyed nodes in tree order   *)
(* and its table (0: none).  val is the value that the author of the node  *)
(* gave it: the code does not have it, the property compares with it.      *)
(***************************************************************************)
EXTENDS Integers, Sequences, SequencesExt

CONSTANT MaxKeys   \* USHRT_MAX

Nil == 0
Node(kind, key, val) == [kind |-> kind, key |-> key, val |-> val]
Empty == [pats |-> << >>, tables |-> << >>]
Error == [pats |-> << >>, tables |-> <<<< >>>>]

Content(h, kt) == IF kt = 0 THEN << >> ELSE h.tables[kt]
KtableLen(h, kt) == Len(Content(h, kt))
NewPattern(h, nodes, kt) == [h EXCEPT !.pats = Append(@, [nodes |-> nodes, kt |-> kt])]

\* newktable: the table of the pattern being made is the last of the heap.
NewKtable(h) == [h EXCEPT !.tables = Append(@, << >>)]
Newest(h) == Len(h.tables)

\* addtoktable: nil is not added and has key 0.
AddToKtable(h, kt, v) == IF v = Nil THEN h ELSE [h EXCEPT !.tables[kt] = Append(@, v)]
KeyOf(h, kt, v) == IF v = Nil THEN 0 ELSE KtableLen(h, kt) + 1

\* concattable: what is in the first table goes behind what is in the second.
ConcatTable(h, from, to) == [h EXCEPT !.tables[to] = @ \o Content(h, from)]

\* Mutant: argument and number captures are taken for keys too.
Keyed_All(n) == n.key > 0

\* correctkeys: the nodes whose key is an index.
Keyed(n) == n.key > 0 /\ n.kind \notin {"arg", "num"}
CorrectKeys(nodes, n) == [i \in DOMAIN nodes |-> IF Keyed(nodes[i]) THEN [nodes[i] EXCEPT !.key = @ + n]
                                                 ELSE nodes[i]]

\* joinktables, newroot2sib: both tables become one, shared where possible.
NewRoot2Sib(h, p, q) ==
    LET n1 == KtableLen(h, p.kt)  n2 == KtableLen(h, q.kt)
        new == ConcatTable(ConcatTable(NewKtable(h), p.kt, Newest(h) + 1), q.kt, Newest(h) + 1)
    IN  IF n2 = 0 \/ p.kt = q.kt THEN NewPattern(h, p.nodes \o q.nodes, p.kt)
        ELSE IF n1 = 0 THEN NewPattern(h, p.nodes \o q.nodes, q.kt)
        ELSE IF n1 + n2 > MaxKeys THEN Error
        ELSE NewPattern(new, p.nodes \o CorrectKeys(q.nodes, n1), Newest(new))

\* newroot1sib, copyktable
NewRoot1Sib(h, p) == NewPattern(h, p.nodes, p.kt)

\* addtonewktable: a fresh table with the elements of p and one more.
AddToNewKtable(h, p, v, kind) ==
    LET h1 == ConcatTable(NewKtable(h), p.kt, Newest(h) + 1)  kt == Newest(h1) IN
    IF v # Nil /\ KtableLen(h1, kt) >= MaxKeys THEN Error
    ELSE NewPattern(AddToKtable(h1, kt, v), <<Node(kind, KeyOf(h1, kt, v), v)>> \o p.nodes, kt)

NoPattern == [nodes |-> << >>, kt |-> 0]

\* lp_V
LpV(h, name) == AddToNewKtable(h, NoPattern, name, "open")

\* capture_aux with a label, lp_matchtime
CaptureAux(h, p, v) == AddToNewKtable(h, p, v, "cap")

\* lp_divcapture with a number
NumCapture(h, p, n) == NewPattern(h, <<Node("num", n, n)>> \o p.nodes, p.kt)

\* lp_argcapture
LpArgCapture(h, n) == NewPattern(h, <<Node("arg", n, n)>>, 0)

\* lp_constcapture: no value, one, or a group of several.
LpConstCapture(h, vs) ==
    LET kt == Newest(h) + 1
        add(g, v) == IF v # Nil /\ KtableLen(g, kt) >= MaxKeys THEN Error ELSE AddToKtable(g, kt, v)
        nodes == [i \in DOMAIN vs |->
                    Node("cap", IF vs[i] = Nil THEN 0
                                ELSE Len(SelectSeq(SubSeq(vs, 1, i), LAMBDA v : v # Nil)), vs[i])]
        h1 == FoldLeft(add, NewKtable(h), vs)
    IN  IF vs = << >> THEN NewPattern(h, << >>, 0)
        ELSE IF h1 = Error THEN Error ELSE NewPattern(h1, nodes, kt)

-----------------------------------------------------------------------------
\* Grammars: rules are pairs of a name and a pattern, the initial one first.

\* buildgrammar: the rules one after the other, each behind a node of its own
\* that has no key yet.
RECURSIVE BuildGrammar(_, _, _)
BuildGrammar(h, rules, nodes) ==
    LET kt == Newest(h)  r == rules[1]  n == KtableLen(h, kt) IN
    IF rules = << >> THEN NewPattern(h, nodes, kt)
    ELSE IF n + KtableLen(h, r[2].kt) > MaxKeys THEN Error
    ELSE BuildGrammar(ConcatTable(h, r[2].kt, kt), Tail(rules),
                      nodes \o <<Node("rule", 0, r[1])>> \o CorrectKeys(r[2].nodes, n))

\* fixonecall: an open call becomes a call and gives the rule its key.
FixCalls(h, nodes, kt) ==
    LET name(i) == Content(h, kt)[nodes[i].key]
        open == {i \in DOMAIN nodes : nodes[i].kind = "open"}
        calls(r) == {i \in open : name(i) = nodes[r].val}
    IN  [i \in DOMAIN nodes |->
            IF i \in open THEN [nodes[i] EXCEPT !.kind = "call"]
            ELSE IF nodes[i].kind # "rule" THEN nodes[i]
            ELSE IF calls(i) = {} THEN Node("fixed", 0, nodes[i].val)
            ELSE Node("fixed", nodes[CHOOSE c \in calls(i) : \A d \in calls(i) : d <= c].key, nodes[i].val)]

\* newgrammar, finalfix, initialrulename
NewGrammar(h, rules) ==
    LET h1 == BuildGrammar(NewKtable(h), rules, << >>)
        p == Last(h1.pats)
        fixed == FixCalls(h1, p.nodes, p.kt)
        defined == \A i \in DOMAIN p.nodes : p.nodes[i].kind = "open" =>
                        \E r \in Range(rules) : r[1] = Content(h1, p.kt)[p.nodes[i].key]
        named == fixed[1].key # 0
        Put(g, nodes) == [g EXCEPT !.pats[Len(g.pats)] = [nodes |-> nodes, kt |-> p.kt]]
    IN  IF h1 = Error THEN Error
        ELSE IF ~defined THEN Error
        ELSE IF named THEN Put(h1, fixed)
        ELSE Put([h1 EXCEPT !.tables[p.kt] = Append(@, rules[1][1])],
                 [fixed EXCEPT ![1].key = KtableLen(h1, p.kt) + 1])

-----------------------------------------------------------------------------

\* Every node of every pattern still leads to the value that it was made with,
\* whatever was built from its pattern since.
KeysStayRight(h) ==
    \A p \in Range(h.pats) : \A n \in Range(p.nodes) :
        IF n.kind \in {"arg", "num"} THEN n.key = n.val
        ELSE IF n.key = 0 THEN n.val = Nil \/ n.kind = "fixed"
        ELSE n.key <= KtableLen(h, p.kt) /\ Content(h, p.kt)[n.key] = n.val
=============================================================================
