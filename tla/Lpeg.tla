-------------------------------- MODULE Lpeg --------------------------------
(***************************************************************************)
(* The pattern compiler of lpeg: trees are built by operators that already *)
(* simplify them, compiled to instructions with many optimizations         *)
(* (lpcode.c), and run by a virtual machine with a backtrack stack         *)
(* (lpvm.c).  Reference is the plain meaning of the pattern as it was      *)
(* written.                                                                *)
(*                                                                         *)
(* A tree is a tuple with its tag first.  Instructions all take one place  *)
(* here and labels are absolute; positions in the subject count from 0.    *)
(* g is the sequence of rules of the grammar around a tree, << >> outside  *)
(* of one.  A function called at match time accepts at even positions.     *)
(***************************************************************************)
EXTENDS Integers, Sequences, SequencesExt, FiniteSets

CONSTANTS Char,      \* characters
          MaxRules,  \* MAXRULES
          MaxBehind  \* MAXBEHIND

NOINST == 0

\* Accepts at position e: the external function of a match-time capture.
Accepts(e) == e % 2 = 0

-----------------------------------------------------------------------------
\* Analysis of trees

IsCharset(t) == t[1] \in {"set", "char", "any"}

\* tocharset
ToCharset(t) == CASE t[1] = "set" -> t[2] [] t[1] = "char" -> {t[2]} [] t[1] = "any" -> Char

\* charsettype
CharsetType(cs) == CASE cs = {} -> "fail" [] Cardinality(cs) = 1 -> "char"
                     [] cs = Char -> "any" [] OTHER -> "set"

\* numsiblings, without calls and grammars
One == {"rep", "not", "and", "cap", "rt", "behind"}
Two == {"seq", "choice"}

\* hascaptures; callrecursive follows a call once.
RECURSIVE HasCaptures(_, _, _)
HasCaptures(t, g, seen) ==
    \/ t[1] \in {"cap", "rt"}
    \/ t[1] = "call" /\ t[2] \notin seen /\ HasCaptures(g[t[2]], g, seen \cup {t[2]})
    \/ t[1] \in One /\ HasCaptures(t[2], g, seen)
    \/ t[1] \in Two /\ (HasCaptures(t[2], g, seen) \/ HasCaptures(t[3], g, seen))

\* Mutant: one half of a sequence that cannot fail is enough.
RECURSIVE CheckAux_Either(_, _, _)
CheckAux_Either(t, pred, g) ==
    CASE t[1] \in {"rep", "true"} -> TRUE
      [] t[1] \in {"not", "behind"} -> pred = "nullable"
      [] t[1] = "and" -> pred = "nullable" \/ CheckAux_Either(t[2], pred, g)
      [] t[1] = "rt" -> pred = "nullable" /\ CheckAux_Either(t[2], pred, g)
      [] t[1] \in Two -> CheckAux_Either(t[2], pred, g) \/ CheckAux_Either(t[3], pred, g)
      [] t[1] = "cap" -> CheckAux_Either(t[2], pred, g)
      [] t[1] = "call" -> g # << >> /\ CheckAux_Either(g[t[2]], pred, g)
      [] OTHER -> FALSE

\* checkaux: can the pattern match the empty string, can it never fail.
RECURSIVE CheckAux(_, _, _)
CheckAux(t, pred, g) ==
    CASE t[1] \in {"rep", "true"} -> TRUE
      [] t[1] \in {"not", "behind"} -> pred = "nullable"
      [] t[1] = "and" -> pred = "nullable" \/ CheckAux(t[2], pred, g)
      [] t[1] = "rt" -> pred = "nullable" /\ CheckAux(t[2], pred, g)
      [] t[1] = "seq" -> CheckAux(t[2], pred, g) /\ CheckAux(t[3], pred, g)
      [] t[1] = "choice" -> CheckAux(t[2], pred, g) \/ CheckAux(t[3], pred, g)
      [] t[1] = "cap" -> CheckAux(t[2], pred, g)
      [] t[1] = "call" -> g # << >> /\ CheckAux(g[t[2]], pred, g)
      [] OTHER -> FALSE

Nullable(t, g) == CheckAux(t, "nullable", g)
NoFail(t, g) == CheckAux(t, "nofail", g)

\* fixedlen
RECURSIVE FixedLen(_, _, _)
FixedLen(t, g, seen) ==
    CASE IsCharset(t) -> 1
      [] t[1] \in {"false", "true", "not", "and", "behind"} -> 0
      [] t[1] = "cap" -> FixedLen(t[2], g, seen)
      [] t[1] = "call" -> IF g = << >> \/ t[2] \in seen THEN -1
                          ELSE FixedLen(g[t[2]], g, seen \cup {t[2]})
      [] t[1] \in Two ->
           LET n1 == FixedLen(t[2], g, seen)  n2 == FixedLen(t[3], g, seen) IN
           IF n1 < 0 \/ n2 < 0 \/ (t[1] = "choice" /\ n1 # n2) THEN -1
           ELSE IF t[1] = "seq" THEN n1 + n2 ELSE n1
      [] OTHER -> -1

\* getfirst: the first set of the tree when fl follows, and its flags: the
\* tree may accept the empty string, it has an unprotected match-time capture.
RECURSIVE GetFirst(_, _, _)
GetFirst(t, fl, g) ==
    LET F(cs, fs) == [cs |-> cs, e |-> fs] IN
    CASE IsCharset(t) -> F(ToCharset(t), {})
      [] t[1] = "true" -> F(fl, {1})
      [] t[1] = "false" -> F({}, {})
      [] t[1] = "choice" ->
           LET a == GetFirst(t[2], fl, g)  b == GetFirst(t[3], fl, g)
           IN  F(a.cs \cup b.cs, a.e \cup b.e)
      [] t[1] = "seq" ->
           IF ~Nullable(t[2], g) THEN GetFirst(t[2], Char, g)
           ELSE LET b == GetFirst(t[3], fl, g)  a == GetFirst(t[2], b.cs, g)
                IN  F(a.cs, IF a.e = {} THEN {} ELSE IF 2 \in a.e \cup b.e THEN {2} ELSE b.e)
      [] t[1] = "rep" -> F(GetFirst(t[2], fl, g).cs \cup fl, {1})
      [] t[1] = "cap" -> GetFirst(t[2], fl, g)
      [] t[1] = "rt" -> LET a == GetFirst(t[2], Char, g)
                        IN  F(a.cs, IF a.e # {} THEN {2} ELSE {})
      [] t[1] = "call" -> GetFirst(g[t[2]], fl, g)
      [] t[1] = "and" -> LET a == GetFirst(t[2], fl, g) IN F(a.cs \cap fl, a.e)
      [] t[1] = "not" /\ IsCharset(t[2]) -> F(Char \ ToCharset(t[2]), {1})
      [] OTHER -> F(fl, GetFirst(t[2], fl, g).e \cup {1})

\* Mutant: what follows in a sequence is not looked at.
RECURSIVE HeadFail_First(_, _)
HeadFail_First(t, g) ==
    CASE IsCharset(t) \/ t[1] = "false" -> TRUE
      [] t[1] \in {"cap", "and", "seq"} -> HeadFail_First(t[2], g)
      [] t[1] = "call" -> HeadFail_First(g[t[2]], g)
      [] t[1] = "choice" -> HeadFail_First(t[2], g) /\ HeadFail_First(t[3], g)
      [] OTHER -> FALSE

\* headfail: the tree fails only depending on the next character.
RECURSIVE HeadFail(_, _)
HeadFail(t, g) ==
    CASE IsCharset(t) \/ t[1] = "false" -> TRUE
      [] t[1] \in {"cap", "and"} -> HeadFail(t[2], g)
      [] t[1] = "call" -> HeadFail(g[t[2]], g)
      [] t[1] = "seq" -> NoFail(t[3], g) /\ HeadFail(t[2], g)
      [] t[1] = "choice" -> HeadFail(t[2], g) /\ HeadFail(t[3], g)
      [] OTHER -> FALSE

\* needfollow
RECURSIVE NeedFollow(_)
NeedFollow(t) == CASE t[1] \in {"choice", "rep"} -> TRUE
                   [] t[1] = "cap" -> NeedFollow(t[2])
                   [] t[1] = "seq" -> NeedFollow(t[3])
                   [] OTHER -> FALSE

-----------------------------------------------------------------------------
\* Operators that build trees, outside of a grammar

Error == <<"error">>

\* lp_seq
LpSeq(t1, t2) == IF t1[1] = "false" \/ t2[1] = "true" THEN t1
                 ELSE IF t1[1] = "true" THEN t2 ELSE <<"seq", t1, t2>>

\* lp_choice
LpChoice(t1, t2) ==
    IF IsCharset(t1) /\ IsCharset(t2) THEN <<"set", ToCharset(t1) \cup ToCharset(t2)>>
    ELSE IF NoFail(t1, << >>) \/ t2[1] = "false" THEN t1
    ELSE IF t1[1] = "false" THEN t2 ELSE <<"choice", t1, t2>>

\* lp_sub
LpSub(t1, t2) ==
    IF IsCharset(t1) /\ IsCharset(t2) THEN <<"set", ToCharset(t1) \ ToCharset(t2)>>
    ELSE <<"seq", <<"not", t2>>, t1>>

\* lp_star: t^n, at least n times, or at most -n times.
RECURSIVE LpStar(_, _)
LpStar(t, n) ==
    CASE n >= 0 /\ Nullable(t, << >>) -> Error
      [] n = 0 -> <<"rep", t>>
      [] n > 0 -> <<"seq", t, LpStar(t, n - 1)>>
      [] n = -1 -> <<"choice", t, <<"true">>>>
      [] n < -1 -> <<"choice", <<"seq", t, LpStar(t, n + 1)>>, <<"true">>>>

RECURSIVE HasCalls(_)
HasCalls(t) == \/ t[1] = "call"
               \/ t[1] \in One \cup Two /\ HasCalls(t[2])
               \/ t[1] \in Two /\ HasCalls(t[3])

\* lp_behind; MaxBehind keeps the distance in a byte.  An open call, which a
\* predicate may hide from fixedlen, is stopped by the assertion in hascaptures.
LpBehind(t) ==
    LET n == FixedLen(t, << >>, {}) IN
    IF n < 0 \/ HasCalls(t) \/ HasCaptures(t, << >>, {}) \/ n > MaxBehind THEN Error
    ELSE <<"behind", t, n>>

\* fillseq and numtree: n characters, or not -n characters.
RECURSIVE NumTree(_)
NumTree(n) == CASE n = 0 -> <<"true">>
                [] n = 1 -> <<"any">>
                [] n > 1 -> <<"seq", <<"any">>, NumTree(n - 1)>>
                [] n < 0 -> <<"not", NumTree(-n)>>

\* correctassociativity, finalfix
RECURSIVE FinalFix(_)
FinalFix(t) ==
    CASE t[1] \in Two /\ t[2][1] = t[1] -> FinalFix(<<t[1], t[2][2], <<t[1], t[2][3], t[3]>>>>)
      [] t[1] \in Two /\ t[2][1] # t[1] -> <<t[1], FinalFix(t[2]), FinalFix(t[3])>>
      [] t[1] \in One -> <<t[1], FinalFix(t[2])>> \o SubSeq(t, 3, Len(t))
      [] OTHER -> t

\* checkloops
RECURSIVE CheckLoops(_, _)
CheckLoops(t, g) ==
    \/ t[1] = "rep" /\ Nullable(t[2], g)
    \/ t[1] \in One \cup Two /\ CheckLoops(t[2], g)
    \/ t[1] \in Two /\ CheckLoops(t[3], g)

\* verifyrule: "bad" when rules call one another too long without advancing,
\* otherwise whether the tree is nullable.  n counts the rules passed.
RECURSIVE VerifyRule(_, _, _, _)
VerifyRule(t, n, nb, g) ==
    CASE IsCharset(t) \/ t[1] = "false" -> nb
      [] t[1] \in {"true", "behind"} -> "yes"
      [] t[1] \in {"not", "and", "rep"} -> VerifyRule(t[2], n, "yes", g)
      [] t[1] \in {"cap", "rt"} -> VerifyRule(t[2], n, nb, g)
      [] t[1] = "call" -> IF n >= MaxRules THEN "bad" ELSE VerifyRule(g[t[2]], n + 1, nb, g)
      [] t[1] = "seq" ->
           LET r == VerifyRule(t[2], n, "no", g)
           IN  IF r = "yes" THEN VerifyRule(t[3], n, nb, g) ELSE IF r = "bad" THEN r ELSE nb
      [] t[1] = "choice" ->
           LET r == VerifyRule(t[2], n, nb, g)
           IN  IF r = "bad" THEN r ELSE VerifyRule(t[3], n, r, g)

\* verifygrammar
VerifyGrammar(g) ==
    /\ \A i \in DOMAIN g : VerifyRule(g[i], 0, "no", g) # "bad"
    /\ \A i \in DOMAIN g : ~CheckLoops(g[i], g)

-----------------------------------------------------------------------------
\* Code generation.  Gen operators append to code and return it.

Inst(op, aux, to) == [op |-> op, aux |-> aux, to |-> to]
Add(code, op, aux) == Append(code, Inst(op, aux, 0))
Here(code) == Len(code) + 1

\* jumptothere, jumptohere
JumpToThere(code, i, to) == IF i = NOINST THEN code ELSE [code EXCEPT ![i].to = to]
JumpToHere(code, i) == JumpToThere(code, i, Here(code))

\* codechar: a test that dominates the instruction makes it an any.
CodeChar(code, c, tt) ==
    Add(code, IF tt # NOINST /\ code[tt].op = "testchar" /\ code[tt].aux = c THEN "any" ELSE "char", c)

\* codecharset
CodeCharset(code, cs, tt) ==
    CASE CharsetType(cs) = "char" -> CodeChar(code, CHOOSE c \in cs : TRUE, tt)
      [] CharsetType(cs) = "set" ->
           Add(code, IF tt # NOINST /\ code[tt].op = "testset" /\ code[tt].aux = cs
                     THEN "any" ELSE "set", cs)
      [] OTHER -> Add(code, CharsetType(cs), 0)

\* codetestset; without a test the code stays.
CodeTestSet(code, cs) ==
    CASE CharsetType(cs) = "fail" -> Add(code, "jmp", 0)
      [] CharsetType(cs) = "any" -> Add(code, "testany", 0)
      [] CharsetType(cs) = "char" -> Add(code, "testchar", CHOOSE c \in cs : TRUE)
      [] CharsetType(cs) = "set" -> Add(code, "testset", cs)

\* finaltarget
RECURSIVE FinalTarget(_, _)
FinalTarget(code, i) == IF code[i].op = "jmp" THEN FinalTarget(code, code[i].to) ELSE i

\* codegen and its auxiliary functions.
RECURSIVE CodeGen(_, _, _, _, _, _)

CodeChoice(code, p1, p2, opt, fl, g) ==
    LET empty2 == p2[1] = "true"
        f1 == GetFirst(p1, Char, g)
        f2 == GetFirst(p2, fl, g)
    IN
    IF HeadFail(p1, g) \/ (f1.e = {} /\ f1.cs \cap f2.cs = {})
    THEN LET test == Here(code)
             c1 == CodeGen(CodeTestSet(code, f1.cs), p1, FALSE, test, fl, g)
             jmp == IF empty2 THEN NOINST ELSE Here(c1)
             c2 == IF empty2 THEN c1 ELSE Add(c1, "jmp", 0)
         IN  JumpToHere(CodeGen(JumpToHere(c2, test), p2, opt, NOINST, fl, g), jmp)
    ELSE IF opt /\ empty2
    THEN LET c1 == Add(code, "partialcommit", 0)
         IN  CodeGen(JumpToHere(c1, Here(code)), p1, TRUE, NOINST, Char, g)
    ELSE LET test == IF f1.e = {} THEN Here(code) ELSE NOINST
             c1 == IF f1.e = {} THEN CodeTestSet(code, f1.cs) ELSE code
             c2 == CodeGen(Add(c1, "choice", 0), p1, empty2, test, Char, g)
             c3 == JumpToHere(JumpToHere(Add(c2, "commit", 0), Here(c1)), test)
         IN  JumpToHere(CodeGen(c3, p2, opt, NOINST, fl, g), Here(c2))

CodeAnd(code, t, tt, g) ==
    LET n == FixedLen(t, g, {}) IN
    IF n >= 0 /\ n <= MaxBehind /\ ~HasCaptures(t, g, {})
    THEN LET c == CodeGen(code, t, FALSE, tt, Char, g)
         IN  IF n > 0 THEN Add(c, "behind", n) ELSE c
    ELSE LET c1 == CodeGen(Add(code, "choice", 0), t, FALSE, tt, Char, g)
             c2 == JumpToHere(Add(c1, "backcommit", 0), Here(code))
         IN  JumpToHere(Add(c2, "fail", 0), Here(c1))

CodeCapture(code, t, tt, fl, g) ==
    LET n == FixedLen(t, g, {}) IN
    IF n >= 0 /\ ~HasCaptures(t, g, {})
    THEN Add(CodeGen(code, t, FALSE, tt, fl, g), "fullcapture", n)
    ELSE Add(CodeGen(Add(code, "opencapture", 0), t, FALSE, tt, fl, g), "closecapture", 0)

CodeRunTime(code, t, tt, g) ==
    Add(CodeGen(Add(code, "opencapture", 0), t, FALSE, tt, Char, g), "closeruntime", 0)

CodeRep(code, t, opt, fl, g) ==
    LET f == GetFirst(t, Char, g) IN
    IF IsCharset(t) THEN Add(code, "span", ToCharset(t))
    ELSE IF HeadFail(t, g) \/ (f.e = {} /\ f.cs \cap fl = {})
    THEN LET test == Here(code)
             c1 == CodeGen(CodeTestSet(code, f.cs), t, FALSE, test, Char, g)
             c2 == JumpToHere(Add(c1, "jmp", 0), test)
         IN  JumpToThere(c2, Here(c1), test)
    ELSE LET test == IF f.e = {} THEN Here(code) ELSE NOINST
             c1 == IF f.e = {} THEN CodeTestSet(code, f.cs) ELSE code
             c2 == IF opt THEN JumpToThere(Add(c1, "partialcommit", 0), Here(c1), Here(c1) + 1)
                   ELSE Add(c1, "choice", 0)
             c3 == CodeGen(c2, t, FALSE, NOINST, Char, g)
             c4 == JumpToThere(Add(c3, "partialcommit", 0), Here(c3), Here(c2))
         IN  JumpToHere(JumpToHere(c4, IF opt THEN NOINST ELSE Here(c1)), test)

CodeNot(code, t, g) ==
    LET f == GetFirst(t, Char, g)
        test == IF f.e = {} THEN Here(code) ELSE NOINST
        c1 == IF f.e = {} THEN CodeTestSet(code, f.cs) ELSE code
        c2 == Add(CodeGen(Add(c1, "choice", 0), t, FALSE, NOINST, Char, g), "failtwice", 0)
    IN  IF HeadFail(t, g) THEN JumpToHere(Add(c1, "fail", 0), test)
        ELSE JumpToHere(JumpToHere(c2, Here(c1)), test)

\* codeseq1, then the second child.
CodeSeq(code, p1, p2, opt, tt, fl, g) ==
    LET fl1 == IF NeedFollow(p1) THEN GetFirst(p2, fl, g).cs ELSE Char
        tt2 == IF FixedLen(p1, g, {}) # 0 THEN NOINST ELSE tt
    IN  CodeGen(CodeGen(code, p1, FALSE, tt, fl1, g), p2, opt, tt2, fl, g)

CodeGen(code, t, opt, tt, fl, g) ==
    CASE t[1] = "char" -> CodeChar(code, t[2], tt)
      [] t[1] = "any" -> Add(code, "any", 0)
      [] t[1] = "set" -> CodeCharset(code, t[2], tt)
      [] t[1] = "true" -> code
      [] t[1] = "false" -> Add(code, "fail", 0)
      [] t[1] = "choice" -> CodeChoice(code, t[2], t[3], opt, fl, g)
      [] t[1] = "rep" -> CodeRep(code, t[2], opt, fl, g)
      [] t[1] = "behind" ->
           CodeGen(IF t[3] > 0 THEN Add(code, "behind", t[3]) ELSE code, t[2], FALSE, NOINST, Char, g)
      [] t[1] = "not" -> CodeNot(code, t[2], g)
      [] t[1] = "and" -> CodeAnd(code, t[2], tt, g)
      [] t[1] = "cap" -> CodeCapture(code, t[2], tt, fl, g)
      [] t[1] = "rt" -> CodeRunTime(code, t[2], tt, g)
      [] t[1] = "call" -> Add(code, "opencall", t[2])
      [] t[1] = "seq" -> CodeSeq(code, t[2], t[3], opt, tt, fl, g)

\* codegrammar: the positions of the rules, and their code.
RECURSIVE CodeRules(_, _, _)
CodeRules(code, pos, g) ==
    IF Len(pos) = Len(g) THEN [code |-> code, pos |-> pos]
    ELSE CodeRules(Add(CodeGen(code, g[Len(pos) + 1], FALSE, NOINST, Char, g), "ret", 0),
                   Append(pos, Here(code)), g)

\* correctcalls: a call before a return becomes a jump.
CorrectCalls(code, pos) ==
    LET Correct(c, i) ==
          IF c[i].op # "opencall" THEN c
          ELSE [c EXCEPT ![i] = Inst(IF c[FinalTarget(c, i + 1)].op = "ret" THEN "jmp" ELSE "call",
                                     0, pos[c[i].aux])]
    IN  FoldLeftDomain(Correct, code, code)

CodeGrammar(g) ==
    LET r == CodeRules(<<Inst("call", 0, 3), Inst("jmp", 0, 0)>>, << >>, g)
    IN  CorrectCalls(JumpToHere(r.code, 2), r.pos)

\* peephole, for the instruction at i: labels lead to their final targets, and
\* a jump to an instruction that jumps becomes that instruction.
RECURSIVE Redo(_, _)
Redo(code, i) ==
    LET x == code[i]  ft == FinalTarget(code, i) IN
    CASE x.op \in {"choice", "call", "commit", "partialcommit", "backcommit",
                   "testchar", "testset", "testany"} ->
           JumpToThere(code, i, FinalTarget(code, x.to))
      [] x.op = "jmp" /\ code[ft].op \in {"ret", "fail", "failtwice", "end"} ->
           [code EXCEPT ![i] = code[ft]]
      [] x.op = "jmp" /\ code[ft].op \in {"commit", "partialcommit", "backcommit"} ->
           Redo([code EXCEPT ![i] = Inst(code[ft].op, 0, FinalTarget(code, code[ft].to))], i)
      [] x.op = "jmp" -> JumpToThere(code, i, ft)
      [] OTHER -> code

Peephole(code) == FoldLeftDomain(LAMBDA c, i : Redo(c, i), code, code)

\* prepcompile, compile: t is the pattern outside of a grammar.
Compile(t, g) ==
    Peephole(Add(IF g = << >> THEN CodeGen(<< >>, FinalFix(t), FALSE, NOINST, Char, g)
                 ELSE CodeGrammar([i \in DOMAIN g |-> FinalFix(g[i])]), "end", 0))

-----------------------------------------------------------------------------
\* The virtual machine

Fails == [ok |-> FALSE, e |-> 0, caps |-> << >>]
Wrong == [ok |-> FALSE, e |-> -1, caps |-> << >>]   \* an assertion failed
GiveUp == [p |-> 0, s |-> 0, cap |-> 0]
PendingCall == -1

\* fail: drop pending calls and go back to the last choice.
RECURSIVE Backtrack(_)
Backtrack(stack) == IF Last(stack).s = PendingCall THEN Backtrack(Front(stack)) ELSE stack

\* closecapture: a capture with nothing inside becomes a full one.
CloseCapture(caps, s) ==
    IF Last(caps)[1] = "open" THEN Append(Front(caps), <<"full", Last(caps)[2], s>>)
    ELSE Append(caps, <<"close", s>>)

\* closeruntime: captures back to the open one are taken away.
RECURSIVE DropOpen(_, _)
DropOpen(caps, closed) ==
    LET k == Last(caps)[1] IN
    IF k = "open" /\ closed = 0 THEN Front(caps)
    ELSE DropOpen(Front(caps), closed + (IF k = "close" THEN 1 ELSE IF k = "open" THEN -1 ELSE 0))

\* match: the rest of the run from instruction p at position s of the subject.
RECURSIVE Run(_, _, _, _, _, _)
Run(code, x, p, s, stack, caps) ==
    LET i == code[p]
        here == s < Len(x)
        go(q, r) == Run(code, x, q, r, stack, caps)
        fail(st) == LET b == Backtrack(st) IN
                    IF Len(b) = 1 THEN Fails
                    ELSE Run(code, x, Last(b).p, Last(b).s, Front(b), SubSeq(caps, 1, Last(b).cap))
        step(c) == IF c THEN go(p + 1, s + 1) ELSE fail(stack)
        test(c) == go(IF c THEN p + 1 ELSE i.to, s)
        push(y) == Run(code, x, p + 1, s, stack, Append(caps, y))
    IN
    CASE i.op = "end" -> IF Len(stack) = 1 THEN [ok |-> TRUE, e |-> s, caps |-> caps] ELSE Wrong
      [] i.op = "ret" -> IF Last(stack).s # PendingCall THEN Wrong
                         ELSE Run(code, x, Last(stack).p, s, Front(stack), caps)
      [] i.op = "any" -> step(here)
      [] i.op = "testany" -> test(here)
      [] i.op = "char" -> step(here /\ x[s + 1] = i.aux)
      [] i.op = "testchar" -> test(here /\ x[s + 1] = i.aux)
      [] i.op = "set" -> step(here /\ x[s + 1] \in i.aux)
      [] i.op = "testset" -> test(here /\ x[s + 1] \in i.aux)
      [] i.op = "behind" -> IF i.aux > s THEN fail(stack) ELSE go(p + 1, s - i.aux)
      [] i.op = "span" -> IF here /\ x[s + 1] \in i.aux THEN go(p, s + 1) ELSE go(p + 1, s)
      [] i.op = "jmp" -> go(i.to, s)
      [] i.op = "choice" ->
           Run(code, x, p + 1, s, Append(stack, [p |-> i.to, s |-> s, cap |-> Len(caps)]), caps)
      [] i.op = "call" ->
           Run(code, x, i.to, s, Append(stack, [p |-> p + 1, s |-> PendingCall, cap |-> 0]), caps)
      [] i.op \in {"commit", "partialcommit", "backcommit"} /\ Last(stack).s = PendingCall -> Wrong
      [] i.op = "commit" -> Run(code, x, i.to, s, Front(stack), caps)
      [] i.op = "partialcommit" ->
           Run(code, x, i.to, s,
               Append(Front(stack), [Last(stack) EXCEPT !.s = s, !.cap = Len(caps)]), caps)
      [] i.op = "backcommit" ->
           Run(code, x, i.to, Last(stack).s, Front(stack), SubSeq(caps, 1, Last(stack).cap))
      [] i.op = "failtwice" -> fail(Front(stack))
      [] i.op = "fail" -> fail(stack)
      [] i.op = "closeruntime" ->
           IF Accepts(s) THEN Run(code, x, p + 1, s, stack, DropOpen(caps, 0)) ELSE fail(stack)
      [] i.op = "closecapture" -> Run(code, x, p + 1, s, stack, CloseCapture(caps, s))
      [] i.op = "opencapture" -> push(<<"open", s>>)
      [] i.op = "fullcapture" -> push(<<"full", s - i.aux, s>>)

VmMatch(t, g, x) == Run(Compile(t, g), x, 1, 0, <<GiveUp>>, << >>)

-----------------------------------------------------------------------------
\* Reference: what a pattern means.

RECURSIVE Ref(_, _, _, _)
Ref(t, g, x, s) ==
    LET Ok(e, caps) == [ok |-> TRUE, e |-> e, caps |-> caps]
        a == Ref(t[2], g, x, s)
    IN
    CASE IsCharset(t) -> IF s < Len(x) /\ x[s + 1] \in ToCharset(t) THEN Ok(s + 1, << >>) ELSE Fails
      [] t[1] = "true" -> Ok(s, << >>)
      [] t[1] = "false" -> Fails
      [] t[1] = "seq" -> IF ~a.ok THEN a
                         ELSE LET b == Ref(t[3], g, x, a.e)
                              IN  IF b.ok THEN Ok(b.e, a.caps \o b.caps) ELSE b
      [] t[1] = "choice" -> IF a.ok THEN a ELSE Ref(t[3], g, x, s)
      [] t[1] = "rep" -> IF ~a.ok THEN Ok(s, << >>)
                         ELSE LET b == Ref(t, g, x, a.e) IN Ok(b.e, a.caps \o b.caps)
      [] t[1] = "not" -> IF a.ok THEN Fails ELSE Ok(s, << >>)
      [] t[1] = "and" -> IF a.ok THEN Ok(s, << >>) ELSE Fails
      [] t[1] = "behind" -> IF t[3] <= s /\ Ref(t[2], g, x, s - t[3]).ok THEN Ok(s, << >>) ELSE Fails
      [] t[1] = "cap" -> IF ~a.ok THEN a
                         ELSE IF a.caps = << >> THEN Ok(a.e, <<<<"full", s, a.e>>>>)
                         ELSE Ok(a.e, <<<<"open", s>>>> \o a.caps \o <<<<"close", a.e>>>>)
      [] t[1] = "rt" -> IF a.ok /\ Accepts(a.e) THEN Ok(a.e, << >>) ELSE Fails
      [] t[1] = "call" -> Ref(g[t[2]], g, x, s)

-----------------------------------------------------------------------------

\* What the comments of the analysis functions promise of a pattern, on subject s.
AnalysisHolds(t, g, s) ==
    LET r == Ref(t, g, s, 0)  n == FixedLen(t, g, {})  f == GetFirst(t, Char, g) IN
    /\ r.ok /\ r.e = 0 => Nullable(t, g)
    /\ NoFail(t, g) => r.ok
    /\ n >= 0 /\ r.ok => r.e = n
    /\ s # << >> /\ r.ok => s[1] \in f.cs
    /\ f.e = {} /\ s = << >> => ~r.ok
    /\ HeadFail(t, g) /\ s # << >> => r.ok = (s[1] \in f.cs)
=============================================================================
