---------------------------------- MODULE Zbc ----------------------------------
(* The C interpreter of shell/zbc.c: eval walks a tree and keeps return, break *)
(* and continue in flags; parse_binop climbs precedences. Beside each stands   *)
(* what C says, written without flags and without climbing. The operators left *)
(* out are those C's own do the work of, and printing is print's number.       *)
EXTENDS Integers, FiniteSets, SequencesExt

CONSTANTS Programs,          \* name -> [params, body], with a main
          Sentences,         \* operands and operators in turn
          MaxVars, MaxCall,  \* MAX_VARS, MAX_CALL
          Fuel               \* bound: rounds of loops in a run

VARIABLES zbcPc, zbcProg, zbcRan, zbcToks, zbcTree

zbcVars == <<zbcPc, zbcProg, zbcRan, zbcToks, zbcTree>>

Node(kind, name, ival, child) == [kind |-> kind, name |-> name, ival |-> ival, child |-> child]
None == Node("none", "", 0, <<>>)

(* The interpreter's variables. long: history, the run was cut short. *)
Fresh(prog) == [fun |-> prog, scopes |-> <<>>, ret |-> FALSE, value |-> 0, brk |-> FALSE, cont |-> FALSE,
                err |-> FALSE, out |-> <<>>, fuel |-> Fuel, long |-> FALSE]

Init == /\ zbcPc = "idle" /\ zbcProg = [main |-> [params |-> <<>>, body |-> None]] /\ zbcToks = <<>>
        /\ zbcRan = [v |-> 0, m |-> Fresh(zbcProg)] /\ zbcTree = None

-----------------------------------------------------------------------------
(* eval. *)
Is(v, m) == [v |-> v, m |-> m]
Error(m) == Is(0, [m EXCEPT !.err = TRUE])
FindVar(m, x) == m.scopes # <<>> /\ x \in DOMAIN Last(m.scopes)
SetLocal(m, x, v) ==
    IF Cardinality(DOMAIN Last(m.scopes)) >= MaxVars /\ ~FindVar(m, x) THEN [m EXCEPT !.err = TRUE]
    ELSE [m EXCEPT !.scopes[Len(m.scopes)] = (x :> v) @@ @]
Round(m) == IF m.fuel = 0 THEN [m EXCEPT !.err = TRUE, !.long = TRUE] ELSE [m EXCEPT !.fuel = @ - 1]
Apply(op, a, b) == CASE op = "+"  -> a + b
                     [] op = "-"  -> a - b
                     [] op = "<"  -> IF a < b THEN 1 ELSE 0
                     [] op = "==" -> IF a = b THEN 1 ELSE 0
                     [] op = "="  -> b
Truth(v) == IF v # 0 THEN 1 ELSE 0

RECURSIVE Eval(_, _), Args(_, _), CallFunction(_, _, _), While(_, _), ForRound(_, _), BlockFrom(_, _, _)

(* N_ASSIGN: the name is looked up when the value is there. *)
Assign(n, m) ==
    LET x == n.child[1].name
        r == Eval(n.child[2], m)
    IN IF FindVar(r.m, x)
       THEN LET v == Apply(n.name, Last(r.m.scopes)[x], r.v) IN Is(v, SetLocal(r.m, x, v))
       ELSE IF n.child[1].ival = 1 THEN Is(r.v, SetLocal(r.m, x, r.v)) ELSE Error(r.m)

Binary(n, m) ==
    LET a == Eval(n.child[1], m)
        b == Eval(n.child[2], a.m)
    IN CASE n.name = "&&" -> IF a.v = 0 THEN Is(0, a.m) ELSE Is(Truth(b.v), b.m)
         [] n.name = "||" -> IF a.v # 0 THEN Is(1, a.m) ELSE Is(Truth(b.v), b.m)
         [] OTHER -> Is(Apply(n.name, a.v, b.v), b.m)

Args(cs, m) ==
    IF cs = <<>> THEN [vs |-> <<>>, m |-> m]
    ELSE LET a == Eval(Head(cs), m)
             more == Args(Tail(cs), a.m)
         IN [vs |-> <<a.v>> \o more.vs, m |-> more.m]

(* call_function; print prints even after an error in its argument. *)
CallFunction(f, vs, m) ==
    IF f = "print" THEN Is(0, IF vs = <<>> THEN m ELSE [m EXCEPT !.out = Append(@, vs[1])])
    ELSE IF f \notin DOMAIN m.fun \/ Len(m.scopes) >= MaxCall THEN Error(m)
    ELSE LET given == {i \in DOMAIN vs : i <= Len(m.fun[f].params)}
             scope == [x \in {m.fun[f].params[i] : i \in given} |->
                          vs[CHOOSE i \in given : m.fun[f].params[i] = x]]
             called == [m EXCEPT !.scopes = Append(@, scope), !.ret = FALSE, !.value = 0]
             done == Eval(m.fun[f].body, called).m
         IN Is(done.value, [done EXCEPT !.ret = FALSE, !.scopes = Front(@)])

(* N_WHILE: had_continue is cleared before the body, not after it. *)
While(n, m) ==
    IF m.ret \/ m.brk \/ m.err THEN m
    ELSE LET c == Eval(n.child[1], m) IN
         IF c.v = 0 THEN c.m
         ELSE While(n, Eval(n.child[2], [Round(c.m) EXCEPT !.cont = FALSE]).m)

(* Mutant of AfterBody: a continue in the last round goes on behind the loop. *)
AfterBodyMutant(m) == m

(* N_FOR, between the body and the step. *)
AfterBody(m) == [m EXCEPT !.cont = FALSE]

(* N_FOR: the step is evaluated after a break or a return, too. *)
ForRound(n, m) ==
    IF m.ret \/ m.brk \/ m.err THEN m
    ELSE LET c == Eval(n.child[2], m) IN
         IF n.child[2].kind # "none" /\ c.v = 0 THEN c.m
         ELSE ForRound(n, Eval(n.child[3], AfterBody(Eval(n.child[4], [Round(c.m) EXCEPT !.cont = FALSE]).m)).m)

LoopEnds(m) == Is(0, [m EXCEPT !.brk = FALSE])

BlockFrom(n, i, m) ==
    IF i > Len(n.child) \/ m.ret \/ m.brk \/ m.cont \/ m.err THEN m
    ELSE BlockFrom(n, i + 1, Eval(n.child[i], m).m)

Return(n, m) ==
    LET r == Eval(n.child[1], m)
        v == IF n.child[1].kind = "none" THEN m.value ELSE r.v
    IN Is(v, [r.m EXCEPT !.value = v, !.ret = TRUE])

Eval(n, m) ==
    IF n.kind = "none" \/ m.err THEN Is(0, m) ELSE
    CASE n.kind = "num"      -> Is(n.ival, m)
      [] n.kind = "var"      -> IF FindVar(m, n.name) THEN Is(Last(m.scopes)[n.name], m) ELSE Error(m)
      [] n.kind = "assign"   -> Assign(n, m)
      [] n.kind = "bin"      -> Binary(n, m)
      [] n.kind = "call"     -> LET a == Args(n.child, m) IN CallFunction(n.name, a.vs, a.m)
      [] n.kind = "if"       -> LET c == Eval(n.child[1], m) IN Is(0, Eval(n.child[IF c.v # 0 THEN 2 ELSE 3], c.m).m)
      [] n.kind = "while"    -> LoopEnds(While(n, m))
      [] n.kind = "for"      -> LoopEnds(ForRound(n, Eval(n.child[1], m).m))
      [] n.kind = "block"    -> Is(0, BlockFrom(n, 1, m))
      [] n.kind = "return"   -> Return(n, m)
      [] n.kind = "break"    -> Is(0, [m EXCEPT !.brk = TRUE])
      [] n.kind = "continue" -> Is(0, [m EXCEPT !.cont = TRUE])
      [] n.kind = "expr"     -> Eval(n.child[1], m)

-----------------------------------------------------------------------------
(* parse_binop, over operands and operators in turn. *)
BinPrec(op) == CASE op = "||" -> 1 [] op = "&&" -> 2 [] op = "==" -> 6 [] op = "<" -> 7 [] op \in {"+", "-"} -> 9 [] OTHER -> 0
Peek(i) == IF i <= Len(zbcToks') THEN zbcToks'[i] ELSE "eof"

RECURSIVE ParseBinop(_, _), Climb(_, _, _)

(* Mutant of NextPrec: what follows an operator of its own kind goes right. *)
NextPrecMutant(op) == BinPrec(op)
NextPrec(op) == BinPrec(op) + 1

Climb(lhs, i, prec) ==
    IF BinPrec(Peek(i)) < prec THEN [tree |-> lhs, i |-> i]
    ELSE LET rhs == ParseBinop(i + 1, NextPrec(Peek(i))) IN
         Climb(Node("bin", Peek(i), 0, <<lhs, rhs.tree>>), rhs.i, prec)
ParseBinop(i, prec) == Climb(Node("var", Peek(i), 0, <<>>), i + 1, prec)

-----------------------------------------------------------------------------
(* zbc_run. *)
Parse == /\ zbcPc = "idle" /\ zbcPc' = "parsed" /\ zbcToks' \in Sentences
         /\ zbcTree' = ParseBinop(1, 1).tree /\ UNCHANGED <<zbcProg, zbcRan>>
Run == /\ zbcPc = "idle" /\ zbcPc' = "ran" /\ zbcProg' \in Programs
       /\ zbcRan' = CallFunction("main", <<>>, Fresh(zbcProg')) /\ UNCHANGED <<zbcToks, zbcTree>>

Next == Parse \/ Run
Spec == Init /\ [][Next]_zbcVars

-----------------------------------------------------------------------------
TypeOK == /\ zbcPc \in {"idle", "parsed", "ran"}
          /\ zbcRan.m.scopes = <<>> /\ ~zbcRan.m.ret /\ zbcRan.m.fuel \in 0 .. Fuel

(* C, with the way a statement ends as its result. odd: the program does     *)
(* what zbc.c does not do as C does.                                         *)
RECURSIVE CExpr(_, _), CArgs(_, _), CStmt(_, _), CBlock(_, _, _), CWhile(_, _, _), CFor(_, _)

Ends(how, v, e) == [how |-> how, v |-> v, e |-> e]
Goes(v, e) == [v |-> v, e |-> e]
Spend(e) == IF e.fuel = 0 THEN [e EXCEPT !.odd = TRUE] ELSE [e EXCEPT !.fuel = @ - 1]
Odd(e, is) == [e EXCEPT !.odd = @ \/ is]

CArgs(cs, e) ==
    IF cs = <<>> THEN Goes(<<>>, e)
    ELSE LET a == CExpr(Head(cs), e)
             more == CArgs(Tail(cs), a.e)
         IN Goes(<<a.v>> \o more.v, more.e)
CCall(f, vs, e) ==
    IF f = "print" THEN Goes(0, [e EXCEPT !.out = Append(@, vs[1])])
    ELSE LET ps == e.fun[f].params
             s == CStmt(e.fun[f].body, [e EXCEPT !.vars = [x \in ToSet(ps) |-> vs[CHOOSE i \in DOMAIN ps : ps[i] = x]],
                                                 !.depth = @ + 1, !.odd = @ \/ e.depth >= MaxCall])
         IN Goes(s.v, [s.e EXCEPT !.vars = e.vars, !.depth = e.depth, !.odd = @ \/ s.how # "return"])
CExpr(n, e) ==
    CASE n.kind = "none" -> Goes(1, e)
      [] n.kind = "num" -> Goes(n.ival, e)
      [] n.kind = "var" -> Goes(e.vars[n.name], e)
      [] n.kind = "call" -> LET a == CArgs(n.child, e) IN CCall(n.name, a.v, a.e)
      [] n.kind = "assign" ->
            LET x == n.child[1].name
                r == CExpr(n.child[2], e)
                v == IF n.child[1].ival = 1 THEN r.v ELSE Apply(n.name, r.e.vars[x], r.v)
            IN Goes(v, [r.e EXCEPT !.vars = (x :> v) @@ @])
      [] n.kind = "bin" ->
            LET a == CExpr(n.child[1], e)
                skip == (n.name = "&&" /\ a.v = 0) \/ (n.name = "||" /\ a.v # 0)
                b == CExpr(n.child[2], a.e)
            IN IF skip THEN Goes(Truth(a.v), a.e)
               ELSE Goes(IF n.name \in {"&&", "||"} THEN Truth(b.v) ELSE Apply(n.name, a.v, b.v), b.e)

CWhile(n, e, last) ==
    LET c == CExpr(n.child[1], Spend(e))
        s == CStmt(n.child[2], c.e)
    IN IF c.e.odd \/ c.v = 0 THEN Ends("next", 0, Odd(c.e, last = "continue"))
       ELSE IF s.how = "break" THEN Ends("next", 0, s.e)
       ELSE IF s.how = "return" THEN s ELSE CWhile(n, s.e, s.how)
CFor(n, e) ==
    LET c == CExpr(n.child[2], Spend(e))
        s == CStmt(n.child[4], c.e)
        stepped == n.child[3].kind # "none"
    IN IF c.e.odd \/ c.v = 0 THEN Ends("next", 0, c.e)
       ELSE IF s.how \in {"break", "return"}
       THEN Ends(IF s.how = "break" THEN "next" ELSE "return", s.v, Odd(s.e, stepped))
       ELSE CFor(n, CExpr(n.child[3], s.e).e)
CBlock(n, i, e) ==
    IF i > Len(n.child) THEN Ends("next", 0, e)
    ELSE LET s == CStmt(n.child[i], e) IN IF s.how # "next" THEN s ELSE CBlock(n, i + 1, s.e)
CStmt(n, e) ==
    CASE n.kind \in {"break", "continue"} -> Ends(n.kind, 0, e)
      [] n.kind = "none"   -> Ends("next", 0, e)
      [] n.kind = "return" -> LET r == CExpr(n.child[1], e) IN Ends("return", r.v, r.e)
      [] n.kind = "if"     -> LET c == CExpr(n.child[1], e) IN CStmt(n.child[IF c.v # 0 THEN 2 ELSE 3], c.e)
      [] n.kind = "while"  -> CWhile(n, e, "next")
      [] n.kind = "for"    -> CFor(n, CExpr(n.child[1], e).e)
      [] n.kind = "block"  -> CBlock(n, 1, e)
      [] n.kind = "expr"   -> Ends("next", 0, CExpr(n.child[1], e).e)
      [] n.kind = "assign" -> Ends("next", 0, CExpr(n, e).e)

(* eval: what a program prints and returns is what C says, as long as no     *)
(* `while` is left by its condition in the round after a continue, no `for`  *)
(* with a step is left by break or return, no function ends without a        *)
(* return, and no more than MAX_CALL of them are active.                     *)
RunsAsC == zbcPc = "ran" =>
    LET c == CCall("main", <<>>, [fun |-> zbcProg, vars |-> <<>>, out |-> <<>>, odd |-> FALSE, fuel |-> Fuel, depth |-> 0])
    IN ~c.e.odd => ~zbcRan.m.err /\ zbcRan.m.out = c.e.out /\ zbcRan.v = c.v

(* parse_binop: the weakest operator is on top of the tree, of several the   *)
(* last one.                                                                 *)
RECURSIVE Grouped(_, _)
Grouped(a, b) ==
    LET ops == {i \in a .. b : BinPrec(zbcToks[i]) > 0}
        top == CHOOSE i \in ops : \A j \in ops : BinPrec(zbcToks[i]) < BinPrec(zbcToks[j])
                                                 \/ (BinPrec(zbcToks[i]) = BinPrec(zbcToks[j]) /\ j <= i)
    IN IF a = b THEN Node("var", zbcToks[a], 0, <<>>)
       ELSE Node("bin", zbcToks[top], 0, <<Grouped(a, top - 1), Grouped(top + 1, b)>>)
ParsesAsC == zbcPc = "parsed" => zbcTree = Grouped(1, Len(zbcToks))
=============================================================================
