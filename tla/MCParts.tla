------------------------------- MODULE MCParts -------------------------------
(* The parts of Parts and the C interpreter, in one run.                     *)
EXTENDS Parts

CONSTANTS Programs, Sentences, MaxVars, MaxCall, Fuel

VARIABLES zbcPc, zbcProg, zbcRan, zbcToks, zbcTree

Interpreter == INSTANCE Zbc

zbcVars == <<zbcPc, zbcProg, zbcRan, zbcToks, zbcTree>>

AllInit == Init /\ Interpreter!Init

InterpreterStep == part = "zbc" /\ Interpreter!Next /\ UNCHANGED vars
PartStep == Next /\ UNCHANGED zbcVars

AllNext == PartStep \/ InterpreterStep

AllSpec == AllInit /\ [][AllNext]_<<vars, zbcVars>>

-----------------------------------------------------------------------------
(* The passes of the assembler and the loader agree (zas.c); a program means *)
(* to the interpreter what it means in C (zbc.c); the prompt recalls what was *)
(* entered (shell.c, builtins.c).                                            *)
ToolsTrue == /\ AssembledRight /\ PromptTrue
             /\ part = "zbc" => Interpreter!TypeOK /\ Interpreter!RunsAsC /\ Interpreter!ParsesAsC

-----------------------------------------------------------------------------
(* The instance.                                                             *)
Presses == [a |-> 2, b |-> 1, caps |-> 1]

Packets == [uhci |-> 2, ehci |-> 1, none |-> 0]
FileTexts == {<<"b">>}
Places == [k \in {"welcome", "clock", "notes"} |->
    CASE k = "welcome" -> [r |-> 1, c |-> 0, w |-> 3, h |-> 2, dr |-> 0, dc |-> 0]
      [] k = "clock"   -> [r |-> 1, c |-> 1, w |-> 3, h |-> 2, dr |-> 1, dc |-> 2]
      [] k = "notes"   -> [r |-> 1, c |-> 1, w |-> 3, h |-> 3, dr |-> 0, dc |-> 0]]

(* Lines of an assembler source. *)
AsmLine(op, sym, n) == [op |-> op, sym |-> sym, n |-> n]
AsmLines == {AsmLine("section", s, 0) : s \in {"text", "data", "bss"}}
            \cup {AsmLine("label", l, 0) : l \in {"_start", "x"}}
            \cup {AsmLine(op, "x", 5) : op \in {"mov", "push", "jump"}}
            \cup {AsmLine("bytes", "-", 1), AsmLine("resb", "-", 1),
                  AsmLine("times", "x", 0), AsmLine("define", "-", 0)}

(* C programs: x counts to 3 in a loop, or in two nested ones, whose body    *)
(* prints, calls f or leaves at 2; f adds one, or counts on and returns from *)
(* its loop.                                                                 *)
Stmt(kind, name, ival, child) == [kind |-> kind, name |-> name, ival |-> ival, child |-> child]
None == Stmt("none", "", 0, <<>>)
Var(x) == Stmt("var", x, 0, <<>>)
Num(k) == Stmt("num", "", k, <<>>)
Bin(op, a, b) == Stmt("bin", op, 0, <<a, b>>)
Assign(op, x, e) == Stmt("assign", op, 0, <<Var(x), e>>)
Decl(x, e) == Stmt("assign", "=", 0, <<Stmt("var", x, 1, <<>>), e>>)
Do(e) == Stmt("expr", "", 0, <<e>>)
Ret(e) == Stmt("return", "", 0, <<e>>)
Block(ss) == Stmt("block", "", 0, ss)
Jump(kind) == Stmt(kind, "", 0, <<>>)
If(c, s) == Stmt("if", "", 0, <<c, s, None>>)
Add1(x) == Assign("+", x, Num(1))
Less(x, k) == Bin("<", Var(x), Num(k))
Show == Do(Stmt("call", "print", 0, <<Var("x")>>))
CallF == Do(Assign("=", "x", Stmt("call", "f", 0, <<Var("x")>>)))

Simple == {Show, Do(Add1("x")), CallF}
          \cup {If(Bin("==", Var("x"), Num(2)), s) : s \in {Jump("break"), Jump("continue"), Ret(Num(9))}}
Bodies(n) == {Block(b) : b \in UNION {[1 .. k -> Simple] : k \in 1 .. n}}
Loops(bs) == {Stmt("while", "", 0, <<Less("x", 3), b>>) : b \in bs}
             \cup {Stmt("for", "", 0, <<None, Less("x", 3), s, b>>) : b \in bs, s \in {None, Add1("x")}}
Nested == Loops({Block(<<l, s, Show>>) : l \in Loops(Bodies(2)),
                                         s \in {Do(Add1("x")), If(Less("x", 2), Jump("continue"))}})
Main(loop) == Block(<<Decl("x", Num(0)), loop, Show, Ret(Var("x"))>>)
Counter == Stmt("for", "", 0, <<None, None, None,
    Block(<<If(Bin("&&", Less("a", 5), Bin("<", Num(1), Var("a"))), Ret(Var("a"))), Do(Add1("a"))>>)>>)
CPrograms == {[main |-> [params |-> <<>>, body |-> Main(loop)], f |-> [params |-> <<"a">>, body |-> Block(<<f>>)]] :
                loop \in Loops(Bodies(3)) \cup Nested, f \in {Ret(Bin("+", Var("a"), Num(1))), Counter}}
CSentences == UNION {{[i \in 1 .. 2 * k + 1 |-> IF i % 2 = 1 THEN <<"a", "b", "c", "d">>[(i + 1) \div 2]
                                                ELSE op[i \div 2]] :
                        op \in [1 .. k -> {"||", "&&", "<", "+", "-"}]} : k \in 0 .. 3}
=============================================================================
