---------------------------------- MODULE Zas ----------------------------------
(* The assembler of shell/zas.c and the load of its output by fs/elf.c: two    *)
(* passes over the source, with the sections, labels and fixups they keep. An  *)
(* instruction is its length and, if it names a label, the 32-bit word it      *)
(* leaves in the image; a negative word stands for its complement to 2^32.     *)
(* Lexing, and which opcode is which, are left out, but for the percent sign,  *)
(* which lex_next gives an empty name for and never passes.                    *)
EXTENDS Integers, FiniteSets, SequencesExt

CONSTANTS Statements,       \* the lines there are: [op, sym, n]
          MaxLines,         \* bound: lines of a source
          Vma,              \* ZAS_TEXT_VMA
          LabelMax, FixupMax, OutMax

VARIABLES asmSrc,           \* zas_src, a line at a time
          asm,              \* the assembler's variables
          asmPc

asmVars == <<asmSrc, asm, asmPc>>

NoEntry == 0
Cleared == [sec |-> "text", pos |-> 0, text |-> 0, data |-> 0, bss |-> 0, dataAt |-> 0,
            labels |-> <<>>, fixups |-> <<>>, entry |-> NoEntry,
            image |-> [i \in 1 .. MaxLines |-> 0],     \* the words, by the line that emits them
            undefined |-> {}]                          \* reported by apply_fixups

Init == asmSrc = <<>> /\ asm = Cleared /\ asmPc = "edit"

-----------------------------------------------------------------------------
(* assemble_line. What is emitted behind the end of zas_out is dropped.      *)
Emit(a, n) == [a EXCEPT !.pos = IF @ + n > OutMax THEN OutMax ELSE @ + n]

Aligned(x) == ((x + 3) \div 4) * 4
CurVma(a) == CASE a.sec = "text" -> Vma + a.pos
               [] a.sec = "data" -> Aligned(Vma + a.text) + a.pos - a.dataAt
               [] a.sec = "bss"  -> Aligned(Vma + a.text) + a.data

(* Pass 1 notes the size of the section that is left, of .text most often.   *)
Section(a, pass, to) ==
    [a EXCEPT !.sec = to,
              !.text = IF pass = 1 /\ to # "text" /\ a.sec = "text" THEN a.pos ELSE @,
              !.data = IF pass = 1 /\ to = "bss" /\ a.sec = "data" THEN a.pos - a.dataAt ELSE @]

(* A label has the address of the last definition; when the table is full a  *)
(* new one is dropped. The entry point is _start, or else the first label.   *)
Label(a, pass, l) ==
    IF pass = 2 THEN a
    ELSE [a EXCEPT
            !.labels = IF l \in DOMAIN @ \/ Cardinality(DOMAIN @) < LabelMax
                       THEN (l :> CurVma(a)) @@ @ ELSE @,
            !.entry = IF l = "_start" \/ @ = NoEntry THEN CurVma(a) ELSE @]

(* resb: .bss grows in either pass. *)
Reserve(a, n) == IF a.sec = "bss" THEN [a EXCEPT !.bss = @ + n] ELSE Emit(a, n)

Known(a, l) == l \in DOMAIN a.labels
Value(a, l) == IF Known(a, l) THEN a.labels[l] ELSE 0

(* times with a name for its count: a label's address, as no name is ever    *)
(* %defined. With a number it is so many bytes.                              *)
Times(a, l) == Emit(a, Value(a, l))

AddFixup(a, pass, i, base) ==
    IF pass = 1 \/ Known(a, asmSrc[i].sym) \/ Len(a.fixups) >= FixupMax THEN a
    ELSE [a EXCEPT !.fixups = Append(@, [line |-> i, name |-> asmSrc[i].sym, base |-> base])]

(* MOV r32, label and dd; PUSH label, which leaves no fixup.                 *)
Absolute(a, pass, i) ==
    LET s == asmSrc[i]
        b == [a EXCEPT !.image[i] = Value(a, s.sym)]
    IN Emit(IF s.op = "push" THEN b ELSE AddFixup(b, pass, i, 0), s.n)

(* Mutant of Jump: the displacement is taken from its own place. *)
JumpMutant(a, pass, i) ==
    LET s == asmSrc[i] IN
    Emit([AddFixup(a, pass, i, CurVma(a)) EXCEPT
            !.image[i] = IF pass = 2 /\ Known(a, s.sym) THEN a.labels[s.sym] - CurVma(Emit(a, s.n - 4)) ELSE 0], s.n)

(* JMP, CALL and the conditional jumps, relative to the next instruction.    *)
Jump(a, pass, i) ==
    LET s == asmSrc[i]
        next == CurVma(Emit(a, s.n - 4)) + 4
        b == AddFixup(a, pass, i, next)
    IN Emit([b EXCEPT !.image[i] = IF pass = 2 /\ Known(a, s.sym) THEN a.labels[s.sym] - next ELSE 0], s.n)

Line(a, pass, i) ==
    LET s == asmSrc[i] IN
    CASE s.op = "section" -> Section(a, pass, s.sym)
      [] s.op = "label"   -> Label(a, pass, s.sym)
      [] s.op = "times"   -> Times(a, s.sym)
      [] s.op = "resb"    -> Reserve(a, s.n)
      [] s.op \in {"mov", "dd", "push"} -> Absolute(a, pass, i)
      [] s.op = "jump"    -> Jump(a, pass, i)
      [] s.op = "bytes"   -> Emit(a, s.n)

(* run_pass. *)
RunPass(a, pass) ==
    LET start == [a EXCEPT !.sec = "text", !.pos = 0,
                           !.dataAt = IF pass = 2 THEN a.text ELSE 0]
        end == FoldLeftDomain(LAMBDA b, i : Line(b, pass, i), start, asmSrc)
    IN CASE end.sec = "text" -> [end EXCEPT !.text = end.pos]
         [] end.sec = "data" -> [end EXCEPT !.data = end.pos - end.dataAt]
         [] OTHER -> end

(* apply_fixups: a label that is still unknown is reported, and no more.     *)
Fixed(a, f) ==
    IF Known(a, f.name) THEN [a EXCEPT !.image[f.line] = a.labels[f.name] - f.base]
    ELSE [a EXCEPT !.undefined = @ \cup {f.name}]

-----------------------------------------------------------------------------
(* External: the source is written. Bound: MaxLines. *)
Type == /\ asmPc = "edit" /\ Len(asmSrc) < MaxLines
        /\ \E s \in Statements : asmSrc' = Append(asmSrc, s)
        /\ UNCHANGED <<asm, asmPc>>

(* A line with %define: skip_line looks for its end for ever.                *)
Percent == \E i \in DOMAIN asmSrc : asmSrc[i].op = "define"
Hang == /\ asmPc = "edit" /\ Percent /\ asmPc' = "hangs" /\ UNCHANGED <<asmSrc, asm>>

Pass1 == /\ asmPc = "edit" /\ ~Percent /\ asmPc' = "pass2"
         /\ asm' = RunPass(Cleared, 1) /\ UNCHANGED asmSrc
Pass2 == /\ asmPc = "pass2" /\ asmPc' = "fix"
         /\ asm' = RunPass([asm EXCEPT !.fixups = <<>>], 2) /\ UNCHANGED asmSrc
ApplyFixups == /\ asmPc = "fix" /\ asmPc' = "write"
               /\ asm' = FoldLeft(Fixed, asm, asm.fixups) /\ UNCHANGED asmSrc

(* write_elf: text_size + data_size bytes of zas_out, in one segment at Vma; *)
(* the file may be refused. elf_exec copies the segment there.               *)
WriteElf == /\ asmPc = "write" /\ asmPc' \in {"failed", "loaded"} /\ UNCHANGED <<asmSrc, asm>>

Next == Type \/ Hang \/ Pass1 \/ Pass2 \/ ApplyFixups \/ WriteElf
Spec == Init /\ [][Next]_asmVars

-----------------------------------------------------------------------------
TypeOK == /\ asmPc \in {"edit", "hangs", "pass2", "fix", "write", "failed", "loaded"}
          /\ asm.pos \in 0 .. OutMax /\ asm.sec \in {"text", "data", "bss"}
          /\ Cardinality(DOMAIN asm.labels) <= LabelMax /\ Len(asm.fixups) <= FixupMax

(* What the source means, whatever the passes do: where line i lies in       *)
(* memory, if the lines are put one behind the other from Vma.               *)
Lines == DOMAIN asmSrc
Before(i) == 1 .. i - 1
Is(i, ops) == asmSrc[i].op \in ops
SecOf(i) == LET s == {j \in Before(i) : Is(j, {"section"})} IN
            IF s = {} THEN "text" ELSE asmSrc[CHOOSE j \in s : \A k \in s : k <= j].sym
Size(i) == CASE Is(i, {"mov", "dd", "push", "jump", "bytes"}) -> asmSrc[i].n
             [] Is(i, {"resb"})  -> IF SecOf(i) = "bss" THEN 0 ELSE asmSrc[i].n
             [] OTHER -> 0
Spot(i) == Vma + FoldLeft(LAMBDA sum, j : sum + Size(j), 0, [j \in Before(i) |-> j])
Marks(l) == {i \in Lines : Is(i, {"label"}) /\ asmSrc[i].sym = l}
Mark(l) == CHOOSE i \in Marks(l) : \A j \in Marks(l) : j <= i
Right(i) == asm.image[i] = Spot(Mark(asmSrc[i].sym)) - (IF Is(i, {"jump"}) THEN Spot(i) + Size(i) ELSE 0)
TextBefore(i) ==     \* .text is left with something in it
    LET left == {j \in Before(i) : Is(j, {"section"}) /\ asmSrc[j].sym # "text" /\ SecOf(j) = "text"} IN
    left # {} /\ Spot(CHOOSE j \in left : \A k \in left : k <= j) # Vma

(* Of the program's own: .bss has no more than resb, and zas_out is not full *)
(* (times with a label's address fills it).                                  *)
Settled == /\ \A i \in Lines : SecOf(i) = "bss" => Size(i) = 0
           /\ asm.pos < OutMax

(* Of a source that is assembled, passes and loader agree (assemble_line,    *)
(* run_pass, write_elf, elf_exec): nothing that was assembled is left out of *)
(* the file; every word that names a label of .text holds its address, or    *)
(* its distance from a jump in .text; so does a word that names a label of   *)
(* .data when no code was assembled before the data (pass 1 counts .data     *)
(* from the start of the image, and behind code the word is wrong); a name   *)
(* without an address is reported, unless a push has it or too many are; and *)
(* the program starts at its _start.                                         *)
AssembledRight == (asmPc = "loaded" /\ Settled) =>
    /\ asm.text + asm.data >= asm.pos
    /\ \A i \in Lines : Is(i, {"mov", "dd", "push", "jump"}) =>
        LET l == asmSrc[i].sym
            there == SecOf(Mark(l))
        IN IF l \notin DOMAIN asm.labels
           THEN l \in asm.undefined \/ Is(i, {"push"}) \/ Len(asm.fixups) = FixupMax
           ELSE /\ there = "text" /\ (Is(i, {"jump"}) => SecOf(i) = "text") => Right(i)
                /\ there = "data" /\ ~Is(i, {"jump"}) => TextBefore(Mark(l)) \/ Right(i)
    /\ Marks("_start") # {} /\ SecOf(Mark("_start")) = "text" => asm.entry = Spot(Mark("_start"))
=============================================================================
