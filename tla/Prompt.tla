--------------------------------- MODULE Prompt --------------------------------
(* The prompt, shell/shell.c: read_line with its history (a ring in           *)
(* builtins.c that shell_main fills), and the table of aliases. A line is a   *)
(* sequence of characters, of which the ring keeps the first HistCut; names   *)
(* and values of aliases are taken to fit theirs.                             *)
EXTENDS Integers, Sequences

CONSTANTS KeyChars,   \* characters of the keys
          PromptMax,  \* LINE_MAX less the end mark
          HistMax,    \* HIST_MAX
          HistCut,    \* what an entry of g_hist holds of a line
          HistLines,  \* bound: lines added to the history
          AliasMax, AliasNames, AliasValues

VARIABLES ln,      \* read_line: buf, hist_idx, saved
          ghist,   \* g_hist
          galias,  \* g_alias: a name and a value in each slot, or free
          hcount,  \* g_hist_count
          entered, \* history: the lines added, of the kept length
          begun,   \* history: the line that was being written when UP was first pressed
          meant    \* history: what each alias was last set to

promptVars == <<ln, ghist, galias, hcount, entered, begun, meant>>

Unset == "-"
Free == [name |-> Unset, value |-> Unset]
Fresh == [buf |-> <<>>, idx |-> -1, saved |-> <<>>]

Init == /\ ln = Fresh /\ ghist = [i \in 0 .. HistMax - 1 |-> <<>>] /\ hcount = 0
        /\ galias = [i \in 1 .. AliasMax |-> Free]
        /\ entered = <<>> /\ begun = <<>> /\ meant = [n \in AliasNames |-> Unset]

CutTo(s, n) == SubSeq(s, 1, IF Len(s) < n THEN Len(s) ELSE n)

-----------------------------------------------------------------------------
(* The keys of read_line.                                                    *)
Type(ch) ==
    /\ Len(ln.buf) < PromptMax
    /\ ln' = [ln EXCEPT !.buf = Append(@, ch), !.idx = -1]
    /\ UNCHANGED <<ghist, galias, hcount, entered, begun, meant>>
Erase ==
    /\ ln.buf # <<>>
    /\ ln' = [ln EXCEPT !.buf = CutTo(@, Len(@) - 1)]
    /\ UNCHANGED <<ghist, galias, hcount, entered, begun, meant>>

(* Mutant of HistoryGet: the ring is taken to begin at its first place. *)
HistoryGetMutant(back) == ghist[(HistMax - 1 - back) % HistMax]

(* shell_history_get, for an entry that exists. *)
Exists(back) == back < HistMax /\ back < hcount
HistoryGet(back) == ghist[(hcount - 1 - back + HistMax * 100) % HistMax]
Up ==
    /\ Exists(ln.idx + 1)
    /\ ln' = [ln EXCEPT !.saved = IF ln.idx < 0 THEN ln.buf ELSE @,
                        !.idx = @ + 1, !.buf = HistoryGet(ln.idx + 1)]
    /\ begun' = IF ln.idx < 0 THEN ln.buf ELSE begun
    /\ UNCHANGED <<ghist, galias, hcount, entered, meant>>
Down ==
    /\ ln.idx >= 0
    /\ ln' = [ln EXCEPT !.idx = @ - 1,
                        !.buf = IF ln.idx = 0 THEN ln.saved ELSE HistoryGet(ln.idx - 1)]
    /\ UNCHANGED <<ghist, galias, hcount, entered, begun, meant>>

(* Enter; then shell_main adds the line (shell_history_add), unless it is    *)
(* empty or the same as the entry before. Bound: HistLines.                  *)
Repeats == hcount > 0 /\ ghist[(hcount - 1) % HistMax] = ln.buf
Enter ==
    /\ hcount < HistLines
    /\ ln' = Fresh
    /\ IF ln.buf = <<>> \/ Repeats THEN UNCHANGED <<ghist, hcount, entered>>
       ELSE /\ ghist' = [ghist EXCEPT ![hcount % HistMax] = CutTo(ln.buf, HistCut)]
            /\ hcount' = hcount + 1 /\ entered' = Append(entered, CutTo(ln.buf, HistCut))
    /\ UNCHANGED <<galias, begun, meant>>
CtrlC ==
    /\ ln' = Fresh
    /\ UNCHANGED <<ghist, galias, hcount, entered, begun, meant>>

-----------------------------------------------------------------------------
(* The aliases. *)
Places(name) == {i \in 1 .. AliasMax : galias[i].name = name}
Lowest(I) == CHOOSE i \in I : \A j \in I : i <= j

(* Mutant of SlotOf: a free place in front of the alias is taken.            *)
SlotOfMutant(name) == Lowest(Places(name) \cup Places(Unset))

(* cmd_alias: the alias itself, else the first free place. *)
SlotOf(name) == IF Places(name) # {} THEN Lowest(Places(name)) ELSE Lowest(Places(Unset))
Alias(name, value) ==
    /\ Places(name) \cup Places(Unset) # {}
    /\ galias' = [galias EXCEPT ![SlotOf(name)] = [name |-> name, value |-> value]]
    /\ meant' = [meant EXCEPT ![name] = value]
    /\ UNCHANGED <<ln, ghist, hcount, entered, begun>>
Unalias(name) ==
    /\ Places(name) # {}
    /\ galias' = [galias EXCEPT ![Lowest(Places(name))].name = Unset]
    /\ meant' = [meant EXCEPT ![name] = Unset]
    /\ UNCHANGED <<ln, ghist, hcount, entered, begun>>

(* shell_alias_lookup. *)
Lookup(name) == IF Places(name) = {} THEN Unset ELSE galias[Lowest(Places(name))].value

Next == \/ \E ch \in KeyChars : Type(ch)
        \/ Erase \/ Up \/ Down \/ Enter \/ CtrlC
        \/ \E n \in AliasNames : Unalias(n) \/ \E v \in AliasValues : Alias(n, v)
Spec == Init /\ [][Next]_promptVars

-----------------------------------------------------------------------------
TypeOK == /\ ln.idx \in -1 .. HistMax - 1 /\ Len(ln.buf) <= PromptMax
          /\ hcount \in 0 .. HistLines

(* The k-th UP recalls the k-th line from the end, as long as the ring goes  *)
(* back, or what is left of it if characters were erased since, and DOWN     *)
(* from the last one the line that was being written (read_line,             *)
(* shell_history_get, shell_history_add); an alias stands for what it was    *)
(* last set to, one that was removed for nothing (cmd_alias, cmd_unalias).   *)
PromptTrue ==
    /\ ln.idx >= 0 => LET line == entered[Len(entered) - ln.idx] IN
                      /\ ln.buf = CutTo(line, Len(ln.buf))
                      /\ ln.saved = begun
    /\ \A back \in 0 .. HistMax - 1 : Exists(back) => HistoryGet(back) = entered[Len(entered) - back]
    /\ \A n \in AliasNames : Lookup(n) = meant[n]
=============================================================================
