--------------------------------- MODULE Edit ---------------------------------
(* shell/edit.c, the editor evi: the buffer, its cursor, the modes, undo and  *)
(* redo, visual deletion, search, the clipboard's lines, and the ex commands. *)
(* A command maps the editor, a record, to the editor after it; the file is a *)
(* sequence of characters. Tabs, which only a loaded file can contain, and    *)
(* the drawing are left out: a column of the screen is a column of the line.  *)
EXTENDS Integers, SequencesExt

CONSTANTS N, LineMax, UndoMax,  \* MAX_LINES, MAX_LINE, MAX_UNDO
          Window,               \* lines on the screen
          Letters,              \* characters that are typed
          Texts,                \* what the file may hold at the start
          MaxEdits              \* bound: keys that change something

VARIABLES
    ed,       \* the variables of edit.c; shown, shown0, fair, unmarked are history
    efile,    \* the file's characters
    edits     \* changing keys so far

edVars == <<ed, efile, edits>>
Row == 0 .. N - 1
Nl == "\n"

Lesser(a, b) == IF a <= b THEN a ELSE b
Greater(a, b) == IF a >= b THEN a ELSE b

Blank == [lines |-> [i \in Row |-> <<>>], count |-> 0, row |-> 0, col |-> 0, vcol |-> 0, top |-> 0,
          mode |-> "off", arow |-> 0, acol |-> 0, undos |-> <<>>, upos |-> 0, dirty |-> FALSE,
          clip |-> <<>>, row0 |-> 0, save0 |-> <<>>,
          shown0 |-> <<>>, fair |-> TRUE, unmarked |-> FALSE]

Init == ed = Blank /\ efile = <<>> /\ edits = 0

Line(e) == e.lines[e.row]
Shown(e) == [i \in 1 .. e.count |-> e.lines[i - 1]]

-----------------------------------------------------------------------------
(* Files.                                                                    *)

(* What save_file writes. *)
Saved(e) == FoldLeft(LAMBDA cs, l : cs \o Append(l, Nl), <<>>, Shown(e))

(* The lines load_file keeps: N of them, LineMax - 1 characters each.        *)
Split(cs) ==
    LET step(s, c) == IF c = Nl THEN [done |-> Append(s.done, s.cur), cur |-> <<>>]
                      ELSE [s EXCEPT !.cur = IF Len(@) < LineMax - 1 THEN Append(@, c) ELSE @]
        all == FoldLeft(step, [done |-> <<>>, cur |-> <<>>], cs)
        ls == IF cs = <<>> \/ Last(cs) = Nl THEN all.done ELSE Append(all.done, all.cur)
    IN  SubSeq(ls, 1, Lesser(N, Len(ls)))

(* edit_file: no line at all for an empty or missing file; the array keeps   *)
(* its old contents.                                                         *)
Load(e, cs) ==
    LET ls == Split(cs) IN
    [e EXCEPT !.lines = [i \in Row |-> IF i < Len(ls) THEN ls[i + 1] ELSE @[i]], !.count = Len(ls),
              !.row = 0, !.col = 0, !.top = 0, !.undos = <<>>, !.upos = 0, !.dirty = FALSE,
              !.fair = TRUE, !.unmarked = FALSE]

(* edit_main: one empty line then, and normal mode.                          *)
Start(e, cs) ==
    LET l == [Load(e, cs) EXCEPT !.vcol = 0, !.mode = "normal"] IN
    IF l.count = 0 THEN [l EXCEPT !.lines[0] = <<>>, !.count = 1] ELSE l

-----------------------------------------------------------------------------
(* Movement.                                                                 *)

(* ensure_visible. *)
See(e) == [e EXCEPT !.top = Greater(0, IF e.row < @ THEN e.row
                                       ELSE IF e.row >= @ + Window THEN e.row - Window + 1 ELSE @)]
At(e, r, c) == [e EXCEPT !.row = r, !.col = c]
(* v_col_save = col_to_screen(cur_row, cur_col). *)
Keep(e) == [e EXCEPT !.vcol = Lesser(e.col, Len(Line(e)))]

LineBack(e) == IF e.row > 0 THEN At(e, e.row - 1, Len(e.lines[e.row - 1])) ELSE e
LineOn(e) == IF e.row + 1 < e.count THEN At(e, e.row + 1, 0) ELSE e

Left(e) == See(Keep(IF e.col > 0 THEN At(e, e.row, e.col - 1) ELSE LineBack(e)))
Right(e) == See(Keep(IF e.col < Len(Line(e)) THEN At(e, e.row, e.col + 1) ELSE LineOn(e)))
ToRow(e, r) == See(At(e, r, Lesser(e.vcol, Len(e.lines[r]))))
Up(e) == IF e.row <= 0 THEN e ELSE ToRow(e, e.row - 1)
Down(e) == IF e.row + 1 >= e.count THEN e ELSE ToRow(e, e.row + 1)

(* The first place from i on, before the end, that is (not) a space; and the *)
(* last one up to i that starts what is skipped. *)
Skip(l, i, spaces) == CHOOSE j \in i .. Len(l) :
    /\ j = Len(l) \/ (l[j + 1] = " ") # spaces
    /\ \A k \in i + 1 .. j : (l[k] = " ") = spaces
WordOn(e) ==
    IF e.col >= Len(Line(e)) THEN LineOn(e)
    ELSE See(Keep(At(e, e.row, Skip(Line(e), Skip(Line(e), e.col, FALSE), TRUE))))
WordBack(e) ==
    IF e.col <= 0 THEN LineBack(e)
    ELSE LET l == Line(e)
             a == CHOOSE j \in 0 .. e.col - 1 : /\ j = 0 \/ l[j + 1] # " "
                                                /\ \A k \in j + 1 .. e.col - 1 : l[k + 1] = " "
             b == CHOOSE j \in 0 .. a : /\ j = 0 \/ l[j] = " "
                                        /\ \A k \in j .. a - 1 : l[k + 1] # " "
         IN See(Keep(At(e, e.row, b)))

LineStart(e) == [e EXCEPT !.col = 0, !.vcol = 0]
LineEnd(e) == Keep(At(e, e.row, Len(Line(e))))
FileStart(e) == [At(e, 0, 0) EXCEPT !.top = 0, !.vcol = 0]
FileEnd(e) == LET r == Greater(0, e.count - 1) IN Keep(See(At(e, r, Len(e.lines[r]))))
PageUp(e) == LET t == Greater(0, e.top - (Window - 1)) IN [e EXCEPT !.top = t, !.row = t]
PageDown(e) ==
    LET t == IF e.top + Window - 1 > e.count - 1 THEN Greater(0, e.count - 1) ELSE e.top + Window - 1
    IN [e EXCEPT !.top = t, !.row = Lesser(t + Window - 1, e.count - 1)]

(* search_next: the first hit of the next line that has one, this one last;  *)
(* the pattern is one character here.                                        *)
SearchNext(e, pat, dir) ==
    LET rowAt(i) == (e.row + i * dir + e.count) % e.count
        hits(r) == {c \in 0 .. Len(e.lines[r]) - 1 : e.lines[r][c + 1] = pat}
        found == {i \in 1 .. e.count : hits(rowAt(i)) # {}}
    IN  IF found = {} THEN e
        ELSE LET r == rowAt(CHOOSE i \in found : \A j \in found : i <= j) IN
             See(Keep(At(e, r, CHOOSE c \in hits(r) : \A d \in hits(r) : c <= d)))

-----------------------------------------------------------------------------
(* Undo. An entry holds the line before and after; "shown" is the text before *)
(* the command, which the code has not.                                       *)

(* Mutant of Push: the entries that were undone stay. *)
PushMutant(e, op, r, old, new, shown) ==
    LET full == Len(e.undos) >= UndoMax
        base == IF full THEN Tail(e.undos) ELSE e.undos
    IN [e EXCEPT !.undos = Append(base, [op |-> op, row |-> r, old |-> old, new |-> new, shown |-> shown]),
                 !.upos = Len(base) + 1]

(* push_undo: what was undone is dropped, and the oldest entry when full.    *)
Push(e, op, r, old, new, shown) ==
    LET kept == SubSeq(e.undos, 1, e.upos)
        base == IF Len(kept) >= UndoMax THEN Tail(kept) ELSE kept
    IN [e EXCEPT !.undos = Append(base, [op |-> op, row |-> r, old |-> old, new |-> new, shown |-> shown]),
                 !.upos = Len(base) + 1]

(* A line put in at r, and n lines taken out from r on: the loops of memcpy. *)
Opened(e, r, l) ==
    [e EXCEPT !.lines = [i \in Row |-> IF i = r THEN l ELSE IF r < i /\ i <= e.count THEN @[i - 1] ELSE @[i]],
              !.count = @ + 1]
Closed(e, r, n) ==
    [e EXCEPT !.lines = [i \in Row |-> IF r <= i /\ i + n < e.count THEN @[i + n] ELSE @[i]],
              !.count = @ - n]

(* do_undo: a changed line is exchanged with the entry's.                    *)
Undone(e) ==
    LET u == e.undos[e.upos]
        back == [e EXCEPT !.upos = @ - 1]
    IN CASE u.op = "modify" ->
              At([back EXCEPT !.lines[u.row] = u.old, !.undos[e.upos].old = e.lines[u.row], !.dirty = TRUE], u.row, 0)
         [] u.op = "insert" ->
              LET c == Closed(back, u.row, 1) IN At(c, Lesser(e.row, c.count - 1), 0)
         [] u.op = "delete" -> At(Opened(back, u.row, u.old), u.row, 0)
Undo(e) == IF e.upos <= 0 THEN e
           ELSE LET u == Undone(e) IN
                See([u EXCEPT !.row = Greater(0, @), !.unmarked = @ \/ e.undos[e.upos].op # "modify"])

(* do_redo: likewise, with the entry's new line. *)
Redone(e) ==
    LET u == e.undos[e.upos + 1]
        on == [e EXCEPT !.upos = @ + 1]
    IN CASE u.op = "modify" ->
              At([on EXCEPT !.lines[u.row] = u.new, !.undos[e.upos + 1].new = e.lines[u.row], !.dirty = TRUE], u.row, 0)
         [] u.op = "insert" -> At(Opened(on, u.row, u.new), u.row, 0)
         [] u.op = "delete" ->
              LET c == Closed(on, u.row, 1) IN At(c, Lesser(e.row, c.count - 1), 0)
Redo(e) == IF e.upos >= Len(e.undos) THEN e
           ELSE LET u == Redone(e) IN
                See([u EXCEPT !.row = Greater(0, @), !.fair = FALSE,
                              !.unmarked = @ \/ e.undos[e.upos + 1].op # "modify"])

-----------------------------------------------------------------------------
(* Editing. "fair" ends with a command that undo does not take back: one that *)
(* pushes no entry, or one that does not fit what it did.                     *)

Without(l, a, b) == SubSeq(l, 1, a) \o SubSeq(l, b + 1, Len(l))   \* characters a .. b - 1

(* A line is changed and the change pushed. *)
Change(e, r, l) ==
    Push([e EXCEPT !.lines[r] = l, !.dirty = TRUE], "modify", r, e.lines[r], l, Shown(e))

(* Mutant of TypeChar: the line may fill the whole buffer, the NUL forgotten. *)
TypeCharMutant(e, c) ==
    IF Len(Line(e)) >= LineMax THEN e
    ELSE See(Keep([e EXCEPT !.lines[e.row] = SubSeq(@, 1, e.col) \o <<c>> \o SubSeq(@, e.col + 1, Len(@)),
                            !.col = @ + 1, !.dirty = TRUE, !.fair = @ /\ e.row = e.row0]))

(* insert_char: nothing is pushed until insert mode is left.                 *)
TypeChar(e, c) ==
    IF Len(Line(e)) >= LineMax - 2 THEN e
    ELSE See(Keep([e EXCEPT !.lines[e.row] = SubSeq(@, 1, e.col) \o <<c>> \o SubSeq(@, e.col + 1, Len(@)),
                            !.col = @ + 1, !.dirty = TRUE, !.fair = @ /\ e.row = e.row0]))

(* delete_char; at the end of the line the next one is joined, and the entry *)
(* says that a line was inserted.                                            *)
DeleteChar(e) ==
    IF e.col < Len(Line(e)) THEN Change(e, e.row, Without(Line(e), e.col, e.col + 1))
    ELSE IF e.row + 1 >= e.count \/ Len(Line(e)) + Len(e.lines[e.row + 1]) >= LineMax - 1 THEN e
    ELSE LET joined == Line(e) \o e.lines[e.row + 1] IN
         Push([Closed([e EXCEPT !.lines[e.row] = joined], e.row + 1, 1) EXCEPT !.dirty = TRUE, !.fair = FALSE],
              "insert", e.row + 1, Line(e), joined, <<>>)

(* Mutant of Backspace: lines are joined without setting dirty. *)
BackspaceMutant(e) ==
    IF e.col > 0 THEN Keep(Change(At(e, e.row, e.col - 1), e.row, Without(Line(e), e.col - 1, e.col)))
    ELSE IF e.row <= 0 \/ Len(e.lines[e.row - 1]) + Len(Line(e)) >= LineMax - 1 THEN e
    ELSE LET before == e.lines[e.row - 1] IN
         See(Keep(At([Closed([e EXCEPT !.lines[e.row - 1] = before \o Line(e)], e.row, 1) EXCEPT !.fair = FALSE],
                     e.row - 1, Len(before))))

(* backspace_char; at the start of a line it is joined to the one before,    *)
(* and nothing is pushed.                                                    *)
Backspace(e) ==
    IF e.col > 0 THEN Keep(Change(At(e, e.row, e.col - 1), e.row, Without(Line(e), e.col - 1, e.col)))
    ELSE IF e.row <= 0 \/ Len(e.lines[e.row - 1]) + Len(Line(e)) >= LineMax - 1 THEN e
    ELSE LET before == e.lines[e.row - 1] IN
         See(Keep(At([Closed([e EXCEPT !.lines[e.row - 1] = before \o Line(e)], e.row, 1)
                        EXCEPT !.dirty = TRUE, !.fair = FALSE], e.row - 1, Len(before))))

(* split_line: undo takes the second half out and leaves the first.          *)
SplitLine(e) ==
    LET rest == SubSeq(Line(e), e.col + 1, Len(Line(e)))
        cut == [e EXCEPT !.lines[e.row] = SubSeq(@, 1, e.col)]
        on == [At(Opened(cut, e.row + 1, rest), e.row + 1, 0) EXCEPT !.vcol = 0, !.dirty = TRUE, !.fair = FALSE]
    IN See(Push(on, "insert", e.row + 1, Line(e), rest, <<>>))

(* delete_line: the last line is emptied; undo then makes it two.            *)
DeleteLine(e) ==
    IF e.count = 0 THEN e
    ELSE LET c == Closed(Push(e, "delete", e.row, Line(e), <<>>, Shown(e)), e.row, 1)
             d == IF c.count = 0 THEN [c EXCEPT !.lines[0] = <<>>, !.count = 1]
                  ELSE [c EXCEPT !.row = Lesser(@, c.count - 1)]
         IN See([d EXCEPT !.col = 0, !.vcol = 0, !.dirty = TRUE, !.fair = @ /\ e.count > 1])

DeleteToEol(e) == IF e.col >= Len(Line(e)) THEN e ELSE Change(e, e.row, SubSeq(Line(e), 1, e.col))

(* do_visual_delete: of several lines undo brings back the first.            *)
VisualDelete(e) ==
    LET first == e.arow < e.row \/ (e.arow = e.row /\ e.acol <= e.col)
        r1 == IF first THEN e.arow ELSE e.row
        r2 == IF first THEN e.row ELSE e.arow
        c1 == Lesser(e.acol, e.col)
        c2 == Greater(e.acol, e.col)
        l == e.lines[r1]
        d == IF r1 = r2
             THEN IF c1 >= Len(l) THEN e
                  \* to the place behind the last character: nothing moves
                  ELSE At(Change(e, r1, IF c2 = Len(l) THEN l ELSE Without(l, c1, c2 + 1)), e.row, c1)
             ELSE LET c == Closed(Push(e, "delete", r1, l, <<>>, <<>>), r1, r2 - r1 + 1) IN
                  [At(IF c.count = 0 THEN [c EXCEPT !.lines[0] = <<>>, !.count = 1] ELSE c, r1, 0)
                       EXCEPT !.dirty = TRUE, !.fair = FALSE]
    IN See([d EXCEPT !.row = Lesser(@, d.count - 1), !.vcol = 0, !.mode = "normal", !.arow = 0, !.acol = 0])

(* do_insert_mode, its start and ESC: the line it began on is pushed.        *)
Insert(e) == [e EXCEPT !.mode = "insert", !.row0 = e.row, !.save0 = Line(e), !.shown0 = Shown(e)]
Escape(e) == [(IF e.row0 < e.count THEN Push(e, "modify", e.row0, e.save0, e.lines[e.row0], e.shown0) ELSE e)
                EXCEPT !.mode = "normal", !.row0 = 0, !.save0 = <<>>, !.shown0 = <<>>]

(* open_line_below and open_line_above: neither pushes nor sets dirty.       *)
OpenBelow(e) == LET o == At(Opened(e, e.row + 1, <<>>), e.row + 1, 0) IN
                Insert(See([o EXCEPT !.vcol = 0, !.fair = FALSE, !.unmarked = TRUE]))
OpenAbove(e) == LET o == At(Opened(e, e.row, <<>>), e.row, 0) IN
                Insert(See([o EXCEPT !.vcol = 0, !.fair = FALSE, !.unmarked = TRUE]))

(* yy, Y and p. *)
YankLine(e) == IF e.count > 0 THEN [e EXCEPT !.clip = Append(Line(e), Nl)] ELSE e
YankRest(e) == IF e.count > 0 THEN [e EXCEPT !.clip = SubSeq(Line(e), e.col + 1, Len(Line(e)))] ELSE e
Paste(e) ==
    LET l == IF e.clip # <<>> /\ Last(e.clip) = Nl THEN Front(e.clip) ELSE e.clip IN
    IF e.clip = <<>> \/ e.count >= N THEN e
    ELSE [See(At(Opened(e, e.row + 1, l), e.row + 1, 0)) EXCEPT !.dirty = TRUE, !.fair = FALSE]

-----------------------------------------------------------------------------
(* The keys.                                                                 *)

(* A row below 0 is outside the array; what then happens is undefined, and   *)
(* so is an edit to the right of the line's end, where a page key leaves the *)
(* cursor: the model ends in "lost".                                         *)
Shows(e) == ed' = IF e.row < 0 THEN [Blank EXCEPT !.mode = "lost"] ELSE e
OnLine == ed.col <= Len(Line(ed))
In(modes) == ed.mode \in modes

(* Bound: MaxEdits. *)
Edits(e) == edits < MaxEdits /\ edits' = edits + 1 /\ Shows(e) /\ UNCHANGED efile
(* Bound: split_line and open_line have no test for MAX_LINES and would write *)
(* behind the array; the model has no such step.                              *)
Room == ed.count < N /\ ed.row + 1 < N

Open == /\ In({"off"})
        /\ \E t \in (IF edits = 0 THEN Texts ELSE {efile}) : efile' = t /\ ed' = Start(ed, t)
        /\ UNCHANGED edits

Move == /\ In({"normal", "visual", "insert"})
        /\ \E e \in {Left(ed), Right(ed), Up(ed), Down(ed), LineStart(ed), LineEnd(ed), PageUp(ed), PageDown(ed)} : Shows(e)
        /\ UNCHANGED <<efile, edits>>
Jump == /\ In({"normal", "visual"}) /\ OnLine
        /\ \E e \in {WordOn(ed), WordBack(ed), FileStart(ed), FileEnd(ed)} : Shows(e)
        /\ UNCHANGED <<efile, edits>>

(* handle_normal: i a I A o O, x X dd D, u ^R, v, yy Y p.                    *)
ToInsert == /\ In({"normal"})
            /\ \/ Edits(Insert(ed))
               \/ Edits(Insert(IF ed.count > 0 /\ ed.col < Len(Line(ed)) THEN [ed EXCEPT !.col = @ + 1] ELSE ed))
               \/ Edits(Insert(LineStart(ed))) \/ Edits(Insert(LineEnd(ed)))
               \/ Room /\ (Edits(OpenBelow(ed)) \/ Edits(OpenAbove(ed)))
Delete == /\ In({"normal"})
          /\ \/ ed.count > 0 /\ (Edits(DeleteChar(ed)) \/ Edits(DeleteToEol(ed)) \/ (OnLine /\ Edits(Backspace(ed))))
             \/ Edits(DeleteLine(ed))
History == In({"normal"}) /\ ed.count < N /\ (Edits(Undo(ed)) \/ Edits(Redo(ed)))
Yank == In({"normal"}) /\ OnLine /\ (Edits(YankLine(ed)) \/ Edits(YankRest(ed)))
PasteLine == In({"normal"}) /\ ed.row + 1 < N /\ Edits(Paste(ed))

(* v; then d, x or ESC. *)
Visual == /\ In({"normal"}) /\ ed' = [ed EXCEPT !.mode = "visual", !.arow = ed.row, !.acol = ed.col]
          /\ UNCHANGED <<efile, edits>>
VisualKey == /\ In({"visual"})
             /\ \/ ed.acol <= Len(ed.lines[ed.arow]) /\ OnLine /\ Edits(VisualDelete(ed))
                \/ ed' = [ed EXCEPT !.mode = "normal", !.arow = 0, !.acol = 0] /\ UNCHANGED <<efile, edits>>

(* do_insert_mode: after a deletion or a new line ESC no longer pushes what  *)
(* takes the session back. *)
InsertKey ==
    /\ In({"insert"})
    /\ \/ OnLine /\ \E c \in Letters : Edits(TypeChar(ed, c))
       \/ OnLine /\ Room /\ Edits(LET s == SplitLine(ed) IN [s EXCEPT !.row0 = s.row])
       \/ OnLine /\ Edits([Backspace(ed) EXCEPT !.fair = FALSE])
       \/ Edits([DeleteChar(ed) EXCEPT !.fair = FALSE])
       \/ Shows(Escape(ed)) /\ UNCHANGED <<efile, edits>>
Astray == /\ In({"insert", "normal", "visual"}) /\ ~OnLine
          /\ ed' = [Blank EXCEPT !.mode = "lost"] /\ UNCHANGED <<efile, edits>>

(* do_search, either way, and n, which is the same with the pattern kept.    *)
Search == /\ In({"normal"}) /\ \E c \in Letters, d \in {-1, 1} : Shows(SearchNext(ed, c, d))
          /\ UNCHANGED <<efile, edits>>

-----------------------------------------------------------------------------
(* do_cmdline.                                                               *)

(* What the arrays still hold is not followed into the next session.         *)
Quit(e) == Blank

(* save_file removes the file first. It looks at no result of fs_write: on a *)
(* full disk the text is cut short and the save reported.                    *)
Write == /\ In({"normal"}) /\ edits < MaxEdits /\ edits' = edits + 1
         /\ \E quit \in BOOLEAN :
              LET ok == [ed EXCEPT !.dirty = FALSE, !.unmarked = FALSE]
                  after(e) == IF quit THEN Quit(e) ELSE e
              IN \/ efile' = Saved(ed) /\ ed' = after(ok)
                 \/ efile' = <<>> /\ ed' = after([ok EXCEPT !.unmarked = TRUE])
                 \/ efile' = <<>> /\ ed' = [ed EXCEPT !.unmarked = TRUE]   \* fs_create fails

QuitCmd == /\ In({"normal"})
           /\ \E force \in BOOLEAN : (ed.dirty => force) /\ ed' = Quit(ed)
           /\ UNCHANGED <<efile, edits>>

(* :e, of the same file or of a new one.                                     *)
EditCmd == /\ In({"normal"}) /\ edits < MaxEdits /\ edits' = edits + 1
           /\ \E force \in BOOLEAN, cs \in {efile, <<>>} :
                (ed.dirty => force) /\ efile' = cs /\ ed' = Load(ed, cs)

Next == \/ Open \/ Move \/ Jump \/ ToInsert \/ Delete \/ History \/ Yank \/ PasteLine
        \/ Visual \/ VisualKey \/ InsertKey \/ Astray \/ Search \/ Write \/ QuitCmd \/ EditCmd

Spec == Init /\ [][Next]_edVars

-----------------------------------------------------------------------------
TypeOK ==
    /\ 0 <= ed.upos /\ ed.upos <= Len(ed.undos) /\ Len(ed.undos) <= UndoMax
    /\ ed.row \in Row /\ ed.col >= 0 /\ ed.top >= 0 /\ ed.count <= N
    /\ \A i \in Row : Len(ed.lines[i]) < LineMax
    /\ ed.mode \in {"off", "normal", "insert", "visual", "lost"}

(* Undo steps back through every text the buffer had, as long as only single *)
(* lines were changed or removed and every typed line was left by ESC.       *)
UndoStepsBack ==
    (ed.fair /\ In({"normal", "visual"})) =>
        LET at[k \in 1 .. ed.upos + 1] == IF k = ed.upos + 1 THEN ed ELSE Undo(at[k + 1])
        IN \A k \in 1 .. ed.upos : Shown(at[k]) = ed.undos[k].shown

(* A buffer that is not dirty is what opening the file would show: every     *)
(* path that changes it sets the flag, but for o and O, undo and redo of a   *)
(* line, and a save that failed or was cut short.                            *)
CleanIsSaved ==
    (~ed.dirty /\ ~ed.unmarked /\ In({"normal", "insert", "visual"})) =>
        LET ls == Split(efile) IN Shown(ed) = ls \/ (ls = <<>> /\ Shown(ed) = << <<>> >>)

(* push_undo and do_undo; dirty, load_file and save_file of edit.c.          *)
EditorTrue == UndoStepsBack /\ CleanIsSaved
=============================================================================
