-------------------------------- MODULE Desktop --------------------------------
(* The window manager of shell/desktop.c: the table of widgets, opening and    *)
(* closing, focus and stacking, dragging and resizing with the mouse, the      *)
(* taskbar, the menus and the keys of the main loop. z grows with next_z, so   *)
(* only the order of the windows is kept. Of what a window shows there is the  *)
(* text of Notes and its file, each a length: a write never makes a file       *)
(* shorter. An unused entry keeps the flags the code does not reset.           *)
EXTENDS Integers, SequencesExt

CONSTANTS Slots,              \* the last of MAX_WIDGETS entries; entry 0 is Welcome
          Cols, Rows,         \* the screen: menu bar in row 0, taskbar in the last
          MinW, MinH,
          Kinds, Singletons, ReadOnly, Resizable,
          Place,              \* kind -> where spawn_widget puts it in entry 1, and its step per entry
          Chips,              \* titles that fit the taskbar
          NoteCap,            \* characters of Notes
          MaxInputs           \* bound: presses, menu choices and keys

VARIABLES
    win,              \* the widgets
    order,            \* the used ones, the topmost last
    grip,             \* dragging or resizing: what, entry, offset
    pressed,          \* was_pressed
    chips,            \* entries with a place on the taskbar
    running,          \* desktop_main is
    note, noteFile,   \* the text of Notes and of its file
    inputs,
    hidden            \* history: entries opened or raised while minimized

dtVars == <<win, order, grip, pressed, chips, running, note, noteFile, inputs, hidden>>
Slot == 0 .. Slots
NoGrip == [what |-> "none", i |-> 0, dc |-> 0, dr |-> 0]
Unused == [used |-> FALSE, kind |-> "-", r |-> 0, c |-> 0, w |-> 0, h |-> 0, focused |-> FALSE, minimized |-> FALSE]

Init == /\ win = [i \in Slot |-> Unused] /\ order = <<>> /\ grip = NoGrip /\ pressed = FALSE /\ chips = {}
        /\ running = FALSE /\ note = 0 /\ noteFile = 0 /\ inputs = 0 /\ hidden = {}

At(k, i) == [r |-> Place[k].r + (i - 1) * Place[k].dr, c |-> Place[k].c + (i - 1) * Place[k].dc,
             w |-> Place[k].w, h |-> Place[k].h]
Put(w, k, i) == [w EXCEPT !.used = TRUE, !.kind = k, !.r = At(k, i).r, !.c = At(k, i).c, !.w = At(k, i).w, !.h = At(k, i).h]
Without(i) == LET at == {p \in 1 .. Len(order) : order[p] = i} IN
              IF at = {} THEN order ELSE RemoveAt(order, Min(at))
Raised(i) == Append(Without(i), i)

(* focus_only. *)
Focused(ws, i) == [j \in Slot |-> [ws[j] EXCEPT !.focused = (j = i)]]

(* draw_taskbar: the loop stops at the first title that does not fit, and    *)
(* leaves the entries behind it as they were.                                *)
Taskbar(ws) ==
    LET used == {i \in Slot : ws[i].used}
        over == {i \in used : Cardinality({j \in used : j <= i}) > Chips}
    IN IF over = {} THEN used
       ELSE LET stop == CHOOSE i \in over : \A j \in over : i <= j IN
            {i \in used : i < stop} \cup {i \in chips : i > stop}

(* widget_at: the topmost window there that is not minimized, or -1.         *)
Covers(w, c, r) == w.used /\ ~w.minimized /\ w.c <= c /\ c < w.c + w.w /\ w.r <= r /\ r < w.r + w.h
WidgetAt(c, r) == LET on == {p \in 1 .. Len(order) : Covers(win[order[p]], c, r)} IN
                  IF on = {} THEN -1 ELSE order[Max(on)]

(* Bound: MaxInputs. *)
Input == running /\ inputs < MaxInputs /\ inputs' = inputs + 1

(* desktop_main, to its loop: the entries are marked unused and no more.     *)
Enter == /\ ~running /\ inputs < MaxInputs /\ inputs' = inputs + 1 /\ running' = TRUE
         /\ win' = [i \in Slot |-> IF i = 0 THEN Put(win[0], "welcome", 0) ELSE [win[i] EXCEPT !.used = FALSE]]
         /\ order' = <<0>> /\ chips' = Taskbar(win') /\ pressed' = FALSE
         /\ UNCHANGED <<grip, note, noteFile, hidden>>

(* Mutant of Opened: the entry that had the focus keeps it. *)
OpenedMutant(old, k, i) ==
    [old EXCEPT ![i] = [Put(@, k, i) EXCEPT !.focused = k \notin ReadOnly]]

(* spawn_widget in a free entry: the windows that take keys get the focus.   *)
(* Whether the entry is minimized stays as it was.                           *)
Opened(old, k, i) ==
    LET ws == [old EXCEPT ![i] = [Put(@, k, i) EXCEPT !.focused = FALSE]] IN
    IF k \in ReadOnly THEN ws ELSE Focused(ws, i)

(* spawn_widget: a singleton that is open is raised, minimized or not.       *)
Spawn(old, k) ==
    LET same == {i \in Slot : win[i].used /\ win[i].kind = k}
        free == {i \in 1 .. Slots : ~win[i].used}
    IN IF k \in Singletons /\ same # {}
       THEN LET i == CHOOSE j \in same : \A l \in same : j <= l IN
            /\ win' = Focused(old, i) /\ order' = Raised(i)
            /\ hidden' = IF win[i].minimized THEN hidden \cup {i} ELSE hidden
            /\ UNCHANGED note
       ELSE IF free = {} THEN win' = old /\ UNCHANGED <<order, hidden, note>>
       ELSE LET i == CHOOSE j \in free : \A l \in free : j <= l IN
            /\ win' = Opened(old, k, i) /\ order' = Append(order, i)
            /\ hidden' = IF win[i].minimized THEN hidden \cup {i} ELSE hidden \ {i}
            /\ note' = IF k = "notes" THEN IF noteFile < NoteCap THEN noteFile ELSE NoteCap ELSE note

(* By a function key, or from a menu, where the press took the focus away.   *)
(* Most draw everything again afterwards.                                    *)
OpenWindow == /\ Input /\ grip = NoGrip
              /\ \E k \in Kinds \ {"welcome"}, old \in {win, Focused(win, -1)} : Spawn(old, k)
              /\ \/ chips' = Taskbar(win') \/ UNCHANGED chips
              /\ UNCHANGED <<grip, pressed, running, noteFile>>

(* close_widget: Notes are written over their file from the start.           *)
Close(i) ==
    IF i = 0 THEN UNCHANGED <<win, order, noteFile>>
    ELSE /\ win' = [win EXCEPT ![i] = [Unused EXCEPT !.minimized = win[i].minimized]]
         /\ order' = Without(i)
         /\ noteFile' = IF win[i].kind = "notes" /\ note > noteFile THEN note ELSE noteFile

Minimized(ws, i) == IF i = 0 THEN ws ELSE [ws EXCEPT ![i].minimized = TRUE, ![i].focused = FALSE]

-----------------------------------------------------------------------------
(* The mouse.                                                                *)

Least(a, b) == IF a <= b THEN a ELSE b
Most(a, b) == IF a >= b THEN a ELSE b

(* Mutant of Dragged: the right edge is held inside by the least width. *)
DraggedMutant(w, c, r) ==
    LET nc == Most(0, c) nr == Most(1, r) IN
    [w EXCEPT !.c = IF nc + MinW > Cols THEN Cols - MinW ELSE nc,
              !.r = IF nr + w.h > Rows - 1 THEN Rows - 1 - w.h ELSE nr]

(* A window is put at a place: kept on the screen, and under the menu bar.   *)
Dragged(w, c, r) ==
    LET nc == Most(0, c) nr == Most(1, r) IN
    [w EXCEPT !.c = IF nc + w.w > Cols THEN Cols - w.w ELSE nc,
              !.r = IF nr + w.h > Rows - 1 THEN Rows - 1 - w.h ELSE nr]

(* Its lower right corner is put at a place: the least size first, then the  *)
(* screen.                                                                   *)
Resized(w, c, r) ==
    [w EXCEPT !.w = Least(Most(MinW, c - w.c + 1), Cols - w.c),
              !.h = Least(Most(MinH, r - w.r + 1), Rows - 1 - w.r)]

Moved(ws, g, c, r) ==
    CASE g.what = "drag" -> [ws EXCEPT ![g.i] = Dragged(@, c - g.dc, r - g.dr)]
      [] g.what = "resize" -> [ws EXCEPT ![g.i] = Resized(@, c, r)]
      [] OTHER -> ws

(* What a press takes hold of.                                               *)
Grip(i, c, r) ==
    LET w == win[i] IN
    IF w.kind \in Resizable /\ r = w.r + w.h - 1 /\ c = w.c + w.w - 1
    THEN [what |-> "resize", i |-> i, dc |-> 0, dr |-> 0]
    ELSE IF r = w.r THEN [what |-> "drag", i |-> i, dc |-> c - w.c, dr |-> r - w.r]
    ELSE NoGrip

(* On the taskbar: the entry is restored, or raised; a title the last drawing *)
(* left there may be of an entry that is closed.                              *)
PressChip(i) ==
    /\ order' = IF win[i].used THEN Raised(i) ELSE order
    /\ win' = Focused([win EXCEPT ![i].minimized = FALSE], i)
    /\ hidden' = hidden \ {i} /\ chips' = Taskbar(win')
    /\ UNCHANGED <<grip, pressed, noteFile>>

(* On a window: the close and minimize dots act and wait for the release;    *)
(* otherwise it is raised, gets the focus and may be taken hold of.          *)
PressWindow(i, c, r) ==
    IF r = win[i].r /\ c = win[i].c + 1
    THEN /\ Close(i) /\ hidden' = hidden \ {i} /\ chips' = Taskbar(win') /\ UNCHANGED <<grip, pressed>>
    ELSE IF r = win[i].r /\ c = win[i].c + 2
    THEN /\ win' = Minimized(win, i) /\ chips' = Taskbar(win')
         /\ UNCHANGED <<order, grip, pressed, noteFile, hidden>>
    ELSE /\ grip' = Grip(i, c, r) /\ order' = Raised(i)
         /\ win' = Moved(Focused(win, i), grip', c, r)
         /\ chips' = IF win' # Focused(win, i) THEN Taskbar(win') ELSE chips
         /\ pressed' = (grip' # NoGrip) /\ UNCHANGED <<noteFile, hidden>>

Press == /\ Input /\ ~pressed /\ UNCHANGED <<running, note>>
         /\ \/ \E i \in chips : PressChip(i)
            \/ \E c \in 0 .. Cols - 1, r \in 1 .. Rows - 2 :
                 IF WidgetAt(c, r) >= 0 THEN PressWindow(WidgetAt(c, r), c, r)
                 ELSE win' = Focused(win, -1) /\ UNCHANGED <<order, grip, pressed, chips, noteFile, hidden>>

(* The button stays down: the window follows the mouse.                      *)
Hold == /\ running /\ grip # NoGrip
        /\ \E c \in 0 .. Cols - 1, r \in 0 .. Rows - 1 : win' = Moved(win, grip, c, r)
        /\ win' # win /\ chips' = Taskbar(win')
        /\ UNCHANGED <<order, grip, pressed, running, note, noteFile, inputs, hidden>>

Release == /\ running /\ pressed /\ pressed' = FALSE /\ grip' = NoGrip
           /\ UNCHANGED <<win, order, chips, running, note, noteFile, inputs, hidden>>

-----------------------------------------------------------------------------
(* The keys; none is looked at while a window is held.                       *)

(* Typed or erased in Notes, when it has the focus. *)
KeyNotes == /\ Input /\ grip = NoGrip
            /\ \E i \in Slot : win[i].used /\ win[i].focused /\ win[i].kind = "notes"
            /\ \/ note < NoteCap /\ note' = note + 1
               \/ note > 0 /\ note' \in {note - 1, 0}      \* backspace; ^X
            /\ UNCHANGED <<win, order, grip, pressed, chips, running, noteFile, hidden>>

(* F8: the focused window is minimized. *)
KeyF8 == /\ Input /\ grip = NoGrip
         /\ \E i \in Slot : /\ win[i].used /\ win[i].focused
                            /\ win' = Minimized(win, i) /\ hidden' = hidden \ {i}
         /\ chips' = Taskbar(win')
         /\ UNCHANGED <<order, grip, pressed, running, note, noteFile>>

(* ESC, or Quit of the menu: Notes that are open are not written.            *)
Leave == /\ running /\ grip = NoGrip /\ running' = FALSE
         /\ UNCHANGED <<win, order, grip, pressed, chips, note, noteFile, inputs, hidden>>

Next == Enter \/ OpenWindow \/ Press \/ Hold \/ Release \/ KeyNotes \/ KeyF8 \/ Leave
Spec == Init /\ [][Next]_dtVars

-----------------------------------------------------------------------------
TypeOK == /\ note \in 0 .. NoteCap /\ noteFile \in 0 .. NoteCap /\ chips \subseteq Slot
          /\ pressed = (grip # NoGrip)
          /\ running => ToSet(order) = {i \in Slot : win[i].used} /\ IsInjective(order)
          /\ \A i \in Slot : win[i].used => win[i].kind \in Kinds

(* Keys go to one window at most.                                            *)
OneFocus == \A i, j \in Slot : win[i].focused /\ win[j].focused => i = j

(* Wherever a window is dragged or resized, it stays on the screen with at   *)
(* least the least size: no title bar ends up out of reach.                  *)
OnScreen == \A i \in Slot : LET w == win[i] IN
    (w.used /\ [r |-> w.r, c |-> w.c, w |-> w.w, h |-> w.h] # At(w.kind, i)) =>
        w.c >= 0 /\ w.c + w.w <= Cols /\ w.r >= 1 /\ w.r + w.h <= Rows - 1 /\ w.w >= MinW /\ w.h >= MinH

(* The window that is held is open, on top, visible and focused all along.   *)
HeldOnTop == grip # NoGrip => /\ Last(order) = grip.i
                              /\ win[grip.i].used /\ win[grip.i].focused /\ ~win[grip.i].minimized

(* Keys go to a window that can be seen, unless it was opened again while it *)
(* was minimized, which spawn_widget does not undo.                          *)
KeysSeen == running => \A i \in Slot \ hidden : win[i].used /\ win[i].focused => ~win[i].minimized

(* focus_only, raise_widget, minimize_widget and the loop of desktop_main.   *)
WindowsTrue == OneFocus /\ OnScreen /\ HeldOnTop /\ KeysSeen
=============================================================================
