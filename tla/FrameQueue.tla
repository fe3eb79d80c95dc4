----------------------------- MODULE FrameQueue -----------------------------
(* What either side of a network card promises the other: a queue that may   *)
(* lose frames and never repeats, reorders or damages one. Frames are        *)
(* numbered in the order they are handed over; 0 is no frame, and a frame    *)
(* that was rewritten while it was being copied has no number at all.        *)
EXTENDS Naturals, Sequences

VARIABLES queue,   \* numbers handed over and not yet taken, oldest first
          given,   \* the last number handed over
          taken,   \* the last number taken out
          late     \* a wait ran out on a frame the other side was still at

vars == <<queue, given, taken, late>>

Init == queue = <<>> /\ given = 0 /\ taken = 0 /\ ~late

(* Kept(s, t): s is t with some frames left out. *)
Kept(s, t) == \E f \in [1 .. Len(s) -> 1 .. Len(t)] :
                 /\ \A i, j \in 1 .. Len(s) : i < j => f[i] < f[j]
                 /\ \A i \in 1 .. Len(s) : s[i] = t[f[i]]

Give == /\ given' = given + 1
        /\ Kept(queue', Append(queue, given'))
        /\ UNCHANGED taken

Take == /\ queue # <<>>
        /\ taken' = Head(queue)
        /\ queue' = Tail(queue)
        /\ UNCHANGED given

Lose == Kept(queue', queue) /\ UNCHANGED <<given, taken>>

(* Once a wait ran out too early nothing is promised any more. *)
Next == late' \/ (~late /\ (Give \/ Take \/ Lose))

Spec == Init /\ [][Next]_vars
=============================================================================
