------------------------------ MODULE MCDrives ------------------------------
(* A four-unit disk, blank or with one FAT partition in its second slot, and *)
(* a setup medium (a superfloppy with INSTALL.TAG and a SYSTEM tree). The    *)
(* user types spans that overlap, that end and that begin behind the disk.   *)
EXTENDS Drives, TLC

MCDiskUnits == [d \in 0 .. 1 |-> IF d = 0 THEN 4 ELSE 2]
SetupFiles  == {"TAG", "SYS"}
MCMedia == (<<0, 2>> :> NewVol) @@ (<<1, 0>> :> [NewVol EXCEPT !.files = SetupFiles, !.whole = SetupFiles])
OnePart  == [i \in Slots |-> IF i = 2 THEN [type |-> TRUE, start |-> 2, count |-> 1, boot |-> TRUE] ELSE Free]
MCTables == {[i \in Slots |-> Free], OnePart}
MCSpans  == {<<1, 3>>, <<2, 1>>, <<2, 4>>, <<5, 1>>}
=============================================================================
