---------------------------------- MODULE Ata ----------------------------------
(* The IDE driver, kernel/drv/ata.c: two drives on one channel, a sector at a *)
(* time by programmed I/O. Status is that of the drive selected last, every   *)
(* wait has a bound, and a drive may be ready long after it. The two ways to  *)
(* address a sector are one here; identify and its capacity are left out.     *)
EXTENDS Naturals, Sequences

CONSTANTS IdeDrives, IdeSectors, IdeCalls   \* bounds: sectors of a drive, calls

VARIABLES ata,      \* ata_read_blk or ata_write_blk: where it is and its locals
          selected, \* R_DRV: the drive whose status and data the channel shows
          drive,    \* each drive: BSY, DRQ, ERR, its command, its sector buffer
          surface,  \* what each drive keeps
          refused   \* history: sectors whose last write the drive reported as failed

ataVars == <<ata, selected, drive, surface, refused>>

Data(d, s, call) == <<d, s, call>>

Init == /\ ata = [pc |-> "idle", op |-> "none", d |-> CHOOSE d \in IdeDrives : TRUE,
                  lba |-> 1, count |-> 0, c |-> 0, out |-> <<>>, call |-> 0]
        /\ selected \in IdeDrives
        /\ drive = [d \in IdeDrives |-> [bsy |-> FALSE, drq |-> FALSE, err |-> FALSE,
                                         op |-> "none", s |-> 1, word |-> Data(d, 1, 0)]]
        /\ surface = [d \in IdeDrives |-> [s \in 1 .. IdeSectors |-> Data(d, s, 0)]]
        /\ refused = {}

Cur == ata.lba + ata.c
Status == drive[selected]

-----------------------------------------------------------------------------
(* Bound: IdeCalls. *)
Call(op, d, s, n) ==
    /\ ata.pc \in {"idle", "done", "failed"} /\ ata.call < IdeCalls
    /\ ata' = [pc |-> "ready", op |-> op, d |-> d, lba |-> s, count |-> n, c |-> 0,
               out |-> <<>>, call |-> ata.call + 1]
    /\ UNCHANGED <<selected, drive, surface, refused>>

NextSector == [ata EXCEPT !.c = @ + 1, !.pc = IF ata.c + 1 < ata.count THEN "ready" ELSE "done"]

(* Mutant of WaitNotBusy: a wait that is given up goes unnoticed.               *)
WaitNotBusyMutant ==
    /\ ata.pc \in {"ready", "flushed"}
    /\ ata' = IF ata.pc = "ready" THEN [ata EXCEPT !.pc = "command"] ELSE NextSector
    /\ UNCHANGED <<selected, drive, surface, refused>>

(* wait_not_busy asks the drive selected last, before a command and after    *)
(* the flush; its bound makes the call fail.                                 *)
WaitNotBusy ==
    /\ ata.pc \in {"ready", "flushed"}
    /\ ata' = IF Status.bsy THEN [ata EXCEPT !.pc = "failed"]
              ELSE IF ata.pc = "ready" THEN [ata EXCEPT !.pc = "command"] ELSE NextSector
    /\ UNCHANGED <<selected, drive, surface, refused>>

(* A drive takes no command while it is busy.                                *)
Told(d, op, s) == IF drive[d].bsy THEN drive[d]
                  ELSE [drive[d] EXCEPT !.bsy = TRUE, !.drq = FALSE, !.err = FALSE, !.op = op, !.s = s]
Command ==
    /\ ata.pc = "command" /\ selected' = ata.d
    /\ drive' = [drive EXCEPT ![ata.d] = Told(ata.d, ata.op, Cur)]
    /\ ata' = [ata EXCEPT !.pc = "drq"]
    /\ UNCHANGED <<surface, refused>>

WaitDrq ==
    /\ ata.pc = "drq"
    /\ ata' = [ata EXCEPT !.pc = IF ~Status.err /\ ~Status.bsy /\ Status.drq THEN "words" ELSE "failed"]
    /\ UNCHANGED <<selected, drive, surface, refused>>

(* The 256 words: a read has its sector, a write makes the drive busy, and   *)
(* the flush is sent without a look at that.                                 *)
ReadWords ==
    /\ ata.pc = "words" /\ ata.op = "read"
    /\ drive' = [drive EXCEPT ![selected].drq = FALSE]
    /\ ata' = [NextSector EXCEPT !.out = Append(@, Status.word)]
    /\ UNCHANGED <<selected, surface, refused>>
WriteWords ==
    /\ ata.pc = "words" /\ ata.op = "write"
    /\ drive' = [drive EXCEPT ![selected].drq = FALSE, ![selected].bsy = TRUE,
                              ![selected].op = "store", ![selected].word = Data(ata.d, Cur, ata.call)]
    /\ ata' = [ata EXCEPT !.pc = "flush"]
    /\ UNCHANGED <<selected, surface, refused>>
CacheFlush ==
    /\ ata.pc = "flush"
    /\ drive' = [drive EXCEPT ![selected] = Told(selected, "flush", @.s)]
    /\ ata' = [ata EXCEPT !.pc = "flushed"]
    /\ UNCHANGED <<selected, surface, refused>>

-----------------------------------------------------------------------------
(* A drive comes to the end of what it does, well or with an error.          *)
Ends(d, err) ==
    LET me == drive[d] IN
    /\ me.bsy
    /\ drive' = [drive EXCEPT ![d].bsy = FALSE, ![d].err = err,
                              ![d].drq = ~err /\ me.op \in {"read", "write"},
                              ![d].word = IF me.op = "read" /\ ~err THEN surface[d][me.s] ELSE @]
    /\ IF me.op = "store"
       THEN /\ surface' = IF err THEN surface ELSE [surface EXCEPT ![d][me.s] = me.word]
            /\ refused' = IF err THEN refused \cup {<<d, me.s>>} ELSE refused \ {<<d, me.s>>}
       ELSE UNCHANGED <<surface, refused>>
    /\ UNCHANGED <<ata, selected>>

Next == \/ \E op \in {"read", "write"}, d \in IdeDrives, s, n \in 1 .. IdeSectors :
              s + n - 1 <= IdeSectors /\ Call(op, d, s, n)
        \/ WaitNotBusy \/ Command \/ WaitDrq \/ ReadWords \/ WriteWords \/ CacheFlush
        \/ \E d \in IdeDrives, err \in BOOLEAN : Ends(d, err)
Spec == Init /\ [][Next]_ataVars

-----------------------------------------------------------------------------
TypeOK == /\ ata.pc \in {"idle", "ready", "command", "drq", "words", "flush", "flushed", "done", "failed"}
          /\ ata.call \in 0 .. IdeCalls /\ selected \in IdeDrives
          /\ \A d \in IdeDrives : drive[d].op \in {"none", "read", "write", "store", "flush"}

(* However late the drives are, a call that returns 0 has read or written    *)
(* its own sectors, but for those whose write the drive refused, at which    *)
(* nobody looks; and no sector ever gets what was meant for another, on this *)
(* drive or the other (wait_not_busy, wait_drq, ata_read_blk,                *)
(* ata_write_blk).                                                           *)
AtaTrue ==
    /\ ata.pc = "done" => \A i \in 1 .. ata.count :
         LET s == ata.lba + i - 1 IN
         IF ata.op = "read" THEN ata.out[i] = surface[ata.d][s]
         ELSE <<ata.d, s>> \notin refused => surface[ata.d][s] = Data(ata.d, s, ata.call)
    /\ \A d \in IdeDrives, s \in 1 .. IdeSectors : surface[d][s][1] = d /\ surface[d][s][2] = s
=============================================================================
