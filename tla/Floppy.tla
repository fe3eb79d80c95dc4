-------------------------------- MODULE Floppy --------------------------------
(* The floppy driver, kernel/drv/floppy.c: seek and transfer a sector at a     *)
(* time through one buffer, waiting for IRQ6 with a bound. The controller may  *)
(* answer later than that, and is never reset: it then still wants to be read, *)
(* takes no command, and its interrupt is taken for the next one's. Motor,     *)
(* geometry and the probe of a second drive are left out.                      *)
EXTENDS Naturals, Sequences

CONSTANTS FlSectors, FlMaxCalls   \* bounds: sectors of the disk, calls

VARIABLES flop,     \* fdc_disk_read or fdc_disk_write: where it is and its locals
          irqFired, \* fdc_irq_fired
          dmaBuf,   \* fdc_dma_buf
          dma,      \* channel 2: "in", "out", or "off" once it has counted down
          fdc,      \* the controller: phase, command, result bytes left, whether ST0 is good
          seek,     \* its head: moving or not, and the end of a seek nobody asked for yet
          sectors,  \* what the disk holds
          given     \* history: waits given up (2: two or more)

flVars == <<flop, irqFired, dmaBuf, dma, fdc, seek, sectors, given>>

Data(s, call) == <<s, call>>
Torn == <<0, 0>>
Idle == [phase |-> "idle", op |-> "none", s |-> 0, left |-> 0, good |-> FALSE]

(* floppy_init ends with the recalibration of a drive B, after it cleared    *)
(* the flag: it was sensed, or given up while the head still moves.          *)
Init == /\ flop = [pc |-> "idle", op |-> "none", lba |-> 1, count |-> 0, i |-> 0, r |-> FALSE,
                   n |-> 0, good |-> FALSE, out |-> <<>>, call |-> 0]
        /\ irqFired = FALSE /\ dmaBuf = Torn /\ dma = "off" /\ fdc = Idle
        /\ \E on \in BOOLEAN : /\ seek = [on |-> on, pending |-> "none"]
                             /\ given = IF on THEN 1 ELSE 0
        /\ sectors = [s \in 1 .. FlSectors |-> Data(s, 0)]

Sector == flop.lba + flop.i
GiveUp == IF given = 2 THEN 2 ELSE given + 1

(* fdc_send of a whole command: a controller that is not idle takes no byte  *)
(* within the bound of fdc_send, and every byte is dropped.                  *)
Takes == fdc.phase = "idle"

-----------------------------------------------------------------------------
(* fdc_disk_read, fdc_disk_write. Bound: FlMaxCalls. *)
Call(op, s, n) ==
    /\ flop.pc \in {"idle", "done", "failed"} /\ flop.call < FlMaxCalls
    /\ flop' = [flop EXCEPT !.pc = "sector", !.op = op, !.lba = s, !.count = n, !.i = 0,
                            !.out = <<>>, !.call = @ + 1]
    /\ UNCHANGED <<irqFired, dmaBuf, dma, fdc, seek, sectors, given>>

(* A turn of the loop up to the seek: a write fills the buffer first. *)
SeekSend ==
    /\ flop.pc = "sector" /\ flop.i < flop.count
    /\ flop' = [flop EXCEPT !.pc = "seekWait"]
    /\ dmaBuf' = IF flop.op = "write" THEN Data(Sector, flop.call) ELSE dmaBuf
    /\ seek' = IF Takes THEN [seek EXCEPT !.on = TRUE] ELSE seek
    /\ UNCHANGED <<irqFired, dma, fdc, sectors, given>>

(* fdc_wait_irq looks at the flag, or gives up, and clears it a step later:  *)
(* an interrupt between the two is lost.                                     *)
WaitIrq ==
    /\ flop.pc \in {"seekWait", "dataWait"}
    /\ flop' = [flop EXCEPT !.r = irqFired, !.pc = IF @ = "seekWait" THEN "seekClear" ELSE "dataClear"]
    /\ given' = IF irqFired THEN given ELSE GiveUp
    /\ UNCHANGED <<irqFired, dmaBuf, dma, fdc, seek, sectors>>

ClearIrq ==
    /\ flop.pc \in {"seekClear", "dataClear"}
    /\ flop' = [flop EXCEPT !.n = 0, !.pc = CASE ~flop.r -> "failed"
                                              [] flop.r /\ @ = "seekClear" -> "sense"
                                              [] flop.r /\ @ = "dataClear" -> "data"]
    /\ irqFired' = FALSE
    /\ UNCHANGED <<dmaBuf, dma, fdc, seek, sectors, given>>

(* fdc_sense_int, the command: with no seek to report the answer is 0x80.    *)
SenseSend ==
    /\ flop.pc = "sense" /\ flop' = [flop EXCEPT !.pc = "seekResult"]
    /\ fdc' = IF ~Takes THEN fdc
              ELSE [Idle EXCEPT !.phase = "result", !.left = IF seek.pending = "none" THEN 1 ELSE 2,
                                !.good = seek.pending = "good"]
    /\ seek' = IF Takes THEN [seek EXCEPT !.pending = "none"] ELSE seek
    /\ UNCHANGED <<irqFired, dmaBuf, dma, sectors, given>>

(* Mutant of Recvd: ST0 is not looked at.                                       *)
RecvdMutant(n, good, then) ==
    LET first == IF flop.n = 0 THEN good ELSE flop.good IN
    [flop EXCEPT !.n = @ + 1, !.good = first, !.pc = IF flop.n + 1 < n THEN @ ELSE then]

(* Results are n bytes, of which the first counts. *)
Recvd(n, good, then) ==
    LET first == IF flop.n = 0 THEN good ELSE flop.good IN
    [flop EXCEPT !.n = @ + 1, !.good = first,
                 !.pc = IF flop.n + 1 < n THEN @ ELSE IF first THEN then ELSE "failed"]
Receiving(good) ==
    \/ flop.pc = "seekResult" /\ flop' = Recvd(2, good, "command")
    \/ flop.pc = "data"       /\ flop' = Recvd(7, good, "copy")

(* fdc_recv gets the next byte of whatever result the controller is at; only *)
(* its first one is ST0, of the others the upper bits may be set or not.     *)
First == fdc.left = (IF fdc.op = "none" THEN 2 ELSE 7) \/ (fdc.op = "none" /\ ~fdc.good)
RecvByte ==
    /\ fdc.phase = "result"
    /\ \E good \in IF First THEN {fdc.good} ELSE BOOLEAN : Receiving(good)
    /\ fdc' = IF fdc.left = 1 THEN Idle ELSE [fdc EXCEPT !.left = @ - 1]
    /\ UNCHANGED <<irqFired, dmaBuf, dma, seek, sectors, given>>
RecvNothing ==
    /\ fdc.phase # "result" /\ Receiving(FALSE)
    /\ given' = IF fdc.phase = "exec" THEN GiveUp ELSE given
    /\ UNCHANGED <<irqFired, dmaBuf, dma, fdc, seek, sectors>>

(* fdc_read_sector, fdc_write_sector: the DMA channel, then the command.     *)
CommandSend ==
    /\ flop.pc = "command" /\ flop' = [flop EXCEPT !.pc = "dataWait"]
    /\ dma' = IF flop.op = "read" THEN "in" ELSE "out"
    /\ fdc' = IF Takes THEN [Idle EXCEPT !.phase = "exec", !.op = flop.op, !.s = Sector] ELSE fdc
    /\ UNCHANGED <<irqFired, dmaBuf, seek, sectors, given>>

Copy ==
    /\ flop.pc = "copy"
    /\ flop' = [flop EXCEPT !.pc = "sector", !.i = @ + 1, !.out = Append(@, dmaBuf)]
    /\ UNCHANGED <<irqFired, dmaBuf, dma, fdc, seek, sectors, given>>
Return ==
    /\ flop.pc = "sector" /\ flop.i = flop.count /\ flop' = [flop EXCEPT !.pc = "done"]
    /\ UNCHANGED <<irqFired, dmaBuf, dma, fdc, seek, sectors, given>>

-----------------------------------------------------------------------------
(* The controller, at its own pace; each end raises IRQ6 (on_irq6).          *)
OnIrq6 == irqFired' = TRUE

SeekEnds ==
    /\ seek.on /\ OnIrq6
    /\ \E how \in {"good", "bad"} : seek' = [on |-> FALSE, pending |-> how]
    /\ UNCHANGED <<flop, dmaBuf, dma, fdc, sectors, given>>

Ends(good) == fdc.phase = "exec" /\ fdc' = [fdc EXCEPT !.phase = "result", !.left = 7, !.good = good] /\ OnIrq6

(* It finds the sector by the number in its header when the head has stopped, *)
(* and moves it if the DMA channel still goes the right way.                 *)
Moves ==
    /\ Ends(TRUE) /\ ~seek.on /\ dma = (IF fdc.op = "read" THEN "in" ELSE "out") /\ dma' = "off"
    /\ IF fdc.op = "read" THEN dmaBuf' = sectors[fdc.s] /\ UNCHANGED sectors
       ELSE sectors' = [sectors EXCEPT ![fdc.s] = dmaBuf] /\ UNCHANGED dmaBuf
    /\ UNCHANGED <<flop, seek, given>>
Fails ==
    /\ Ends(FALSE)
    /\ \/ fdc.op = "read" /\ dmaBuf' \in {dmaBuf, Torn} /\ UNCHANGED sectors
       \/ fdc.op = "write" /\ \E x \in {sectors[fdc.s], Torn} : sectors' = [sectors EXCEPT ![fdc.s] = x]
          /\ UNCHANGED dmaBuf
    /\ UNCHANGED <<flop, dma, seek, given>>

Next == \/ \E op \in {"read", "write"}, s, n \in 1 .. FlSectors : s + n - 1 <= FlSectors /\ Call(op, s, n)
        \/ SeekSend \/ WaitIrq \/ ClearIrq \/ SenseSend \/ RecvByte \/ RecvNothing
        \/ CommandSend \/ Copy \/ Return \/ SeekEnds \/ Moves \/ Fails
Spec == Init /\ [][Next]_flVars

-----------------------------------------------------------------------------
TypeOK == /\ flop.call \in 0 .. FlMaxCalls /\ flop.n \in 0 .. 7 /\ fdc.left \in 0 .. 7
          /\ dmaBuf \in {Torn} \cup {Data(s, c) : s \in 1 .. FlSectors, c \in 0 .. FlMaxCalls}

(* Unless two waits were given up since the start, a call that returns 0 has *)
(* moved each of its sectors (fdc_wait_irq, fdc_recv, fdc_disk_read,         *)
(* fdc_disk_write): the interrupt and the result left over from one wait are *)
(* found out, those of two are not. As long as none was, no sector holds     *)
(* what was meant for another.                                               *)
FloppyTrue ==
    /\ flop.pc = "done" /\ given < 2 => \A i \in 1 .. flop.count :
         LET s == flop.lba + i - 1 IN
         sectors[s] = IF flop.op = "read" THEN flop.out[i] ELSE Data(s, flop.call)
    /\ given = 0 => \A s \in 1 .. FlSectors : sectors[s] = Torn \/ sectors[s][1] = s
=============================================================================
