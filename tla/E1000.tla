-------------------------------- MODULE E1000 --------------------------------
(* kernel/drv/e1000.c: the two descriptor rings of the card, the driver that *)
(* polls them and the card that works on them at its own pace. A frame is    *)
(* its number; copying one takes two looks at the buffer, and a buffer that  *)
(* changed in between yields Torn. The card fetches and completes transmit   *)
(* descriptors from TDH up to TDT, fills receive descriptors from RDH up to  *)
(* RDT, and takes equal pointers for an empty ring.                          *)
EXTENDS Integers, Sequences

CONSTANTS NRX, NTX,   \* ring sizes
          MaxRx, MaxTx \* bounds: frames that arrive, frames the stack sends

Torn == MaxRx + MaxTx + 1

VARIABLES
    rxFrame, rxDone,   \* rx_buf and the DD bits of rx_ring
    rdh, rdt, rxTail,  \* the card's head, the driver's RDT and rx_tail
    rxLook,            \* what e1000_poll saw first, 0 outside it
    arrived, received, \* frames seen by the card, last frame given to net_poll
    txFrame, txUsed, txDone, \* tx_buf, the RS and DD bits of tx_ring
    tdh, tdt,
    txLook,            \* what the card saw first of the frame it sends, or 0
    txPc,              \* where e1000_tx is
    txAsked, txWire,       \* frames handed to e1000_tx, last frame on the wire
    txLate                 \* the wait of e1000_tx ran out on a frame being read

rxVars == <<rxFrame, rxDone, rdh, rdt, rxTail, rxLook, arrived, received>>
txVars == <<txFrame, txUsed, txDone, tdh, tdt, txLook, txPc, txAsked, txWire, txLate>>
vars   == <<rxVars, txVars>>

RxSlots == 0 .. NRX - 1
TxSlots == 0 .. NTX - 1

(* e1000_init: every receive descriptor but the last belongs to the card. *)
Init ==
    /\ rxFrame = [i \in RxSlots |-> 0] /\ rxDone = [i \in RxSlots |-> FALSE]
    /\ rdh = 0 /\ rdt = NRX - 1 /\ rxTail = 0 /\ rxLook = 0
    /\ arrived = 0 /\ received = 0
    /\ txFrame = [i \in TxSlots |-> 0]
    /\ txUsed = [i \in TxSlots |-> FALSE] /\ txDone = [i \in TxSlots |-> FALSE]
    /\ tdh = 0 /\ tdt = 0 /\ txLook = 0 /\ txPc = "idle"
    /\ txAsked = 0 /\ txWire = 0 /\ txLate = FALSE

-----------------------------------------------------------------------------
(* Receive.                                                                  *)

(* The card stores a frame, or drops it when it owns no descriptor. *)
CardReceives ==
    /\ arrived < MaxRx
    /\ arrived' = arrived + 1
    /\ IF rdh = rdt
       THEN UNCHANGED <<rxFrame, rxDone, rdh>>
       ELSE /\ rxFrame' = [rxFrame EXCEPT ![rdh] = arrived']
            /\ rxDone' = [rxDone EXCEPT ![rdh] = TRUE]
            /\ rdh' = (rdh + 1) % NRX
    /\ UNCHANGED <<rdt, rxTail, rxLook, received, txVars>>

(* e1000_poll finds DD set and starts to copy the buffer. *)
PollCopy ==
    /\ rxLook = 0 /\ rxDone[rxTail]
    /\ rxLook' = rxFrame[rxTail]
    /\ UNCHANGED <<rxFrame, rxDone, rdh, rdt, rxTail, arrived, received, txVars>>

(* Mutant of PollRelease: the DD bit stays set. *)
PollReleaseMutant ==
    /\ rxLook # 0
    /\ received' = IF rxFrame[rxTail] = rxLook THEN rxLook ELSE Torn
    /\ rdt' = rxTail /\ rxTail' = (rxTail + 1) % NRX /\ rxLook' = 0
    /\ UNCHANGED <<rxFrame, rxDone, rdh, arrived, txVars>>

(* The copy ends; DD is cleared, the descriptor given back, rx_tail moved. *)
PollRelease ==
    /\ rxLook # 0
    /\ received' = IF rxFrame[rxTail] = rxLook THEN rxLook ELSE Torn
    /\ rxDone' = [rxDone EXCEPT ![rxTail] = FALSE]
    /\ rdt' = rxTail /\ rxTail' = (rxTail + 1) % NRX /\ rxLook' = 0
    /\ UNCHANGED <<rxFrame, rdh, arrived, txVars>>

-----------------------------------------------------------------------------
(* Transmit.                                                                 *)

(* e1000_tx looks at the descriptor TDT points to. *)
TxCall == /\ txPc = "idle" /\ txAsked < MaxTx
          /\ txPc' = "spin" /\ txAsked' = txAsked + 1
          /\ UNCHANGED <<rxVars, txFrame, txUsed, txDone, tdh, tdt, txLook, txWire, txLate>>

(* The wait ends on a descriptor never used or done, or after a million      *)
(* turns whatever the card does: it may be reading that very frame.          *)
Reading == txLook # 0 /\ tdh = tdt
TxReady == /\ txPc = "spin" /\ txPc' = "fill"
           /\ txLate' = (txLate \/ (txUsed[tdt] /\ ~txDone[tdt] /\ Reading))
           /\ UNCHANGED <<rxVars, txFrame, txUsed, txDone, tdh, tdt, txLook, txAsked, txWire>>

(* Mutant of TxFill: TDT moves before the frame is copied. *)
TxFillMutant ==
    /\ txPc = "fill" /\ txPc' = "ring"
    /\ tdt' = (tdt + 1) % NTX
    /\ txUsed' = [txUsed EXCEPT ![tdt] = TRUE] /\ txDone' = [txDone EXCEPT ![tdt] = FALSE]
    /\ UNCHANGED <<rxVars, txFrame, tdh, txLook, txAsked, txWire, txLate>>

(* The frame and the descriptor are written: RS set, DD clear. *)
TxFill ==
    /\ txPc = "fill" /\ txPc' = "ring"
    /\ txFrame' = [txFrame EXCEPT ![tdt] = txAsked]
    /\ txUsed' = [txUsed EXCEPT ![tdt] = TRUE]
    /\ txDone' = [txDone EXCEPT ![tdt] = FALSE]
    /\ UNCHANGED <<rxVars, tdh, tdt, txLook, txAsked, txWire, txLate>>

(* TDT moves on; nothing compares it with TDH. *)
TxRing == /\ txPc = "ring" /\ txPc' = "idle"
          /\ tdt' = (tdt + 1) % NTX
          /\ UNCHANGED <<rxVars, txFrame, txUsed, txDone, tdh, txLook, txAsked, txWire, txLate>>

(* The card begins the frame at TDH and later has sent it. *)
CardFetches == /\ txLook = 0 /\ tdh # tdt
               /\ txLook' = txFrame[tdh]
               /\ UNCHANGED <<rxVars, txFrame, txUsed, txDone, tdh, tdt, txPc, txAsked, txWire, txLate>>

CardSends == /\ txLook # 0
             /\ txWire' = IF txFrame[tdh] = txLook THEN txLook ELSE Torn
             /\ txDone' = [txDone EXCEPT ![tdh] = TRUE]
             /\ tdh' = (tdh + 1) % NTX /\ txLook' = 0
             /\ UNCHANGED <<rxVars, txFrame, txUsed, tdt, txPc, txAsked, txLate>>

-----------------------------------------------------------------------------
Next == \/ CardReceives \/ PollCopy \/ PollRelease
        \/ TxCall \/ TxReady \/ TxFill \/ TxRing \/ CardFetches \/ CardSends

Spec == Init /\ [][Next]_vars

(* The frames in a ring from slot a on. *)
Ring(frames, a, n, size) == [i \in 1 .. n |-> frames[(a + i - 1) % size]]

(* The receive ring as a queue: filled and not yet given to net_poll. *)
RxQueue == INSTANCE FrameQueue WITH
    queue <- Ring(rxFrame, rxTail, (rdh - rxTail) % NRX, NRX), given <- arrived, taken <- received, late <- FALSE

(* The transmit ring as a queue: handed over with TDT, the one being sent    *)
(* included. A ring filled to the last descriptor looks empty to a card that *)
(* has not begun: its frames are lost, and nothing else may go wrong.        *)
TxWaiting == IF txLook = 0 THEN (tdt - tdh) % NTX ELSE ((tdt - tdh - 1) % NTX) + 1
TxGiven == IF txPc \in {"spin", "fill", "ring"} THEN txAsked - 1 ELSE txAsked
TxQueue == INSTANCE FrameQueue WITH
    queue <- Ring(txFrame, tdh, TxWaiting, NTX), given <- TxGiven, taken <- txWire, late <- txLate

TypeOK ==
    /\ rdh \in RxSlots /\ rdt \in RxSlots /\ rxTail \in RxSlots
    /\ tdh \in TxSlots /\ tdt \in TxSlots
    /\ \A i \in RxSlots : rxFrame[i] \in 0 .. MaxRx
    /\ \A i \in TxSlots : txDone[i] => txUsed[i]

(* Receive and transmit rings each implement the lossy queue: whatever the   *)
(* card's pace, net_poll gets frames whole, once and in the order they came, *)
(* and so does the wire until a wait runs out on the frame the card is at.   *)
RingsAreQueues == RxQueue!Spec /\ TxQueue!Spec
=============================================================================
