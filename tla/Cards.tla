------------------------------- MODULE Cards -------------------------------
(* The network cards with their drivers, which share no variable.            *)
EXTENDS Integers

CONSTANTS NRX, NTX, MaxRx, MaxTx,
          RxPages, MaxStored, MaxOut

VARIABLES
    rxFrame, rxDone, rdh, rdt, rxTail, rxLook, arrived, received,
    txFrame, txUsed, txDone, tdh, tdt, txLook, txPc, txAsked, txWire, txLate,
    page, nextPage, curr, bnry, header, came, polled,
    txPage, txp, sending, ptx, sendPc, passed, sent, sendLate

Intel  == INSTANCE E1000
Novell == INSTANCE Ne2000

(* What the code's own constants guarantee of these values: a ring has a     *)
(* descriptor, and the pages of the NE2000 are more than the one that BNRY   *)
(* keeps from the card.                                                      *)
IntelSizes == NRX \in Nat \ {0} /\ NTX \in Nat \ {0} /\ MaxRx \in Nat
NovellSizes == RxPages \in Nat /\ RxPages >= 2 /\ {MaxStored, MaxOut} \subseteq Nat

ASSUME CardsSizes == IntelSizes /\ NovellSizes

intelVars   == <<rxFrame, rxDone, rdh, rdt, rxTail, rxLook, arrived, received,
                 txFrame, txUsed, txDone, tdh, tdt, txLook, txPc, txAsked, txWire, txLate>>
novellVars  == <<page, nextPage, curr, bnry, header, came, polled,
                 txPage, txp, sending, ptx, sendPc, passed, sent, sendLate>>
=============================================================================
