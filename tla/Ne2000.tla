------------------------------- MODULE Ne2000 -------------------------------
(* kernel/drv/ne2000.c: the ring of 256-byte pages the card receives into    *)
(* and the single transmit buffer. A frame is its number and takes one page  *)
(* or two; the first page of a frame starts with a header that names the     *)
(* page after the frame. The card stops short of page BNRY. It stores no     *)
(* damaged frame (RCR is 0x0C), so the header ne2k_poll reads is always good.*)
EXTENDS Integers, Sequences

CONSTANTS RxPages,      \* pages of the receive ring
          MaxStored, MaxOut \* bounds: frames that arrive, frames the stack sends

Torn == MaxStored + MaxOut + 1

VARIABLES
    page, nextPage,   \* the frame each page holds, the header on its first page
    curr, bnry,       \* CURR and BNRY
    header,           \* the header ne2k_poll has read, or <<>>
    came, polled,     \* frames the card saw, last frame given to net_poll
    txPage,           \* the frame in the transmit pages
    txp,              \* the TXP bit of the command register: a frame to send
    sending,          \* what the card saw first of the frame it sends, or 0
    ptx,              \* the PTX bit of ISR
    sendPc,           \* where send_pkt_raw is
    passed, sent,     \* frames handed to ne2k_tx, last frame on the wire
    sendLate          \* the wait of send_pkt_raw ran out on a frame not sent

neRx == <<page, nextPage, curr, bnry, header, came, polled>>
neTx == <<txPage, txp, sending, ptx, sendPc, passed, sent, sendLate>>
neVars == <<neRx, neTx>>

RxPage == 0 .. RxPages - 1
After(p, n) == (p + n) % RxPages

(* ne2000_init: BNRY on the first page, CURR on the one after it. *)
Init ==
    /\ page = [p \in RxPage |-> 0] /\ nextPage = [p \in RxPage |-> 0]
    /\ bnry = 0 /\ curr = 1 /\ header = <<>> /\ came = 0 /\ polled = 0
    /\ txPage = 0 /\ txp = FALSE /\ sending = 0 /\ ptx = FALSE /\ sendPc = "idle"
    /\ passed = 0 /\ sent = 0 /\ sendLate = FALSE

-----------------------------------------------------------------------------
(* Receive.                                                                  *)

(* The card stores a frame of n pages from CURR on, or drops one that would  *)
(* reach page BNRY.                                                          *)
CardStores ==
    /\ came < MaxStored
    /\ came' = came + 1
    /\ \E n \in 1 .. 2 :
         IF n > (bnry - curr) % RxPages
         THEN UNCHANGED <<page, nextPage, curr>>
         ELSE /\ page' = [p \in RxPage |->
                            IF \E i \in 0 .. n - 1 : p = After(curr, i) THEN came' ELSE page[p]]
              /\ nextPage' = [nextPage EXCEPT ![curr] = After(curr, n)]
              /\ curr' = After(curr, n)
    /\ UNCHANGED <<bnry, header, polled, neTx>>

(* ne2k_poll: the page after BNRY is not CURR, so a frame starts there. *)
PollHeader ==
    /\ header = <<>>
    /\ LET next == After(bnry, 1) IN
         /\ next # curr
         /\ header' = <<next, nextPage[next]>>
    /\ UNCHANGED <<page, nextPage, curr, bnry, came, polled, neTx>>

(* The pages of the frame at p, up to page np. *)
Span(p, np) == {After(p, i) : i \in 0 .. ((np - p - 1) % RxPages)}

(* What a copy of those pages yields. *)
Copied(p, np) == IF \A q \in Span(p, np) : page[q] = page[p] THEN page[p] ELSE Torn

(* Mutant of PollData: BNRY goes to the page after the frame. *)
PollDataMutant ==
    /\ header # <<>>
    /\ polled' = Copied(header[1], header[2])
    /\ bnry' = header[2] /\ header' = <<>>
    /\ UNCHANGED <<page, nextPage, curr, came, neTx>>

(* The copy, and BNRY on the page before the next frame. *)
PollData ==
    /\ header # <<>>
    /\ polled' = Copied(header[1], header[2])
    /\ bnry' = After(header[2], -1) /\ header' = <<>>
    /\ UNCHANGED <<page, nextPage, curr, came, neTx>>

-----------------------------------------------------------------------------
(* Transmit.                                                                 *)

(* remote_write, then TXP: the card has the frame. *)
SendRaw == /\ sendPc = "idle" /\ passed < MaxOut
           /\ passed' = passed + 1 /\ txPage' = passed' /\ txp' = TRUE /\ sendPc' = "wait"
           /\ UNCHANGED <<neRx, sending, ptx, sent, sendLate>>

(* The card sends it and sets PTX, or meets too many collisions and gives up *)
(* with PTX clear.                                                           *)
CardBegins == /\ txp /\ sending = 0
              /\ sending' = txPage
              /\ UNCHANGED <<neRx, txPage, txp, ptx, sendPc, passed, sent, sendLate>>

CardEnds == /\ sending # 0
            /\ sent' = IF txPage = sending THEN sending ELSE Torn
            /\ ptx' = TRUE /\ txp' = FALSE /\ sending' = 0
            /\ UNCHANGED <<neRx, txPage, sendPc, passed, sendLate>>

CardGivesUp == /\ sending # 0
               /\ txp' = FALSE /\ sending' = 0
               /\ UNCHANGED <<neRx, txPage, ptx, sendPc, passed, sent, sendLate>>

(* Mutant of SendWaited: PTX is not cleared. *)
SendWaitedMutant == /\ sendPc = "wait" /\ ptx
                    /\ sendPc' = "idle"
                    /\ UNCHANGED <<neRx, txPage, txp, sending, ptx, passed, sent, sendLate>>

(* The wait sees PTX and clears it. *)
SendWaited == /\ sendPc = "wait" /\ ptx
              /\ ptx' = FALSE /\ sendPc' = "idle"
              /\ UNCHANGED <<neRx, txPage, txp, sending, passed, sent, sendLate>>

(* The wait ends after 100000 turns without PTX, whatever the card does.     *)
WaitRunsOut == /\ sendPc = "wait" /\ ~ptx
               /\ sendPc' = "idle" /\ sendLate' = (sendLate \/ txp)
               /\ UNCHANGED <<neRx, txPage, txp, sending, ptx, passed, sent>>

-----------------------------------------------------------------------------
Next == \/ CardStores \/ PollHeader \/ PollData
        \/ SendRaw \/ CardBegins \/ CardEnds \/ CardGivesUp \/ SendWaited \/ WaitRunsOut

Spec == Init /\ [][Next]_neVars

(* The frames that start at page p and before CURR, oldest first. *)
FramesFrom[n \in 0 .. RxPages] == [p \in RxPage |->
    IF n = 0 \/ p = curr THEN <<>>
    ELSE <<Copied(p, nextPage[p])>> \o FramesFrom[n - 1][nextPage[p]]]

RxQueue == INSTANCE FrameQueue WITH
    queue <- FramesFrom[RxPages][After(bnry, 1)], given <- came, taken <- polled, late <- FALSE

TxQueue == INSTANCE FrameQueue WITH
    queue <- IF txp THEN <<txPage>> ELSE <<>>,
    given <- passed, taken <- sent, late <- sendLate

TypeOK == /\ page \in [RxPage -> 0 .. MaxStored] /\ nextPage \in [RxPage -> RxPage]
          /\ curr \in RxPage /\ bnry \in RxPage
          /\ came \in 0 .. MaxStored /\ passed \in 0 .. MaxOut

(* The page ring and the transmit buffer each implement the lossy queue:     *)
(* BNRY and CURR never let the card store over a frame not yet read, and no  *)
(* frame is overwritten while the card sends it, until a wait runs out first.*)
PagesAreQueues == RxQueue!Spec /\ TxQueue!Spec
=============================================================================
