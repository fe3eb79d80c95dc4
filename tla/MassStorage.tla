----------------------------- MODULE MassStorage -----------------------------
(* USB disks: the bulk-only transport as usb.c runs it over UHCI and ehci.c  *)
(* over EHCI. A request is a command block, packets of data, a status block; *)
(* both ends of a pipe number packets with a toggle. The drivers move their  *)
(* toggle when they queue a transfer, not when it is done, never look at the *)
(* tag of a status block, and clear no halt: after a transfer that failed    *)
(* they start the next request as if nothing had happened. The stick is a    *)
(* strict one: it refuses (NAK, until the driver gives up) what its phase    *)
(* does not allow, and drops a packet that repeats a toggle.                 *)
EXTENDS Naturals, Sequences

CONSTANTS Controllers,       \* those the machine may have: "uhci", "ehci"
          MaxReq, MaxFaults, \* bounds: requests, faults (see late)
          TurTries,          \* the 5 TEST UNIT READYs of msc_attach
          TdMax,             \* BULK_MAX_TDS: packets of one UHCI transfer
          ChunkSectors,      \* MSC_IO_CHUNK_SECTORS, EHCI_MSC_CHUNK_SECTORS
          MaxSectors,        \* bound: sectors in one call of the disk layer
          SectorPackets      \* per controller: packets in a sector

VARIABLES
    ctl,     \* the controller: "none", "uhci", "ehci"
    unit,    \* what msc_attach or the disk layer is doing, see Units
    left,    \* TEST UNIT READYs or sectors it has left
    req,     \* the request: id, command, data packets, stage, whole data so far
    td,      \* the queued transfer: stage, direction, toggle of its next packet, packets left
    host,    \* the driver's toggles
    dev,     \* the stick: toggles, phase, packets left, command and its fate
    last,    \* the last request that ended: id, what it returned
    late     \* faults so far: waits that ran out on a slow stick, transfers cut at TdMax

msVars == <<ctl, unit, left, req, td, host, dev, last, late>>

Units == {"none", "gone", "inquiry", "tur", "capacity", "attached", "ready", "read", "write"}
NoTransfer == [stage |-> "none", dir |-> "none", tog |-> 0, n |-> 0]
NoRequest == [id |-> 0, cmd |-> "none", n |-> 0, stage |-> "none", whole |-> TRUE]

Init ==
    /\ ctl = "none" /\ unit = "none" /\ left = 0
    /\ req = NoRequest /\ td = NoTransfer
    /\ host = [out |-> 0, in |-> 0]
    /\ dev = [out |-> 0, in |-> 0, phase |-> "cbw", n |-> 0, id |-> 0, ok |-> TRUE, whole |-> TRUE]
    /\ last = [id |-> 0, ok |-> TRUE] /\ late = 0

Flip(tog, n) == (tog + n) % 2

(* Packets of data of the request `unit` makes; INQUIRY and READ CAPACITY    *)
(* answer in one, a disk call moves a chunk of sectors at a time.            *)
Chunk == IF left > ChunkSectors THEN ChunkSectors ELSE left
DataPackets(u) ==
    CASE u \in {"inquiry", "capacity"} -> 1
      [] u \in {"read", "write"} -> Chunk * SectorPackets[ctl]
      [] OTHER -> 0

-----------------------------------------------------------------------------
(* Transfers.                                                                *)

(* bulk_transfer of usb.c: one TD a packet, each turns the toggle. It breaks *)
(* off at TdMax of them, and its caller takes what it returns for the whole  *)
(* transfer.                                                                 *)
UhciBulk(stage, dir, n) ==
    LET m == IF n > TdMax THEN TdMax ELSE n IN
    /\ ctl = "uhci" /\ td' = [stage |-> stage, dir |-> dir, tog |-> host[dir], n |-> m]
    /\ host' = [host EXCEPT ![dir] = Flip(@, m)]
    /\ IF m < n THEN late < MaxFaults /\ late' = late + 1 ELSE UNCHANGED late

(* ehci_bulk_transfer: qTDs of many packets; the parity of the packets in    *)
(* each turns the toggle, so together all of them do.                        *)
EhciBulk(stage, dir, n) ==
    /\ ctl = "ehci"
    /\ td' = [stage |-> stage, dir |-> dir, tog |-> host[dir], n |-> n]
    /\ host' = [host EXCEPT ![dir] = Flip(@, n)] /\ UNCHANGED late

Bulk(stage, dir, n) == UhciBulk(stage, dir, n) \/ EhciBulk(stage, dir, n)

(* What its command block asks for. *)
Command == IF unit \in {"read", "write"} THEN unit ELSE IF unit = "tur" THEN "none" ELSE "read"

(* bbb_request: the command block, with a new tag. *)
Ask ==
    /\ req.stage = "none" /\ unit \in {"inquiry", "tur", "capacity", "read", "write"}
    /\ req.id < MaxReq
    /\ req' = [id |-> req.id + 1, cmd |-> Command, n |-> DataPackets(unit),
                stage |-> "cbw", whole |-> TRUE]
    /\ Bulk("cbw", "out", 1)
    /\ UNCHANGED <<ctl, unit, left, dev, last>>

(* A packet the stick accepts: toggle right, and its phase takes it. *)
StickTakes ==
    CASE dev.phase = "cbw" /\ td.stage = "cbw" ->
           [dev EXCEPT !.id = req.id, !.n = req.n, !.ok = TRUE, !.whole = TRUE,
                       !.phase = IF req.n = 0 THEN "csw"
                                 ELSE IF req.cmd = "write" THEN "dataOut" ELSE "dataIn"]
      [] dev.phase = "cbw" /\ td.stage # "cbw" -> [dev EXCEPT !.phase = "stuck"]
      [] dev.phase = "dataOut" ->
           [dev EXCEPT !.whole = @ /\ td.stage = "data" /\ dev.id = req.id,
                       !.n = @ - 1, !.phase = IF dev.n = 1 THEN "csw" ELSE "dataOut"]

PacketOut ==
    /\ td.dir = "out" /\ td.n > 0 /\ dev.phase \in {"cbw", "dataOut"}
    /\ dev' = IF td.tog = dev.out
              THEN LET d == StickTakes IN [d EXCEPT !.out = Flip(@, 1)] ELSE dev
    /\ td' = [td EXCEPT !.n = @ - 1, !.tog = Flip(@, 1)]
    /\ UNCHANGED <<ctl, unit, left, req, host, last, late>>

(* A packet of data, or the status block: sent once, taken if the toggle is  *)
(* right. A status block is shorter than a packet: it ends an EHCI transfer  *)
(* that waited for data, and fills one TD of an UHCI transfer. A data packet *)
(* where the status block should be has not got its signature.               *)
PacketIn ==
    /\ td.dir = "in" /\ td.n > 0 /\ dev.phase \in {"dataIn", "csw"}
    /\ LET isCsw == dev.phase = "csw"
           taken == td.tog = dev.in
           good  == isCsw = (td.stage = "csw") /\ (isCsw => dev.ok)
                      /\ (~isCsw => dev.id = req.id)
       IN /\ td' = IF ~taken THEN td
                   ELSE [td EXCEPT !.n = IF ctl = "ehci" /\ isCsw THEN 0 ELSE @ - 1,
                                   !.tog = Flip(@, 1)]
          /\ req' = IF taken THEN [req EXCEPT !.whole = @ /\ good] ELSE req
          /\ dev' = [dev EXCEPT !.in = Flip(@, 1),
                       !.n = IF isCsw THEN 0 ELSE @ - 1,
                       !.phase = IF isCsw THEN "cbw" ELSE IF dev.n = 1 THEN "csw" ELSE "dataIn"]
    /\ UNCHANGED <<ctl, unit, left, host, last, late>>

(* The stick finds that it cannot do the command: it says so in the status,  *)
(* or halts the pipe in the middle of the data.                              *)
StickFails ==
    /\ dev.phase \in {"dataIn", "dataOut", "csw"} /\ dev.ok
    /\ dev' = [dev EXCEPT !.ok = FALSE, !.phase = IF dev.phase = "csw" THEN "csw" ELSE "stuck"]
    /\ UNCHANGED <<ctl, unit, left, req, td, host, last, late>>

-----------------------------------------------------------------------------
(* What the layers above do with the result of a request.                    *)

(* msc_attach and ehci_msc_attach; then the chunk loops of the disk calls.   *)
AfterRequest(ok) ==
    CASE unit = "inquiry" -> /\ unit' = (IF ok THEN "tur" ELSE "gone") /\ left' = TurTries
      [] unit = "tur" -> IF ok \/ left = 1 THEN unit' = "capacity" /\ left' = 0
                                           ELSE unit' = unit /\ left' = left - 1
      [] unit = "capacity" -> unit' = (IF ok THEN "attached" ELSE "gone") /\ left' = 0
      [] OTHER -> IF ~ok \/ left = Chunk THEN unit' = "ready" /\ left' = 0
                                         ELSE unit' = unit /\ left' = left - Chunk

Returns(ok) ==
    /\ req' = [req EXCEPT !.stage = "none"]
    /\ last' = [id |-> req.id, ok |-> ok]
    /\ AfterRequest(ok)

(* td_wait, run_chain: the wait runs out, because the stick refuses, is      *)
(* halted, or is merely slow (bounded by MaxFaults). UHCI takes the transfer *)
(* off the frame list; over EHCI it goes on until the next one replaces it.  *)
GiveUp ==
    /\ td.n > 0 /\ req.stage # "none"
    /\ td' = IF ctl = "ehci" THEN td ELSE NoTransfer
    /\ LET refused == IF td.dir = "out" THEN dev.phase \notin {"cbw", "dataOut"}
                                        ELSE dev.phase \notin {"dataIn", "csw"}
       IN IF refused THEN UNCHANGED late ELSE late < MaxFaults /\ late' = late + 1
    /\ Returns(FALSE)
    /\ UNCHANGED <<ctl, host, dev>>

(* The transfer of a stage is done: the data if there are any, the status.   *)
NextStage ==
    /\ td.n = 0 /\ req.stage \in {"cbw", "data"}
    /\ IF req.stage = "cbw" /\ req.n > 0
       THEN req' = [req EXCEPT !.stage = "data"]
            /\ Bulk("data", IF req.cmd = "write" THEN "out" ELSE "in", req.n)
       ELSE req' = [req EXCEPT !.stage = "csw"] /\ Bulk("csw", "in", 1)
    /\ UNCHANGED <<ctl, unit, left, dev, last>>

(* Mutant of CheckStatus: bCSWStatus is not looked at. *)
CheckStatusMutant ==
    /\ td.n = 0 /\ req.stage = "csw"
    /\ Returns(TRUE)
    /\ UNCHANGED <<ctl, td, host, dev, late>>

(* The status block: signature and status, not the tag, and not whether the  *)
(* data that came were the data asked for.                                   *)
CheckStatus ==
    /\ td.n = 0 /\ req.stage = "csw"
    /\ Returns(dev.phase = "cbw" /\ dev.ok)
    /\ UNCHANGED <<ctl, td, host, dev, late>>

-----------------------------------------------------------------------------
(* msc_attach: a slot, both toggles at DATA0. *)
UhciAttach == /\ ctl = "none" /\ "uhci" \in Controllers /\ ctl' = "uhci"
              /\ unit' = "inquiry"
              /\ UNCHANGED <<left, req, td, host, dev, last, late>>

(* ehci_enumerate up to ehci_msc_attach. *)
EhciAttach == /\ ctl = "none" /\ "ehci" \in Controllers /\ ctl' = "ehci"
              /\ unit' = "inquiry"
              /\ UNCHANGED <<left, req, td, host, dev, last, late>>

(* disk_init has emptied the disk table; the register functions enter the    *)
(* units in use again.                                                       *)
UhciRegister == /\ ctl = "uhci" /\ unit = "attached" /\ unit' = "ready"
                /\ UNCHANGED <<ctl, left, req, td, host, dev, last, late>>
EhciRegister == /\ ctl = "ehci" /\ unit = "attached" /\ unit' = "ready"
                /\ UNCHANGED <<ctl, left, req, td, host, dev, last, late>>

DiskRead == \E n \in 1 .. MaxSectors :
    /\ unit = "ready" /\ unit' = "read" /\ left' = n
    /\ UNCHANGED <<ctl, req, td, host, dev, last, late>>

DiskWrite == \E n \in 1 .. MaxSectors :
    /\ unit = "ready" /\ unit' = "write" /\ left' = n
    /\ UNCHANGED <<ctl, req, td, host, dev, last, late>>

Next == \/ Ask \/ PacketOut \/ PacketIn \/ StickFails \/ GiveUp \/ NextStage \/ CheckStatus
        \/ UhciAttach \/ EhciAttach \/ UhciRegister \/ EhciRegister \/ DiskRead \/ DiskWrite

Spec == Init /\ [][Next]_msVars

-----------------------------------------------------------------------------
TypeOK ==
    /\ ctl \in {"none", "uhci", "ehci"} /\ unit \in Units
    /\ td.n \in Nat /\ td.dir \in {"none", "in", "out"}
    /\ dev.phase \in {"cbw", "dataOut", "dataIn", "csw", "stuck"}
    /\ {host.in, host.out, dev.in, dev.out} \subseteq {0, 1}

(* "Run one CBW -> [data] -> CSW round-trip. Returns 0 on success (CSW       *)
(* status = passed)" (usb.c:438): when bbb_request returns 0 the stick has   *)
(* finished this very command with status passed, and all its data went      *)
(* across, whatever was given up, halted or refused before it.               *)
SuccessIsTrue ==
    (req.stage = "none" /\ last.id > 0 /\ last.ok) =>
        dev.id = last.id /\ dev.ok /\ dev.whole /\ req.whole

(* Until the first wait that runs out on a slow stick, and the first         *)
(* transfer cut at BULK_MAX_TDS, both ends agree about toggles and phase     *)
(* between two requests (unless the stick is halted), and success is true.   *)
(* Neither holds afterwards: SuccessIsTrue fails (bbb_request).              *)
StorageInStep ==
    late = 0 =>
      /\ SuccessIsTrue
      /\ (req.stage = "none" /\ dev.phase # "stuck") =>
            dev.phase = "cbw" /\ dev.in = host.in /\ dev.out = host.out
=============================================================================
