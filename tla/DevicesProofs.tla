---------------------------- MODULE DevicesProofs ----------------------------
(* What the drivers of Devices keep: for each its invariant, which holds at  *)
(* first, is kept by every step, and implies what the driver promises.       *)
EXTENDS Devices, FiniteSetTheorems, SequenceTheorems, TLAPS

-----------------------------------------------------------------------------
(* The driver of a USB stick: its requests, the sector in the air and what    *)
(* the stick is at.                                                          *)
MsStages == {"none", "cbw", "data", "csw"}
MsRequest == [id : Nat, cmd : {"none", "read", "write"}, n : Nat, stage : MsStages, whole : BOOLEAN]
MsTransfer == [stage : MsStages, dir : {"none", "in", "out"}, tog : {0, 1}, n : Nat]
MsStick == [out : {0, 1}, in : {0, 1}, phase : {"cbw", "dataOut", "dataIn", "csw", "stuck"}, n : Nat,
            id : Nat, ok : BOOLEAN, whole : BOOLEAN]
MsTypes ==
    /\ ctl \in {"none"} \cup Controllers /\ unit \in Storage!Units /\ left \in Nat
    /\ req \in MsRequest /\ td \in MsTransfer /\ dev \in MsStick
    /\ host \in [out : {0, 1}, in : {0, 1}] /\ last \in [id : Nat, ok : BOOLEAN] /\ late \in Nat
    /\ ctl = "none" => unit = "none" /\ req.stage = "none"
    /\ unit = "tur" => left > 0
    /\ td.stage = "none" => td.n = 0
    /\ dev.phase \in {"dataIn", "dataOut"} => dev.n > 0

(* What the stick has taken of the request is the request's. *)
Taken == dev.id = req.id /\ dev.whole /\ req.whole
Agreed == dev.out = host.out /\ dev.in = host.in
(* The toggle of the queued transfer is the stick's, and where the transfer  *)
(* ends it will be the driver's.                                             *)
Queued == IF td.dir = "out" THEN td.tog = dev.out /\ host.out = Storage!Flip(td.tog, td.n) /\ dev.in = host.in
                            ELSE td.tog = dev.in /\ host.in = Storage!Flip(td.tog, td.n) /\ dev.out = host.out

(* Between requests; and in the stages of one. *)
Between ==
    IF dev.phase = "stuck" THEN ~last.ok
    ELSE /\ dev.phase = "cbw" /\ Agreed /\ td.n = 0
         /\ last.id > 0 /\ last.ok => dev.id = last.id /\ dev.ok /\ dev.whole /\ req.whole
DataPhase == IF req.cmd = "write" THEN "dataOut" ELSE "dataIn"
InCbw ==
    /\ td.stage = "cbw" /\ td.dir = "out" /\ td.n <= 1
    /\ IF dev.phase = "stuck" THEN td.n = 0 => req.n > 0
       ELSE /\ Queued
            /\ IF td.n = 1 THEN dev.phase = "cbw" /\ req.whole
               ELSE Taken /\ dev.n = req.n /\ dev.phase = IF req.n = 0 THEN "csw" ELSE DataPhase
InData ==
    /\ td.stage = "data" /\ td.dir = IF req.cmd = "write" THEN "out" ELSE "in"
    /\ IF dev.phase = "stuck" THEN td.n > 0
       ELSE Queued /\ Taken /\ dev.n = td.n /\ dev.phase = IF td.n = 0 THEN "csw" ELSE DataPhase
InCsw ==
    /\ td.stage = "csw" /\ td.dir = "in" /\ td.n <= 1 /\ Queued /\ dev.id = req.id /\ dev.whole
    /\ IF td.n = 1 THEN dev.phase = "csw" /\ req.whole ELSE dev.phase = "cbw" /\ (dev.ok => req.whole)

InStep == CASE req.stage = "none" -> Between
            [] req.stage = "cbw" -> InCbw
            [] req.stage = "data" -> InData
            [] req.stage = "csw" -> InCsw

MsInv == MsTypes /\ (late = 0 => InStep)

-----------------------------------------------------------------------------
LEMMA Flips ==
  ASSUME NEW t \in {0, 1}
  PROVE  /\ Storage!Flip(t, 0) = t /\ \A n \in Nat : Storage!Flip(t, n) \in {0, 1}
         /\ \A n \in Nat : n > 0 => Storage!Flip(t, n) = Storage!Flip(Storage!Flip(t, 1), n - 1)
BY DEF Storage!Flip

LEMMA Packets1 ==
  ASSUME MsSizes, MsInv, unit \in {"inquiry", "tur", "capacity", "read", "write"}
  PROVE  Storage!DataPackets(unit) \in Nat
<1>1. ctl \in Controllers /\ left \in Nat
  BY DEF MsInv, MsTypes
<1>2. PICK a \in Nat : a = Storage!Chunk
  BY <1>1 DEF Storage!Chunk, MsSizes
<1>3. PICK b \in Nat : b = SectorPackets[ctl]
  BY <1>1 DEF MsSizes
<1>4. a * b \in Nat
  BY SMT
<1>5. Storage!Chunk * SectorPackets[ctl] \in Nat
  BY <1>2, <1>3, <1>4
<1>6. QED BY <1>5 DEF Storage!DataPackets

LEMMA MsInitially == ASSUME MsSizes, Storage!Init PROVE MsInv
<1>1. req \in MsRequest /\ td \in MsTransfer /\ dev \in MsStick /\ host \in [out : {0, 1}, in : {0, 1}]
      /\ last \in [id : Nat, ok : BOOLEAN]
  <2>1. TRUE \in BOOLEAN
    BY Zenon
  <2>2. QED BY <2>1 DEF Storage!Init, Storage!NoRequest, Storage!NoTransfer, MsRequest, MsTransfer, MsStick, MsStages
<1>2. MsTypes
  BY <1>1 DEF Storage!Init, MsTypes, Storage!Units, Storage!NoTransfer, Storage!NoRequest
<1>3. Between /\ req.stage = "none"
  BY DEF Storage!Init, Between, Agreed, Storage!NoRequest, Storage!NoTransfer
<1>4. QED BY <1>2, <1>3 DEF MsInv, InStep

LEMMA MsFacts ==
  ASSUME MsInv
  PROVE  /\ \E r \in MsRequest : r = req
         /\ \E t \in MsTransfer : t = td
         /\ \E d \in MsStick : d = dev
         /\ \E h \in [out : {0, 1}, in : {0, 1}] : h = host
         /\ \E l \in [id : Nat, ok : BOOLEAN] : l = last
         /\ late \in Nat /\ left \in Nat
BY DEF MsInv, MsTypes

(* A transfer is queued, in full or a fault: the driver's toggles move on.   *)
LEMMA BulkEffect ==
  ASSUME MsSizes, MsInv, NEW stage \in {"cbw", "data", "csw"}, NEW dir \in {"in", "out"}, NEW n \in Nat,
         Storage!Bulk(stage, dir, n)
  PROVE  /\ ctl # "none" /\ td' \in MsTransfer /\ td'.stage = stage /\ td'.dir = dir /\ td'.tog = host[dir]
         /\ host' \in [out : {0, 1}, in : {0, 1}]
         /\ dir = "out" => host'.out = Storage!Flip(td'.tog, td'.n) /\ host'.in = host.in
         /\ dir = "in"  => host'.in = Storage!Flip(td'.tog, td'.n) /\ host'.out = host.out
         /\ late' \in Nat /\ (late' = 0 => late = 0 /\ td'.n = n)
<1>1. PICK h \in [out : {0, 1}, in : {0, 1}] : h = host
  BY MsFacts
<1>2. PICK m \in Nat : /\ td' = [stage |-> stage, dir |-> dir, tog |-> h[dir], n |-> m]
                       /\ host' = [h EXCEPT ![dir] = Storage!Flip(h[dir], m)]
                       /\ late' \in Nat /\ (late' = 0 => late = 0 /\ m = n)
  <2>1. late \in Nat
    BY MsFacts
  <2>2. CASE Storage!UhciBulk(stage, dir, n)
    <3>1. PICK m \in Nat : m = IF n > TdMax THEN TdMax ELSE n
      BY DEF MsSizes
    <3>2. /\ td' = [stage |-> stage, dir |-> dir, tog |-> host[dir], n |-> m]
          /\ host' = [host EXCEPT ![dir] = Storage!Flip(@, m)]
          /\ IF m < n THEN late < MaxFaults /\ late' = late + 1 ELSE UNCHANGED late
      BY <2>2, <3>1 DEF Storage!UhciBulk
    <3>3. late' \in Nat /\ (late' = 0 => late = 0 /\ ~(m < n))
      BY <2>1, <3>2
    <3>4. ~(m < n) => m = n
      BY <3>1 DEF MsSizes
    <3>5. QED BY <1>1, <3>2, <3>3, <3>4
  <2>3. CASE Storage!EhciBulk(stage, dir, n)
    BY <1>1, <2>1, <2>3 DEF Storage!EhciBulk
  <2>4. QED BY <2>2, <2>3 DEF Storage!Bulk
<1>3. PICK k \in {0, 1} : k = h[dir]
  OBVIOUS
<1>4. PICK f \in {0, 1} : f = Storage!Flip(k, m)
  BY Flips
<1>5. td' = [stage |-> stage, dir |-> dir, tog |-> k, n |-> m] /\ host' = [h EXCEPT ![dir] = f]
  BY <1>2, <1>3, <1>4
<1>6. td' \in MsTransfer /\ td'.stage = stage /\ td'.dir = dir /\ td'.n = m /\ td'.tog = k
  BY <1>5 DEF MsTransfer, MsStages
<1>0. ctl # "none"
  BY DEF Storage!Bulk, Storage!UhciBulk, Storage!EhciBulk
<1>7. CASE dir = "out"
  <2>1. host' = [h EXCEPT !.out = f]
    BY <1>5, <1>7
  <2>2. host'.out = f /\ host'.in = h.in /\ host' \in [out : {0, 1}, in : {0, 1}]
    BY <2>1
  <2>3. QED BY <1>0, <1>1, <1>2, <1>3, <1>4, <1>6, <1>7, <2>2
<1>8. CASE dir = "in"
  <2>1. host' = [h EXCEPT !.in = f]
    BY <1>5, <1>8
  <2>2. host'.in = f /\ host'.out = h.out /\ host' \in [out : {0, 1}, in : {0, 1}]
    BY <2>1
  <2>3. QED BY <1>0, <1>1, <1>2, <1>3, <1>4, <1>6, <1>8, <2>2
<1>9. QED BY <1>7, <1>8

LEMMA AskKeeps == ASSUME MsSizes, MsInv, Storage!Ask PROVE MsInv'
<1>1. /\ req.stage = "none" /\ unit \in {"inquiry", "tur", "capacity", "read", "write"}
      /\ req' = [id |-> req.id + 1, cmd |-> Storage!Command, n |-> Storage!DataPackets(unit), stage |-> "cbw", whole |-> TRUE]
      /\ Storage!Bulk("cbw", "out", 1) /\ UNCHANGED <<ctl, unit, left, dev, last>>
  BY DEF Storage!Ask
<1>2. PICK r \in MsRequest : r = req
  BY MsFacts
<1>3. PICK d \in MsStick : d = dev
  BY MsFacts
<1>4. PICK n \in Nat : n = Storage!DataPackets(unit)
  BY <1>1, Packets1
<1>5. PICK c \in {"none", "read", "write"} : c = Storage!Command
  BY DEF Storage!Command
<1>6. req' = [id |-> r.id + 1, cmd |-> c, n |-> n, stage |-> "cbw", whole |-> TRUE]
  BY <1>1, <1>2, <1>4, <1>5
<1>7. req' \in MsRequest /\ req'.stage = "cbw" /\ req'.whole
  <2>1. TRUE \in BOOLEAN /\ r.id + 1 \in Nat
    BY DEF MsRequest
  <2>2. QED BY <1>6, <2>1 DEF MsRequest, MsStages
<1>8. /\ ctl # "none" /\ td' \in MsTransfer /\ td'.stage = "cbw" /\ td'.dir = "out" /\ td'.tog = host.out
      /\ host' \in [out : {0, 1}, in : {0, 1}] /\ host'.out = Storage!Flip(td'.tog, td'.n) /\ host'.in = host.in
      /\ late' \in Nat /\ (late' = 0 => late = 0 /\ td'.n = 1)
  BY <1>1, BulkEffect
<1>9. MsTypes'
  BY <1>1, <1>7, <1>8 DEF MsInv, MsTypes
<1>10. ASSUME late' = 0 PROVE InCbw'
  <2>1. Between
    BY <1>1, <1>8, <1>10 DEF MsInv, InStep
  <2>2. dev.phase # "stuck" => Queued' /\ dev'.phase = "cbw"
    BY <1>1, <1>8, <2>1 DEF Between, Agreed, Queued
  <2>3. QED BY <1>1, <1>7, <1>8, <1>10, <2>2 DEF InCbw
<1>11. QED BY <1>1, <1>7, <1>9, <1>10 DEF MsInv, InStep

LEMMA PacketOutKeeps == ASSUME MsSizes, MsInv, Storage!PacketOut PROVE MsInv'
<1>1. /\ td.dir = "out" /\ td.n > 0 /\ dev.phase \in {"cbw", "dataOut"}
      /\ dev' = IF td.tog = dev.out THEN [Storage!StickTakes EXCEPT !.out = Storage!Flip(@, 1)] ELSE dev
      /\ td' = [td EXCEPT !.n = @ - 1, !.tog = Storage!Flip(@, 1)]
      /\ UNCHANGED <<ctl, unit, left, req, host, last, late>>
  BY DEF Storage!PacketOut
<1>2. PICK r \in MsRequest : r = req
  BY MsFacts
<1>3. PICK d \in MsStick : d = dev
  BY MsFacts
<1>4. PICK t \in MsTransfer : t = td
  BY MsFacts
<1>5. t.n \in Nat /\ t.n > 0 /\ t.tog \in {0, 1} /\ d.n \in Nat /\ r.n \in Nat
  BY <1>1, <1>4 DEF MsTransfer, MsStick, MsRequest
<1>6. PICK f \in {0, 1} : f = Storage!Flip(t.tog, 1)
  BY <1>5, Flips
<1>7. td' = [t EXCEPT !.n = t.n - 1, !.tog = f]
  BY <1>1, <1>4, <1>6
<1>8. PICK m \in Nat : m = t.n - 1
  BY <1>5
<1>9. td' \in MsTransfer /\ td'.stage = t.stage /\ td'.dir = t.dir /\ td'.n = m /\ td'.tog = f
  <2>1. td' = [t EXCEPT !.n = m, !.tog = f]
    BY <1>7, <1>8
  <2>2. QED BY <2>1 DEF MsTransfer
<1>10. PICK g \in {0, 1} : g = Storage!Flip(d.out, 1)
  BY Flips DEF MsStick
<1>11. t.stage # "none"
  BY <1>4, <1>5 DEF MsInv, MsTypes
<1>12. CASE t.tog # d.out
  <2>1. dev' = dev
    BY <1>1, <1>3, <1>4, <1>12
  <2>2. MsTypes'
    BY <1>1, <1>4, <1>9, <1>11, <2>1 DEF MsInv, MsTypes
  <2>3. late # 0
    <3>1. SUFFICES ASSUME late = 0 PROVE FALSE
      OBVIOUS
    <3>2. InStep /\ dev.phase # "stuck" /\ td.dir # "in" /\ td.n # 0
      BY <1>1, <1>4, <1>5, <3>1 DEF MsInv
    <3>3. ~Queued /\ td.dir = "out"
      BY <1>1, <1>3, <1>4, <1>12 DEF Queued
    <3>4. QED BY <1>2, <3>2, <3>3 DEF InStep, Between, InCbw, InData, InCsw, MsRequest, MsStages
  <2>4. QED BY <1>1, <2>2, <2>3 DEF MsInv
<1>13. CASE t.tog = d.out /\ d.phase = "cbw" /\ t.stage = "cbw"
  <2>1. PICK p \in {"csw", "dataOut", "dataIn"} : p = IF r.n = 0 THEN "csw" ELSE IF r.cmd = "write" THEN "dataOut" ELSE "dataIn"
    OBVIOUS
  <2>2. dev' = [d EXCEPT !.id = r.id, !.n = r.n, !.ok = TRUE, !.whole = TRUE, !.phase = p, !.out = g]
    BY <1>1, <1>2, <1>3, <1>4, <1>10, <1>13, <2>1 DEF Storage!StickTakes
  <2>3. dev' \in MsStick /\ dev'.phase = p /\ dev'.n = r.n /\ dev'.id = r.id /\ dev'.whole /\ dev'.out = g /\ dev'.in = d.in
    <3>1. TRUE \in BOOLEAN /\ r.id \in Nat
      BY DEF MsRequest
    <3>2. QED BY <1>5, <2>2, <3>1 DEF MsStick
  <2>4. MsTypes'
    BY <1>1, <1>5, <1>9, <1>11, <2>1, <2>3 DEF MsInv, MsTypes
  <2>5. ASSUME late = 0 PROVE InStep'
    <3>1. InStep /\ dev.phase = "cbw" /\ td.stage = "cbw" /\ td.n # 0
      BY <1>3, <1>4, <1>5, <1>13, <2>5 DEF MsInv
    <3>2. req.stage = "cbw" /\ InCbw
      BY <1>2, <3>1 DEF InStep, Between, InData, InCsw, MsRequest, MsStages
    <3>3. t.n = 1 /\ m = 0 /\ Queued /\ req.whole
      BY <1>3, <1>4, <1>5, <1>8, <1>13, <3>2 DEF InCbw
    <3>4. host.out = f /\ dev.in = host.in /\ g = f
      BY <1>1, <1>3, <1>4, <1>6, <1>10, <1>13, <3>3 DEF Queued
    <3>5. Queued'
      BY <1>1, <1>3, <1>4, <1>6, <1>9, <2>3, <3>3, <3>4, Flips DEF Queued
    <3>6. Taken' /\ dev'.n = req'.n /\ dev'.phase = (IF req'.n = 0 THEN "csw" ELSE DataPhase')
      BY <1>1, <1>2, <2>1, <2>3, <3>3 DEF Taken, DataPhase
    <3>7. dev'.phase # "stuck"
      BY <2>1, <2>3
    <3>8. InCbw'
      BY <1>1, <1>4, <1>9, <3>1, <3>3, <3>5, <3>6, <3>7 DEF InCbw
    <3>9. QED BY <1>1, <3>2, <3>8 DEF InStep
  <2>6. QED BY <1>1, <2>4, <2>5 DEF MsInv
<1>14. CASE t.tog = d.out /\ d.phase = "cbw" /\ t.stage # "cbw"
  <2>1. dev' = [d EXCEPT !.phase = "stuck", !.out = g]
    BY <1>1, <1>3, <1>4, <1>10, <1>14 DEF Storage!StickTakes
  <2>2. dev' \in MsStick /\ dev'.phase = "stuck"
    BY <2>1 DEF MsStick
  <2>3. MsTypes'
    BY <1>1, <1>9, <1>11, <2>2 DEF MsInv, MsTypes
  <2>4. late # 0
    <3>1. SUFFICES ASSUME late = 0 PROVE FALSE
      OBVIOUS
    <3>2. InStep /\ dev.phase = "cbw" /\ td.dir = "out" /\ td.stage # "cbw" /\ td.n # 0 /\ td.n > 0
      BY <1>1, <1>3, <1>4, <1>5, <1>14, <3>1 DEF MsInv
    <3>3. QED BY <1>2, <3>2 DEF InStep, Between, InCbw, InData, DataPhase, InCsw, MsRequest, MsStages
  <2>5. QED BY <1>1, <2>3, <2>4 DEF MsInv
<1>15. CASE t.tog = d.out /\ d.phase = "dataOut"
  <2>1. d.n > 0
    BY <1>3, <1>15 DEF MsInv, MsTypes
  <2>2. PICK w \in BOOLEAN : w = (d.whole /\ t.stage = "data" /\ d.id = r.id)
    BY Zenon
  <2>3. PICK k \in Nat : k = d.n - 1
    BY <1>5, <2>1
  <2>4. PICK p \in {"csw", "dataOut"} : p = IF d.n = 1 THEN "csw" ELSE "dataOut"
    OBVIOUS
  <2>5. dev' = [d EXCEPT !.whole = w, !.n = k, !.phase = p, !.out = g]
    BY <1>1, <1>2, <1>3, <1>4, <1>10, <1>15, <2>2, <2>3, <2>4 DEF Storage!StickTakes
  <2>6. dev' \in MsStick /\ dev'.phase = p /\ dev'.n = k /\ dev'.id = d.id /\ dev'.whole = w /\ dev'.out = g /\ dev'.in = d.in
    BY <2>5 DEF MsStick
  <2>7. MsTypes'
    BY <1>1, <1>5, <1>9, <1>11, <2>1, <2>3, <2>4, <2>6 DEF MsInv, MsTypes
  <2>8. ASSUME late = 0 PROVE InStep'
    <3>1. InStep /\ dev.phase = "dataOut" /\ td.n # 0 /\ td.dir = "out"
      BY <1>1, <1>3, <1>4, <1>5, <1>15, <2>8 DEF MsInv
    <3>2. req.stage = "data" /\ InData
      <4>1. ~Between
        BY <3>1 DEF Between
      <4>2. ~InCbw
        BY <1>4, <1>5, <3>1 DEF InCbw
      <4>3. ~InCsw
        BY <3>1 DEF InCsw
      <4>4. req.stage \in MsStages
        BY <1>2 DEF MsRequest
      <4>5. QED BY <3>1, <4>1, <4>2, <4>3, <4>4 DEF InStep, MsStages
    <3>3. Queued /\ Taken /\ d.n = t.n /\ req.cmd = "write" /\ t.stage = "data"
      BY <1>3, <1>4, <1>15, <3>1, <3>2 DEF InData
    <3>4. m = k /\ p = IF m = 0 THEN "csw" ELSE "dataOut"
      BY <1>5, <1>8, <2>3, <2>4, <3>3
    <3>5. host.out = Storage!Flip(d.out, t.n) /\ dev.in = host.in /\ g = f /\ d.out \in {0, 1}
      BY <1>1, <1>3, <1>4, <1>6, <1>10, <1>15, <3>3 DEF Queued, MsStick
    <3>6. host.out = Storage!Flip(f, m)
      BY <1>5, <1>8, <1>10, <3>5, Flips
    <3>7. Queued'
      BY <1>1, <1>3, <1>4, <1>9, <2>6, <3>5, <3>6 DEF Queued
    <3>8. w = TRUE /\ Taken'
      BY <1>1, <1>2, <1>3, <2>2, <2>6, <3>3 DEF Taken
    <3>9. InData'
      BY <1>1, <1>4, <1>9, <2>4, <2>6, <3>1, <3>3, <3>4, <3>7, <3>8 DEF InData, DataPhase
    <3>10. QED BY <1>1, <3>2, <3>9 DEF InStep
  <2>9. QED BY <1>1, <2>7, <2>8 DEF MsInv
<1>16. QED BY <1>1, <1>3, <1>4, <1>12, <1>13, <1>14, <1>15

LEMMA PacketInKeeps == ASSUME MsSizes, MsInv, Storage!PacketIn PROVE MsInv'
<1> DEFINE isCsw == dev.phase = "csw"
           taken == td.tog = dev.in
           good  == (isCsw <=> td.stage = "csw") /\ (isCsw => dev.ok) /\ (~isCsw => dev.id = req.id)
<1>1. /\ td.dir = "in" /\ td.n > 0 /\ dev.phase \in {"dataIn", "csw"}
      /\ td' = IF ~taken THEN td ELSE [td EXCEPT !.n = IF ctl = "ehci" /\ isCsw THEN 0 ELSE @ - 1, !.tog = Storage!Flip(@, 1)]
      /\ req' = IF taken THEN [req EXCEPT !.whole = @ /\ good] ELSE req
      /\ dev' = [dev EXCEPT !.in = Storage!Flip(@, 1), !.n = IF isCsw THEN 0 ELSE @ - 1,
                            !.phase = IF isCsw THEN "cbw" ELSE IF dev.n = 1 THEN "csw" ELSE "dataIn"]
      /\ UNCHANGED <<ctl, unit, left, host, last, late>>
  BY DEF Storage!PacketIn
<1>2. PICK r \in MsRequest : r = req
  BY MsFacts
<1>3. PICK d \in MsStick : d = dev
  BY MsFacts
<1>4. PICK t \in MsTransfer : t = td
  BY MsFacts
<1>5. t.n \in Nat /\ t.n > 0 /\ t.tog \in {0, 1} /\ d.n \in Nat /\ r.n \in Nat /\ d.in \in {0, 1}
  BY <1>1, <1>4 DEF MsTransfer, MsStick, MsRequest
<1>6. PICK f \in {0, 1} : f = Storage!Flip(t.tog, 1)
  BY <1>5, Flips
<1>7. PICK g \in {0, 1} : g = Storage!Flip(d.in, 1)
  BY <1>5, Flips
<1>8. PICK m \in Nat : m = IF ctl = "ehci" /\ isCsw THEN 0 ELSE t.n - 1
  BY <1>5
<1>9. ~isCsw => d.n > 0
  BY <1>1, <1>3 DEF MsInv, MsTypes
<1>10. PICK k \in Nat : k = IF isCsw THEN 0 ELSE d.n - 1
  BY <1>5, <1>9
<1>11. PICK p \in {"cbw", "csw", "dataIn"} : p = IF isCsw THEN "cbw" ELSE IF d.n = 1 THEN "csw" ELSE "dataIn"
  OBVIOUS
<1>12. dev' = [d EXCEPT !.in = g, !.n = k, !.phase = p]
  BY <1>1, <1>3, <1>7, <1>10, <1>11
<1>13. /\ dev' \in MsStick /\ dev'.in = g /\ dev'.n = k /\ dev'.phase = p /\ dev'.out = d.out /\ dev'.id = d.id
       /\ dev'.ok = d.ok /\ dev'.whole = d.whole
  BY <1>12 DEF MsStick
<1>14. t.stage # "none"
  BY <1>4, <1>5 DEF MsInv, MsTypes
<1>15. p = "dataIn" => k > 0
  BY <1>5, <1>9, <1>10, <1>11
<1>16. CASE ~taken
  <2>1. td' = td /\ req' = req
    BY <1>1, <1>16
  <2>2. MsTypes'
    BY <1>1, <1>11, <1>13, <1>15, <2>1 DEF MsInv, MsTypes
  <2>3. late # 0
    <3>1. SUFFICES ASSUME late = 0 PROVE FALSE
      OBVIOUS
    <3>2. InStep /\ dev.phase # "stuck" /\ td.dir = "in" /\ td.n # 0 /\ ~Queued
      BY <1>1, <1>4, <1>5, <1>16, <3>1 DEF MsInv, Queued
    <3>3. ~Between /\ ~InCbw /\ ~InData /\ ~InCsw
      BY <3>2 DEF Between, InCbw, InData, InCsw
    <3>4. req.stage \in MsStages
      BY <1>2 DEF MsRequest
    <3>5. QED BY <3>2, <3>3, <3>4 DEF InStep, MsStages
  <2>4. QED BY <1>1, <2>2, <2>3 DEF MsInv
<1>17. CASE taken
  <2>1. td' = [t EXCEPT !.n = m, !.tog = f]
    BY <1>1, <1>4, <1>6, <1>8, <1>17
  <2>2. td' \in MsTransfer /\ td'.stage = t.stage /\ td'.dir = t.dir /\ td'.n = m /\ td'.tog = f
    BY <2>1 DEF MsTransfer
  <2>3. PICK w \in BOOLEAN : w = (r.whole /\ good)
    BY Zenon
  <2>4. req' = [r EXCEPT !.whole = w]
    BY <1>1, <1>2, <1>17, <2>3
  <2>5. /\ req' \in MsRequest /\ req'.whole = w /\ req'.id = r.id /\ req'.cmd = r.cmd /\ req'.n = r.n
        /\ req'.stage = r.stage
    BY <2>4 DEF MsRequest
  <2>6. MsTypes'
    BY <1>1, <1>11, <1>13, <1>14, <1>15, <2>2, <2>5 DEF MsInv, MsTypes
  <2>7. ASSUME late = 0 PROVE InStep'
    <3>1. InStep /\ dev.phase # "stuck" /\ td.dir = "in" /\ td.n # 0 /\ dev.phase # "cbw"
      BY <1>1, <1>4, <1>5, <2>7 DEF MsInv
    <3>2. ~Between /\ ~InCbw
      BY <3>1 DEF Between, InCbw
    <3>3. (req.stage = "data" /\ InData) \/ (req.stage = "csw" /\ InCsw)
      <4>1. req.stage \in MsStages
        BY <1>2 DEF MsRequest
      <4>2. QED BY <3>1, <3>2, <4>1 DEF InStep, MsStages
    <3>4. Queued
      BY <3>1, <3>3 DEF InData, InCsw
    <3>5. host.in = Storage!Flip(t.tog, t.n) /\ dev.out = host.out /\ f = g
      BY <1>3, <1>4, <1>6, <1>7, <1>17, <3>1, <3>4 DEF Queued
    <3>6. CASE req.stage = "data" /\ InData
      <4>1. Taken /\ d.n = t.n /\ ~isCsw /\ t.stage = "data" /\ req.cmd # "write"
        BY <1>3, <1>4, <3>1, <3>6 DEF InData, DataPhase
      <4>2. m = t.n - 1 /\ k = m /\ p = IF m = 0 THEN "csw" ELSE "dataIn"
        BY <1>5, <1>8, <1>10, <1>11, <4>1
      <4>3. host.in = Storage!Flip(f, m)
        BY <1>5, <1>6, <3>5, <4>2, Flips
      <4>4. Queued'
        BY <1>1, <1>3, <1>4, <1>13, <2>2, <3>1, <3>5, <4>3 DEF Queued
      <4>5. w = TRUE
        BY <1>2, <1>3, <1>4, <2>3, <4>1 DEF Taken
      <4>6. Taken'
        BY <1>2, <1>3, <1>13, <2>5, <4>1, <4>5 DEF Taken
      <4>7. InData'
        BY <1>2, <1>4, <1>11, <1>13, <2>2, <2>5, <3>1, <4>1, <4>2, <4>4, <4>6 DEF InData, DataPhase
      <4>8. QED BY <1>2, <2>5, <3>6, <4>7 DEF InStep
    <3>7. CASE req.stage = "csw" /\ InCsw
      <4>1. t.n = 1 /\ isCsw /\ req.whole /\ t.stage = "csw" /\ d.id = r.id /\ d.whole
        BY <1>2, <1>3, <1>4, <1>5, <3>1, <3>7 DEF InCsw
      <4>2. m = 0 /\ p = "cbw"
        BY <1>8, <1>11, <4>1
      <4>3. host.in = Storage!Flip(f, 0)
        BY <1>5, <1>6, <3>5, <4>1, Flips
      <4>4. Queued'
        BY <1>1, <1>3, <1>4, <1>13, <2>2, <3>1, <3>5, <4>2, <4>3 DEF Queued
      <4>5. d.ok => w = TRUE
        BY <1>2, <1>3, <1>4, <2>3, <4>1
      <4>6. InCsw'
        BY <1>4, <1>13, <2>2, <2>5, <3>1, <4>1, <4>2, <4>4, <4>5 DEF InCsw
      <4>7. QED BY <1>2, <2>5, <3>7, <4>6 DEF InStep
    <3>8. QED BY <3>3, <3>6, <3>7
  <2>8. QED BY <1>1, <2>6, <2>7 DEF MsInv
<1>18. QED BY <1>16, <1>17

LEMMA StickFailsKeeps == ASSUME MsSizes, MsInv, Storage!StickFails PROVE MsInv'
<1>1. /\ dev.phase \in {"dataIn", "dataOut", "csw"} /\ dev.ok
      /\ dev' = [dev EXCEPT !.ok = FALSE, !.phase = IF dev.phase = "csw" THEN "csw" ELSE "stuck"]
      /\ UNCHANGED <<ctl, unit, left, req, td, host, last, late>>
  BY DEF Storage!StickFails
<1>2. PICK d \in MsStick : d = dev
  BY MsFacts
<1>3. PICK p \in {"csw", "stuck"} : p = IF d.phase = "csw" THEN "csw" ELSE "stuck"
  OBVIOUS
<1>4. dev' = [d EXCEPT !.ok = FALSE, !.phase = p]
  BY <1>1, <1>2, <1>3
<1>5. /\ dev' \in MsStick /\ dev'.phase = p /\ dev'.in = d.in /\ dev'.out = d.out /\ dev'.n = d.n /\ dev'.id = d.id
      /\ dev'.whole = d.whole
  <2>1. FALSE \in BOOLEAN
    BY Zenon
  <2>2. QED BY <1>4, <2>1 DEF MsStick
<1>6. MsTypes'
  BY <1>1, <1>3, <1>5 DEF MsInv, MsTypes
<1>7. ASSUME late = 0 PROVE InStep'
  <2>1. InStep /\ ~Between
    BY <1>1, <1>7 DEF MsInv, Between
  <2>2. PICK t \in MsTransfer : t = td
    BY MsFacts
  <2>3. PICK r \in MsRequest : r = req
    BY MsFacts
  <2>4. t.n \in Nat /\ r.n \in Nat
    BY DEF MsTransfer, MsRequest
  <2>5. CASE req.stage = "cbw"
    <3>1. InCbw
      BY <2>1, <2>5 DEF InStep
    <3>2. Queued /\ td.n = 0 /\ Taken /\ dev.n = req.n /\ dev.phase = IF req.n = 0 THEN "csw" ELSE DataPhase
      BY <1>1, <2>2, <2>4, <3>1 DEF InCbw
    <3>3. p = "stuck" => req.n > 0
      BY <1>1, <1>2, <1>3, <2>3, <2>4, <3>2
    <3>4. p = "csw" => d.phase = "csw"
      BY <1>3
    <3>5. Queued' /\ Taken'
      BY <1>1, <1>2, <1>5, <3>2 DEF Queued, Taken
    <3>6. InCbw'
      BY <1>1, <1>2, <1>3, <1>5, <3>1, <3>2, <3>3, <3>4, <3>5 DEF InCbw, DataPhase
    <3>7. QED BY <1>1, <2>5, <3>6 DEF InStep
  <2>6. CASE req.stage = "data"
    <3>1. InData
      BY <2>1, <2>6 DEF InStep
    <3>2. Queued /\ Taken /\ dev.n = td.n /\ dev.phase = IF td.n = 0 THEN "csw" ELSE DataPhase
      BY <1>1, <3>1 DEF InData
    <3>3. p = "stuck" => td.n > 0
      BY <1>1, <1>2, <1>3, <2>2, <2>4, <3>2
    <3>4. p = "csw" => d.phase = "csw"
      BY <1>3
    <3>5. Queued' /\ Taken'
      BY <1>1, <1>2, <1>5, <3>2 DEF Queued, Taken
    <3>6. InData'
      BY <1>1, <1>2, <1>3, <1>5, <3>1, <3>2, <3>3, <3>4, <3>5 DEF InData, DataPhase
    <3>7. QED BY <1>1, <2>6, <3>6 DEF InStep
  <2>7. CASE req.stage = "csw"
    <3>1. InCsw
      BY <2>1, <2>7 DEF InStep
    <3>2. td.n = 1 /\ Queued /\ dev.phase = "csw" /\ dev.id = req.id /\ dev.whole /\ req.whole
      BY <1>1, <2>2, <2>4, <3>1 DEF InCsw
    <3>3. p = "csw"
      BY <1>2, <1>3, <3>2
    <3>4. Queued'
      BY <1>1, <1>2, <1>5, <3>2 DEF Queued
    <3>5. InCsw'
      BY <1>1, <1>2, <1>5, <3>1, <3>2, <3>3, <3>4 DEF InCsw
    <3>6. QED BY <1>1, <2>7, <3>5 DEF InStep
  <2>8. req.stage \in MsStages
    BY <2>3 DEF MsRequest
  <2>9. QED BY <2>1, <2>5, <2>6, <2>7, <2>8 DEF InStep, MsStages
<1>8. QED BY <1>1, <1>6, <1>7 DEF MsInv

(* A request ends: the layers above go on, or give the device up.            *)
LEMMA ReturnsEffect ==
  ASSUME MsSizes, MsInv, NEW ok \in BOOLEAN, Storage!Returns(ok), req.stage # "none"
  PROVE  /\ req' \in MsRequest /\ req'.stage = "none" /\ req'.whole = req.whole
         /\ last' \in [id : Nat, ok : BOOLEAN] /\ last'.id = req.id /\ last'.ok = ok
         /\ unit' \in Storage!Units /\ left' \in Nat /\ (unit' = "tur" => left' > 0)
<1>1. PICK r \in MsRequest : r = req
  BY MsFacts
<1>2. req' = [r EXCEPT !.stage = "none"] /\ last' = [id |-> r.id, ok |-> ok] /\ Storage!AfterRequest(ok)
  BY <1>1 DEF Storage!Returns
<1>3. req' \in MsRequest /\ req'.stage = "none" /\ req'.whole = r.whole
  BY <1>2 DEF MsRequest, MsStages
<1>4. last' \in [id : Nat, ok : BOOLEAN] /\ last'.id = r.id /\ last'.ok = ok
  BY <1>2 DEF MsRequest
<1>5. left \in Nat /\ unit \in Storage!Units /\ (unit = "tur" => left > 0)
  BY DEF MsInv, MsTypes
<1>6. Storage!Chunk \in Nat /\ Storage!Chunk <= left /\ TurTries \in Nat /\ TurTries > 0
  BY <1>5 DEF Storage!Chunk, MsSizes
<1>7. unit' \in Storage!Units /\ left' \in Nat /\ (unit' = "tur" => left' > 0)
  BY <1>2, <1>5, <1>6 DEF Storage!AfterRequest, Storage!Units
<1>8. QED BY <1>1, <1>3, <1>4, <1>7

LEMMA GiveUpKeeps == ASSUME MsSizes, MsInv, Storage!GiveUp PROVE MsInv'
<1> DEFINE declined == IF td.dir = "out" THEN dev.phase \notin {"cbw", "dataOut"} ELSE dev.phase \notin {"dataIn", "csw"}
<1>1. /\ td.n > 0 /\ req.stage # "none" /\ td' = IF ctl = "ehci" THEN td ELSE Storage!NoTransfer
      /\ IF declined THEN UNCHANGED late ELSE late < MaxFaults /\ late' = late + 1
      /\ Storage!Returns(FALSE) /\ UNCHANGED <<ctl, host, dev>>
  BY DEF Storage!GiveUp
<1>2. FALSE \in BOOLEAN
  BY Zenon
<1>3. /\ req' \in MsRequest /\ req'.stage = "none" /\ last' \in [id : Nat, ok : BOOLEAN] /\ last'.ok = FALSE
      /\ unit' \in Storage!Units /\ left' \in Nat /\ (unit' = "tur" => left' > 0)
  BY <1>1, <1>2, ReturnsEffect
<1>4. Storage!NoTransfer \in MsTransfer /\ Storage!NoTransfer.n = 0
  BY DEF Storage!NoTransfer, MsTransfer, MsStages
<1>5. td' \in MsTransfer /\ (td'.stage = "none" => td'.n = 0)
  BY <1>1, <1>4, MsFacts DEF MsInv, MsTypes
<1>6. late \in Nat /\ late' \in Nat /\ (late' = 0 => late = 0 /\ declined)
  BY <1>1, MsFacts
<1>7. ctl # "none"
  BY <1>1 DEF MsInv, MsTypes
<1>8. MsTypes'
  BY <1>1, <1>3, <1>5, <1>6, <1>7 DEF MsInv, MsTypes
<1>9. ASSUME late' = 0 PROVE Between'
  <2>1. InStep /\ declined /\ td.n # 0
    <3>1. \E t \in MsTransfer : t = td
      BY MsFacts
    <3>2. td.n \in Nat
      BY <3>1 DEF MsTransfer
    <3>3. QED BY <1>1, <1>6, <1>9, <3>2 DEF MsInv
  <2>2. dev.phase = "stuck"
    <3>1. PICK t \in MsTransfer : t = td
      BY MsFacts
    <3>2. req.stage \in MsStages /\ td.n \in Nat
      BY <3>1, MsFacts DEF MsRequest, MsTransfer
    <3>3. ~InCsw
      BY <2>1, <3>2 DEF InCsw
    <3>4. InCbw => dev.phase = "stuck"
      BY <2>1, <3>2 DEF InCbw
    <3>5. InData => dev.phase = "stuck"
      BY <2>1, <3>2 DEF InData, DataPhase
    <3>6. QED BY <1>1, <2>1, <3>2, <3>3, <3>4, <3>5 DEF InStep, MsStages
  <2>3. QED BY <1>1, <1>3, <2>2 DEF Between
<1>10. QED BY <1>3, <1>8, <1>9 DEF MsInv, InStep

LEMMA NextStageKeeps == ASSUME MsSizes, MsInv, Storage!NextStage PROVE MsInv'
<1>1. /\ td.n = 0 /\ req.stage \in {"cbw", "data"} /\ UNCHANGED <<ctl, unit, left, dev, last>>
      /\ IF req.stage = "cbw" /\ req.n > 0
         THEN req' = [req EXCEPT !.stage = "data"] /\ Storage!Bulk("data", IF req.cmd = "write" THEN "out" ELSE "in", req.n)
         ELSE req' = [req EXCEPT !.stage = "csw"] /\ Storage!Bulk("csw", "in", 1)
  BY DEF Storage!NextStage
<1>2. PICK r \in MsRequest : r = req
  BY MsFacts
<1>3. r.n \in Nat
  BY DEF MsRequest
<1>4. PICK h \in [out : {0, 1}, in : {0, 1}] : h = host
  BY MsFacts
<1>5. late = 0 /\ dev.phase # "stuck" => Taken /\ Agreed
  <2>1. ASSUME late = 0, dev.phase # "stuck" PROVE Taken /\ Queued
    <3>1. InStep
      BY <2>1 DEF MsInv
    <3>2. req.stage = "cbw" => Taken /\ Queued
      BY <1>1, <2>1, <3>1 DEF InStep, InCbw
    <3>3. req.stage = "data" => Taken /\ Queued
      BY <2>1, <3>1 DEF InStep, InData
    <3>4. QED BY <1>1, <3>2, <3>3
  <2>2. PICK t \in MsTransfer : t = td
    BY MsFacts
  <2>3. Queued => Agreed
    BY <1>1, <2>2, Flips DEF Queued, Agreed, MsTransfer
  <2>4. QED BY <2>1, <2>3
<1>6. CASE req.stage = "cbw" /\ req.n > 0
  <2>1. PICK dir \in {"in", "out"} : dir = IF req.cmd = "write" THEN "out" ELSE "in"
    OBVIOUS
  <2>2. req' = [r EXCEPT !.stage = "data"] /\ Storage!Bulk("data", dir, r.n)
    BY <1>1, <1>2, <1>6, <2>1
  <2>3. /\ req' \in MsRequest /\ req'.stage = "data" /\ req'.id = r.id /\ req'.whole = r.whole
        /\ req'.n = r.n /\ req'.cmd = r.cmd
    BY <2>2 DEF MsRequest, MsStages
  <2>4. /\ ctl # "none" /\ td' \in MsTransfer /\ td'.stage = "data" /\ td'.dir = dir /\ td'.tog = host[dir]
        /\ host' \in [out : {0, 1}, in : {0, 1}]
        /\ dir = "out" => host'.out = Storage!Flip(td'.tog, td'.n) /\ host'.in = host.in
        /\ dir = "in"  => host'.in = Storage!Flip(td'.tog, td'.n) /\ host'.out = host.out
        /\ late' \in Nat /\ (late' = 0 => late = 0 /\ td'.n = r.n)
    BY <1>3, <2>2, BulkEffect
  <2>5. MsTypes'
    BY <1>1, <2>3, <2>4 DEF MsInv, MsTypes
  <2>6. ASSUME late' = 0, dev.phase # "stuck" PROVE Queued' /\ Taken' /\ dev'.n = td'.n /\ dev'.phase = DataPhase'
    <3>0. late = 0 /\ td'.n = r.n
      BY <2>4, <2>6
    <3>1. InCbw
      BY <1>6, <3>0 DEF MsInv, InStep
    <3>2. dev.n = req.n /\ dev.phase = DataPhase
      BY <1>1, <1>2, <1>3, <1>6, <2>6, <3>1 DEF InCbw
    <3>3. Queued'
      BY <1>1, <1>5, <2>1, <2>4, <2>6, <3>0 DEF Agreed, Queued
    <3>4. QED BY <1>1, <1>2, <1>5, <2>3, <2>6, <3>0, <3>2, <3>3 DEF Taken, DataPhase
  <2>7. ASSUME late' = 0 PROVE InData'
    BY <1>1, <1>2, <1>3, <1>6, <2>1, <2>3, <2>4, <2>6, <2>7 DEF InData
  <2>8. QED BY <2>3, <2>5, <2>7 DEF MsInv, InStep
<1>7. CASE ~(req.stage = "cbw" /\ req.n > 0)
  <2>1. req' = [r EXCEPT !.stage = "csw"] /\ Storage!Bulk("csw", "in", 1)
    BY <1>1, <1>2, <1>7
  <2>2. req' \in MsRequest /\ req'.stage = "csw" /\ req'.id = r.id /\ req'.whole = r.whole
    BY <2>1 DEF MsRequest, MsStages
  <2>3. /\ ctl # "none" /\ td' \in MsTransfer /\ td'.stage = "csw" /\ td'.dir = "in" /\ td'.tog = host["in"]
        /\ host' \in [out : {0, 1}, in : {0, 1}] /\ host'.in = Storage!Flip(td'.tog, td'.n) /\ host'.out = host.out
        /\ late' \in Nat /\ (late' = 0 => late = 0 /\ td'.n = 1)
    BY <2>1, BulkEffect
  <2>4. MsTypes'
    BY <1>1, <2>2, <2>3 DEF MsInv, MsTypes
  <2>5. ASSUME late' = 0 PROVE InCsw'
    <3>0. late = 0 /\ td'.n = 1
      BY <2>3, <2>5
    <3>1. dev.phase = "csw"
      <4>1. InStep
        BY <3>0 DEF MsInv
      <4>2. CASE req.stage = "cbw"
        <5>1. InCbw /\ ~(req.n > 0) /\ req.n = 0
          BY <1>2, <1>3, <1>7, <4>1, <4>2 DEF InStep
        <5>2. QED BY <1>1, <5>1 DEF InCbw
      <4>3. CASE req.stage = "data"
        <5>1. InData
          BY <4>1, <4>3 DEF InStep
        <5>2. QED BY <1>1, <5>1 DEF InData
      <4>4. QED BY <1>1, <4>2, <4>3
    <3>2. Taken /\ Agreed
      BY <1>5, <3>0, <3>1
    <3>3. Queued'
      BY <1>1, <2>3, <3>2 DEF Agreed, Queued
    <3>4. QED BY <1>1, <1>2, <2>2, <2>3, <3>0, <3>1, <3>2, <3>3 DEF InCsw, Taken
  <2>6. QED BY <2>2, <2>4, <2>5 DEF MsInv, InStep
<1>8. QED BY <1>6, <1>7

LEMMA CheckStatusKeeps == ASSUME MsSizes, MsInv, Storage!CheckStatus PROVE MsInv'
<1>1. /\ td.n = 0 /\ req.stage = "csw" /\ Storage!Returns(dev.phase = "cbw" /\ dev.ok)
      /\ UNCHANGED <<ctl, td, host, dev, late>>
  BY DEF Storage!CheckStatus
<1>2. PICK ok \in BOOLEAN : ok = (dev.phase = "cbw" /\ dev.ok)
  BY Zenon
<1>3. Storage!Returns(ok)
  BY <1>1, <1>2
<1>4. /\ req' \in MsRequest /\ req'.stage = "none" /\ req'.whole = req.whole
      /\ last' \in [id : Nat, ok : BOOLEAN] /\ last'.id = req.id /\ last'.ok = ok
      /\ unit' \in Storage!Units /\ left' \in Nat /\ (unit' = "tur" => left' > 0)
  BY <1>1, <1>3, ReturnsEffect
<1>5. MsTypes'
  BY <1>1, <1>4 DEF MsInv, MsTypes
<1>6. ASSUME late = 0 PROVE Between'
  <2>1. InCsw
    BY <1>1, <1>6 DEF MsInv, InStep
  <2>2. dev.phase = "cbw" /\ (dev.ok => req.whole) /\ dev.id = req.id /\ dev.whole /\ Queued /\ td.dir = "in"
    BY <1>1, <2>1 DEF InCsw
  <2>3. PICK t \in MsTransfer : t = td
    BY MsFacts
  <2>4. Agreed
    BY <1>1, <2>2, <2>3, Flips DEF Queued, Agreed, MsTransfer
  <2>5. QED BY <1>1, <1>2, <1>4, <2>2, <2>4 DEF Between, Agreed
<1>7. QED BY <1>1, <1>4, <1>5, <1>6 DEF MsInv, InStep

LEMMA MsStepKeeps == ASSUME MsSizes, MsInv, [Storage!Next]_(Storage!msVars) PROVE MsInv'
<1>1. ASSUME UNCHANGED <<req, td, host, dev, last, late>>,
             ctl' \in {"none"} \cup Controllers, unit' \in Storage!Units, left' \in Nat, unit' # "tur",
             ctl' # "none" \/ (unit' = "none" /\ req.stage = "none")
      PROVE  MsInv'
  <2>1. MsTypes'
    BY <1>1 DEF MsInv, MsTypes
  <2>2. InStep' = InStep
    BY <1>1 DEF InStep, Between, InCbw, InData, InCsw, DataPhase, Queued, Taken, Agreed
  <2>3. QED BY <1>1, <2>1, <2>2 DEF MsInv
<1>2. CASE UNCHANGED Storage!msVars
  BY <1>2 DEF Storage!msVars, MsInv, MsTypes, InStep, Between, InCbw, InData, InCsw, DataPhase, Queued, Taken, Agreed
<1>3. CASE Storage!UhciAttach
  BY <1>1, <1>3 DEF Storage!UhciAttach, MsInv, MsTypes, Storage!Units
<1>4. CASE Storage!EhciAttach
  BY <1>1, <1>4 DEF Storage!EhciAttach, MsInv, MsTypes, Storage!Units
<1>5. CASE Storage!UhciRegister
  BY <1>1, <1>5 DEF Storage!UhciRegister, MsInv, MsTypes, Storage!Units
<1>6. CASE Storage!EhciRegister
  BY <1>1, <1>6 DEF Storage!EhciRegister, MsInv, MsTypes, Storage!Units
<1>7. CASE Storage!DiskRead
  BY <1>1, <1>7 DEF Storage!DiskRead, MsInv, MsTypes, Storage!Units, MsSizes
<1>8. CASE Storage!DiskWrite
  BY <1>1, <1>8 DEF Storage!DiskWrite, MsInv, MsTypes, Storage!Units, MsSizes
<1>9. QED BY <1>2, <1>3, <1>4, <1>5, <1>6, <1>7, <1>8, AskKeeps, PacketOutKeeps, PacketInKeeps, StickFailsKeeps,
             GiveUpKeeps, NextStageKeeps, CheckStatusKeeps DEF Storage!Next

LEMMA MsInStep == ASSUME MsInv PROVE Storage!StorageInStep
<1>1. ASSUME late = 0, req.stage = "none" PROVE Between
  BY <1>1 DEF MsInv, InStep
<1>2. ASSUME late = 0 PROVE Storage!SuccessIsTrue
  BY <1>1, <1>2 DEF Between, Storage!SuccessIsTrue
<1>3. QED BY <1>1, <1>2 DEF Between, Agreed, Storage!StorageInStep

LEMMA MsTypeOK == ASSUME MsSizes, MsInv PROVE Storage!TypeOK
BY DEF MsInv, MsTypes, MsStick, MsTransfer, Storage!TypeOK, MsSizes

-----------------------------------------------------------------------------
(* The IDE driver: the drive that is selected, its sector and the one that is *)
(* moved.                                                                    *)
IdeSector == 1 .. IdeSectors
IdeData == IdeDrives \X IdeSector \X (0 .. IdeCalls)
IdeDrive == [bsy : BOOLEAN, drq : BOOLEAN, err : BOOLEAN,
             op : {"none", "read", "write", "store", "flush"}, s : IdeSector, word : IdeData]
IdeCall == [pc : {"idle", "ready", "command", "drq", "words", "flush", "flushed", "done", "failed"},
            op : {"none", "read", "write"}, d : IdeDrives, lba : IdeSector, count : 0 .. IdeSectors,
            c : 0 .. IdeSectors, out : Seq(IdeData), call : 0 .. IdeCalls]

IdeTypes ==
    /\ ata \in IdeCall /\ selected \in IdeDrives /\ drive \in [IdeDrives -> IdeDrive]
    /\ surface \in [IdeDrives -> [IdeSector -> IdeData]] /\ refused \subseteq IdeDrives \X IdeSector

(* A call stays on the drive, and knows how far it is. *)
Within ==
    /\ ata.pc # "idle" => ata.op # "none" /\ ata.lba + ata.count - 1 <= IdeSectors
    /\ ata.pc \in {"ready", "command", "drq", "words", "flush", "flushed"} => ata.c < ata.count
    /\ ata.pc = "done" => ata.c = ata.count

(* What was to be written to a sector is there, or was refused. *)
IdeStored(s) == <<ata.d, s>> \notin refused => surface[ata.d][s] = Ide!Data(ata.d, s, ata.call)

(* Only the drive selected is ever busy, and where the call has looked at it *)
(* or gone on from its first sector, it is not with an earlier command.      *)
Alone ==
    /\ \A d \in IdeDrives : d # selected => ~drive[d].bsy
    /\ ata.pc = "command" => ~drive[selected].bsy
    /\ ata.pc \in {"ready", "done"} /\ ata.c > 0 => ~drive[selected].bsy
    /\ ata.pc \in {"drq", "words", "flush", "flushed"} => selected = ata.d /\ drive[ata.d].s = Ide!Cur
    /\ ata.pc \in {"drq", "words"} => drive[ata.d].op = ata.op
    /\ ata.pc = "words" => ~drive[ata.d].bsy /\ drive[ata.d].drq
    /\ ata.pc \in {"flush", "flushed"} =>
         /\ ata.op = "write" /\ drive[ata.d].op \in {"store", "flush"}
         /\ drive[ata.d].op = "store" => drive[ata.d].word = Ide!Data(ata.d, Ide!Cur, ata.call)
         /\ drive[ata.d].op = "flush" \/ ~drive[ata.d].bsy => IdeStored(Ide!Cur)

(* The sector a drive holds out is its own, and one it is about to store was *)
(* meant for the place it goes to.                                           *)
Buffered ==
    \A d \in IdeDrives :
        /\ drive[d].op = "read" /\ ~drive[d].bsy /\ drive[d].drq => drive[d].word = surface[d][drive[d].s]
        /\ drive[d].op = "store" => drive[d].word[1] = d /\ drive[d].word[2] = drive[d].s

(* The sectors the call has behind it. *)
Behind ==
    /\ ata.op = "read" => Len(ata.out) = ata.c
    /\ ata.pc \notin {"idle", "failed"} => \A i \in 1 .. ata.c :
         IF ata.op = "read" THEN ata.out[i] = surface[ata.d][ata.lba + i - 1] ELSE IdeStored(ata.lba + i - 1)

Placed == \A d \in IdeDrives, s \in IdeSector : surface[d][s][1] = d /\ surface[d][s][2] = s

IdeInv == IdeTypes /\ Within /\ Alone /\ Buffered /\ Behind /\ Placed

-----------------------------------------------------------------------------
LEMMA IdeInitially == ASSUME IdeSizes, Ide!Init PROVE IdeInv
<1>1. PICK d0 \in IdeDrives : /\ ata = [pc |-> "idle", op |-> "none", d |-> d0, lba |-> 1, count |-> 0, c |-> 0,
                                        out |-> <<>>, call |-> 0]
  <2>1. (CHOOSE d \in IdeDrives : TRUE) \in IdeDrives
    BY DEF IdeSizes
  <2>2. QED BY <2>1 DEF Ide!Init
<1>2. 1 \in IdeSector /\ 0 \in 0 .. IdeSectors /\ 0 \in 0 .. IdeCalls
  BY DEF IdeSizes, IdeSector
<1>3. \A d \in IdeDrives, s \in IdeSector : Ide!Data(d, s, 0) \in IdeData
  BY <1>2 DEF Ide!Data, IdeData
<1>4. ata \in IdeCall
  BY <1>1, <1>2 DEF IdeCall
<1>5. drive \in [IdeDrives -> IdeDrive]
  BY <1>2, <1>3 DEF Ide!Init, IdeDrive
<1>6. surface \in [IdeDrives -> [IdeSector -> IdeData]]
  BY <1>3 DEF Ide!Init, IdeSector
<1>7. IdeTypes
  BY <1>4, <1>5, <1>6 DEF IdeTypes, Ide!Init
<1>8. Within
  BY <1>1 DEF Within
<1>9. \A d \in IdeDrives : drive[d].bsy = FALSE /\ drive[d].op = "none"
  BY DEF Ide!Init
<1>10. Alone /\ Buffered
  BY <1>1, <1>9 DEF Alone, Buffered
<1>11. Behind
  BY <1>1 DEF Behind
<1>12. Placed
  BY DEF Placed, Ide!Init, Ide!Data, IdeSector
<1>13. QED BY <1>7, <1>8, <1>10, <1>11, <1>12 DEF IdeInv

LEMMA IdeCallKeeps ==
  ASSUME IdeSizes, IdeInv, NEW op \in {"read", "write"}, NEW d \in IdeDrives,
         NEW s \in IdeSector, NEW n \in IdeSector, s + n - 1 <= IdeSectors, Ide!Call(op, d, s, n)
  PROVE  IdeInv'
<1>1. /\ ata' = [pc |-> "ready", op |-> op, d |-> d, lba |-> s, count |-> n, c |-> 0,
                 out |-> <<>>, call |-> ata.call + 1]
      /\ UNCHANGED <<selected, drive, surface, refused>> /\ ata.call < IdeCalls
  BY DEF Ide!Call
<1>2. ata.call \in 0 .. IdeCalls
  BY DEF IdeInv, IdeTypes, IdeCall
<1>3. ata' \in IdeCall
  BY <1>1, <1>2 DEF IdeCall, IdeSizes, IdeSector
<1>4. /\ ata'.pc = "ready" /\ ata'.op = op /\ ata'.d = d /\ ata'.lba = s /\ ata'.count = n /\ ata'.c = 0
      /\ ata'.out = <<>>
  BY <1>1
<1>5. IdeTypes'
  BY <1>1, <1>3 DEF IdeInv, IdeTypes
<1>6. Within'
  BY <1>4 DEF Within, IdeSector
<1>7. Alone' /\ Buffered' /\ Placed'
  BY <1>1, <1>4 DEF IdeInv, Alone, Buffered, Placed
<1>8. Behind'
  BY <1>4 DEF Behind
<1>9. QED BY <1>5, <1>6, <1>7, <1>8 DEF IdeInv

(* Where the call goes on to the next sector, or is done. *)
LEMMA NextSectorEffect ==
  ASSUME IdeSizes, IdeInv, ata.pc \in {"words", "flushed"}
  PROVE  /\ Ide!NextSector \in IdeCall /\ Ide!NextSector.pc \in {"ready", "done"} /\ Ide!NextSector.c = ata.c + 1
         /\ Ide!NextSector.op = ata.op /\ Ide!NextSector.d = ata.d /\ Ide!NextSector.lba = ata.lba
         /\ Ide!NextSector.count = ata.count /\ Ide!NextSector.call = ata.call /\ Ide!NextSector.out = ata.out
         /\ Ide!NextSector.pc = "ready" => Ide!NextSector.c < ata.count
         /\ Ide!NextSector.pc = "done" => Ide!NextSector.c = ata.count
<1>1. PICK x \in IdeCall : x = ata
  BY DEF IdeInv, IdeTypes
<1>2. x.c \in Nat /\ x.count \in Nat /\ x.c < x.count /\ x.count <= IdeSectors /\ IdeSectors \in Nat
  BY <1>1 DEF IdeInv, Within, IdeCall, IdeSizes
<1>3. PICK p \in {"ready", "done"} : p = IF x.c + 1 < x.count THEN "ready" ELSE "done"
  OBVIOUS
<1>4. PICK y : y = [x EXCEPT !.c = x.c + 1, !.pc = p]
  OBVIOUS
<1>5. Ide!NextSector = y
  BY <1>1, <1>3, <1>4 DEF Ide!NextSector
<1>6. /\ y \in IdeCall /\ y.pc = p /\ y.c = x.c + 1 /\ y.op = x.op /\ y.d = x.d /\ y.lba = x.lba
      /\ y.count = x.count /\ y.call = x.call /\ y.out = x.out
  <2>1. x.c + 1 \in 0 .. IdeSectors
    BY <1>2
  <2>2. PICK k \in 0 .. IdeSectors : k = x.c + 1
    BY <2>1
  <2>3. y = [x EXCEPT !.c = k, !.pc = p]
    BY <1>4, <2>2
  <2>4. y \in IdeCall /\ y.c = k
    BY <2>3 DEF IdeCall
  <2>5. QED BY <1>4, <2>2, <2>3, <2>4 DEF IdeCall
<1>7. QED BY <1>1, <1>2, <1>3, <1>5, <1>6

LEMMA IdeFacts ==
  ASSUME IdeSizes, IdeInv
  PROVE  /\ ata \in IdeCall /\ ata.d \in IdeDrives /\ ata.lba \in 1 .. IdeSectors /\ ata.c \in Nat /\ ata.count \in Nat
         /\ ata.out \in Seq(IdeData) /\ selected \in IdeDrives /\ drive \in [IdeDrives -> IdeDrive]
         /\ surface \in [IdeDrives -> [IdeSector -> IdeData]] /\ refused \subseteq IdeDrives \X IdeSector
         /\ IdeSectors \in Nat \ {0} /\ ata.call \in 0 .. IdeCalls
         /\ ata.pc \in {"ready", "command", "drq", "words", "flush", "flushed"} => Ide!Cur \in IdeSector
BY DEF IdeInv, IdeTypes, IdeCall, IdeSizes, Ide!Cur, Within, IdeSector

LEMMA WaitNotBusyKeeps == ASSUME IdeSizes, IdeInv, Ide!WaitNotBusy PROVE IdeInv'
<1>1. /\ ata.pc \in {"ready", "flushed"} /\ UNCHANGED <<selected, drive, surface, refused>>
      /\ ata' = IF Ide!Status.bsy THEN [ata EXCEPT !.pc = "failed"]
                ELSE IF ata.pc = "ready" THEN [ata EXCEPT !.pc = "command"] ELSE Ide!NextSector
  BY DEF Ide!WaitNotBusy
<1>2. PICK x \in IdeCall : x = ata
  BY IdeFacts
<1>3. CASE Ide!Status.bsy
  <2>1. ata' = [x EXCEPT !.pc = "failed"]
    BY <1>1, <1>2, <1>3
  <2>2. /\ ata' \in IdeCall /\ ata'.pc = "failed" /\ ata'.op = x.op /\ ata'.lba = x.lba /\ ata'.count = x.count
        /\ ata'.c = x.c /\ ata'.out = x.out /\ ata'.d = x.d
    BY <2>1 DEF IdeCall
  <2>3. QED BY <1>1, <1>2, <2>2
             DEF IdeInv, IdeTypes, Within, Alone, Buffered, Behind, Placed, Ide!Cur, IdeStored
<1>4. CASE ~Ide!Status.bsy /\ ata.pc = "ready"
  <2>1. ata' = [x EXCEPT !.pc = "command"]
    BY <1>1, <1>2, <1>4
  <2>2. /\ ata' \in IdeCall /\ ata'.pc = "command" /\ ata'.op = x.op /\ ata'.lba = x.lba /\ ata'.count = x.count
        /\ ata'.c = x.c /\ ata'.out = x.out /\ ata'.d = x.d /\ ata'.call = x.call
    BY <2>1 DEF IdeCall
  <2>3. IdeTypes' /\ Within' /\ Buffered' /\ Placed'
    BY <1>1, <1>2, <1>4, <2>2 DEF IdeInv, IdeTypes, Within, Buffered, Placed
  <2>4. Alone'
    BY <1>1, <1>4, <2>2 DEF IdeInv, Alone, Ide!Status
  <2>5. Behind'
    BY <1>1, <1>2, <1>4, <2>2 DEF IdeInv, Behind, IdeStored
  <2>6. QED BY <2>3, <2>4, <2>5 DEF IdeInv
<1>5. CASE ~Ide!Status.bsy /\ ata.pc = "flushed"
  <2>1. ata' = Ide!NextSector
    BY <1>1, <1>5
  <2>2. /\ ata' \in IdeCall /\ ata'.pc \in {"ready", "done"} /\ ata'.c = x.c + 1
        /\ ata'.op = x.op /\ ata'.d = x.d /\ ata'.lba = x.lba
        /\ ata'.count = x.count /\ ata'.call = x.call /\ ata'.out = x.out
        /\ ata'.pc = "ready" => ata'.c < x.count
        /\ ata'.pc = "done" => ata'.c = x.count
    BY <1>2, <1>5, <2>1, NextSectorEffect
  <2>3. IdeTypes' /\ Within' /\ Buffered' /\ Placed'
    BY <1>1, <1>2, <1>5, <2>2 DEF IdeInv, IdeTypes, Within, Buffered, Placed
  <2>4. Alone'
    BY <1>1, <1>5, <2>2 DEF IdeInv, Alone, Ide!Status
  <2>5. x.op = "write" /\ IdeStored(Ide!Cur)
    BY <1>2, <1>5 DEF IdeInv, Alone, Ide!Status
  <2>6. ASSUME NEW i \in 1 .. x.c + 1
        PROVE  IdeStored(x.lba + i - 1)'
    <3>1. CASE i = x.c + 1
      <4>1. x.lba + i - 1 = Ide!Cur
        BY <1>2, <3>1, IdeFacts DEF Ide!Cur
      <4>2. QED BY <1>1, <1>2, <2>2, <2>5, <4>1 DEF IdeStored
    <3>2. CASE i # x.c + 1
      <4>1. i \in 1 .. x.c
        BY <1>2, <3>2, IdeFacts
      <4>2. IdeStored(x.lba + i - 1)
        BY <1>2, <1>5, <2>5, <4>1 DEF IdeInv, Behind
      <4>3. QED BY <1>1, <1>2, <2>2, <4>2 DEF IdeStored
    <3>3. QED BY <3>1, <3>2
  <2>7. Behind'
    BY <2>2, <2>5, <2>6 DEF Behind
  <2>8. QED BY <2>3, <2>4, <2>7 DEF IdeInv
<1>6. QED BY <1>1, <1>3, <1>4, <1>5

LEMMA CommandKeeps == ASSUME IdeSizes, IdeInv, Ide!Command PROVE IdeInv'
<1>1. /\ ata.pc = "command" /\ selected' = ata.d /\ drive' = [drive EXCEPT ![ata.d] = Ide!Told(ata.d, ata.op, Ide!Cur)]
      /\ ata' = [ata EXCEPT !.pc = "drq"] /\ surface' = surface /\ refused' = refused
  BY DEF Ide!Command
<1>2. PICK x \in IdeCall : x = ata
  BY IdeFacts
<1>3. /\ ata' \in IdeCall /\ ata'.pc = "drq" /\ ata'.op = x.op /\ ata'.lba = x.lba /\ ata'.count = x.count
      /\ ata'.c = x.c /\ ata'.out = x.out /\ ata'.d = x.d /\ ata'.call = x.call
  BY <1>1, <1>2 DEF IdeCall
<1>4. \A d \in IdeDrives : ~drive[d].bsy
  BY <1>1 DEF IdeInv, Alone
<1>5. x.op \in {"read", "write"} /\ Ide!Cur \in IdeSector /\ x.d \in IdeDrives
  BY <1>1, <1>2, IdeFacts DEF IdeInv, Within, IdeCall
<1>6. PICK y \in IdeDrive : y = drive[x.d]
  BY <1>5, IdeFacts
<1>7. PICK s \in IdeSector : s = Ide!Cur
  BY <1>5
<1>8. PICK z : z = [y EXCEPT !.bsy = TRUE, !.drq = FALSE, !.err = FALSE, !.op = x.op, !.s = s]
  OBVIOUS
<1>9. z \in IdeDrive /\ z.op = x.op /\ z.s = s /\ z.bsy
  BY <1>5, <1>8, Zenon DEF IdeDrive
<1>10. drive' = [drive EXCEPT ![x.d] = z]
  BY <1>1, <1>2, <1>4, <1>5, <1>6, <1>7, <1>8 DEF Ide!Told
<1>11. drive' \in [IdeDrives -> IdeDrive] /\ drive'[x.d] = z
       /\ \A d \in IdeDrives : d # x.d => drive'[d] = drive[d]
  BY <1>5, <1>9, <1>10, IdeFacts
<1>12. IdeTypes' /\ Within' /\ Placed'
  BY <1>1, <1>2, <1>3, <1>5, <1>11 DEF IdeInv, IdeTypes, Within, Placed
<1>13. Ide!Cur' = s
  BY <1>2, <1>3, <1>7 DEF Ide!Cur
<1>14. Alone'
  BY <1>1, <1>2, <1>3, <1>4, <1>5, <1>9, <1>11, <1>13 DEF Alone
<1>15. Buffered'
  BY <1>1, <1>5, <1>9, <1>11 DEF IdeInv, Buffered
<1>16. Behind'
  BY <1>1, <1>2, <1>3 DEF IdeInv, Behind, IdeStored
<1>17. QED BY <1>12, <1>14, <1>15, <1>16 DEF IdeInv

LEMMA WaitDrqKeeps == ASSUME IdeSizes, IdeInv, Ide!WaitDrq PROVE IdeInv'
<1>1. /\ ata.pc = "drq" /\ UNCHANGED <<selected, drive, surface, refused>>
      /\ ata' = [ata EXCEPT !.pc = IF ~Ide!Status.err /\ ~Ide!Status.bsy /\ Ide!Status.drq THEN "words" ELSE "failed"]
  BY DEF Ide!WaitDrq
<1>2. PICK x \in IdeCall : x = ata
  BY IdeFacts
<1>3. PICK p \in {"words", "failed"} : p = IF ~Ide!Status.err /\ ~Ide!Status.bsy /\ Ide!Status.drq THEN "words" ELSE "failed"
  OBVIOUS
<1>4. /\ ata' \in IdeCall /\ ata'.pc = p /\ ata'.op = x.op /\ ata'.lba = x.lba /\ ata'.count = x.count
      /\ ata'.c = x.c /\ ata'.out = x.out /\ ata'.d = x.d /\ ata'.call = x.call
  <2>1. ata' = [x EXCEPT !.pc = p]
    BY <1>1, <1>2, <1>3
  <2>2. QED BY <2>1 DEF IdeCall
<1>5. p = "words" => ~drive[selected].bsy /\ drive[selected].drq
  BY <1>3 DEF Ide!Status
<1>6. IdeTypes' /\ Within' /\ Buffered' /\ Placed'
  BY <1>1, <1>2, <1>4 DEF IdeInv, IdeTypes, Within, Buffered, Placed
<1>7. Ide!Cur' = Ide!Cur
  BY <1>2, <1>4 DEF Ide!Cur
<1>8. Alone'
  BY <1>1, <1>2, <1>4, <1>5, <1>7 DEF IdeInv, Alone
<1>9. Behind'
  BY <1>1, <1>2, <1>4 DEF IdeInv, Behind, IdeStored
<1>10. QED BY <1>6, <1>8, <1>9 DEF IdeInv

LEMMA ReadWordsKeeps == ASSUME IdeSizes, IdeInv, Ide!ReadWords PROVE IdeInv'
<1>1. /\ ata.pc = "words" /\ ata.op = "read" /\ drive' = [drive EXCEPT ![selected].drq = FALSE]
      /\ ata' = [Ide!NextSector EXCEPT !.out = Append(@, Ide!Status.word)] /\ UNCHANGED <<selected, surface, refused>>
  BY DEF Ide!ReadWords
<1>2. PICK x \in IdeCall : x = ata
  BY IdeFacts
<1>3. selected = x.d /\ x.d \in IdeDrives
  BY <1>1, <1>2 DEF IdeInv, Alone, IdeCall
<1>4. PICK y \in IdeDrive : y = drive[x.d]
  BY <1>3, IdeFacts
<1>5. y.s = Ide!Cur /\ y.op = "read" /\ ~y.bsy /\ y.drq /\ y.word = surface[x.d][Ide!Cur]
  BY <1>1, <1>2, <1>3, <1>4 DEF IdeInv, Alone, Buffered
<1>6. PICK z : z = [y EXCEPT !.drq = FALSE]
  OBVIOUS
<1>7. z \in IdeDrive /\ z.bsy = y.bsy /\ z.drq = FALSE /\ z.op = y.op
  BY <1>6, Zenon DEF IdeDrive
<1>8. drive' = [drive EXCEPT ![x.d] = z]
  BY <1>1, <1>3, <1>4, <1>6
<1>9. drive' \in [IdeDrives -> IdeDrive] /\ drive'[x.d] = z
      /\ \A d \in IdeDrives : d # x.d => drive'[d] = drive[d]
  BY <1>3, <1>7, <1>8, IdeFacts
<1>10. PICK n \in IdeCall : n = Ide!NextSector
  BY <1>1, NextSectorEffect
<1>11. /\ n.pc \in {"ready", "done"} /\ n.c = x.c + 1 /\ n.op = x.op /\ n.d = x.d /\ n.lba = x.lba
       /\ n.count = x.count /\ n.call = x.call /\ n.out = x.out
       /\ n.pc = "ready" => n.c < x.count
       /\ n.pc = "done" => n.c = x.count
  BY <1>1, <1>2, <1>10, NextSectorEffect
<1>12. PICK o \in Seq(IdeData) : o = Append(x.out, y.word)
  <2>1. x.out \in Seq(IdeData) /\ y.word \in IdeData
    BY DEF IdeCall, IdeDrive
  <2>2. Append(x.out, y.word) \in Seq(IdeData)
    BY <2>1, AppendProperties
  <2>3. QED BY <2>2
<1>13. ata' = [n EXCEPT !.out = o]
  BY <1>1, <1>3, <1>4, <1>10, <1>11, <1>12 DEF Ide!Status
<1>14. /\ ata' \in IdeCall /\ ata'.pc = n.pc /\ ata'.op = x.op /\ ata'.lba = x.lba /\ ata'.count = x.count
       /\ ata'.c = x.c + 1 /\ ata'.out = o /\ ata'.d = x.d /\ ata'.call = x.call
  BY <1>11, <1>13 DEF IdeCall
<1>15. IdeTypes' /\ Within' /\ Placed'
  BY <1>1, <1>2, <1>9, <1>11, <1>14 DEF IdeInv, IdeTypes, Within, Placed
<1>16. Alone'
  BY <1>1, <1>2, <1>3, <1>4, <1>5, <1>7, <1>9, <1>11, <1>14 DEF IdeInv, Alone
<1>17. Buffered'
  BY <1>1, <1>5, <1>7, <1>9 DEF IdeInv, Buffered
<1>18. Len(x.out) = x.c /\ x.out \in Seq(IdeData) /\ x.c \in Nat /\ x.lba \in Nat
  BY <1>1, <1>2 DEF IdeInv, Behind, IdeCall, IdeSector
<1>19. Len(o) = x.c + 1 /\ o[x.c + 1] = y.word /\ \A i \in 1 .. x.c : o[i] = x.out[i]
  BY <1>12, <1>18
<1>20. ASSUME NEW i \in 1 .. x.c + 1 PROVE o[i] = surface[x.d][x.lba + i - 1]
  <2>1. CASE i = x.c + 1
    <3>1. x.lba + i - 1 = Ide!Cur
      BY <1>2, <1>18, <2>1 DEF Ide!Cur
    <3>2. QED BY <1>5, <1>19, <2>1, <3>1
  <2>2. CASE i # x.c + 1
    <3>1. i \in 1 .. x.c
      BY <1>18, <2>2
    <3>2. x.out[i] = surface[x.d][x.lba + i - 1]
      BY <1>1, <1>2, <3>1 DEF IdeInv, Behind
    <3>3. QED BY <1>19, <3>1, <3>2
  <2>3. QED BY <2>1, <2>2
<1>21. Behind'
  BY <1>1, <1>2, <1>14, <1>19, <1>20 DEF Behind
<1>22. QED BY <1>15, <1>16, <1>17, <1>21 DEF IdeInv

LEMMA WriteWordsKeeps == ASSUME IdeSizes, IdeInv, Ide!WriteWords PROVE IdeInv'
<1>1. /\ ata.pc = "words" /\ ata.op = "write" /\ ata' = [ata EXCEPT !.pc = "flush"]
      /\ drive' = [drive EXCEPT ![selected].drq = FALSE, ![selected].bsy = TRUE,
                                ![selected].op = "store", ![selected].word = Ide!Data(ata.d, Ide!Cur, ata.call)]
      /\ UNCHANGED <<selected, surface, refused>>
  BY DEF Ide!WriteWords
<1>2. PICK x \in IdeCall : x = ata
  BY IdeFacts
<1>3. selected = x.d /\ x.d \in IdeDrives
  BY <1>1, <1>2 DEF IdeInv, Alone, IdeCall
<1>4. PICK y \in IdeDrive : y = drive[x.d]
  BY <1>3, IdeFacts
<1>5. PICK s \in IdeSector : s = Ide!Cur /\ s = y.s
  BY <1>1, <1>2, <1>3, <1>4, IdeFacts DEF IdeInv, Alone
<1>6. PICK w \in IdeData : w = Ide!Data(x.d, s, x.call) /\ w[1] = x.d /\ w[2] = s
  <2>1. x.call \in 0 .. IdeCalls
    BY DEF IdeCall
  <2>2. <<x.d, s, x.call>> \in IdeData
    BY <1>3, <2>1 DEF IdeData
  <2>3. QED BY <2>2 DEF Ide!Data
<1>7. PICK z : z = [y EXCEPT !.drq = FALSE, !.bsy = TRUE, !.op = "store", !.word = w]
  OBVIOUS
<1>8. z \in IdeDrive /\ z.bsy /\ z.op = "store" /\ z.word = w /\ z.s = s
  BY <1>5, <1>7, Zenon DEF IdeDrive
<1>9. drive' = [drive EXCEPT ![x.d] = z]
  BY <1>1, <1>2, <1>3, <1>4, <1>5, <1>6, <1>7, IdeFacts
<1>10. drive' \in [IdeDrives -> IdeDrive] /\ drive'[x.d] = z
       /\ \A d \in IdeDrives : d # x.d => drive'[d] = drive[d]
  BY <1>3, <1>8, <1>9, IdeFacts
<1>11. /\ ata' \in IdeCall /\ ata'.pc = "flush" /\ ata'.op = x.op /\ ata'.lba = x.lba /\ ata'.count = x.count
       /\ ata'.c = x.c /\ ata'.out = x.out /\ ata'.d = x.d /\ ata'.call = x.call
  BY <1>1, <1>2 DEF IdeCall
<1>12. IdeTypes' /\ Within' /\ Placed'
  BY <1>1, <1>2, <1>10, <1>11 DEF IdeInv, IdeTypes, Within, Placed
<1>13. Ide!Cur' = s
  BY <1>2, <1>5, <1>11 DEF Ide!Cur
<1>14. Alone'
  <2>1. \A d \in IdeDrives : d # x.d => ~drive[d].bsy
    BY <1>3 DEF IdeInv, Alone
  <2>2. selected' = x.d /\ ata'.pc = "flush" /\ ata'.op = "write" /\ ata'.d = x.d /\ ata'.call = x.call
    BY <1>1, <1>2, <1>3, <1>11
  <2>3. \A d \in IdeDrives : d # selected' => ~drive'[d].bsy
    BY <1>10, <2>1, <2>2
  <2>4. drive'[x.d].s = s /\ drive'[x.d].op = "store" /\ drive'[x.d].bsy /\ drive'[x.d].word = w
    BY <1>8, <1>10
  <2>5. w = Ide!Data(x.d, s, x.call)
    BY <1>6
  <2>6. QED BY <1>13, <2>2, <2>3, <2>4, <2>5 DEF Alone
<1>15. Buffered'
  <2>1. z.word[1] = x.d /\ z.word[2] = z.s
    BY <1>6, <1>8
  <2>2. z.op # "read"
    BY <1>8
  <2>3. \A e \in IdeDrives : e # x.d =>
          /\ drive[e].op = "read" /\ ~drive[e].bsy /\ drive[e].drq => drive[e].word = surface[e][drive[e].s]
          /\ drive[e].op = "store" => drive[e].word[1] = e /\ drive[e].word[2] = drive[e].s
    BY DEF IdeInv, Buffered
  <2>4. surface' = surface
    BY <1>1
  <2>5. ASSUME NEW e \in IdeDrives
        PROVE  /\ drive'[e].op = "read" /\ ~drive'[e].bsy /\ drive'[e].drq => drive'[e].word = surface'[e][drive'[e].s]
               /\ drive'[e].op = "store" => drive'[e].word[1] = e /\ drive'[e].word[2] = drive'[e].s
    <3>1. CASE e = x.d
      BY <1>10, <2>1, <2>2, <3>1
    <3>2. CASE e # x.d
      <4>1. drive'[e] = drive[e]
        BY <1>10, <3>2
      <4>2. QED BY <2>3, <2>4, <3>2, <4>1
    <3>3. QED BY <3>1, <3>2
  <2>6. QED BY <2>5 DEF Buffered
<1>16. Behind'
  BY <1>1, <1>2, <1>11 DEF IdeInv, Behind, IdeStored
<1>17. QED BY <1>12, <1>14, <1>15, <1>16 DEF IdeInv

LEMMA CacheFlushKeeps == ASSUME IdeSizes, IdeInv, Ide!CacheFlush PROVE IdeInv'
<1>1. /\ ata.pc = "flush" /\ ata' = [ata EXCEPT !.pc = "flushed"]
      /\ drive' = [drive EXCEPT ![selected] = Ide!Told(selected, "flush", @.s)]
      /\ UNCHANGED <<selected, surface, refused>>
  BY DEF Ide!CacheFlush
<1>2. PICK x \in IdeCall : x = ata
  BY IdeFacts
<1>3. selected = x.d /\ x.d \in IdeDrives /\ x.op = "write"
  BY <1>1, <1>2 DEF IdeInv, Alone, IdeCall
<1>4. PICK y \in IdeDrive : y = drive[x.d]
  BY <1>3, IdeFacts
<1>5. /\ ata' \in IdeCall /\ ata'.pc = "flushed" /\ ata'.op = x.op /\ ata'.lba = x.lba /\ ata'.count = x.count
      /\ ata'.c = x.c /\ ata'.out = x.out /\ ata'.d = x.d /\ ata'.call = x.call
  BY <1>1, <1>2 DEF IdeCall
<1>6. Ide!Cur' = Ide!Cur
  BY <1>2, <1>5 DEF Ide!Cur
<1>7. Within' /\ Placed' /\ Behind'
  BY <1>1, <1>2, <1>5 DEF IdeInv, Within, Placed, Behind, IdeStored
<1>8. CASE y.bsy
  <2>1. drive' = drive
    BY <1>1, <1>3, <1>4, <1>8, IdeFacts DEF Ide!Told
  <2>2. IdeTypes' /\ Alone' /\ Buffered'
    BY <1>1, <1>2, <1>3, <1>5, <1>6, <2>1 DEF IdeInv, IdeTypes, Alone, Buffered, IdeStored
  <2>3. QED BY <1>7, <2>2 DEF IdeInv
<1>9. CASE ~y.bsy
  <2>1. PICK z : z = [y EXCEPT !.bsy = TRUE, !.drq = FALSE, !.err = FALSE, !.op = "flush", !.s = y.s]
    OBVIOUS
  <2>2. z \in IdeDrive /\ z.op = "flush" /\ z.s = y.s /\ z.bsy
    BY <2>1, Zenon DEF IdeDrive
  <2>3. drive' = [drive EXCEPT ![x.d] = z]
    BY <1>1, <1>3, <1>4, <1>9, <2>1, IdeFacts DEF Ide!Told
  <2>4. drive' \in [IdeDrives -> IdeDrive] /\ drive'[x.d] = z
        /\ \A d \in IdeDrives : d # x.d => drive'[d] = drive[d]
    BY <1>3, <2>2, <2>3, IdeFacts
  <2>5. y.s = Ide!Cur /\ IdeStored(Ide!Cur)
    BY <1>1, <1>2, <1>3, <1>4, <1>9 DEF IdeInv, Alone
  <2>6. IdeTypes'
    BY <1>1, <1>5, <2>4 DEF IdeInv, IdeTypes
  <2>7. IdeStored(Ide!Cur)'
    BY <1>1, <1>2, <1>5, <1>6, <2>5 DEF IdeStored
  <2>8. Alone'
    BY <1>1, <1>2, <1>3, <1>5, <1>6, <2>2, <2>4, <2>5, <2>7 DEF IdeInv, Alone
  <2>9. Buffered'
    BY <1>1, <2>2, <2>4 DEF IdeInv, Buffered
  <2>10. QED BY <1>7, <2>6, <2>8, <2>9 DEF IdeInv
<1>10. QED BY <1>8, <1>9

LEMMA EndsKeeps ==
  ASSUME IdeSizes, IdeInv, NEW d \in IdeDrives, NEW err \in BOOLEAN, Ide!Ends(d, err)
  PROVE  IdeInv'
<1>1. /\ drive[d].bsy /\ UNCHANGED <<ata, selected>>
      /\ drive' = [drive EXCEPT ![d].bsy = FALSE, ![d].err = err,
                                ![d].drq = ~err /\ drive[d].op \in {"read", "write"},
                                ![d].word = IF drive[d].op = "read" /\ ~err THEN surface[d][drive[d].s] ELSE @]
      /\ IF drive[d].op = "store"
         THEN /\ surface' = IF err THEN surface ELSE [surface EXCEPT ![d][drive[d].s] = drive[d].word]
              /\ refused' = IF err THEN refused \cup {<<d, drive[d].s>>} ELSE refused \ {<<d, drive[d].s>>}
         ELSE UNCHANGED <<surface, refused>>
  BY DEF Ide!Ends
<1>2. d = selected /\ ata.pc \notin {"command", "words"} /\ (ata.pc \in {"ready", "done"} => ~(ata.c > 0))
  BY <1>1 DEF IdeInv, Alone
<1>3. PICK y \in IdeDrive : y = drive[d]
  BY IdeFacts
<1>4. PICK x \in IdeCall : x = ata
  BY IdeFacts
<1>5. y.s \in IdeSector /\ y.word \in IdeData /\ x.c \in Nat /\ x.lba \in Nat
  BY DEF IdeDrive, IdeCall, IdeSector
<1>6. PICK w \in IdeData : w = IF y.op = "read" /\ ~err THEN surface[d][y.s] ELSE y.word
  BY <1>5, IdeFacts
<1>7. PICK q \in BOOLEAN : q = (~err /\ y.op \in {"read", "write"})
  BY Zenon
<1>8. PICK z : z = [y EXCEPT !.bsy = FALSE, !.err = err, !.drq = q, !.word = w]
  OBVIOUS
<1>9. z \in IdeDrive /\ z.bsy = FALSE /\ z.drq = q /\ z.op = y.op /\ z.s = y.s /\ z.word = w
  BY <1>8, Zenon DEF IdeDrive
<1>10. drive' = [drive EXCEPT ![d] = z]
  BY <1>1, <1>3, <1>6, <1>7, <1>8, IdeFacts
<1>11. drive' \in [IdeDrives -> IdeDrive] /\ drive'[d] = z
       /\ \A e \in IdeDrives : e # d => drive'[e] = drive[e]
  BY <1>9, <1>10, IdeFacts
<1>12. \A e \in IdeDrives : ~drive'[e].bsy
  BY <1>2, <1>9, <1>11 DEF IdeInv, Alone
<1>13. Ide!Cur' = Ide!Cur
  BY <1>1 DEF Ide!Cur
<1>14. Within'
  BY <1>1 DEF IdeInv, Within
<1>15. CASE y.op # "store"
  <2>1. UNCHANGED <<surface, refused>>
    BY <1>1, <1>3, <1>15
  <2>2. IdeTypes' /\ Placed' /\ Behind'
    BY <1>1, <1>11, <2>1 DEF IdeInv, IdeTypes, Placed, Behind, IdeStored
  <2>3. \A s : IdeStored(s)' <=> IdeStored(s)
    BY <1>1, <2>1 DEF IdeStored
  <2>4. Alone'
    BY <1>1, <1>2, <1>3, <1>9, <1>11, <1>12, <1>13, <1>15, <2>1, <2>3 DEF IdeInv, Alone
  <2>5. Buffered'
    <3>1. z.op = "read" /\ z.drq => w = surface[d][z.s]
      BY <1>6, <1>7, <1>9
    <3>2. QED BY <1>9, <1>11, <1>15, <2>1, <3>1 DEF IdeInv, Buffered
  <2>6. QED BY <1>14, <2>2, <2>4, <2>5 DEF IdeInv
<1>16. CASE y.op = "store"
  <2>1. /\ surface' = IF err THEN surface ELSE [surface EXCEPT ![d][y.s] = y.word]
        /\ refused' = IF err THEN refused \cup {<<d, y.s>>} ELSE refused \ {<<d, y.s>>}
    BY <1>1, <1>3, <1>16
  <2>2. /\ surface' \in [IdeDrives -> [IdeSector -> IdeData]] /\ refused' \subseteq IdeDrives \X IdeSector
        /\ \A e \in IdeDrives, s \in IdeSector : ~(e = d /\ s = y.s) => surface'[e][s] = surface[e][s]
        /\ ~err => surface'[d][y.s] = y.word
        /\ err => surface' = surface
    BY <1>5, <2>1, IdeFacts
  <2>3. \A e, s : ~(e = d /\ s = y.s) => (<<e, s>> \in refused' <=> <<e, s>> \in refused)
    BY <2>1
  <2>4. err <=> <<d, y.s>> \in refused'
    BY <2>1
  <2>5. IdeTypes'
    BY <1>1, <1>11, <2>2 DEF IdeInv, IdeTypes
  <2>6. y.word[1] = d /\ y.word[2] = y.s
    BY <1>3, <1>16 DEF IdeInv, Buffered
  <2>7. Placed'
    BY <1>5, <2>2, <2>6 DEF IdeInv, Placed
  <2>8. Buffered'
    <3>1. \A e \in IdeDrives : e # d => surface'[e] = surface[e]
      BY <2>1, IdeFacts
    <3>2. w = y.word
      BY <1>6, <1>16
    <3>3. QED BY <1>9, <1>11, <1>16, <2>6, <3>1, <3>2 DEF IdeInv, Buffered
  <2>9. ata.pc \in {"flush", "flushed"} => y.s = Ide!Cur /\ d = x.d /\ y.word = Ide!Data(x.d, Ide!Cur, x.call) /\ x.op = "write"
    BY <1>2, <1>3, <1>4, <1>16 DEF IdeInv, Alone
  <2>10. ata.pc # "drq"
    <3>1. x.op # "store"
      BY DEF IdeCall
    <3>2. QED BY <1>2, <1>3, <1>4, <1>16, <3>1 DEF IdeInv, Alone
  <2>11. ata.pc \in {"flush", "flushed"} => IdeStored(Ide!Cur)'
    BY <1>1, <1>4, <1>13, <2>2, <2>4, <2>9 DEF IdeStored
  <2>12. Alone'
    BY <1>1, <1>2, <1>3, <1>9, <1>11, <1>12, <1>13, <2>10, <2>11 DEF IdeInv, Alone
  <2>13. Behind'
    <3>1. CASE ata.pc \in {"flush", "flushed"}
      <4>1. ASSUME NEW i \in 1 .. x.c PROVE IdeStored(x.lba + i - 1)'
        <5>1. x.lba + i - 1 \in IdeSector /\ x.lba + i - 1 # Ide!Cur
          BY <1>4, <1>5, <3>1, IdeFacts DEF Ide!Cur, IdeSector
        <5>2. IdeStored(x.lba + i - 1)
          BY <1>4, <2>9, <3>1 DEF IdeInv, Behind
        <5>3. d = x.d /\ y.s = Ide!Cur /\ x.d \in IdeDrives
          BY <2>9, <3>1
        <5>4. surface'[x.d][x.lba + i - 1] = surface[x.d][x.lba + i - 1]
          BY <2>2, <5>1, <5>3
        <5>5. <<x.d, x.lba + i - 1>> \in refused' <=> <<x.d, x.lba + i - 1>> \in refused
          BY <2>3, <5>1, <5>3
        <5>6. QED BY <1>1, <1>4, <5>2, <5>4, <5>5 DEF IdeStored
      <4>2. QED BY <1>1, <1>4, <2>9, <3>1, <4>1 DEF Behind
    <3>2. CASE ata.pc \in {"ready", "done"}
      <4>1. 1 .. x.c = {}
        BY <1>2, <1>4, <1>5, <3>2
      <4>2. QED BY <1>1, <1>4, <4>1 DEF IdeInv, Behind
    <3>3. CASE ata.pc \in {"idle", "failed"}
      BY <1>1, <3>3 DEF IdeInv, Behind
    <3>4. QED BY <1>2, <1>4, <2>10, <3>1, <3>2, <3>3 DEF IdeCall
  <2>14. QED BY <1>14, <2>5, <2>7, <2>8, <2>12, <2>13 DEF IdeInv
<1>17. QED BY <1>15, <1>16

LEMMA IdeStepKeeps == ASSUME IdeSizes, IdeInv, [Ide!Next]_(Ide!ataVars) PROVE IdeInv'
<1>1. CASE UNCHANGED Ide!ataVars
  BY <1>1 DEF Ide!ataVars, IdeInv, IdeTypes, Within, Alone, Buffered, Behind, Placed, IdeStored, Ide!Cur
<1>2. CASE \E op \in {"read", "write"}, d \in IdeDrives, s, n \in 1 .. IdeSectors :
             s + n - 1 <= IdeSectors /\ Ide!Call(op, d, s, n)
  BY <1>2, IdeCallKeeps DEF IdeSector
<1>3. QED BY <1>1, <1>2, WaitNotBusyKeeps, CommandKeeps, WaitDrqKeeps, ReadWordsKeeps, WriteWordsKeeps,
             CacheFlushKeeps, EndsKeeps DEF Ide!Next

LEMMA IdeTrue == ASSUME IdeSizes, IdeInv PROVE Ide!AtaTrue
BY IdeFacts DEF IdeInv, Placed, Behind, Within, Ide!AtaTrue, IdeStored, IdeSector

LEMMA IdeTypeOK == ASSUME IdeSizes, IdeInv PROVE Ide!TypeOK
BY IdeFacts DEF IdeInv, IdeTypes, IdeCall, IdeDrive, Ide!TypeOK

-----------------------------------------------------------------------------
(* The clock: registers that move on while they are read.                    *)
HourForm == [h : 0 .. 23, pm : BOOLEAN]
Registers == [sec : 0 .. RtcSeconds - 1, hour : HourForm, day : Nat]
Times == [sec : 0 .. RtcSeconds - 1, hour : 0 .. 23, day : Nat]
RegValue == Int \cup HourForm
RtcCall == [pc : {"idle", "waitA", "a", "waitB", "b", "compare", "write", "done", "unset"}, set : BOOLEAN, try : 0 .. RtcRetries,
            a : Seq(RegValue), b : Seq(RegValue), t : Times]
RtcTodo == {Clock!Fields, <<"hour", "day">>, <<"day">>, <<>>}

RtcTypes ==
    /\ time \in Times /\ regs \in Registers /\ since \subseteq Times /\ rtc \in RtcCall
    /\ chip \in [uip : BOOLEAN, todo : RtcTodo, h12 : BOOLEAN, ticks : 0 .. RtcTicks]
    /\ chip.uip => chip.ticks > 0
    /\ rtc.pc \in {"waitA", "a", "waitB", "b", "compare"} => rtc.try < RtcRetries

(* The registers hold the time, or those that were moved on the next second, *)
(* unless what was written is no hour.                                       *)
Next1 == Clock!Held(Clock!Later(time), chip.h12)
This1 == Clock!Held(time, chip.h12)
InRegs ==
    /\ regs.sec = IF chip.uip /\ chip.todo # Clock!Fields THEN Next1.sec ELSE This1.sec
    /\ regs.hour = IF chip.uip /\ chip.todo \in {<<"day">>, <<>>} THEN Next1.hour ELSE This1.hour
    /\ regs.day = IF chip.uip /\ chip.todo = <<>> THEN Next1.day ELSE This1.day
Moving == (rtc.pc # "unset" => InRegs) /\ (~chip.uip => chip.todo = <<>>)

(* The time n seconds after t, before the second change of the hour.         *)
After(t, n) ==
    IF t.sec + n < RtcSeconds THEN [sec |-> t.sec + n, hour |-> t.hour, day |-> t.day]
    ELSE [sec |-> t.sec + n - RtcSeconds, hour |-> (t.hour + 1) % 24,
          day |-> IF (t.hour + 1) % 24 = 0 THEN t.day + 1 ELSE t.day]

(* A register read between two of the times.                                 *)
Reading(t, x, j, lo, hi) == \E i \in lo .. hi : x = Clock!Held(After(t, i), chip.h12)[Clock!Fields[j]]

(* Where a call is that began at t, k seconds ago: the first reading is of   *)
(* times before the second began, the second one of times after that.        *)
Ahead(k) == IF chip.uip THEN k + 1 ELSE k
First(t, k) == \A j \in 1 .. Len(rtc.a) : Reading(t, rtc.a[j], j, 0, k)
Second(t, lo, hi) == \A j \in 1 .. Len(rtc.b) : Reading(t, rtc.b[j], j, lo, hi)
Since(t, k) ==
    /\ time = After(t, k) /\ Ahead(k) <= chip.ticks /\ \A i \in 0 .. k : After(t, i) \in since
    /\ rtc.pc \in {"a", "waitB"} => First(t, Ahead(k))
    /\ rtc.pc \in {"b", "compare"} => \E v \in 0 .. k : First(t, v) /\ Second(t, v, Ahead(k))

Running ==
    /\ rtc.pc \in {"waitA", "a", "waitB", "b", "compare"} => \E t \in Times, k \in Nat : Since(t, k)
    /\ rtc.pc \in {"waitA", "a", "waitB", "b", "compare"} => rtc.t = Clock!Zero
    /\ rtc.pc = "a" => Len(rtc.a) <= 2
    /\ rtc.pc \in {"waitB", "b", "compare"} => Len(rtc.a) = 3
    /\ rtc.pc = "b" => Len(rtc.b) <= 2
    /\ rtc.pc = "compare" => Len(rtc.b) = 3

RtcInv == RtcTypes /\ Moving /\ Running /\ Clock!RtcTrue

-----------------------------------------------------------------------------
LEMMA SecondsOn ==
  ASSUME RtcSizes
  PROVE  /\ RtcSeconds \in Nat /\ RtcSeconds > 0 /\ RtcTicks \in Nat /\ RtcTicks < RtcSeconds
         /\ \A s \in 0 .. RtcSeconds - 1 : (s + 1) % RtcSeconds = IF s + 1 = RtcSeconds THEN 0 ELSE s + 1
<1>1. RtcSeconds \in Nat /\ RtcTicks \in Nat /\ RtcTicks < RtcSeconds
  BY DEF RtcSizes
<1>2. ASSUME NEW s \in 0 .. RtcSeconds - 1
      PROVE  (s + 1) % RtcSeconds = IF s + 1 = RtcSeconds THEN 0 ELSE s + 1
  BY <1>1
<1>3. QED BY <1>1, <1>2

LEMMA AfterFacts ==
  ASSUME RtcSizes, NEW t \in Times, NEW n \in Nat, n < RtcSeconds
  PROVE  /\ After(t, n) \in Times /\ After(t, 0) = t
         /\ After(t, n).sec = IF t.sec + n < RtcSeconds THEN t.sec + n ELSE t.sec + n - RtcSeconds
         /\ After(t, n).hour = IF t.sec + n < RtcSeconds THEN t.hour ELSE (t.hour + 1) % 24
         /\ After(t, n).day = IF t.sec + n < RtcSeconds \/ (t.hour + 1) % 24 # 0 THEN t.day ELSE t.day + 1
<1>1. t.sec \in 0 .. RtcSeconds - 1 /\ t.hour \in 0 .. 23 /\ t.day \in Nat /\ RtcSeconds \in Nat
  BY SecondsOn DEF Times
<1>2. (t.hour + 1) % 24 \in 0 .. 23
  BY <1>1
<1>3. After(t, 0) = t
  BY <1>1 DEF After, Times
<1>4. PICK h \in 0 .. 23 : h = (t.hour + 1) % 24
  BY <1>2
<1>5. CASE t.sec + n < RtcSeconds
  <2>1. After(t, n) = [sec |-> t.sec + n, hour |-> t.hour, day |-> t.day]
    BY <1>5 DEF After
  <2>2. t.sec + n \in 0 .. RtcSeconds - 1
    BY <1>1, <1>5
  <2>3. QED BY <1>1, <1>3, <1>5, <2>1, <2>2 DEF Times
<1>6. CASE ~(t.sec + n < RtcSeconds)
  <2>1. PICK d \in Nat : d = IF h = 0 THEN t.day + 1 ELSE t.day
    BY <1>1
  <2>2. After(t, n) = [sec |-> t.sec + n - RtcSeconds, hour |-> h, day |-> d]
    BY <1>4, <1>6, <2>1 DEF After
  <2>3. t.sec + n - RtcSeconds \in 0 .. RtcSeconds - 1
    BY <1>1, <1>6
  <2>4. QED BY <1>1, <1>3, <1>4, <1>6, <2>1, <2>2, <2>3 DEF Times
<1>7. QED BY <1>5, <1>6

LEMMA LaterFacts ==
  ASSUME RtcSizes, NEW u \in Times
  PROVE  /\ Clock!Later(u) \in Times
         /\ Clock!Later(u).sec = IF u.sec + 1 = RtcSeconds THEN 0 ELSE u.sec + 1
         /\ Clock!Later(u).hour = IF u.sec + 1 = RtcSeconds THEN (u.hour + 1) % 24 ELSE u.hour
         /\ Clock!Later(u).day = IF u.sec + 1 = RtcSeconds /\ (u.hour + 1) % 24 = 0 THEN u.day + 1 ELSE u.day
<1>1. u.sec \in 0 .. RtcSeconds - 1 /\ u.hour \in 0 .. 23 /\ u.day \in Nat /\ RtcSeconds \in Nat
  BY SecondsOn DEF Times
<1>2. PICK s \in 0 .. RtcSeconds - 1 : s = (u.sec + 1) % RtcSeconds /\ s = IF u.sec + 1 = RtcSeconds THEN 0 ELSE u.sec + 1
  BY <1>1, SecondsOn
<1>3. (u.hour + 1) % 24 \in 0 .. 23
  BY <1>1
<1>4. PICK h \in 0 .. 23 : h = IF s = 0 THEN (u.hour + 1) % 24 ELSE u.hour
  BY <1>1, <1>3
<1>5. PICK d \in Nat : d = IF s = 0 /\ h = 0 THEN u.day + 1 ELSE u.day
  BY <1>1
<1>6. Clock!Later(u) = [sec |-> s, hour |-> h, day |-> d]
  BY <1>2, <1>4, <1>5 DEF Clock!Later
<1>7. s = 0 <=> u.sec + 1 = RtcSeconds
  BY <1>1, <1>2
<1>8. Clock!Later(u) \in Times /\ Clock!Later(u).sec = s /\ Clock!Later(u).hour = h /\ Clock!Later(u).day = d
  BY <1>6 DEF Times
<1>9. QED BY <1>2, <1>4, <1>5, <1>7, <1>8

LEMMA AfterThat ==
  ASSUME RtcSizes, NEW t \in Times, NEW n \in Nat, n + 1 < RtcSeconds
  PROVE  Clock!Later(After(t, n)) = After(t, n + 1)
<1>1. t.sec \in 0 .. RtcSeconds - 1 /\ t.hour \in 0 .. 23 /\ t.day \in Nat /\ RtcSeconds \in Nat
  BY SecondsOn DEF Times
<1>2. PICK u \in Times : u = After(t, n)
  BY <1>1, AfterFacts
<1>3. PICK w \in Times : w = After(t, n + 1)
  BY <1>1, AfterFacts
<1>4. PICK x \in Times : x = Clock!Later(u)
  BY LaterFacts
<1>5. /\ u.sec = IF t.sec + n < RtcSeconds THEN t.sec + n ELSE t.sec + n - RtcSeconds
      /\ u.hour = IF t.sec + n < RtcSeconds THEN t.hour ELSE (t.hour + 1) % 24
      /\ u.day = IF t.sec + n < RtcSeconds \/ (t.hour + 1) % 24 # 0 THEN t.day ELSE t.day + 1
  <2>1. n < RtcSeconds
    BY <1>1
  <2>2. QED BY <1>2, <2>1, AfterFacts
<1>6. /\ w.sec = IF t.sec + n + 1 < RtcSeconds THEN t.sec + n + 1 ELSE t.sec + n + 1 - RtcSeconds
      /\ w.hour = IF t.sec + n + 1 < RtcSeconds THEN t.hour ELSE (t.hour + 1) % 24
      /\ w.day = IF t.sec + n + 1 < RtcSeconds \/ (t.hour + 1) % 24 # 0 THEN t.day ELSE t.day + 1
  <2>1. /\ n + 1 \in Nat /\ n + 1 < RtcSeconds /\ t.sec + (n + 1) = t.sec + n + 1
        /\ t.sec + (n + 1) - RtcSeconds = t.sec + n + 1 - RtcSeconds
    BY <1>1
  <2>2. QED BY <1>3, <2>1, AfterFacts
<1>7. /\ x.sec = IF u.sec + 1 = RtcSeconds THEN 0 ELSE u.sec + 1
      /\ x.hour = IF u.sec + 1 = RtcSeconds THEN (u.hour + 1) % 24 ELSE u.hour
      /\ x.day = IF u.sec + 1 = RtcSeconds /\ (u.hour + 1) % 24 = 0 THEN u.day + 1 ELSE u.day
  BY <1>4, LaterFacts
<1>8. x.sec = w.sec /\ x.hour = w.hour /\ x.day = w.day
  BY <1>1, <1>5, <1>6, <1>7
<1>9. x = w
  BY <1>8 DEF Times
<1>10. QED BY <1>2, <1>3, <1>4, <1>9

LEMMA InModeFacts ==
  ASSUME NEW h \in 0 .. 23, NEW m \in BOOLEAN
  PROVE  Clock!InMode(h, m) \in HourForm
<1>1. h % 12 \in 0 .. 23
  OBVIOUS
<1>2. PICK p \in BOOLEAN : p = (h >= 12)
  <2>1. (h >= 12) \in BOOLEAN
    BY SMT
  <2>2. QED BY <2>1, Zenon
<1>3. FALSE \in BOOLEAN
  BY Zenon
<1>4. PICK g \in 0 .. 23 : g = IF h % 12 = 0 THEN 12 ELSE h % 12
  BY <1>1
<1>5. Clock!InMode(h, m) = IF ~m THEN [h |-> h, pm |-> FALSE] ELSE [h |-> g, pm |-> p]
  BY <1>2, <1>4 DEF Clock!InMode
<1>6. QED BY <1>3, <1>5 DEF HourForm

LEMMA InModeApart ==
  ASSUME NEW h \in 0 .. 23, NEW g \in 0 .. 23, NEW m \in BOOLEAN, Clock!InMode(h, m) = Clock!InMode(g, m)
  PROVE  h = g
<1>1. CASE ~m
  BY <1>1 DEF Clock!InMode
<1>2. CASE m
  <2>1. /\ (IF h % 12 = 0 THEN 12 ELSE h % 12) = (IF g % 12 = 0 THEN 12 ELSE g % 12)
        /\ (h >= 12) = (g >= 12)
    BY <1>2 DEF Clock!InMode
  <2>2. /\ h % 12 = IF h >= 12 THEN h - 12 ELSE h
        /\ g % 12 = IF g >= 12 THEN g - 12 ELSE g
    OBVIOUS
  <2>3. QED BY <2>1, <2>2
<1>3. QED BY <1>1, <1>2

LEMMA HourBack ==
  ASSUME chip.h12 \in BOOLEAN, NEW h \in 0 .. 23
  PROVE  Clock!Hour(Clock!InMode(h, chip.h12)) = IF chip.h12 /\ h % 12 = 0 THEN 12 - h ELSE h
<1>1. CASE ~chip.h12
  BY <1>1 DEF Clock!InMode, Clock!Hour
<1>2. CASE chip.h12
  <2>1. PICK g \in 0 .. 23 : g = IF h % 12 = 0 THEN 12 ELSE h % 12
    <3>1. h % 12 \in 0 .. 23
      OBVIOUS
    <3>2. QED BY <3>1
  <2>2. PICK p \in BOOLEAN : p = (h >= 12)
    <3>1. (h >= 12) \in BOOLEAN
      BY SMT
    <3>2. QED BY <3>1, Zenon
  <2>3. PICK y : y = [h |-> g, pm |-> p]
    OBVIOUS
  <2>4. Clock!InMode(h, chip.h12) = y
    BY <1>2, <2>1, <2>2, <2>3 DEF Clock!InMode
  <2>5. y.h = g /\ y.pm = p
    BY <2>3
  <2>6. Clock!Hour(y) = IF chip.h12 /\ y.pm THEN (y.h + 12) % 24 ELSE y.h
    BY Zenon DEF Clock!Hour
  <2>7. Clock!Hour(y) = IF p THEN (g + 12) % 24 ELSE g
    BY <1>2, <2>5, <2>6, Zenon
  <2>8. h % 12 = IF h >= 12 THEN h - 12 ELSE h
    OBVIOUS
  <2>9. (g + 12) % 24 = IF g >= 12 THEN g - 12 ELSE g + 12
    OBVIOUS
  <2>10. CASE p
    <3>1. h >= 12
      BY <2>2, <2>10
    <3>2. (IF p THEN (g + 12) % 24 ELSE g) = IF h % 12 = 0 THEN 12 - h ELSE h
      BY <2>1, <2>8, <2>9, <2>10, <3>1
    <3>3. QED BY <1>2, <2>4, <2>7, <3>2, Zenon
  <2>11. CASE ~p
    <3>1. ~(h >= 12)
      BY <2>2, <2>11
    <3>2. (IF p THEN (g + 12) % 24 ELSE g) = IF h % 12 = 0 THEN 12 - h ELSE h
      BY <2>1, <2>8, <2>11, <3>1
    <3>3. QED BY <1>2, <2>4, <2>7, <3>2, Zenon
  <2>12. QED BY <2>10, <2>11
<1>3. QED BY <1>1, <1>2

LEMMA HeldFacts ==
  ASSUME NEW u \in Times, NEW m \in BOOLEAN
  PROVE  /\ Clock!Held(u, m) \in Registers
         /\ Clock!Held(u, m).sec = u.sec /\ Clock!Held(u, m).hour = Clock!InMode(u.hour, m) /\ Clock!Held(u, m).day = u.day
         /\ Clock!Held(u, m)[Clock!Fields[1]] = u.sec /\ Clock!Held(u, m)[Clock!Fields[2]] = Clock!InMode(u.hour, m)
         /\ Clock!Held(u, m)[Clock!Fields[3]] = u.day
<1>1. u.sec \in 0 .. RtcSeconds - 1 /\ u.hour \in 0 .. 23 /\ u.day \in Nat
  BY DEF Times
<1>2. PICK f \in HourForm : f = Clock!InMode(u.hour, m)
  BY <1>1, InModeFacts
<1>3. Clock!Held(u, m) = [sec |-> u.sec, hour |-> f, day |-> u.day]
  BY <1>2 DEF Clock!Held
<1>4. Clock!Held(u, m) \in Registers
  BY <1>1, <1>3 DEF Registers
<1>5. Clock!Fields[1] = "sec" /\ Clock!Fields[2] = "hour" /\ Clock!Fields[3] = "day"
  BY DEF Clock!Fields
<1>6. QED BY <1>2, <1>3, <1>4, <1>5

LEMMA RtcFacts ==
  ASSUME RtcInv
  PROVE  /\ time \in Times /\ regs \in Registers /\ since \subseteq Times
         /\ \E r \in RtcCall : r = rtc
         /\ \E c \in [uip : BOOLEAN, todo : RtcTodo, h12 : BOOLEAN, ticks : 0 .. RtcTicks] : c = chip
         /\ chip.h12 \in BOOLEAN /\ chip.ticks \in Nat
         /\ rtc.a \in Seq(RegValue) /\ rtc.b \in Seq(RegValue) /\ rtc.t \in Times
BY DEF RtcInv, RtcTypes, RtcCall

LEMMA RtcInitially == ASSUME RtcSizes, Clock!Init PROVE RtcInv
<1>1. RtcSeconds \in Nat /\ RtcSeconds > 0 /\ RtcTicks \in Nat
  BY SecondsOn
<1>2. time \in Times
  <2>1. RtcStarts \subseteq 0 .. 23
    BY DEF RtcSizes
  <2>2. time \in [sec : 0 .. RtcSeconds - 1, hour : RtcStarts, day : {1}]
    BY DEF Clock!Init
  <2>3. 1 \in Nat
    OBVIOUS
  <2>4. PICK s \in 0 .. RtcSeconds - 1, h \in RtcStarts, d \in {1} : time = [sec |-> s, hour |-> h, day |-> d]
    BY <2>2
  <2>5. QED BY <2>1, <2>3, <2>4 DEF Times
<1>3. PICK m \in BOOLEAN : chip = [uip |-> FALSE, todo |-> <<>>, h12 |-> m, ticks |-> 0] /\ regs = Clock!Held(time, m)
  BY DEF Clock!Init
<1>4. chip \in [uip : BOOLEAN, todo : RtcTodo, h12 : BOOLEAN, ticks : 0 .. RtcTicks]
  <2>1. FALSE \in BOOLEAN
    BY Zenon
  <2>2. <<>> \in RtcTodo /\ 0 \in 0 .. RtcTicks
    BY <1>1 DEF RtcTodo
  <2>3. QED BY <1>3, <2>1, <2>2
<1>5. regs \in Registers
  BY <1>2, <1>3, HeldFacts
<1>6. Clock!Zero \in Times
  BY <1>1 DEF Clock!Zero, Times
<1>7. rtc \in RtcCall /\ rtc.pc = "idle"
  <2>1. FALSE \in BOOLEAN
    BY Zenon
  <2>2. 0 \in 0 .. RtcRetries /\ <<>> \in Seq(RegValue)
    BY DEF RtcSizes
  <2>3. rtc = [pc |-> "idle", set |-> FALSE, try |-> 0, a |-> <<>>, b |-> <<>>, t |-> Clock!Zero]
    BY DEF Clock!Init
  <2>4. QED BY <1>6, <2>1, <2>2, <2>3 DEF RtcCall
<1>8. RtcTypes
  BY <1>2, <1>3, <1>4, <1>5, <1>7 DEF RtcTypes, Clock!Init
<1>9. Moving
  BY <1>2, <1>3, HeldFacts DEF Moving, InRegs, This1
<1>10. Running /\ Clock!RtcTrue
  BY <1>7 DEF Running, Clock!RtcTrue
<1>11. QED BY <1>8, <1>9, <1>10 DEF RtcInv

(* While the clock or the call goes on, the time the call knows of is as it  *)
(* was as long as nothing it is made of has changed.                         *)
LEMMA SinceSame ==
  ASSUME NEW t, NEW k, Since(t, k), time' = time, chip'.uip = chip.uip, chip'.h12 = chip.h12, chip'.ticks = chip.ticks,
         since' = since, rtc'.a = rtc.a, rtc'.b = rtc.b,
         rtc'.pc = rtc.pc \/ rtc'.pc \notin {"a", "waitB", "b", "compare"}
  PROVE  Since(t, k)'
BY DEF Since, Ahead, First, Second, Reading

LEMMA UipSetsKeeps == ASSUME RtcSizes, RtcInv, Clock!UipSets PROVE RtcInv'
<1>1. /\ ~chip.uip /\ chip.ticks < RtcTicks
      /\ chip' = [chip EXCEPT !.uip = TRUE, !.todo = Clock!Fields, !.ticks = @ + 1]
      /\ UNCHANGED <<time, regs, rtc, since>>
  BY DEF Clock!UipSets
<1>2. PICK c \in [uip : BOOLEAN, todo : RtcTodo, h12 : BOOLEAN, ticks : 0 .. RtcTicks] : c = chip
  BY RtcFacts
<1>3. RtcTicks \in Nat /\ RtcSeconds \in Nat /\ RtcTicks < RtcSeconds
  BY SecondsOn
<1>4. c.ticks \in Nat /\ c.ticks < RtcTicks
  BY <1>1, <1>2, <1>3
<1>5. PICK n \in 0 .. RtcTicks : n = c.ticks + 1
  BY <1>3, <1>4
<1>6. chip' = [c EXCEPT !.uip = TRUE, !.todo = Clock!Fields, !.ticks = n]
  BY <1>1, <1>2, <1>5
<1>7. /\ chip' \in [uip : BOOLEAN, todo : RtcTodo, h12 : BOOLEAN, ticks : 0 .. RtcTicks]
      /\ chip'.uip /\ chip'.todo = Clock!Fields /\ chip'.h12 = c.h12 /\ chip'.ticks = n
  <2>1. TRUE \in BOOLEAN
    BY Zenon
  <2>2. Clock!Fields \in RtcTodo
    BY DEF RtcTodo
  <2>3. QED BY <1>6, <2>1, <2>2
<1>8. RtcTypes'
  BY <1>1, <1>4, <1>5, <1>7 DEF RtcInv, RtcTypes
<1>9. Moving'
  <2>1. Clock!Fields # <<>> /\ Clock!Fields # <<"day">>
    BY DEF Clock!Fields
  <2>2. rtc.pc # "unset" => regs.sec = This1.sec /\ regs.hour = This1.hour /\ regs.day = This1.day
    BY <1>1 DEF RtcInv, Moving, InRegs
  <2>3. This1' = This1
    BY <1>1, <1>2, <1>7 DEF This1
  <2>4. QED BY <1>1, <1>7, <2>1, <2>2, <2>3 DEF Moving, InRegs
<1>10. ASSUME NEW t, NEW k \in Nat, Since(t, k) PROVE Since(t, k)'
  <2>1. Ahead(k) = k /\ Ahead(k)' = k + 1
    BY <1>1, <1>7 DEF Ahead
  <2>2. Ahead(k)' <= chip'.ticks
    BY <1>2, <1>4, <1>5, <1>7, <1>10, <2>1 DEF Since
  <2>4. rtc' = rtc /\ time' = time /\ since' = since
    BY <1>1
  <2>5. ASSUME rtc.pc \in {"a", "waitB"} PROVE First(t, Ahead(k))'
    <3>1. First(t, k)
      BY <1>10, <2>1, <2>5 DEF Since
    <3>2. QED BY <1>2, <1>7, <2>1, <2>4, <3>1 DEF First, Reading
  <2>6. ASSUME rtc.pc \in {"b", "compare"} PROVE \E v \in 0 .. k : First(t, v)' /\ Second(t, v, Ahead(k))'
    <3>1. PICK v \in 0 .. k : First(t, v) /\ Second(t, v, k)
      BY <1>10, <2>1, <2>6 DEF Since
    <3>2. First(t, v)'
      BY <1>2, <1>7, <2>4, <3>1 DEF First, Reading
    <3>3. Second(t, v, Ahead(k))'
      BY <1>2, <1>7, <2>1, <2>4, <3>1 DEF Second, Reading
    <3>4. QED BY <3>2, <3>3
  <2>7. QED BY <1>10, <2>2, <2>4, <2>5, <2>6 DEF Since
<1>11. Running'
  BY <1>1, <1>10 DEF RtcInv, Running
<1>12. Clock!RtcTrue'
  BY <1>1, <1>2, <1>7 DEF RtcInv, Clock!RtcTrue, Clock!Shown
<1>13. QED BY <1>8, <1>9, <1>11, <1>12 DEF RtcInv

LEMMA RegMovesKeeps == ASSUME RtcSizes, RtcInv, Clock!RegMoves PROVE RtcInv'
<1> DEFINE f == Head(chip.todo)
<1>1. /\ chip.todo # <<>> /\ regs' = [regs EXCEPT ![f] = Clock!Held(Clock!Later(time), chip.h12)[f]]
      /\ chip' = [chip EXCEPT !.todo = Tail(@)] /\ UNCHANGED <<time, rtc, since>>
  BY DEF Clock!RegMoves
<1>2. PICK c \in [uip : BOOLEAN, todo : RtcTodo, h12 : BOOLEAN, ticks : 0 .. RtcTicks] : c = chip
  BY RtcFacts
<1>3. PICK x \in Registers : x = Next1
  BY <1>2, LaterFacts, HeldFacts, RtcFacts DEF Next1
<1>4. PICK r \in Registers : r = regs
  BY RtcFacts
<1>5. chip.uip
  BY <1>1 DEF RtcInv, Moving, InRegs
<1>6. /\ Len(Clock!Fields) = 3 /\ Head(Clock!Fields) = "sec" /\ Tail(Clock!Fields) = <<"hour", "day">>
      /\ Head(<<"hour", "day">>) = "hour" /\ Tail(<<"hour", "day">>) = <<"day">>
      /\ Head(<<"day">>) = "day" /\ Tail(<<"day">>) = <<>>
      /\ Clock!Fields # <<>> /\ Clock!Fields # <<"day">> /\ Clock!Fields # <<"hour", "day">>
      /\ <<"hour", "day">> # <<"day">> /\ <<"hour", "day">> # <<>> /\ <<"day">> # <<>>
  BY DEF Clock!Fields
<1>7. PICK tail \in RtcTodo : tail = Tail(chip.todo)
  BY <1>1, <1>2, <1>6 DEF RtcTodo
<1>8. chip' = [c EXCEPT !.todo = tail]
  BY <1>1, <1>2, <1>7
<1>9. /\ chip' \in [uip : BOOLEAN, todo : RtcTodo, h12 : BOOLEAN, ticks : 0 .. RtcTicks]
      /\ chip'.uip = c.uip /\ chip'.todo = tail /\ chip'.h12 = c.h12 /\ chip'.ticks = c.ticks
  BY <1>8
<1>10. Next1' = Next1 /\ This1' = This1
  BY <1>1, <1>2, <1>9 DEF Next1, This1
<1>11. regs' = [r EXCEPT ![f] = x[f]]
  BY <1>1, <1>3, <1>4 DEF Next1
<1>12. ASSUME chip.todo = Clock!Fields PROVE regs' \in Registers /\ Moving'
  <2>1. regs' = [r EXCEPT !.sec = x.sec]
    BY <1>6, <1>11, <1>12
  <2>2. regs' \in Registers /\ regs'.sec = x.sec /\ regs'.hour = r.hour /\ regs'.day = r.day
    BY <2>1 DEF Registers
  <2>3. Moving'
    BY <1>1, <1>2, <1>3, <1>4, <1>5, <1>6, <1>7, <1>9, <1>10, <1>12, <2>2 DEF RtcInv, Moving, InRegs
  <2>4. QED BY <2>2, <2>3
<1>13. ASSUME chip.todo = <<"hour", "day">> PROVE regs' \in Registers /\ Moving'
  <2>1. regs' = [r EXCEPT !.hour = x.hour]
    BY <1>6, <1>11, <1>13
  <2>2. regs' \in Registers /\ regs'.sec = r.sec /\ regs'.hour = x.hour /\ regs'.day = r.day
    BY <2>1 DEF Registers
  <2>3. Moving'
    BY <1>1, <1>2, <1>3, <1>4, <1>5, <1>6, <1>7, <1>9, <1>10, <1>13, <2>2 DEF RtcInv, Moving, InRegs
  <2>4. QED BY <2>2, <2>3
<1>14. ASSUME chip.todo = <<"day">> PROVE regs' \in Registers /\ Moving'
  <2>1. regs' = [r EXCEPT !.day = x.day]
    BY <1>6, <1>11, <1>14
  <2>2. regs' \in Registers /\ regs'.sec = r.sec /\ regs'.hour = r.hour /\ regs'.day = x.day
    BY <2>1 DEF Registers
  <2>3. Moving'
    BY <1>1, <1>2, <1>3, <1>4, <1>5, <1>6, <1>7, <1>9, <1>10, <1>14, <2>2 DEF RtcInv, Moving, InRegs
  <2>4. QED BY <2>2, <2>3
<1>15. regs' \in Registers /\ Moving'
  BY <1>1, <1>2, <1>12, <1>13, <1>14 DEF RtcTodo
<1>16. RtcTypes'
  BY <1>1, <1>2, <1>9, <1>15 DEF RtcInv, RtcTypes
<1>17. Running'
  <2>1. ASSUME NEW t \in Times, NEW k \in Nat, Since(t, k) PROVE Since(t, k)'
    BY <1>1, <1>2, <1>9, <2>1, SinceSame
  <2>2. QED BY <1>1, <2>1 DEF RtcInv, Running
<1>18. Clock!RtcTrue'
  BY <1>1, <1>2, <1>9 DEF RtcInv, Clock!RtcTrue, Clock!Shown
<1>19. QED BY <1>15, <1>16, <1>17, <1>18 DEF RtcInv

(* The next second of the time the call began at.                            *)
LEMMA SecondOn ==
  ASSUME RtcSizes, RtcInv, NEW t \in Times, NEW k \in Nat, Since(t, k), chip.uip
  PROVE  k + 1 < RtcSeconds /\ Clock!Later(time) = After(t, k + 1) /\ Clock!Later(time) \in Times
<1>1. RtcTicks \in Nat /\ RtcSeconds \in Nat /\ RtcTicks < RtcSeconds
  BY SecondsOn
<1>2. PICK c \in [uip : BOOLEAN, todo : RtcTodo, h12 : BOOLEAN, ticks : 0 .. RtcTicks] : c = chip
  BY RtcFacts
<1>3. k + 1 <= c.ticks /\ time = After(t, k)
  BY <1>2 DEF Since, Ahead
<1>4. k + 1 < RtcSeconds
  BY <1>1, <1>2, <1>3
<1>5. Clock!Later(time) = After(t, k + 1)
  BY <1>3, <1>4, AfterThat
<1>6. Clock!Later(time) \in Times
  BY LaterFacts, RtcFacts
<1>7. QED BY <1>4, <1>5, <1>6

LEMMA UipClearsKeeps == ASSUME RtcSizes, RtcInv, Clock!UipClears PROVE RtcInv'
<1>1. /\ chip.uip /\ chip.todo = <<>> /\ chip' = [chip EXCEPT !.uip = FALSE]
      /\ time' = Clock!Later(time) /\ since' = since \cup {time'} /\ UNCHANGED <<regs, rtc>>
  BY DEF Clock!UipClears
<1>2. PICK c \in [uip : BOOLEAN, todo : RtcTodo, h12 : BOOLEAN, ticks : 0 .. RtcTicks] : c = chip
  BY RtcFacts
<1>3. /\ chip' \in [uip : BOOLEAN, todo : RtcTodo, h12 : BOOLEAN, ticks : 0 .. RtcTicks]
      /\ chip'.uip = FALSE /\ chip'.todo = c.todo /\ chip'.h12 = c.h12 /\ chip'.ticks = c.ticks
  <2>1. FALSE \in BOOLEAN
    BY Zenon
  <2>2. chip' = [c EXCEPT !.uip = FALSE]
    BY <1>1, <1>2
  <2>3. QED BY <2>1, <2>2
<1>4. time' \in Times
  BY <1>1, LaterFacts, RtcFacts
<1>5. RtcTypes'
  BY <1>1, <1>3, <1>4 DEF RtcInv, RtcTypes
<1>6. Moving'
  <2>1. <<>> # Clock!Fields /\ <<>> # <<"day">>
    BY DEF Clock!Fields
  <2>2. rtc.pc # "unset" => regs.sec = Next1.sec /\ regs.hour = Next1.hour /\ regs.day = Next1.day
    BY <1>1, <2>1 DEF RtcInv, Moving, InRegs
  <2>3. This1' = Next1
    BY <1>1, <1>2, <1>3 DEF This1, Next1
  <2>4. QED BY <1>1, <1>2, <1>3, <2>2, <2>3 DEF Moving, InRegs
<1>7. ASSUME NEW t \in Times, NEW k \in Nat, Since(t, k) PROVE Since(t, k + 1)'
  <2>1. k + 1 < RtcSeconds /\ time' = After(t, k + 1)
    BY <1>1, <1>7, SecondOn
  <2>2. Ahead(k) = k + 1 /\ Ahead(k + 1)' = k + 1
    BY <1>1, <1>3 DEF Ahead
  <2>3. \A i \in 0 .. k + 1 : After(t, i) \in since'
    <3>1. \A i \in 0 .. k : After(t, i) \in since
      BY <1>7 DEF Since
    <3>2. \A i \in 0 .. k + 1 : i \in 0 .. k \/ i = k + 1
      OBVIOUS
    <3>3. QED BY <1>1, <2>1, <3>1, <3>2, Zenon
  <2>4. k + 1 <= chip'.ticks
    BY <1>2, <1>3, <1>7, <2>2 DEF Since
  <2>5. ASSUME rtc.pc \in {"a", "waitB"} PROVE First(t, k + 1)'
    <3>1. First(t, k + 1)
      BY <1>7, <2>2, <2>5 DEF Since
    <3>2. QED BY <1>1, <1>2, <1>3, <3>1 DEF First, Reading
  <2>6. ASSUME rtc.pc \in {"b", "compare"} PROVE \E v \in 0 .. k + 1 : First(t, v)' /\ Second(t, v, k + 1)'
    <3>1. PICK v \in 0 .. k : First(t, v) /\ Second(t, v, k + 1)
      BY <1>7, <2>2, <2>6 DEF Since
    <3>2. First(t, v)' /\ Second(t, v, k + 1)' /\ v \in 0 .. k + 1
      BY <1>1, <1>2, <1>3, <3>1 DEF First, Second, Reading
    <3>3. QED BY <3>2
  <2>7. QED BY <1>1, <2>1, <2>2, <2>3, <2>4, <2>5, <2>6 DEF Since
<1>8. Running'
  <2>1. ASSUME rtc.pc \in {"waitA", "a", "waitB", "b", "compare"} PROVE \E t \in Times, k \in Nat : Since(t, k)'
    <3>1. PICK t \in Times, k \in Nat : Since(t, k)
      BY <2>1 DEF RtcInv, Running
    <3>2. Since(t, k + 1)' /\ k + 1 \in Nat
      BY <1>7, <3>1
    <3>3. QED BY <3>2
  <2>2. QED BY <1>1, <2>1 DEF RtcInv, Running
<1>9. Clock!RtcTrue'
  BY <1>1, <1>2, <1>3 DEF RtcInv, Clock!RtcTrue, Clock!Shown
<1>10. QED BY <1>5, <1>6, <1>8, <1>9 DEF RtcInv

LEMMA RtcReadKeeps == ASSUME RtcSizes, RtcInv, NEW set \in BOOLEAN, Clock!RtcRead(set) PROVE RtcInv'
<1>1. /\ rtc.pc \in {"idle", "done"} /\ rtc' = [rtc EXCEPT !.pc = "waitA", !.set = set, !.try = 0, !.t = Clock!Zero]
      /\ since' = {time} /\ UNCHANGED <<time, regs, chip>>
  BY DEF Clock!RtcRead
<1>2. PICK r \in RtcCall : r = rtc
  BY RtcFacts
<1>3. RtcSeconds \in Nat /\ RtcSeconds > 0 /\ RtcRetries \in Nat /\ RtcRetries > 0
  BY SecondsOn DEF RtcSizes
<1>4. Clock!Zero \in Times
  BY <1>3 DEF Clock!Zero, Times
<1>5. rtc' \in RtcCall /\ rtc'.pc = "waitA" /\ rtc'.try = 0 /\ rtc'.t = Clock!Zero
  <2>1. PICK z \in Times : z = Clock!Zero
    BY <1>4
  <2>2. rtc' = [r EXCEPT !.pc = "waitA", !.set = set, !.try = 0, !.t = z]
    BY <1>1, <1>2, <2>1
  <2>3. 0 \in 0 .. RtcRetries
    BY <1>3
  <2>4. QED BY <2>1, <2>2, <2>3 DEF RtcCall
<1>6. RtcTypes'
  BY <1>1, <1>3, <1>5 DEF RtcInv, RtcTypes
<1>7. Moving'
  BY <1>1 DEF RtcInv, Moving, InRegs, This1, Next1
<1>8. Since(time, 0)'
  <2>1. After(time, 0) = time
    BY <1>3, AfterFacts, RtcFacts
  <2>2. PICK c \in [uip : BOOLEAN, todo : RtcTodo, h12 : BOOLEAN, ticks : 0 .. RtcTicks] : c = chip
    BY RtcFacts
  <2>3. Ahead(0) <= chip.ticks
    <3>1. chip.uip => chip.ticks > 0
      BY DEF RtcInv, RtcTypes
    <3>2. c.ticks \in Nat
      BY SecondsOn
    <3>3. QED BY <2>2, <3>1, <3>2 DEF Ahead
  <2>4. Ahead(0)' <= chip'.ticks
    BY <1>1, <2>3 DEF Ahead
  <2>5. \A i \in 0 .. 0 : After(time, i) \in since'
    BY <1>1, <2>1
  <2>6. rtc'.pc \notin {"a", "waitB", "b", "compare"}
    BY <1>5
  <2>7. QED BY <1>1, <2>1, <2>4, <2>5, <2>6 DEF Since
<1>9. Running'
  <2>1. time' \in Times /\ 0 \in Nat
    BY <1>1, RtcFacts
  <2>2. \E t \in Times, k \in Nat : Since(t, k)'
    BY <1>1, <1>8, <2>1
  <2>3. QED BY <1>5, <2>2 DEF Running
<1>10. Clock!RtcTrue'
  BY <1>5 DEF Clock!RtcTrue
<1>11. QED BY <1>6, <1>7, <1>9, <1>10 DEF RtcInv

LEMMA UipSeenKeeps == ASSUME RtcSizes, RtcInv, Clock!UipSeen PROVE RtcInv'
<1>1. /\ rtc.pc \in {"waitA", "waitB"} /\ ~chip.uip
      /\ rtc' = IF rtc.pc = "waitA" THEN [rtc EXCEPT !.pc = "a", !.a = <<>>] ELSE [rtc EXCEPT !.pc = "b", !.b = <<>>]
      /\ UNCHANGED <<time, regs, chip, since>>
  BY DEF Clock!UipSeen
<1>2. PICK r \in RtcCall : r = rtc
  BY RtcFacts
<1>3. <<>> \in Seq(RegValue) /\ Len(<<>>) = 0
  OBVIOUS
<1>4. rtc.pc = "waitA" => rtc' \in RtcCall /\ rtc'.pc = "a" /\ rtc'.a = <<>> /\ rtc'.try = r.try /\ rtc'.t = r.t
  BY <1>1, <1>2, <1>3 DEF RtcCall
<1>5. rtc.pc = "waitB" => rtc' \in RtcCall /\ rtc'.pc = "b" /\ rtc'.a = r.a /\ rtc'.b = <<>> /\ rtc'.try = r.try /\ rtc'.t = r.t
  BY <1>1, <1>2, <1>3 DEF RtcCall
<1>6. RtcTypes'
  BY <1>1, <1>2, <1>4, <1>5 DEF RtcInv, RtcTypes
<1>7. Moving' /\ Clock!RtcTrue'
  BY <1>1, <1>4, <1>5 DEF RtcInv, Moving, InRegs, This1, Next1, Clock!RtcTrue
<1>8. ASSUME NEW t \in Times, NEW k \in Nat, Since(t, k) PROVE Since(t, k)'
  <2>1. Ahead(k) = k /\ Ahead(k)' = k
    BY <1>1 DEF Ahead
  <2>2. time' = After(t, k) /\ Ahead(k)' <= chip'.ticks /\ \A i \in 0 .. k : After(t, i) \in since'
    BY <1>1, <1>8, <2>1 DEF Since
  <2>3. CASE rtc.pc = "waitA"
    <3>1. First(t, Ahead(k))'
      BY <1>3, <1>4, <2>3 DEF First
    <3>2. QED BY <1>4, <2>2, <2>3, <3>1 DEF Since
  <2>4. CASE rtc.pc = "waitB"
    <3>1. First(t, k)
      BY <1>8, <2>1, <2>4 DEF Since
    <3>2. First(t, k)'
      BY <1>1, <1>2, <1>5, <2>4, <3>1 DEF First, Reading
    <3>3. Second(t, k, Ahead(k))'
      BY <1>3, <1>5, <2>4 DEF Second
    <3>4. k \in 0 .. k
      OBVIOUS
    <3>5. QED BY <1>5, <2>2, <2>4, <3>2, <3>3, <3>4 DEF Since
  <2>5. QED BY <1>1, <2>3, <2>4
<1>9. Running'
  <2>1. \E t \in Times, k \in Nat : Since(t, k)'
    BY <1>1, <1>8 DEF RtcInv, Running
  <2>2. (rtc.pc = "waitB" => Len(r.a) = 3) /\ r.t = Clock!Zero
    BY <1>1, <1>2 DEF RtcInv, Running
  <2>3. QED BY <1>1, <1>3, <1>4, <1>5, <2>1, <2>2 DEF Running
<1>10. QED BY <1>6, <1>7, <1>9 DEF RtcInv

(* What a register holds is of the time it is, or of the second after.       *)
LEMMA RegistersNow ==
  ASSUME RtcSizes, RtcInv, rtc.pc # "unset", NEW t \in Times, NEW k \in Nat, Since(t, k), NEW j \in 1 .. 3
  PROVE  Reading(t, regs[Clock!Fields[j]], j, k, Ahead(k)) /\ regs[Clock!Fields[j]] \in RegValue
<1>1. PICK m \in BOOLEAN : m = chip.h12
  BY RtcFacts
<1>2. PICK r \in Registers : r = regs
  BY RtcFacts
<1>3. r["sec"] \in RegValue /\ r["hour"] \in RegValue /\ r["day"] \in RegValue
  BY DEF Registers, RegValue
<1>4. Clock!Fields[1] = "sec" /\ Clock!Fields[2] = "hour" /\ Clock!Fields[3] = "day"
  BY DEF Clock!Fields
<1>5. regs[Clock!Fields[j]] \in RegValue
  BY <1>2, <1>3, <1>4
<1>6. time = After(t, k) /\ time \in Times /\ Ahead(k) \in {k, k + 1}
  BY RtcFacts DEF Since, Ahead
<1>7. \/ regs[Clock!Fields[j]] = This1[Clock!Fields[j]]
      \/ chip.uip /\ regs[Clock!Fields[j]] = Next1[Clock!Fields[j]]
  <2>1. /\ regs.sec = This1.sec \/ (chip.uip /\ regs.sec = Next1.sec)
        /\ regs.hour = This1.hour \/ (chip.uip /\ regs.hour = Next1.hour)
        /\ regs.day = This1.day \/ (chip.uip /\ regs.day = Next1.day)
    BY DEF RtcInv, Moving, InRegs
  <2>2. CASE j = 1
    <3>1. regs[Clock!Fields[j]] = regs.sec /\ This1[Clock!Fields[j]] = This1.sec /\ Next1[Clock!Fields[j]] = Next1.sec
      BY <1>4, <2>2
    <3>2. QED BY <2>1, <3>1
  <2>3. CASE j = 2
    <3>1. regs[Clock!Fields[j]] = regs.hour /\ This1[Clock!Fields[j]] = This1.hour /\ Next1[Clock!Fields[j]] = Next1.hour
      BY <1>4, <2>3
    <3>2. QED BY <2>1, <3>1
  <2>4. CASE j = 3
    <3>1. regs[Clock!Fields[j]] = regs.day /\ This1[Clock!Fields[j]] = This1.day /\ Next1[Clock!Fields[j]] = Next1.day
      BY <1>4, <2>4
    <3>2. QED BY <2>1, <3>1
  <2>5. QED BY <2>2, <2>3, <2>4
<1>8. CASE regs[Clock!Fields[j]] = This1[Clock!Fields[j]]
  <2>1. k \in k .. Ahead(k)
    BY <1>6
  <2>2. QED BY <1>6, <1>5, <1>8, <2>1 DEF Reading, This1
<1>9. CASE chip.uip /\ regs[Clock!Fields[j]] = Next1[Clock!Fields[j]]
  <2>1. Clock!Later(time) = After(t, k + 1)
    BY <1>9, SecondOn
  <2>2. k + 1 \in k .. Ahead(k)
    BY <1>9 DEF Ahead
  <2>3. QED BY <1>5, <1>9, <2>1, <2>2 DEF Reading, Next1
<1>10. QED BY <1>7, <1>8, <1>9

LEMMA UpToTwo == ASSUME NEW n \in Nat, n <= 2 PROVE n \in 0 .. 2
OBVIOUS

LEMMA OneMore ==
  ASSUME NEW S, NEW a \in Seq(S), NEW e \in S
  PROVE  /\ Append(a, e) \in Seq(S) /\ Len(Append(a, e)) = Len(a) + 1 /\ Append(a, e)[Len(a) + 1] = e
         /\ \A i \in 1 .. Len(a) : Append(a, e)[i] = a[i]
<1>1. Append(a, e) \in Seq(S)
  BY AppendProperties
<1>2. QED BY <1>1

LEMMA ReadRegKeeps == ASSUME RtcSizes, RtcInv, Clock!ReadReg PROVE RtcInv'
<1>1. UNCHANGED <<time, regs, chip, since>> /\ rtc.pc \in {"a", "b"}
  BY DEF Clock!ReadReg
<1>2. PICK r \in RtcCall : r = rtc
  BY RtcFacts
<1>3. r.a \in Seq(RegValue) /\ r.b \in Seq(RegValue) /\ Len(r.a) \in Nat /\ Len(r.b) \in Nat
  BY DEF RtcCall
<1>4. PICK t \in Times, k \in Nat : Since(t, k)
  BY <1>1 DEF RtcInv, Running
<1>5. Moving'
  BY <1>1 DEF RtcInv, Moving, InRegs, This1, Next1
<1>6. Ahead(k)' = Ahead(k) /\ Ahead(k) \in Nat /\ k <= Ahead(k)
  BY <1>1 DEF Ahead
<1>7. time' = After(t, k) /\ Ahead(k)' <= chip'.ticks /\ \A i \in 0 .. k : After(t, i) \in since'
  BY <1>1, <1>4, <1>6 DEF Since
<1>11. r.t = Clock!Zero
  BY <1>1, <1>2 DEF RtcInv, Running
<1>8. CASE rtc.pc = "a"
  <2>1. Len(r.a) <= 2
    BY <1>2, <1>8 DEF RtcInv, Running
  <2>2. PICK j \in 1 .. 3 : j = Len(r.a) + 1
    BY <1>3, <2>1
  <2>3. PICK x \in RegValue : x = regs[Clock!Fields[j]] /\ Reading(t, x, j, k, Ahead(k))
    BY <1>4, <1>8, RegistersNow
  <2>4. PICK p \in {"a", "waitB"} : p = IF Len(r.a) = 2 THEN "waitB" ELSE "a"
    OBVIOUS
  <2>5. PICK q \in Seq(RegValue) : q = Append(r.a, x)
    BY <1>3, OneMore
  <2>6. rtc' = [r EXCEPT !.a = q, !.pc = p]
    BY <1>2, <1>8, <2>2, <2>3, <2>4, <2>5 DEF Clock!ReadReg
  <2>7. rtc' \in RtcCall /\ rtc'.pc = p /\ rtc'.a = q /\ rtc'.b = r.b /\ rtc'.try = r.try /\ rtc'.t = r.t
    BY <2>6 DEF RtcCall
  <2>8. Len(q) = j /\ q[j] = x /\ \A i \in 1 .. Len(r.a) : q[i] = r.a[i]
    BY <1>3, <2>2, <2>5, OneMore
  <2>9. First(t, Ahead(k))
    BY <1>4, <1>8 DEF Since
  <2>10. First(t, Ahead(k))'
    <3>1. ASSUME NEW i \in 1 .. j PROVE \E n \in 0 .. Ahead(k) : q[i] = Clock!Held(After(t, n), chip.h12)[Clock!Fields[i]]
      <4>1. CASE i = j
        <5>1. PICK n \in k .. Ahead(k) : x = Clock!Held(After(t, n), chip.h12)[Clock!Fields[j]]
          BY <2>3 DEF Reading
        <5>2. n \in 0 .. Ahead(k)
          BY <1>6
        <5>3. QED BY <2>8, <4>1, <5>1, <5>2
      <4>2. CASE i # j
        <5>1. i \in 1 .. Len(r.a)
          BY <1>3, <2>2, <4>2
        <5>2. QED BY <1>2, <2>8, <2>9, <5>1 DEF First, Reading
      <4>3. QED BY <4>1, <4>2
    <3>2. QED BY <1>1, <1>6, <2>7, <2>8, <3>1 DEF First, Reading
  <2>11. Since(t, k)'
    BY <1>7, <2>4, <2>7, <2>10 DEF Since
  <2>18. Len(r.a) \in 0 .. 2 /\ j = Len(r.a) + 1
    <3>1. PICK c : c = r.a
      OBVIOUS
    <3>2. Len(c) \in Nat /\ Len(c) <= 2 /\ j = Len(c) + 1
      BY <1>3, <2>1, <2>2, <3>1
    <3>3. Len(c) \in 0 .. 2
      BY <3>2, UpToTwo, Zenon
    <3>4. QED BY <3>1, <3>2, <3>3
  <2>12. p = "a" => Len(q) <= 2
    BY <2>4, <2>8, <2>18
  <2>13. p = "waitB" => Len(q) = 3
    <3>1. ASSUME p = "waitB" PROVE j = 3
      <4>1. Len(r.a) = 2
        BY <2>4, <3>1, Zenon
      <4>2. j = 2 + 1
        BY <2>2, <4>1, Zenon
      <4>3. QED BY <4>2
    <3>2. QED BY <2>8, <3>1
  <2>14. Running'
    BY <1>11, <2>4, <2>7, <2>11, <2>12, <2>13 DEF Running
  <2>15. RtcTypes'
    BY <1>1, <1>2, <1>8, <2>7 DEF RtcInv, RtcTypes
  <2>16. Clock!RtcTrue'
    BY <2>4, <2>7 DEF Clock!RtcTrue
  <2>17. QED BY <1>5, <2>14, <2>15, <2>16 DEF RtcInv
<1>9. CASE rtc.pc = "b"
  <2>1. Len(r.b) <= 2 /\ Len(r.a) = 3
    BY <1>2, <1>9 DEF RtcInv, Running
  <2>2. PICK j \in 1 .. 3 : j = Len(r.b) + 1
    BY <1>3, <2>1
  <2>3. PICK x \in RegValue : x = regs[Clock!Fields[j]] /\ Reading(t, x, j, k, Ahead(k))
    BY <1>4, <1>9, RegistersNow
  <2>4. PICK p \in {"b", "compare"} : p = IF Len(r.b) = 2 THEN "compare" ELSE "b"
    OBVIOUS
  <2>5. PICK q \in Seq(RegValue) : q = Append(r.b, x)
    BY <1>3, OneMore
  <2>6. rtc' = [r EXCEPT !.b = q, !.pc = p]
    BY <1>2, <1>9, <2>2, <2>3, <2>4, <2>5 DEF Clock!ReadReg
  <2>7. rtc' \in RtcCall /\ rtc'.pc = p /\ rtc'.b = q /\ rtc'.a = r.a /\ rtc'.try = r.try /\ rtc'.t = r.t
    BY <2>6 DEF RtcCall
  <2>8. Len(q) = j /\ q[j] = x /\ \A i \in 1 .. Len(r.b) : q[i] = r.b[i]
    BY <1>3, <2>2, <2>5, OneMore
  <2>9. PICK v \in 0 .. k : First(t, v) /\ Second(t, v, Ahead(k))
    BY <1>4, <1>9 DEF Since
  <2>10. First(t, v)'
    BY <1>1, <1>2, <2>7, <2>9 DEF First, Reading
  <2>11. Second(t, v, Ahead(k))'
    <3>1. ASSUME NEW i \in 1 .. j PROVE \E n \in v .. Ahead(k) : q[i] = Clock!Held(After(t, n), chip.h12)[Clock!Fields[i]]
      <4>1. CASE i = j
        <5>1. PICK n \in k .. Ahead(k) : x = Clock!Held(After(t, n), chip.h12)[Clock!Fields[j]]
          BY <2>3 DEF Reading
        <5>2. n \in v .. Ahead(k)
          BY <1>6
        <5>3. QED BY <2>8, <4>1, <5>1, <5>2
      <4>2. CASE i # j
        <5>1. i \in 1 .. Len(r.b)
          BY <1>3, <2>2, <4>2
        <5>2. QED BY <1>2, <2>8, <2>9, <5>1 DEF Second, Reading
      <4>3. QED BY <4>1, <4>2
    <3>2. QED BY <1>1, <1>6, <2>7, <2>8, <3>1 DEF Second, Reading
  <2>12. Since(t, k)'
    BY <1>7, <2>4, <2>7, <2>10, <2>11 DEF Since
  <2>19. Len(r.b) \in 0 .. 2 /\ j = Len(r.b) + 1
    <3>1. PICK c : c = r.b
      OBVIOUS
    <3>2. Len(c) \in Nat /\ Len(c) <= 2 /\ j = Len(c) + 1
      BY <1>3, <2>1, <2>2, <3>1
    <3>3. Len(c) \in 0 .. 2
      BY <3>2, UpToTwo, Zenon
    <3>4. QED BY <3>1, <3>2, <3>3
  <2>13. p = "b" => Len(q) <= 2
    BY <2>4, <2>8, <2>19
  <2>14. p = "compare" => Len(q) = 3
    <3>1. ASSUME p = "compare" PROVE j = 3
      <4>1. Len(r.b) = 2
        BY <2>4, <3>1, Zenon
      <4>2. j = 2 + 1
        BY <2>2, <4>1, Zenon
      <4>3. QED BY <4>2
    <3>2. QED BY <2>8, <3>1
  <2>15. Running'
    BY <1>11, <2>1, <2>4, <2>7, <2>12, <2>13, <2>14 DEF Running
  <2>16. RtcTypes'
    BY <1>1, <1>2, <1>9, <2>7 DEF RtcInv, RtcTypes
  <2>17. Clock!RtcTrue'
    BY <2>4, <2>7 DEF Clock!RtcTrue
  <2>18. QED BY <1>5, <2>15, <2>16, <2>17 DEF RtcInv
<1>10. QED BY <1>1, <1>8, <1>9

(* Two readings alike: the seconds say that they were taken at the second's  *)
(* beginning, and then neither the hour nor the day can be another's.        *)
LEMMA ReadAlike ==
  ASSUME RtcSizes, RtcInv, rtc.pc = "compare", rtc.a = rtc.b
  PROVE  \E u \in since : rtc.a[1] = u.sec /\ rtc.a[2] = Clock!InMode(u.hour, chip.h12) /\ rtc.a[3] = u.day
<1>1. PICK t \in Times, k \in Nat : Since(t, k)
  BY DEF RtcInv, Running
<1>2. PICK v \in 0 .. k : First(t, v) /\ Second(t, v, Ahead(k))
  BY <1>1 DEF Since
<1>3. PICK m \in BOOLEAN : m = chip.h12
  BY RtcFacts
<1>4. Len(rtc.a) = 3 /\ Len(rtc.b) = 3
  BY DEF RtcInv, Running
<1>5. RtcSeconds \in Nat /\ RtcTicks \in Nat /\ RtcTicks < RtcSeconds
  BY SecondsOn
<1>6. PICK hi \in Nat : hi = Ahead(k) /\ hi < RtcSeconds
  <2>1. PICK c \in [uip : BOOLEAN, todo : RtcTodo, h12 : BOOLEAN, ticks : 0 .. RtcTicks] : c = chip
    BY RtcFacts
  <2>2. Ahead(k) <= c.ticks /\ Ahead(k) \in Nat
    BY <1>1, <2>1 DEF Since, Ahead
  <2>3. QED BY <1>5, <2>2
<1>7. v \in Nat /\ v < RtcSeconds /\ After(t, v) \in since
  <2>1. k <= hi
    BY <1>6 DEF Ahead
  <2>2. After(t, v) \in since
    BY <1>1 DEF Since
  <2>3. QED BY <1>5, <1>6, <2>1, <2>2
<1>8. ASSUME NEW j \in 1 .. 3
      PROVE  \E i \in 0 .. v, n \in v .. hi :
                /\ rtc.a[j] = Clock!Held(After(t, i), m)[Clock!Fields[j]]
                /\ Clock!Held(After(t, i), m)[Clock!Fields[j]] = Clock!Held(After(t, n), m)[Clock!Fields[j]]
  BY <1>2, <1>3, <1>4, <1>6 DEF First, Second, Reading
<1>9. t.sec \in 0 .. RtcSeconds - 1 /\ t.hour \in 0 .. 23 /\ t.day \in Nat
  BY DEF Times
<1>10. \A i \in 0 .. hi : i \in Nat /\ i < RtcSeconds
  BY <1>5, <1>6
<1>11. ASSUME NEW i \in 0 .. v, NEW n \in v .. hi
       PROVE  i \in Nat /\ n \in Nat /\ i < RtcSeconds /\ n < RtcSeconds /\ i <= v /\ v <= n
  BY <1>5, <1>6, <1>7
<1>12. rtc.a[1] = After(t, v).sec
  <2>1. PICK i \in 0 .. v, n \in v .. hi :
          rtc.a[1] = Clock!Held(After(t, i), m)[Clock!Fields[1]] /\ Clock!Held(After(t, i), m)[Clock!Fields[1]] = Clock!Held(After(t, n), m)[Clock!Fields[1]]
    BY <1>8
  <2>2. rtc.a[1] = After(t, i).sec /\ After(t, i).sec = After(t, n).sec
    BY <1>11, <2>1, AfterFacts, HeldFacts
  <2>3. /\ After(t, i).sec = IF t.sec + i < RtcSeconds THEN t.sec + i ELSE t.sec + i - RtcSeconds
        /\ After(t, n).sec = IF t.sec + n < RtcSeconds THEN t.sec + n ELSE t.sec + n - RtcSeconds
    BY <1>11, AfterFacts
  <2>6. i \in Nat /\ n \in Nat /\ i < RtcSeconds /\ n < RtcSeconds /\ i <= v /\ v <= n
    BY <1>11
  <2>7. i <= n
    BY <2>6, <1>7
  <2>8. i = n
    <3>1. PICK s \in 0 .. RtcSeconds - 1 : s = t.sec
      BY <1>9
    <3>2. (IF s + i < RtcSeconds THEN s + i ELSE s + i - RtcSeconds) = (IF s + n < RtcSeconds THEN s + n ELSE s + n - RtcSeconds)
      BY <2>2, <2>3, <3>1
    <3>3. QED BY <1>5, <2>6, <2>7, <3>2
  <2>4. i = v
    BY <1>7, <2>6, <2>8
  <2>5. QED BY <2>2, <2>4
<1>13. rtc.a[2] = Clock!InMode(After(t, v).hour, m)
  <2>1. PICK i \in 0 .. v, n \in v .. hi :
          rtc.a[2] = Clock!Held(After(t, i), m)[Clock!Fields[2]] /\ Clock!Held(After(t, i), m)[Clock!Fields[2]] = Clock!Held(After(t, n), m)[Clock!Fields[2]]
    BY <1>8
  <2>2. After(t, i) \in Times /\ After(t, n) \in Times
    BY <1>11, AfterFacts
  <2>3. rtc.a[2] = Clock!InMode(After(t, i).hour, m) /\ Clock!InMode(After(t, i).hour, m) = Clock!InMode(After(t, n).hour, m)
    BY <2>1, <2>2, HeldFacts
  <2>4. After(t, i).hour \in 0 .. 23 /\ After(t, n).hour \in 0 .. 23
    BY <2>2 DEF Times
  <2>5. After(t, i).hour = After(t, n).hour
    BY <2>3, <2>4, InModeApart
  <2>6. /\ After(t, i).hour = IF t.sec + i < RtcSeconds THEN t.hour ELSE (t.hour + 1) % 24
        /\ After(t, n).hour = IF t.sec + n < RtcSeconds THEN t.hour ELSE (t.hour + 1) % 24
        /\ After(t, v).hour = IF t.sec + v < RtcSeconds THEN t.hour ELSE (t.hour + 1) % 24
    BY <1>7, <1>11, AfterFacts
  <2>7. (t.hour + 1) % 24 # t.hour
    BY <1>9
  <2>8. After(t, v).hour = After(t, i).hour
    <3>1. i \in Nat /\ n \in Nat /\ i < RtcSeconds /\ n < RtcSeconds /\ i <= v /\ v <= n
      BY <1>11
    <3>2. t.sec + i < RtcSeconds <=> t.sec + n < RtcSeconds
      BY <2>5, <2>6, <2>7
    <3>3. t.sec + v < RtcSeconds <=> t.sec + i < RtcSeconds
      BY <1>5, <1>7, <1>9, <3>1, <3>2
    <3>4. QED BY <2>6, <3>3
  <2>9. QED BY <2>3, <2>8
<1>14. rtc.a[3] = After(t, v).day
  <2>1. PICK i \in 0 .. v, n \in v .. hi :
          rtc.a[3] = Clock!Held(After(t, i), m)[Clock!Fields[3]] /\ Clock!Held(After(t, i), m)[Clock!Fields[3]] = Clock!Held(After(t, n), m)[Clock!Fields[3]]
    BY <1>8
  <2>2. rtc.a[3] = After(t, i).day /\ After(t, i).day = After(t, n).day
    BY <1>11, <2>1, AfterFacts, HeldFacts
  <2>3. /\ After(t, i).day = IF t.sec + i < RtcSeconds \/ (t.hour + 1) % 24 # 0 THEN t.day ELSE t.day + 1
        /\ After(t, n).day = IF t.sec + n < RtcSeconds \/ (t.hour + 1) % 24 # 0 THEN t.day ELSE t.day + 1
        /\ After(t, v).day = IF t.sec + v < RtcSeconds \/ (t.hour + 1) % 24 # 0 THEN t.day ELSE t.day + 1
    BY <1>7, <1>11, AfterFacts
  <2>4. After(t, v).day = After(t, i).day
    <3>1. i \in Nat /\ n \in Nat /\ i < RtcSeconds /\ n < RtcSeconds /\ i <= v /\ v <= n
      BY <1>11
    <3>2. CASE (t.hour + 1) % 24 # 0
      BY <2>3, <3>2
    <3>3. CASE (t.hour + 1) % 24 = 0
      <4>5. t.day # t.day + 1
        BY <1>9
      <4>1. t.sec + i < RtcSeconds <=> t.sec + n < RtcSeconds
        BY <2>2, <2>3, <3>3, <4>5
      <4>2. t.sec + v < RtcSeconds <=> t.sec + i < RtcSeconds
        BY <1>5, <1>7, <1>9, <3>1, <4>1
      <4>3. QED BY <2>3, <3>3, <4>2
    <3>4. QED BY <3>2, <3>3
  <2>5. QED BY <2>2, <2>4
<1>15. QED BY <1>3, <1>7, <1>12, <1>13, <1>14

LEMMA CompareKeeps == ASSUME RtcSizes, RtcInv, Clock!Compare PROVE RtcInv'
<1>1. /\ rtc.pc = "compare" /\ UNCHANGED <<time, regs, chip, since>>
      /\ rtc' = IF rtc.a = rtc.b
                THEN [rtc EXCEPT !.pc = IF rtc.set THEN "write" ELSE "done",
                                 !.t = [sec |-> rtc.a[1], hour |-> Clock!Hour(rtc.a[2]), day |-> rtc.a[3]]]
                ELSE [rtc EXCEPT !.try = @ + 1, !.pc = IF rtc.try + 1 < RtcRetries THEN "waitA"
                                                      ELSE IF rtc.set THEN "write" ELSE "done"]
  BY DEF Clock!Compare, Clock!Agree
<1>2. PICK r \in RtcCall : r = rtc
  BY RtcFacts
<1>3. Moving'
  BY <1>1 DEF RtcInv, Moving, InRegs, This1, Next1
<1>4. CASE rtc.a = rtc.b
  <2>1. PICK u \in since : rtc.a[1] = u.sec /\ rtc.a[2] = Clock!InMode(u.hour, chip.h12) /\ rtc.a[3] = u.day
    BY <1>1, <1>4, ReadAlike
  <2>2. u \in Times /\ u.sec \in 0 .. RtcSeconds - 1 /\ u.hour \in 0 .. 23 /\ u.day \in Nat
    BY RtcFacts DEF Times
  <2>3. Clock!Hour(rtc.a[2]) = IF chip.h12 /\ u.hour % 12 = 0 THEN 12 - u.hour ELSE u.hour
    BY <2>1, <2>2, HourBack, RtcFacts
  <2>4. PICK h \in 0 .. 23 : h = IF chip.h12 /\ u.hour % 12 = 0 THEN 12 - u.hour ELSE u.hour
    BY <2>2
  <2>5. PICK s : s = [sec |-> u.sec, hour |-> h, day |-> u.day]
    OBVIOUS
  <2>6. s \in Times
    BY <2>2, <2>5 DEF Times
  <2>7. s = Clock!Shown(u)
    BY <2>2, <2>4, <2>5 DEF Clock!Shown, Times
  <2>8. PICK p \in {"write", "done"} : p = IF rtc.set THEN "write" ELSE "done"
    OBVIOUS
  <2>9. rtc' = [r EXCEPT !.pc = p, !.t = s]
    BY <1>1, <1>2, <1>4, <2>1, <2>3, <2>4, <2>5, <2>8
  <2>10. rtc' \in RtcCall /\ rtc'.pc = p /\ rtc'.t = s
    BY <2>6, <2>9 DEF RtcCall
  <2>11. RtcTypes' /\ Running'
    BY <1>1, <2>8, <2>10 DEF RtcInv, RtcTypes, Running
  <2>12. Clock!Shown(u)' = Clock!Shown(u)
    BY <1>1 DEF Clock!Shown
  <2>13. Clock!RtcTrue'
    BY <1>1, <2>1, <2>7, <2>10, <2>12 DEF Clock!RtcTrue, Clock!Shown
  <2>14. QED BY <1>3, <2>11, <2>13 DEF RtcInv
<1>5. CASE rtc.a # rtc.b
  <2>1. r.try \in Nat /\ r.try < RtcRetries /\ RtcRetries \in Nat
    BY <1>1, <1>2 DEF RtcInv, RtcTypes, RtcCall, RtcSizes
  <2>2. PICK n \in 0 .. RtcRetries : n = r.try + 1
    BY <2>1
  <2>3. PICK p \in {"waitA", "write", "done"} : p = IF n < RtcRetries THEN "waitA" ELSE IF rtc.set THEN "write" ELSE "done"
    OBVIOUS
  <2>4. rtc' = [r EXCEPT !.try = n, !.pc = p]
    BY <1>1, <1>2, <1>5, <2>2, <2>3
  <2>5. rtc' \in RtcCall /\ rtc'.pc = p /\ rtc'.try = n /\ rtc'.t = r.t /\ rtc'.a = r.a /\ rtc'.b = r.b
    BY <2>4 DEF RtcCall
  <2>6. RtcTypes'
    BY <1>1, <2>3, <2>5 DEF RtcInv, RtcTypes
  <2>10. r.t = Clock!Zero
    BY <1>1, <1>2 DEF RtcInv, Running
  <2>7. Running'
    <3>1. PICK t \in Times, k \in Nat : Since(t, k)
      BY <1>1 DEF RtcInv, Running
    <3>2. Since(t, k)'
      BY <1>1, <1>2, <2>5, <2>3, <3>1, SinceSame
    <3>3. QED BY <2>3, <2>5, <2>10, <3>2 DEF Running
  <2>8. Clock!RtcTrue'
    BY <2>5, <2>10 DEF Clock!RtcTrue
  <2>9. QED BY <1>3, <2>6, <2>7, <2>8 DEF RtcInv
<1>6. QED BY <1>4, <1>5

(* What 12 hour mode makes of an hour written as it is.                      *)
LEMMA InTwelve ==
  ASSUME NEW h \in 1 .. 12
  PROVE  h % 12 \in 0 .. 23 /\ Clock!InMode(h % 12, TRUE) = [h |-> h, pm |-> FALSE]
<1>1. h % 12 \in 0 .. 11 /\ (h % 12) % 12 = h % 12 /\ (h % 12 = 0 <=> h = 12) /\ (h < 12 => h % 12 = h)
  BY SMT
<1>2. PICK g \in 0 .. 11 : g = h % 12
  BY <1>1
<1>3. (g >= 12) = FALSE
  BY SMT
<1>4. (IF g = 0 THEN 12 ELSE g) = h
  BY <1>1, <1>2
<1>5. g % 12 = g
  BY <1>1, <1>2
<1>6. Clock!InMode(g, TRUE) = [h |-> IF g = 0 THEN 12 ELSE g, pm |-> FALSE]
  BY <1>3, <1>5, Zenon DEF Clock!InMode
<1>7. g \in 0 .. 23
  OBVIOUS
<1>8. QED BY <1>2, <1>4, <1>6, <1>7, Zenon

LEMMA RtcWriteKeeps == ASSUME RtcSizes, RtcInv, NEW t \in Times, Clock!RtcWrite(t) PROVE RtcInv'
<1>1. /\ rtc.pc = "write" /\ time' = [t EXCEPT !.hour = IF chip.h12 THEN @ % 12 ELSE @]
      /\ regs' = [sec |-> t.sec, hour |-> [h |-> t.hour, pm |-> FALSE], day |-> t.day]
      /\ chip' = [chip EXCEPT !.uip = FALSE, !.todo = <<>>]
      /\ rtc' = [rtc EXCEPT !.pc = IF chip.h12 /\ t.hour \notin 1 .. 12 THEN "unset" ELSE "idle"]
      /\ since' = since
  BY DEF Clock!RtcWrite
<1>2. PICK r \in RtcCall : r = rtc
  BY RtcFacts
<1>3. PICK c \in [uip : BOOLEAN, todo : RtcTodo, h12 : BOOLEAN, ticks : 0 .. RtcTicks] : c = chip
  BY RtcFacts
<1>4. t.sec \in 0 .. RtcSeconds - 1 /\ t.hour \in 0 .. 23 /\ t.day \in Nat
  BY DEF Times
<1>5. PICK h \in 0 .. 23 : h = IF chip.h12 THEN t.hour % 12 ELSE t.hour
  <2>1. t.hour % 12 \in 0 .. 23
    BY <1>4
  <2>2. QED BY <1>4, <2>1
<1>6. time' \in Times /\ time'.sec = t.sec /\ time'.hour = h /\ time'.day = t.day
  <2>1. time' = [t EXCEPT !.hour = h]
    BY <1>1, <1>5
  <2>2. QED BY <2>1 DEF Times
<1>7. PICK f \in HourForm : f = [h |-> t.hour, pm |-> FALSE]
  <2>1. FALSE \in BOOLEAN
    BY Zenon
  <2>2. QED BY <1>4, <2>1 DEF HourForm
<1>8. regs' \in Registers /\ regs'.sec = t.sec /\ regs'.hour = f /\ regs'.day = t.day
  <2>1. regs' = [sec |-> t.sec, hour |-> f, day |-> t.day]
    BY <1>1, <1>7
  <2>2. QED BY <1>4, <2>1 DEF Registers
<1>9. /\ chip' \in [uip : BOOLEAN, todo : RtcTodo, h12 : BOOLEAN, ticks : 0 .. RtcTicks]
      /\ chip'.uip = FALSE /\ chip'.todo = <<>> /\ chip'.h12 = c.h12
  <2>1. FALSE \in BOOLEAN
    BY Zenon
  <2>2. <<>> \in RtcTodo
    BY DEF RtcTodo
  <2>3. chip' = [c EXCEPT !.uip = FALSE, !.todo = <<>>]
    BY <1>1, <1>3
  <2>4. QED BY <2>1, <2>2, <2>3
<1>10. rtc' \in RtcCall /\ rtc'.pc \in {"idle", "unset"} /\ (rtc'.pc = "idle" => ~chip.h12 \/ t.hour \in 1 .. 12)
  <2>1. PICK p \in {"idle", "unset"} : p = IF chip.h12 /\ t.hour \notin 1 .. 12 THEN "unset" ELSE "idle"
    OBVIOUS
  <2>2. rtc' = [r EXCEPT !.pc = p]
    BY <1>1, <1>2, <2>1
  <2>3. rtc' \in RtcCall /\ rtc'.pc = p
    BY <2>2 DEF RtcCall
  <2>4. QED BY <2>1, <2>3
<1>11. RtcTypes'
  BY <1>1, <1>6, <1>8, <1>9, <1>10 DEF RtcInv, RtcTypes
<1>12. ASSUME rtc'.pc # "unset" PROVE InRegs'
  <2>1. ~chip.h12 \/ t.hour \in 1 .. 12
    BY <1>10, <1>12
  <2>2. Clock!InMode(h, c.h12) = f
    <3>1. CASE ~c.h12
      BY <1>3, <1>5, <1>7, <3>1 DEF Clock!InMode
    <3>2. CASE c.h12
      <4>1. t.hour \in 1 .. 12 /\ h = t.hour % 12
        BY <1>3, <1>5, <2>1, <3>2
      <4>2. Clock!InMode(t.hour % 12, TRUE) = f
        BY <1>7, <4>1, InTwelve
      <4>3. c.h12 = TRUE
        BY <3>2, Zenon
      <4>4. QED BY <4>1, <4>2, <4>3
    <3>3. QED BY <3>1, <3>2
  <2>3. This1'.sec = t.sec /\ This1'.hour = f /\ This1'.day = t.day
    <3>1. This1' = Clock!Held(time', c.h12)
      BY <1>9 DEF This1
    <3>2. QED BY <1>6, <2>2, <3>1, HeldFacts
  <2>4. QED BY <1>8, <1>9, <2>3 DEF InRegs
<1>13. Moving'
  BY <1>9, <1>12 DEF Moving
<1>14. Running' /\ Clock!RtcTrue'
  BY <1>10 DEF Running, Clock!RtcTrue
<1>15. QED BY <1>11, <1>13, <1>14 DEF RtcInv

LEMMA SetKeeps == ASSUME RtcSizes, RtcInv, Clock!CmdTime \/ Clock!CmdDate PROVE RtcInv'
<1>1. rtc.t \in Times /\ rtc.t.day \in Nat
  BY RtcFacts DEF RtcCall, Times
<1>2. CASE Clock!CmdTime
  <2>1. PICK h \in RtcHours : Clock!RtcWrite([sec |-> 0, hour |-> h, day |-> rtc.t.day])
    BY <1>2 DEF Clock!CmdTime
  <2>2. 0 \in 0 .. RtcSeconds - 1 /\ h \in 0 .. 23
    BY SecondsOn DEF RtcSizes
  <2>3. [sec |-> 0, hour |-> h, day |-> rtc.t.day] \in Times
    BY <1>1, <2>2 DEF Times
  <2>4. QED BY <2>1, <2>3, RtcWriteKeeps
<1>3. CASE Clock!CmdDate
  <2>1. [rtc.t EXCEPT !.day = 1] \in Times
    BY <1>1 DEF Times
  <2>2. QED BY <1>3, <2>1, RtcWriteKeeps DEF Clock!CmdDate
<1>4. QED BY <1>2, <1>3

LEMMA RtcStepKeeps == ASSUME RtcSizes, RtcInv, [Clock!Next]_(Clock!rtcVars) PROVE RtcInv'
<1>1. CASE UNCHANGED Clock!rtcVars
  BY <1>1 DEF Clock!rtcVars, RtcInv, RtcTypes, Moving, InRegs, This1, Next1, Running, Since, Ahead, First, Second, Reading,
              Clock!RtcTrue, Clock!Shown
<1>2. QED BY <1>1, UipSetsKeeps, RegMovesKeeps, UipClearsKeeps, RtcReadKeeps, UipSeenKeeps, ReadRegKeeps,
             CompareKeeps, SetKeeps DEF Clock!Next

LEMMA RtcTypeOK == ASSUME RtcSizes, RtcInv PROVE Clock!TypeOK
BY DEF RtcInv, RtcTypes, RtcCall, Times, Clock!TypeOK

-----------------------------------------------------------------------------
(* The AHCI driver: the ports that were set up, their slots and the command a *)
(* call waits for.                                                           *)
SataWord == Nat \X Nat \X Nat
SataReg == [clb : Sata!SataPort, ci : BOOLEAN, tfes : BOOLEAN, err : BOOLEAN, run : BOOLEAN, gave : BOOLEAN]
SataCmd == [op : {"blank", "identify", "read", "write"}, port : Nat, lba : Nat, n : Nat, off : Nat, call : Nat]
SataCall == [pc : {"probe", "issue", "poll", "check", "idle", "done", "failed", "overrun"}, op : {"identify", "read", "write"},
             slot : Nat, port : Sata!SataPort, lba : Nat, count : Nat, off : Nat, call : 0 .. SataCalls,
             out : Seq(SataWord)]
SataDisk == [port : Sata!SataPort, size : Sata!SataPort]

SataTypes ==
    /\ attached \subseteq Sata!SataPort /\ sata \in [Sata!SataPort -> SataReg] /\ cmds \in [Sata!SataPort -> SataCmd]
    /\ ioBuf \in 0 .. SataPorts /\ slots \in Seq(SataDisk) /\ ahci \in SataCall
    /\ platter \in [Sata!SataPort -> [1 .. SataSectors -> SataWord]]

(* ahci_init is at a port; the ports above it were not touched.              *)
Probing == ahci.pc \in {"probe", "issue", "poll", "check"} /\ ahci.op = "identify"
Fresh(q) == ~sata[q].ci /\ ~sata[q].tfes /\ ~sata[q].err /\ ~sata[q].run
Probed ==
    /\ Probing => /\ \A k \in 1 .. Len(slots) : slots[k].port < ahci.port
                  /\ \A q \in Sata!SataPort : q > ahci.port => Fresh(q)
    /\ ahci.pc = "probe" => ahci.op = "identify" /\ Fresh(ahci.port)
    /\ Probing /\ ahci.pc # "probe" => ahci.port \in attached /\ sata[ahci.port].clb = Len(slots)

(* The disks are in the order of their ports, and each port's list is that   *)
(* of its slot; a port left out has the list of a later one at most.         *)
Listed ==
    /\ \A k \in 1 .. Len(slots) : /\ slots[k].port \in attached /\ sata[slots[k].port].clb = k - 1
                                  /\ k - 1 <= slots[k].port
    /\ \A i, k \in 1 .. Len(slots) : i < k => slots[i].port < slots[k].port
    /\ \A p \in Sata!SataPort : sata[p].run =>
         /\ sata[p].clb <= p /\ sata[p].clb <= Len(slots)
         /\ sata[p].clb < Len(slots) => p <= slots[sata[p].clb + 1].port

(* A port that failed has stopped; one that works is being waited for, or    *)
(* a wait for it was given up.                                               *)
Stopped == \A q \in Sata!SataPort : sata[q].tfes \/ sata[q].err => ~sata[q].run
Awaited == \A q \in Sata!SataPort : sata[q].ci /\ sata[q].run /\ ~sata[q].gave => ahci.pc = "poll" /\ ahci.port = q
Ended == ahci.pc = "check" /\ sata[ahci.port].ci => sata[ahci.port].gave

(* A command has the number of its port, and moves sectors of the disk only; *)
(* that of the call is the one it is at.                                     *)
Commands ==
    /\ \A q \in Sata!SataPort : LET c == cmds[q] IN
         /\ c.lba >= 1 /\ c.lba + c.n <= SataSectors + 1
         /\ c.op # "blank" => c.port = q
         /\ c.op \in {"read", "write"} => \E k \in 1 .. Len(slots) : slots[k].port = q
    /\ ahci.lba >= 1 /\ ahci.lba + ahci.count <= SataSectors + 1 /\ ahci.off <= ahci.count
    /\ ahci.pc \in {"poll", "check"} =>
         cmds[ahci.port] = [op |-> ahci.op, port |-> ahci.port, lba |-> ahci.lba + ahci.off, n |-> Sata!InChunk,
                            off |-> ahci.off, call |-> ahci.call]
    /\ ahci.op \in {"read", "write"} =>
         ahci.slot \in 1 .. Len(slots) /\ slots[ahci.slot].port = ahci.port /\ Len(ahci.out) = ahci.count
    /\ ahci.pc \in {"done", "failed"} => ahci.op # "identify"
    /\ ahci.pc = "done" => ahci.off = ahci.count

(* What a call has moved so far, and the size that was found.                *)
SectorMoved(i) ==
    LET s == ahci.lba + i - 1 IN
    IF ahci.op = "read" THEN Sata!Prompt(Sata!SataPort) => ahci.out[i] = platter[ahci.port][s]
    ELSE ~sata[ahci.port].gave => platter[ahci.port][s] = Sata!Data(ahci.port, s, ahci.call)
Answered == ahci.pc \in {"poll", "check"} /\ ~sata[ahci.port].ci /\ ~sata[ahci.port].err
Transfers ==
    /\ ahci.op \in {"read", "write"} /\ Sata!Own(ahci.slot) /\ ahci.pc \in {"issue", "poll", "check", "done"} =>
         /\ \A i \in 1 .. ahci.off : SectorMoved(i)
         /\ Answered => \A i \in ahci.off + 1 .. ahci.off + Sata!InChunk : SectorMoved(i)
    /\ Probing /\ Answered /\ Len(slots) = ahci.port /\ Sata!Prompt(Sata!SataPort) => ioBuf = ahci.port

Sized == Sata!Prompt(Sata!SataPort) => \A k \in 1 .. Len(slots) : Sata!Own(k) => slots[k].size = slots[k].port
Kept == (\A k \in 1 .. Len(slots) : Sata!Own(k)) =>
          \A p \in Sata!SataPort, s \in 1 .. SataSectors : platter[p][s][1] = p /\ platter[p][s][2] = s

AhciInv == /\ SataTypes /\ Probed /\ Listed /\ Stopped /\ Awaited /\ Ended /\ Commands /\ Transfers
           /\ Sized /\ Kept

-----------------------------------------------------------------------------
LEMMA SataFacts ==
  ASSUME SataSizes, AhciInv
  PROVE  /\ ahci \in SataCall /\ ahci.port \in Sata!SataPort /\ ahci.port \in Nat /\ ahci.off \in Nat /\ ahci.count \in Nat
         /\ ahci.lba \in Nat /\ ahci.call \in Nat /\ ahci.out \in Seq(SataWord)
         /\ \A q \in Sata!SataPort : q \in Nat /\ sata[q] \in SataReg /\ cmds[q] \in SataCmd /\ sata[q].clb \in Sata!SataPort
         /\ slots \in Seq(SataDisk) /\ Len(slots) \in Nat
         /\ \A k \in 1 .. Len(slots) : slots[k] \in SataDisk /\ slots[k].port \in Sata!SataPort
         /\ SataPorts \in Nat /\ SataPorts > 0 /\ SataSectors \in Nat /\ SataChunk \in Nat /\ SataCalls \in Nat
         /\ platter \in [Sata!SataPort -> [1 .. SataSectors -> SataWord]]
<1>1. SataTypes
  BY DEF AhciInv
<1>2. SataPorts \in Nat /\ SataPorts > 0 /\ SataSectors \in Nat /\ SataChunk \in Nat /\ SataCalls \in Nat
  BY DEF SataSizes
<1>3. PICK a \in SataCall : a = ahci
  BY <1>1 DEF SataTypes
<1>4. /\ a.port \in Sata!SataPort /\ a.off \in Nat /\ a.count \in Nat /\ a.lba \in Nat /\ a.call \in 0 .. SataCalls
      /\ a.out \in Seq(SataWord)
  BY DEF SataCall
<1>5. a.call \in Nat /\ a.port \in Nat
  BY <1>2, <1>4 DEF Sata!SataPort
<1>6. ASSUME NEW q \in Sata!SataPort
      PROVE  q \in Nat /\ sata[q] \in SataReg /\ cmds[q] \in SataCmd /\ sata[q].clb \in Sata!SataPort
  <2>1. sata[q] \in SataReg /\ cmds[q] \in SataCmd
    BY <1>1 DEF SataTypes
  <2>2. PICK r \in SataReg : r = sata[q]
    BY <2>1
  <2>3. r.clb \in Sata!SataPort
    BY DEF SataReg
  <2>4. q \in Nat
    BY <1>2 DEF Sata!SataPort
  <2>5. QED BY <2>1, <2>2, <2>3, <2>4
<1>7. slots \in Seq(SataDisk) /\ Len(slots) \in Nat
  BY <1>1 DEF SataTypes
<1>8. ASSUME NEW k \in 1 .. Len(slots) PROVE slots[k] \in SataDisk /\ slots[k].port \in Sata!SataPort
  <2>1. PICK d \in SataDisk : d = slots[k]
    BY <1>7
  <2>2. d.port \in Sata!SataPort
    BY DEF SataDisk
  <2>3. QED BY <2>1, <2>2
<1>9. platter \in [Sata!SataPort -> [1 .. SataSectors -> SataWord]]
  BY <1>1 DEF SataTypes
<1>10. QED BY <1>2, <1>3, <1>4, <1>5, <1>6, <1>7, <1>8, <1>9

(* One port's registers change. *)
LEMMA OnePort ==
  ASSUME NEW f \in [Sata!SataPort -> SataReg], NEW p \in Sata!SataPort, NEW r \in SataReg, NEW g, g = [f EXCEPT ![p] = r]
  PROVE  g \in [Sata!SataPort -> SataReg] /\ g[p] = r /\ \A q \in Sata!SataPort : q # p => g[q] = f[q]
OBVIOUS

LEMMA AhciInitially == ASSUME SataSizes, Sata!Init PROVE AhciInv
<1>1. SataPorts \in Nat /\ SataPorts > 0 /\ SataSectors \in Nat /\ SataCalls \in Nat /\ 0 \in Sata!SataPort
  BY DEF SataSizes, Sata!SataPort
<1> DEFINE r == [clb |-> 0, ci |-> FALSE, tfes |-> FALSE, err |-> FALSE, run |-> FALSE, gave |-> FALSE]
<1>2. r \in SataReg
  BY <1>1 DEF SataReg
<1> HIDE DEF r
<1>3. sata = [p \in Sata!SataPort |-> r]
  BY DEF Sata!Init, r
<1>4. \A q \in Sata!SataPort : sata[q] = r
  BY <1>3
<1>5. ~r.ci /\ ~r.tfes /\ ~r.err /\ ~r.run
  BY DEF r
<1>6. \A q \in Sata!SataPort : cmds[q] = Sata!Blank
  BY DEF Sata!Init
<1>7. slots = <<>> /\ Len(slots) = 0 /\ slots \in Seq(SataDisk)
  BY DEF Sata!Init
<1>8. ahci = [pc |-> "probe", op |-> "identify", slot |-> 1, port |-> 0, lba |-> 1,
              count |-> 0, off |-> 0, call |-> 0, out |-> <<>>]
  BY DEF Sata!Init
<1>9. SataTypes
  <2>1. attached \subseteq Sata!SataPort /\ ioBuf \in 0 .. SataPorts
    BY <1>1 DEF Sata!Init, Sata!Nobody
  <2>2. sata \in [Sata!SataPort -> SataReg]
    BY <1>2, <1>3
  <2>3. Sata!Blank \in SataCmd
    BY DEF Sata!Blank, SataCmd
  <2>4. cmds \in [Sata!SataPort -> SataCmd]
    BY <2>3 DEF Sata!Init
  <2>5. <<>> \in Seq(SataWord)
    OBVIOUS
  <2>6. ahci \in SataCall
    BY <1>1, <1>8, <2>5 DEF SataCall
  <2>7. platter \in [Sata!SataPort -> [1 .. SataSectors -> SataWord]]
    <3>1. \A p \in Sata!SataPort, s \in 1 .. SataSectors : Sata!Data(p, s, 0) \in SataWord
      BY <1>1 DEF Sata!Data, SataWord, Sata!SataPort
    <3>2. QED BY <3>1 DEF Sata!Init
  <2>8. QED BY <1>7, <2>1, <2>2, <2>4, <2>6, <2>7 DEF SataTypes
<1>10. Probed
  BY <1>1, <1>4, <1>5, <1>7, <1>8 DEF Probed, Fresh, Probing
<1>11. Listed /\ Stopped /\ Awaited /\ Ended
  BY <1>4, <1>5, <1>7, <1>8 DEF Listed, Stopped, Awaited, Ended
<1>12. Commands
  BY <1>1, <1>6, <1>8 DEF Commands, Sata!Blank
<1>13. Transfers /\ Sized
  BY <1>7, <1>8 DEF Transfers, Answered, Sized
<1>14. Kept
  <2>1. \A p \in Sata!SataPort, s \in 1 .. SataSectors : platter[p][s] = Sata!Data(p, s, 0)
    BY DEF Sata!Init
  <2>2. QED BY <2>1 DEF Kept, Sata!Data
<1>15. QED BY <1>9, <1>10, <1>11, <1>12, <1>13, <1>14 DEF AhciInv

(* The next port, or the end of ahci_init. *)
LEMMA NextPortIs ==
  ASSUME SataSizes, AhciInv, ahci.pc \in {"probe", "check"}, ahci.op = "identify",
         NEW taken, ahci' = Sata!NextPort(taken)
  PROVE  /\ ahci' \in SataCall /\ ahci'.op = "identify" /\ ahci'.slot = ahci.slot /\ ahci'.lba = ahci.lba
         /\ ahci'.count = ahci.count /\ ahci'.off = ahci.off
         /\ \/ ahci'.pc = "idle"
            \/ ahci'.pc = "probe" /\ ahci'.port = ahci.port + 1 /\ ahci'.port \in Sata!SataPort
<1>1. PICK a \in SataCall : a = ahci
  BY SataFacts
<1>2. a.port \in 0 .. SataPorts - 1 /\ SataPorts \in Nat /\ SataPorts > 0
  BY <1>1, SataFacts DEF Sata!SataPort
<1>3. CASE a.port + 1 = SataPorts \/ taken = SataSlots
  <2>1. ahci' = [a EXCEPT !.pc = "idle", !.port = 0]
    BY <1>1, <1>3 DEF Sata!NextPort
  <2>2. 0 \in Sata!SataPort
    BY <1>2 DEF Sata!SataPort
  <2>3. QED BY <1>1, <2>1, <2>2 DEF SataCall
<1>4. CASE ~(a.port + 1 = SataPorts \/ taken = SataSlots)
  <2>1. PICK n \in Sata!SataPort : n = a.port + 1
    BY <1>2, <1>4 DEF Sata!SataPort
  <2>2. ahci' = [a EXCEPT !.pc = "probe", !.port = n]
    BY <1>1, <1>4, <2>1 DEF Sata!NextPort
  <2>3. QED BY <1>1, <2>1, <2>2 DEF SataCall
<1>5. QED BY <1>3, <1>4

LEMMA SkipPortKeeps == ASSUME SataSizes, AhciInv, Sata!SkipPort PROVE AhciInv'
<1>1. ahci.pc = "probe" /\ ahci' = Sata!NextPort(Len(slots)) /\ UNCHANGED <<attached, sata, cmds, ioBuf, slots, platter>>
  BY DEF Sata!SkipPort
<1>2. ahci.op = "identify" /\ Probing
  BY <1>1 DEF AhciInv, Probed, Probing
<1>3. /\ ahci' \in SataCall /\ ahci'.op = "identify" /\ ahci'.slot = ahci.slot /\ ahci'.lba = ahci.lba
      /\ ahci'.count = ahci.count /\ ahci'.off = ahci.off
      /\ \/ ahci'.pc = "idle"
         \/ ahci'.pc = "probe" /\ ahci'.port = ahci.port + 1 /\ ahci'.port \in Sata!SataPort
  BY <1>1, <1>2, NextPortIs
<1>4. SataTypes'
  BY <1>1, <1>3 DEF AhciInv, SataTypes
<1>5. Probed'
  <2>1. \A k \in 1 .. Len(slots) : slots[k].port < ahci.port
    BY <1>2 DEF AhciInv, Probed
  <2>2. \A q \in Sata!SataPort : q > ahci.port => Fresh(q)
    BY <1>2 DEF AhciInv, Probed
  <2>3. ahci.port \in Nat /\ \A q \in Sata!SataPort : q \in Nat
    BY SataFacts
  <2>4. \A k \in 1 .. Len(slots) : slots[k].port \in Nat
    BY SataFacts
  <2>5. CASE ahci'.pc = "idle"
    BY <1>3, <2>5 DEF Probed, Probing
  <2>6. CASE ahci'.pc = "probe" /\ ahci'.port = ahci.port + 1 /\ ahci'.port \in Sata!SataPort
    <3>1. \A q \in Sata!SataPort : q >= ahci'.port => Fresh(q)'
      BY <1>1, <2>2, <2>3, <2>6 DEF Fresh
    <3>2. \A k \in 1 .. Len(slots) : slots[k].port < ahci'.port
      BY <2>1, <2>3, <2>4, <2>6
    <3>3. QED BY <1>1, <1>3, <2>3, <2>6, <3>1, <3>2 DEF Probed, Probing
  <2>7. QED BY <1>3, <2>5, <2>6
<1>6. Listed' /\ Stopped'
  BY <1>1 DEF AhciInv, Listed, Stopped
<1>7. Awaited' /\ Ended'
  BY <1>1, <1>3 DEF AhciInv, Awaited, Ended
<1>8. Commands'
  BY <1>1, <1>3 DEF AhciInv, Commands
<1>9. Transfers' /\ Sized' /\ Kept'
  BY <1>1, <1>3 DEF AhciInv, Transfers, Answered, Sized, Kept, Sata!Own, Sata!Prompt
<1>10. QED BY <1>4, <1>5, <1>6, <1>7, <1>8, <1>9 DEF AhciInv

LEMMA RegisterKeeps == ASSUME SataSizes, AhciInv, Sata!Register PROVE AhciInv'
<1>1. /\ ahci.pc = "check" /\ ahci.op = "identify" /\ ahci' = Sata!NextPort(Len(slots'))
      /\ UNCHANGED <<attached, sata, cmds, ioBuf, platter>>
      /\ slots' = IF sata[ahci.port].err \/ ioBuf = Sata!Nobody THEN slots
                  ELSE Append(slots, [port |-> ahci.port, size |-> ioBuf])
  BY DEF Sata!Register
<1>2. Probing
  BY <1>1 DEF Probing
<1>3. /\ ahci' \in SataCall /\ ahci'.op = "identify" /\ ahci'.slot = ahci.slot /\ ahci'.lba = ahci.lba
      /\ ahci'.count = ahci.count /\ ahci'.off = ahci.off
      /\ \/ ahci'.pc = "idle"
         \/ ahci'.pc = "probe" /\ ahci'.port = ahci.port + 1 /\ ahci'.port \in Sata!SataPort
  BY <1>1, NextPortIs
<1>4. PICK m \in Nat : m = Len(slots)
  BY SataFacts
<1>5. PICK p \in Sata!SataPort : p = ahci.port
  BY SataFacts
<1>6. /\ \A k \in 1 .. m : slots[k].port < p
      /\ \A q \in Sata!SataPort : q > p => Fresh(q)
      /\ p \in attached /\ sata[p].clb = m
  BY <1>1, <1>2, <1>4, <1>5 DEF AhciInv, Probed
<1>7. \E n \in Nat : /\ n = Len(slots)' /\ slots' \in Seq(SataDisk) /\ \A k \in 1 .. m : slots'[k] = slots[k]
                     /\ \/ n = m /\ slots' = slots
                        \/ /\ n = m + 1 /\ slots'[n].port = p /\ slots'[n].size = ioBuf
                           /\ ~sata[p].err
  <2>1. CASE sata[p].err \/ ioBuf = Sata!Nobody
    BY <1>1, <1>4, <1>5, <2>1, SataFacts
  <2>2. CASE ~(sata[p].err \/ ioBuf = Sata!Nobody)
    <3>1. ioBuf \in Sata!SataPort
      BY <2>2, SataFacts DEF AhciInv, SataTypes, Sata!Nobody, Sata!SataPort
    <3>2. PICK d \in SataDisk : d = [port |-> p, size |-> ioBuf]
      BY <3>1 DEF SataDisk
    <3>3. slots' = Append(slots, d)
      BY <1>1, <1>5, <2>2, <3>2
    <3>4. slots \in Seq(SataDisk)
      BY SataFacts
    <3>5. /\ Append(slots, d) \in Seq(SataDisk) /\ Len(Append(slots, d)) = m + 1 /\ Append(slots, d)[m + 1] = d
          /\ \A k \in 1 .. m : Append(slots, d)[k] = slots[k]
      BY <1>4, <3>4, AppendProperties
    <3>6. QED BY <2>2, <3>2, <3>3, <3>5
  <2>3. QED BY <2>1, <2>2
<1>8. PICK n \in Nat : /\ n = Len(slots)' /\ slots' \in Seq(SataDisk) /\ \A k \in 1 .. m : slots'[k] = slots[k]
                       /\ \/ n = m /\ slots' = slots
                          \/ /\ n = m + 1 /\ slots'[n].port = p /\ slots'[n].size = ioBuf
                             /\ ~sata[p].err
  BY <1>7
<1>9. p \in Nat /\ \A q \in Sata!SataPort : q \in Nat /\ sata[q].clb \in Nat
  BY <1>5, SataFacts DEF Sata!SataPort
<1>10. \A k \in 1 .. m : slots[k].port \in Nat /\ slots[k].port \in Sata!SataPort
  BY <1>4, <1>9, SataFacts
<1>11. \A k \in 1 .. n : k \in 1 .. m \/ k = m + 1
  BY <1>8
<1>12. SataTypes'
  BY <1>1, <1>3, <1>8 DEF AhciInv, SataTypes
<1>13. Probed'
  <2>1. \A k \in 1 .. n : slots'[k].port < p + 1
    BY <1>6, <1>8, <1>9, <1>10, <1>11
  <2>2. CASE ahci'.pc = "idle"
    BY <1>3, <2>2 DEF Probed, Probing
  <2>3. CASE ahci'.pc = "probe" /\ ahci'.port = ahci.port + 1 /\ ahci'.port \in Sata!SataPort
    <3>1. \A q \in Sata!SataPort : q >= ahci'.port => Fresh(q)'
      BY <1>1, <1>5, <1>6, <1>9, <2>3 DEF Fresh
    <3>3. QED BY <1>1, <1>3, <1>5, <1>8, <1>9, <2>1, <2>3, <3>1 DEF Probed, Probing
  <2>4. QED BY <1>3, <2>2, <2>3
<1>14. Listed'
  <2>1. /\ \A k \in 1 .. m : slots[k].port \in attached /\ sata[slots[k].port].clb = k - 1 /\ k - 1 <= slots[k].port
        /\ \A i, k \in 1 .. m : i < k => slots[i].port < slots[k].port
        /\ \A q \in Sata!SataPort : sata[q].run => /\ sata[q].clb <= q /\ sata[q].clb <= m
                                                   /\ sata[q].clb < m => q <= slots[sata[q].clb + 1].port
    BY <1>4 DEF AhciInv, Listed
  <2>2. m <= p
    <3>1. CASE m = 0
      BY <1>9, <3>1
    <3>2. CASE m # 0
      <4>1. m \in 1 .. m /\ m - 1 <= slots[m].port /\ slots[m].port < p /\ slots[m].port \in Nat
        BY <1>6, <1>10, <2>1, <3>2
      <4>2. QED BY <1>9, <4>1
    <3>3. QED BY <3>1, <3>2
  <2>3. \A k \in 1 .. n : slots'[k].port \in attached /\ sata[slots'[k].port].clb = k - 1 /\ k - 1 <= slots'[k].port
    BY <1>6, <1>8, <1>9, <1>11, <2>1, <2>2
  <2>4. \A i, k \in 1 .. n : i < k => slots'[i].port < slots'[k].port
    BY <1>6, <1>8, <1>11, <2>1
  <2>5. ASSUME NEW q \in Sata!SataPort, sata[q].run
        PROVE  /\ sata[q].clb <= q /\ sata[q].clb <= n
               /\ sata[q].clb < n => q <= slots'[sata[q].clb + 1].port
    <3>1. PICK c \in Nat : c = sata[q].clb
      BY <1>9
    <3>2. c <= q /\ c <= m /\ (c < m => q <= slots[c + 1].port)
      BY <2>1, <2>5, <3>1
    <3>3. q <= p
      <4>1. q \in Nat /\ p \in Nat
        BY <1>9
      <4>2. CASE q > p
        <5>1. Fresh(q)
          BY <1>6, <4>2
        <5>2. QED BY <2>5, <5>1 DEF Fresh
      <4>3. QED BY <4>1, <4>2
    <3>4. c < m => c + 1 \in 1 .. m
      OBVIOUS
    <3>5. c < n => q <= slots'[c + 1].port
      BY <1>8, <3>2, <3>3, <3>4
    <3>6. QED BY <1>8, <3>1, <3>2, <3>5
  <2>6. QED BY <1>1, <1>8, <2>3, <2>4, <2>5 DEF Listed
<1>15. Stopped'
  BY <1>1 DEF AhciInv, Stopped
<1>16. Awaited' /\ Ended'
  BY <1>1, <1>3 DEF AhciInv, Awaited, Ended
<1>17. Commands'
  <2>1. \A q \in Sata!SataPort : cmds[q].op \in {"read", "write"} => \E k \in 1 .. n : slots'[k].port = q
    <3>1. \A q \in Sata!SataPort : cmds[q].op \in {"read", "write"} => \E k \in 1 .. m : slots[k].port = q
      BY <1>4 DEF AhciInv, Commands
    <3>2. \A k \in 1 .. m : k \in 1 .. n /\ slots'[k].port = slots[k].port
      BY <1>8
    <3>3. QED BY <3>1, <3>2
  <2>2. QED BY <1>1, <1>3, <1>8, <2>1 DEF AhciInv, Commands
<1>18. Transfers'
  BY <1>1, <1>3 DEF AhciInv, Transfers, Answered
<1>19. Sized'
  <2>1. ASSUME Sata!Prompt(Sata!SataPort), NEW k \in 1 .. n, slots'[k].port = k - 1 PROVE slots'[k].size = slots'[k].port
    <3>1. CASE k \in 1 .. m
      BY <1>4, <1>8, <2>1, <3>1 DEF AhciInv, Sized, Sata!Own
    <3>2. CASE k \notin 1 .. m
      <4>1. k = m + 1 /\ n = m + 1 /\ slots'[n].port = p /\ slots'[n].size = ioBuf /\ ~sata[p].err
        BY <1>8, <1>11, <3>2
      <4>2. p = m
        BY <1>9, <2>1, <4>1
      <4>3. ~sata[p].gave /\ ~sata[p].ci
        BY <1>1, <1>5, <2>1 DEF AhciInv, Ended, Sata!Prompt
      <4>4. Answered
        BY <1>1, <1>5, <4>1, <4>3 DEF Answered
      <4>5. ioBuf = p
        BY <1>2, <1>4, <1>5, <2>1, <4>2, <4>4 DEF AhciInv, Transfers
      <4>6. QED BY <4>1, <4>5
    <3>3. QED BY <3>1, <3>2
  <2>2. QED BY <1>1, <1>8, <2>1 DEF Sized, Sata!Own, Sata!Prompt
<1>20. Kept'
  <2>1. (\A k \in 1 .. n : Sata!Own(k)') => \A k \in 1 .. m : Sata!Own(k)
    BY <1>8 DEF Sata!Own
  <2>2. QED BY <1>1, <1>4, <1>8, <2>1 DEF AhciInv, Kept
<1>21. QED BY <1>12, <1>13, <1>14, <1>15, <1>16, <1>17, <1>18, <1>19, <1>20 DEF AhciInv


(* The port's list is that of the next slot, which is not above it.          *)
LEMMA SetUpPortKeeps == ASSUME SataSizes, AhciInv, Sata!SetUpPort PROVE AhciInv'
<1>1. /\ ahci.pc = "probe" /\ ahci.port \in attached
      /\ sata' = [sata EXCEPT ![ahci.port].clb = Len(slots), ![ahci.port].run = TRUE]
      /\ ahci' = [ahci EXCEPT !.pc = "issue"]
      /\ UNCHANGED <<attached, cmds, ioBuf, slots, platter>>
  BY DEF Sata!SetUpPort
<1>2. PICK p \in Sata!SataPort : p = ahci.port
  BY SataFacts
<1>3. PICK m \in Nat : m = Len(slots)
  BY SataFacts
<1>4. /\ ahci.op = "identify" /\ Fresh(p) /\ p \in attached
      /\ \A k \in 1 .. m : slots[k].port < p
      /\ \A q \in Sata!SataPort : q > p => Fresh(q)
  BY <1>1, <1>2, <1>3 DEF AhciInv, Probed, Probing
<1>5. p \in Nat /\ \A q \in Sata!SataPort : q \in Nat /\ sata[q].clb \in Nat
  BY <1>2, SataFacts DEF Sata!SataPort
<1>6. \A k \in 1 .. m : slots[k].port \in Nat /\ slots[k].port \in Sata!SataPort
  BY <1>3, <1>5, SataFacts
<1>7. /\ \A k \in 1 .. m : slots[k].port \in attached /\ sata[slots[k].port].clb = k - 1 /\ k - 1 <= slots[k].port
      /\ \A i, k \in 1 .. m : i < k => slots[i].port < slots[k].port
      /\ \A q \in Sata!SataPort : sata[q].run => /\ sata[q].clb <= q /\ sata[q].clb <= m
                                                 /\ sata[q].clb < m => q <= slots[sata[q].clb + 1].port
  BY <1>3 DEF AhciInv, Listed
<1>8. m <= p
  <2>1. CASE m = 0
    BY <1>5, <2>1
  <2>2. CASE m # 0
    <3>1. m \in 1 .. m /\ m - 1 <= slots[m].port /\ slots[m].port < p /\ slots[m].port \in Nat
      BY <1>4, <1>6, <1>7, <2>2
    <3>2. QED BY <1>5, <3>1
  <2>3. QED BY <2>1, <2>2
<1>9. PICK r \in SataReg : r = sata[p]
  BY SataFacts
<1>10. PICK x \in SataReg : x = [r EXCEPT !.clb = m, !.run = TRUE]
  <2>1. m \in Sata!SataPort
    BY <1>2, <1>5, <1>8, SataFacts DEF Sata!SataPort
  <2>2. QED BY <2>1 DEF SataReg
<1>11. x.clb = m /\ x.run /\ ~x.ci /\ ~x.tfes /\ ~x.err /\ (x.gave <=> r.gave)
  BY <1>4, <1>9, <1>10 DEF Fresh, SataReg
<1>12. sata \in [Sata!SataPort -> SataReg]
  BY DEF AhciInv, SataTypes
<1>13. sata' = [sata EXCEPT ![p] = x]
  BY <1>1, <1>2, <1>3, <1>9, <1>10, <1>12
<1>14. sata' \in [Sata!SataPort -> SataReg] /\ sata'[p] = x /\ \A q \in Sata!SataPort : q # p => sata'[q] = sata[q]
  BY <1>12, <1>13, OnePort
<1>15. PICK a \in SataCall : a = ahci
  BY SataFacts
<1>16. /\ ahci' \in SataCall /\ ahci'.pc = "issue" /\ ahci'.op = "identify" /\ ahci'.port = p /\ ahci'.slot = ahci.slot
       /\ ahci'.lba = ahci.lba /\ ahci'.count = ahci.count /\ ahci'.off = ahci.off
  BY <1>1, <1>2, <1>4, <1>15 DEF SataCall
<1>17. SataTypes'
  BY <1>1, <1>14, <1>16 DEF AhciInv, SataTypes
<1>18. Probed'
  <2>1. ASSUME NEW q \in Sata!SataPort, q > p PROVE Fresh(q)'
    <3>1. q # p
      BY <1>5, <2>1
    <3>2. Fresh(q)
      BY <1>4, <2>1
    <3>3. sata'[q] = sata[q]
      BY <1>14, <3>1
    <3>4. QED BY <3>2, <3>3 DEF Fresh
  <2>2. QED BY <1>1, <1>3, <1>4, <1>11, <1>14, <1>16, <2>1 DEF Probed, Probing
<1>19. Listed'
  <2>1. \A k \in 1 .. m : slots[k].port # p
    BY <1>4, <1>5, <1>6
  <2>2. \A k \in 1 .. m : slots[k].port \in attached /\ sata'[slots[k].port].clb = k - 1 /\ k - 1 <= slots[k].port
    BY <1>6, <1>7, <1>14, <2>1
  <2>3. ASSUME NEW q \in Sata!SataPort, sata'[q].run
        PROVE  /\ sata'[q].clb <= q /\ sata'[q].clb <= m
               /\ sata'[q].clb < m => q <= slots[sata'[q].clb + 1].port
    <3>1. CASE q = p
      BY <1>5, <1>8, <1>11, <1>14, <3>1
    <3>2. CASE q # p
      BY <1>7, <1>14, <2>3, <3>2
    <3>3. QED BY <3>1, <3>2
  <2>4. QED BY <1>1, <1>3, <1>7, <2>2, <2>3 DEF Listed
<1>20. Stopped' /\ Awaited' /\ Ended'
  <2>1. \A q \in Sata!SataPort : sata[q].ci /\ sata[q].run => sata[q].gave
    BY <1>1 DEF AhciInv, Awaited
  <2>2. Stopped'
    BY <1>11, <1>14 DEF AhciInv, Stopped
  <2>3. Awaited'
    BY <1>11, <1>14, <2>1 DEF Awaited
  <2>4. QED BY <1>16, <2>2, <2>3 DEF Ended
<1>21. Commands'
  BY <1>1, <1>16 DEF AhciInv, Commands
<1>22. Transfers'
  BY <1>16 DEF Transfers, Answered
<1>23. Sized'
  <2>1. \A q \in Sata!SataPort : sata'[q].gave <=> sata[q].gave
    BY <1>9, <1>11, <1>14
  <2>2. QED BY <1>1, <2>1 DEF AhciInv, Sized, Sata!Own, Sata!Prompt
<1>24. Kept'
  BY <1>1 DEF AhciInv, Kept, Sata!Own
<1>25. QED BY <1>17, <1>18, <1>19, <1>20, <1>21, <1>22, <1>23, <1>24 DEF AhciInv

LEMMA SataCallKeeps ==
  ASSUME SataSizes, AhciInv, NEW op \in {"read", "write"}, NEW k \in 1 .. Len(slots), NEW s \in 1 .. SataSectors,
         NEW n \in 1 .. SataSectors, s + n - 1 <= SataSectors, Sata!Call(op, k, s, n)
  PROVE  AhciInv'
<1> DEFINE none == [i \in 1 .. n |-> Sata!Data(Sata!Nobody, 0, 0)]
<1>1. /\ ahci.pc \in {"idle", "done", "failed"} /\ ahci.call < SataCalls
      /\ ahci' = [pc |-> "issue", op |-> op, slot |-> k, port |-> slots[k].port, lba |-> s,
                  count |-> n, off |-> 0, call |-> ahci.call + 1, out |-> none]
      /\ UNCHANGED <<attached, sata, cmds, ioBuf, slots, platter>>
  BY DEF Sata!Call
<1>2. n \in Nat /\ s \in Nat /\ k \in Nat /\ s >= 1 /\ SataPorts \in Nat /\ SataSectors \in Nat /\ Len(slots) \in Nat
  BY SataFacts
<1>3. none \in Seq(SataWord) /\ Len(none) = n
  <2>1. Sata!Data(Sata!Nobody, 0, 0) \in SataWord
    BY <1>2 DEF Sata!Data, Sata!Nobody, SataWord
  <2>2. QED BY <1>2, <2>1
<1> HIDE DEF none
<1>4. PICK p \in Sata!SataPort : p = slots[k].port
  BY SataFacts
<1>5. PICK c \in 0 .. SataCalls : c = ahci.call + 1
  BY <1>1, SataFacts
<1>6. /\ ahci' \in SataCall /\ ahci'.pc = "issue" /\ ahci'.op = op /\ ahci'.slot = k /\ ahci'.port = p /\ ahci'.lba = s
      /\ ahci'.count = n /\ ahci'.off = 0 /\ ahci'.out = none
  <2>1. ahci' = [pc |-> "issue", op |-> op, slot |-> k, port |-> p, lba |-> s,
                 count |-> n, off |-> 0, call |-> c, out |-> none]
    BY <1>1, <1>4, <1>5
  <2>2. QED BY <1>2, <1>3, <2>1 DEF SataCall
<1>7. SataTypes'
  BY <1>1, <1>6 DEF AhciInv, SataTypes
<1>8. Probed' /\ Listed' /\ Stopped'
  BY <1>1, <1>6 DEF AhciInv, Probed, Probing, Listed, Stopped
<1>9. Awaited' /\ Ended'
  BY <1>1, <1>6 DEF AhciInv, Awaited, Ended
<1>10. Commands'
  <2>1. s + n <= SataSectors + 1
    BY <1>2
  <2>2. QED BY <1>1, <1>2, <1>3, <1>4, <1>6, <2>1 DEF AhciInv, Commands
<1>11. Transfers'
  BY <1>6 DEF Transfers, Answered, Probing
<1>12. Sized' /\ Kept'
  BY <1>1 DEF AhciInv, Sized, Kept, Sata!Own, Sata!Prompt
<1>13. QED BY <1>7, <1>8, <1>9, <1>10, <1>11, <1>12 DEF AhciInv

(* A chunk is of what is left. *)
LEMMA ChunkLeft ==
  ASSUME SataSizes, AhciInv
  PROVE  Sata!InChunk \in Nat /\ ahci.off + Sata!InChunk <= ahci.count
<1>1. PICK c \in Nat, o \in Nat : c = ahci.count /\ o = ahci.off
  BY SataFacts
<1>2. o <= c
  BY <1>1 DEF AhciInv, Commands
<1>3. QED BY <1>1, <1>2, SataFacts DEF Sata!InChunk

LEMMA IssueKeeps == ASSUME SataSizes, AhciInv, Sata!Issue PROVE AhciInv'
<1>1. ahci.pc = "issue" /\ ahci' = [ahci EXCEPT !.pc = "poll"] /\ UNCHANGED <<attached, ioBuf, slots, platter>>
  BY DEF Sata!Issue
<1>2. PICK p \in Sata!SataPort : p = ahci.port
  BY SataFacts
<1>3. PICK n \in Nat : n = Sata!InChunk /\ ahci.off + n <= ahci.count
  BY ChunkLeft
<1>4. PICK a \in SataCall : a = ahci
  BY SataFacts
<1>5. /\ ahci' \in SataCall /\ ahci'.pc = "poll" /\ ahci'.op = a.op /\ ahci'.slot = a.slot /\ ahci'.port = p
      /\ ahci'.lba = a.lba /\ ahci'.count = a.count /\ ahci'.off = a.off /\ ahci'.call = a.call /\ ahci'.out = a.out
  BY <1>1, <1>2, <1>4 DEF SataCall
<1>6. a.lba \in Nat /\ a.off \in Nat /\ a.call \in Nat /\ a.count \in Nat /\ a.port = p /\ p \in Nat /\ SataSectors \in Nat
  BY <1>2, <1>4, SataFacts
<1>7. PICK l \in Nat : l = a.lba + a.off
  BY <1>6
<1>8. PICK c \in SataCmd : c = [op |-> a.op, port |-> p, lba |-> l, n |-> n, off |-> a.off, call |-> a.call]
  BY <1>6 DEF SataCmd, SataCall
<1>9. cmds' = [cmds EXCEPT ![p] = c]
  BY <1>2, <1>3, <1>4, <1>6, <1>7, <1>8 DEF Sata!Issue
<1>10. cmds' \in [Sata!SataPort -> SataCmd] /\ cmds'[p] = c /\ \A q \in Sata!SataPort : q # p => cmds'[q] = cmds[q]
  BY <1>9 DEF AhciInv, SataTypes
<1>11. PICK r \in SataReg : r = sata[p]
  BY SataFacts
<1>12. PICK x \in SataReg : x = [r EXCEPT !.tfes = FALSE, !.ci = TRUE]
  BY DEF SataReg
<1>13. x.clb = r.clb /\ x.ci /\ ~x.tfes /\ (x.err <=> r.err) /\ (x.run <=> r.run) /\ (x.gave <=> r.gave)
  BY <1>12 DEF SataReg
<1>14. sata \in [Sata!SataPort -> SataReg]
  BY DEF AhciInv, SataTypes
<1>15. sata' = [sata EXCEPT ![p] = x]
  BY <1>2, <1>11, <1>12, <1>14 DEF Sata!Issue
<1>16. sata' \in [Sata!SataPort -> SataReg] /\ sata'[p] = x /\ \A q \in Sata!SataPort : q # p => sata'[q] = sata[q]
  BY <1>14, <1>15, OnePort
<1>17. /\ \A q \in Sata!SataPort : (sata'[q].gave <=> sata[q].gave) /\ (sata'[q].run <=> sata[q].run) /\ sata'[q].clb = sata[q].clb
       /\ Sata!Prompt(Sata!SataPort)' <=> Sata!Prompt(Sata!SataPort)
  BY <1>11, <1>13, <1>16 DEF Sata!Prompt
<1>18. SataTypes'
  BY <1>1, <1>5, <1>10, <1>16 DEF AhciInv, SataTypes
<1>19. Probed'
  <2>1. \A q \in Sata!SataPort : q # p => (Fresh(q)' <=> Fresh(q))
    BY <1>16 DEF Fresh
  <2>2. \A q \in Sata!SataPort : q > p => q # p
    BY <1>6
  <2>3. QED BY <1>1, <1>2, <1>4, <1>5, <1>17, <2>1, <2>2 DEF AhciInv, Probed, Probing
<1>20. Listed'
  <2>1. \A k \in 1 .. Len(slots) : sata'[slots[k].port].clb = sata[slots[k].port].clb
    BY <1>17, SataFacts
  <2>2. QED BY <1>1, <1>17, <2>1 DEF AhciInv, Listed
<1>21. Stopped'
  BY <1>11, <1>13, <1>16 DEF AhciInv, Stopped
<1>22. Awaited' /\ Ended'
  <2>1. \A q \in Sata!SataPort : sata[q].ci /\ sata[q].run => sata[q].gave
    BY <1>1 DEF AhciInv, Awaited
  <2>2. QED BY <1>5, <1>16, <2>1 DEF Awaited, Ended
<1>23. Commands'
  <2>1. a.lba >= 1 /\ a.lba + a.count <= SataSectors + 1 /\ a.off <= a.count
    BY <1>4 DEF AhciInv, Commands
  <2>2. l >= 1 /\ l + n <= SataSectors + 1
    BY <1>3, <1>4, <1>6, <1>7, <2>1
  <2>3. c.lba = l /\ c.n = n /\ c.op = a.op /\ c.port = p
    BY <1>8
  <2>4. a.op \in {"read", "write"} =>
          a.slot \in 1 .. Len(slots) /\ slots[a.slot].port = p /\ Len(a.out) = a.count
    BY <1>2, <1>4 DEF AhciInv, Commands
  <2>5. ASSUME NEW q \in Sata!SataPort
        PROVE  /\ cmds'[q].lba >= 1 /\ cmds'[q].lba + cmds'[q].n <= SataSectors + 1
               /\ cmds'[q].op # "blank" => cmds'[q].port = q
               /\ cmds'[q].op \in {"read", "write"} => \E k \in 1 .. Len(slots) : slots[k].port = q
    <3>1. CASE q = p
      BY <1>10, <2>2, <2>3, <2>4, <3>1
    <3>2. CASE q # p
      BY <1>10, <3>2 DEF AhciInv, Commands
    <3>3. QED BY <3>1, <3>2
  <2>6. Sata!InChunk' = n
    BY <1>3, <1>4, <1>5 DEF Sata!InChunk
  <2>7. QED BY <1>1, <1>5, <1>7, <1>8, <1>10, <2>1, <2>4, <2>5, <2>6 DEF Commands
<1>24. Transfers'
  <2>1. ~Answered'
    BY <1>5, <1>13, <1>16 DEF Answered
  <2>2. \A i : SectorMoved(i)' <=> SectorMoved(i)
    BY <1>1, <1>2, <1>4, <1>5, <1>17 DEF SectorMoved
  <2>3. QED BY <1>1, <1>4, <1>5, <2>1, <2>2 DEF AhciInv, Transfers, Sata!Own
<1>25. Sized' /\ Kept'
  BY <1>1, <1>17 DEF AhciInv, Sized, Kept, Sata!Own
<1>26. QED BY <1>18, <1>19, <1>20, <1>21, <1>22, <1>23, <1>24, <1>25 DEF AhciInv


LEMMA PollEndsKeeps == ASSUME SataSizes, AhciInv, Sata!PollEnds PROVE AhciInv'
<1>1. /\ ahci.pc = "poll" /\ UNCHANGED <<attached, cmds, ioBuf, slots, platter>>
      /\ ahci' = [ahci EXCEPT !.pc = IF sata[ahci.port].ci /\ sata[ahci.port].tfes /\ ahci.op # "identify" THEN "failed"
                                     ELSE "check"]
      /\ sata' = IF sata[ahci.port].ci /\ (~sata[ahci.port].tfes \/ ahci.op = "identify")
                 THEN [sata EXCEPT ![ahci.port].gave = TRUE] ELSE sata
  BY DEF Sata!PollEnds
<1>2. PICK p \in Sata!SataPort : p = ahci.port
  BY SataFacts
<1>3. PICK a \in SataCall : a = ahci
  BY SataFacts
<1>4. PICK r \in SataReg : r = sata[p]
  BY SataFacts
<1>5. PICK pc \in {"failed", "check"} : pc = IF r.ci /\ r.tfes /\ a.op # "identify" THEN "failed" ELSE "check"
  OBVIOUS
<1>6. /\ ahci' \in SataCall /\ ahci'.pc = pc /\ ahci'.op = a.op /\ ahci'.slot = a.slot /\ ahci'.port = p
      /\ ahci'.lba = a.lba /\ ahci'.count = a.count /\ ahci'.off = a.off /\ ahci'.call = a.call /\ ahci'.out = a.out
  <2>1. ahci' = [a EXCEPT !.pc = pc]
    BY <1>1, <1>2, <1>3, <1>4, <1>5
  <2>2. QED BY <1>2, <1>3, <2>1 DEF SataCall
<1>7. sata \in [Sata!SataPort -> SataReg]
  BY DEF AhciInv, SataTypes
<1>8. \E x \in SataReg :
        /\ sata' \in [Sata!SataPort -> SataReg] /\ sata'[p] = x /\ \A q \in Sata!SataPort : q # p => sata'[q] = sata[q]
        /\ x.clb = r.clb /\ (x.ci <=> r.ci) /\ (x.tfes <=> r.tfes) /\ (x.err <=> r.err) /\ (x.run <=> r.run)
        /\ r.gave => x.gave
        /\ r.ci /\ (~r.tfes \/ a.op = "identify") => x.gave
  <2>1. CASE r.ci /\ (~r.tfes \/ a.op = "identify")
    <3>1. PICK x \in SataReg : x = [r EXCEPT !.gave = TRUE]
      BY DEF SataReg
    <3>2. x.clb = r.clb /\ (x.ci <=> r.ci) /\ (x.tfes <=> r.tfes) /\ (x.err <=> r.err) /\ (x.run <=> r.run) /\ x.gave
      BY <3>1 DEF SataReg
    <3>3. sata' = [sata EXCEPT ![p] = x]
      BY <1>1, <1>2, <1>3, <1>4, <1>7, <2>1, <3>1
    <3>4. sata' \in [Sata!SataPort -> SataReg] /\ sata'[p] = x /\ \A q \in Sata!SataPort : q # p => sata'[q] = sata[q]
      BY <1>7, <3>3, OnePort
    <3>5. QED BY <3>2, <3>4
  <2>2. CASE ~(r.ci /\ (~r.tfes \/ a.op = "identify"))
    <3>1. sata' = sata
      BY <1>1, <1>2, <1>3, <1>4, <2>2
    <3>2. QED BY <1>4, <1>7, <2>2, <3>1
  <2>3. QED BY <2>1, <2>2
<1>9. PICK x \in SataReg :
        /\ sata' \in [Sata!SataPort -> SataReg] /\ sata'[p] = x /\ \A q \in Sata!SataPort : q # p => sata'[q] = sata[q]
        /\ x.clb = r.clb /\ (x.ci <=> r.ci) /\ (x.tfes <=> r.tfes) /\ (x.err <=> r.err) /\ (x.run <=> r.run)
        /\ r.gave => x.gave
        /\ r.ci /\ (~r.tfes \/ a.op = "identify") => x.gave
  BY <1>8
<1>10. \A q \in Sata!SataPort : /\ sata'[q].clb = sata[q].clb /\ (sata'[q].ci <=> sata[q].ci) /\ (sata'[q].run <=> sata[q].run)
                                /\ (sata'[q].tfes <=> sata[q].tfes) /\ (sata'[q].err <=> sata[q].err)
                                /\ sata[q].gave => sata'[q].gave
  BY <1>4, <1>9
<1>11. Sata!Prompt(Sata!SataPort)' => Sata!Prompt(Sata!SataPort)
  BY <1>10 DEF Sata!Prompt
<1>12. SataTypes'
  BY <1>1, <1>6, <1>9 DEF AhciInv, SataTypes
<1>13. Probed'
  <2>1. \A q \in Sata!SataPort : Fresh(q)' <=> Fresh(q)
    BY <1>10 DEF Fresh
  <2>2. Probing' => Probing
    BY <1>1, <1>3, <1>6 DEF Probing
  <2>3. QED BY <1>1, <1>2, <1>6, <1>10, <2>1, <2>2 DEF AhciInv, Probed
<1>14. Listed'
  <2>1. \A k \in 1 .. Len(slots) : sata'[slots[k].port].clb = sata[slots[k].port].clb
    BY <1>10, SataFacts
  <2>2. QED BY <1>1, <1>10, <2>1 DEF AhciInv, Listed
<1>15. Stopped'
  BY <1>10 DEF AhciInv, Stopped
<1>16. Awaited'
  <2>1. ASSUME NEW q \in Sata!SataPort, sata'[q].ci, sata'[q].run, ~sata'[q].gave PROVE FALSE
    <3>1. sata[q].ci /\ sata[q].run /\ ~sata[q].gave
      BY <1>10, <2>1
    <3>2. q = p
      BY <1>2, <3>1 DEF AhciInv, Awaited
    <3>3. r.tfes
      BY <1>4, <1>9, <2>1, <3>1, <3>2
    <3>4. QED BY <1>4, <3>1, <3>2, <3>3 DEF AhciInv, Stopped
  <2>2. QED BY <2>1 DEF Awaited
<1>17. Ended'
  BY <1>5, <1>6, <1>9 DEF Ended
<1>18. Commands'
  <2>1. Sata!InChunk' = Sata!InChunk
    BY <1>3, <1>6 DEF Sata!InChunk
  <2>2. pc = "failed" => a.op # "identify"
    BY <1>5
  <2>3. QED BY <1>1, <1>2, <1>3, <1>6, <2>1, <2>2 DEF AhciInv, Commands
<1>19. Transfers'
  <2>1. Sata!InChunk' = Sata!InChunk
    BY <1>3, <1>6 DEF Sata!InChunk
  <2>2. Answered' => Answered
    BY <1>1, <1>2, <1>4, <1>6, <1>9 DEF Answered
  <2>3. \A i : SectorMoved(i) => SectorMoved(i)'
    BY <1>1, <1>2, <1>3, <1>4, <1>6, <1>9, <1>11 DEF SectorMoved
  <2>4. Probing' => Probing
    BY <1>1, <1>3, <1>6 DEF Probing
  <2>5. Sata!Own(ahci.slot)' => Sata!Own(ahci.slot)
    BY <1>1, <1>3, <1>6 DEF Sata!Own
  <2>6. QED BY <1>1, <1>2, <1>3, <1>6, <1>11, <2>1, <2>2, <2>3, <2>4, <2>5 DEF AhciInv, Transfers
<1>20. Sized' /\ Kept'
  BY <1>1, <1>11 DEF AhciInv, Sized, Kept, Sata!Own
<1>21. QED BY <1>12, <1>13, <1>14, <1>15, <1>16, <1>17, <1>18, <1>19, <1>20 DEF AhciInv

LEMMA CheckKeeps == ASSUME SataSizes, AhciInv, Sata!Check PROVE AhciInv'
<1>1. /\ ahci.pc = "check" /\ ahci.op # "identify" /\ UNCHANGED <<attached, sata, cmds, ioBuf, slots, platter>>
      /\ ahci' = IF sata[ahci.port].err THEN [ahci EXCEPT !.pc = "failed"]
                 ELSE [ahci EXCEPT !.off = ahci.off + Sata!InChunk,
                                   !.pc = IF ahci.off + Sata!InChunk < ahci.count THEN "issue" ELSE "done"]
  BY DEF Sata!Check
<1>2. PICK p \in Sata!SataPort : p = ahci.port
  BY SataFacts
<1>3. PICK a \in SataCall : a = ahci
  BY SataFacts
<1>4. PICK n \in Nat : n = Sata!InChunk /\ a.off + n <= a.count
  BY <1>3, ChunkLeft
<1>5. a.off \in Nat /\ a.count \in Nat
  BY <1>3, SataFacts
<1>6. PICK o \in Nat : o = a.off + n
  BY <1>5
<1>7. PICK pc \in {"issue", "done"} : pc = IF o < a.count THEN "issue" ELSE "done"
  OBVIOUS
<1>8. /\ ahci' \in SataCall /\ ahci'.op = a.op /\ ahci'.slot = a.slot /\ ahci'.port = p
      /\ ahci'.lba = a.lba /\ ahci'.count = a.count /\ ahci'.call = a.call /\ ahci'.out = a.out
      /\ \/ ahci'.pc = "failed" /\ ahci'.off = a.off
         \/ ahci'.pc = pc /\ ahci'.off = o /\ ~sata[p].err
  <2>1. CASE sata[p].err
    <3>1. ahci' = [a EXCEPT !.pc = "failed"]
      BY <1>1, <1>2, <1>3, <2>1
    <3>2. QED BY <1>2, <1>3, <3>1 DEF SataCall
  <2>2. CASE ~sata[p].err
    <3>1. ahci' = [a EXCEPT !.off = o, !.pc = pc]
      BY <1>1, <1>2, <1>3, <1>4, <1>6, <1>7, <2>2
    <3>2. QED BY <1>2, <1>3, <2>2, <3>1 DEF SataCall
  <2>3. QED BY <2>1, <2>2
<1>9. SataTypes'
  BY <1>1, <1>8 DEF AhciInv, SataTypes
<1>10. Probed' /\ Listed' /\ Stopped'
  BY <1>1, <1>3, <1>8 DEF AhciInv, Probed, Probing, Listed, Stopped
<1>11. Awaited' /\ Ended'
  BY <1>1, <1>8 DEF AhciInv, Awaited, Ended
<1>12. Commands'
  <2>1. a.off <= a.count
    BY <1>3 DEF AhciInv, Commands
  <2>2. ahci'.off <= ahci'.count
    BY <1>4, <1>6, <1>8, <2>1
  <2>3. ahci'.pc = "done" => ahci'.off = ahci'.count
    BY <1>4, <1>5, <1>6, <1>7, <1>8
  <2>4. QED BY <1>1, <1>2, <1>3, <1>8, <2>2, <2>3 DEF AhciInv, Commands
<1>13. Transfers'
  <2>1. CASE ahci'.pc = "failed"
    BY <1>1, <1>3, <1>8, <2>1 DEF Transfers, Probing
  <2>2. CASE ahci'.pc = pc /\ ahci'.off = o /\ ~sata[p].err
    <3>1. ~Answered'
      BY <1>8, <2>2 DEF Answered
    <3>2. \A i : SectorMoved(i) => SectorMoved(i)'
      BY <1>1, <1>2, <1>3, <1>8 DEF SectorMoved, Sata!Prompt
    <3>3. ASSUME Sata!Own(a.slot), NEW i \in 1 .. o PROVE SectorMoved(i)
      <4>1. CASE sata[p].gave
        <5>1. ~Sata!Prompt(Sata!SataPort)
          BY <4>1 DEF Sata!Prompt
        <5>2. QED BY <1>2, <4>1, <5>1 DEF SectorMoved
      <4>2. CASE ~sata[p].gave
        <5>1. Answered
          BY <1>1, <1>2, <2>2, <4>2 DEF AhciInv, Ended, Answered
        <5>2. i \in 1 .. a.off \/ i \in a.off + 1 .. a.off + n
          BY <1>5, <1>6
        <5>3. a.op \in {"read", "write"}
          BY <1>1, <1>3 DEF SataCall
        <5>4. QED BY <1>1, <1>3, <1>4, <3>3, <5>1, <5>2, <5>3 DEF AhciInv, Transfers
      <4>3. QED BY <4>1, <4>2
    <3>4. Sata!Own(ahci.slot)' => Sata!Own(a.slot)
      BY <1>1, <1>8 DEF Sata!Own
    <3>5. ~Probing'
      BY <1>1, <1>3, <1>8 DEF Probing
    <3>6. QED BY <1>8, <2>2, <3>1, <3>2, <3>3, <3>4, <3>5 DEF Transfers
  <2>3. QED BY <1>8, <2>1, <2>2
<1>14. Sized' /\ Kept'
  BY <1>1 DEF AhciInv, Sized, Kept, Sata!Own, Sata!Prompt
<1>15. QED BY <1>9, <1>10, <1>11, <1>12, <1>13, <1>14 DEF AhciInv

LEMMA BreaksKeeps == ASSUME SataSizes, AhciInv, NEW p \in Sata!SataPort, Sata!Breaks(p) PROVE AhciInv'
<1>1. /\ sata[p].ci /\ sata[p].run /\ UNCHANGED <<attached, cmds, ioBuf, slots, ahci, platter>>
      /\ \E ci \in BOOLEAN :
           sata' = [sata EXCEPT ![p].ci = ci, ![p].tfes = TRUE, ![p].err = TRUE, ![p].run = FALSE]
  BY DEF Sata!Breaks
<1>2. PICK ci \in BOOLEAN : sata' = [sata EXCEPT ![p].ci = ci, ![p].tfes = TRUE, ![p].err = TRUE, ![p].run = FALSE]
  BY <1>1
<1>3. PICK r \in SataReg : r = sata[p]
  BY SataFacts
<1>4. PICK x \in SataReg : x = [r EXCEPT !.ci = ci, !.tfes = TRUE, !.err = TRUE, !.run = FALSE]
  BY DEF SataReg
<1>5. x.clb = r.clb /\ (x.gave <=> r.gave) /\ x.tfes /\ x.err /\ ~x.run
  BY <1>4 DEF SataReg
<1>6. sata \in [Sata!SataPort -> SataReg]
  BY DEF AhciInv, SataTypes
<1>7. sata' = [sata EXCEPT ![p] = x]
  BY <1>2, <1>3, <1>4, <1>6
<1>8. sata' \in [Sata!SataPort -> SataReg] /\ sata'[p] = x /\ \A q \in Sata!SataPort : q # p => sata'[q] = sata[q]
  BY <1>6, <1>7, OnePort
<1>9. \A q \in Sata!SataPort : /\ sata'[q].clb = sata[q].clb /\ (sata'[q].run => sata[q].run)
                               /\ sata[q].gave <=> sata'[q].gave
  BY <1>3, <1>5, <1>8
<1>10. Sata!Prompt(Sata!SataPort)' => Sata!Prompt(Sata!SataPort)
  BY <1>9 DEF Sata!Prompt
<1>11. SataTypes'
  BY <1>1, <1>8 DEF AhciInv, SataTypes
<1>12. Probed'
  <2>1. ~Fresh(p) /\ \A q \in Sata!SataPort : q # p => (Fresh(q) => Fresh(q)')
    BY <1>1, <1>8 DEF Fresh
  <2>2. QED BY <1>1, <1>9, <2>1, SataFacts DEF AhciInv, Probed, Probing
<1>13. Listed'
  <2>1. \A k \in 1 .. Len(slots) : sata'[slots[k].port].clb = sata[slots[k].port].clb
    BY <1>9, SataFacts
  <2>2. QED BY <1>1, <1>9, <2>1 DEF AhciInv, Listed
<1>14. Stopped'
  BY <1>5, <1>8 DEF AhciInv, Stopped
<1>15. Awaited'
  BY <1>1, <1>5, <1>8 DEF AhciInv, Awaited
<1>16. Ended'
  BY <1>1, <1>3, <1>5, <1>8, SataFacts DEF AhciInv, Ended, Awaited
<1>17. Commands'
  BY <1>1 DEF AhciInv, Commands, Sata!InChunk
<1>18. Transfers'
  <2>1. Answered' => Answered
    BY <1>1, <1>5, <1>8, SataFacts DEF Answered
  <2>2. \A i : SectorMoved(i) => SectorMoved(i)'
    BY <1>1, <1>9, <1>10, SataFacts DEF SectorMoved
  <2>3. Sata!InChunk' = Sata!InChunk
    BY <1>1 DEF Sata!InChunk
  <2>4. QED BY <1>1, <1>10, <2>1, <2>2, <2>3 DEF AhciInv, Transfers, Sata!Own, Probing
<1>19. Sized' /\ Kept'
  BY <1>1, <1>10 DEF AhciInv, Sized, Kept, Sata!Own
<1>20. QED BY <1>11, <1>12, <1>13, <1>14, <1>15, <1>16, <1>17, <1>18, <1>19 DEF AhciInv


(* What a command does that a port takes: the sectors of its chunk, within   *)
(* the disk, on its own port if every slot has the number of its port.       *)
LEMMA SlotTaken ==
  ASSUME SataSizes, AhciInv, NEW p \in Sata!SataPort, sata[p].run
  PROVE  \E c \in SataCmd :
            /\ c = cmds[sata[p].clb] /\ c.lba >= 1 /\ c.lba + c.n <= SataSectors + 1
            /\ c.lba \in Nat /\ c.n \in Nat /\ c.off \in Nat /\ c.call \in Nat /\ c.port \in Nat
            /\ (\A k \in 1 .. Len(slots) : Sata!Own(k)) /\ c.op = "write" => c.port = p
<1>1. PICK j \in Sata!SataPort : j = sata[p].clb
  BY SataFacts
<1>2. PICK c \in SataCmd : c = cmds[j]
  BY SataFacts
<1>3. c.lba >= 1 /\ c.lba + c.n <= SataSectors + 1
  BY <1>2 DEF AhciInv, Commands
<1>4. c.lba \in Nat /\ c.n \in Nat /\ c.off \in Nat /\ c.call \in Nat /\ c.port \in Nat
  BY DEF SataCmd
<1>5. ASSUME \A k \in 1 .. Len(slots) : Sata!Own(k), c.op = "write" PROVE c.port = p
  <2>1. PICK m \in Nat : m = Len(slots)
    BY SataFacts
  <2>2. c.port = j
    BY <1>2, <1>5 DEF AhciInv, Commands
  <2>3. PICK k \in 1 .. m : slots[k].port = j
    BY <1>2, <1>5, <2>1 DEF AhciInv, Commands
  <2>4. j = k - 1 /\ j \in Nat /\ p \in Nat
    BY <1>5, <2>1, <2>3, SataFacts DEF Sata!Own
  <2>5. j < m /\ k = j + 1
    BY <2>4
  <2>6. j <= p /\ p <= slots[j + 1].port
    BY <1>1, <2>1, <2>5 DEF AhciInv, Listed
  <2>7. p <= j
    BY <2>3, <2>5, <2>6
  <2>8. QED BY <2>2, <2>4, <2>6, <2>7
<1>6. QED BY <1>1, <1>2, <1>3, <1>4, <1>5

LEMMA WorksKeeps == ASSUME SataSizes, AhciInv, NEW p \in Sata!SataPort, Sata!Works(p) PROVE AhciInv'
<1>1. sata[p].ci /\ sata[p].run /\ sata' = [sata EXCEPT ![p].ci = FALSE] /\ UNCHANGED <<attached, cmds, slots>>
  BY DEF Sata!Works
<1>2. PICK c \in SataCmd :
            /\ c = cmds[sata[p].clb] /\ c.lba >= 1 /\ c.lba + c.n <= SataSectors + 1
            /\ c.lba \in Nat /\ c.n \in Nat /\ c.off \in Nat /\ c.call \in Nat /\ c.port \in Nat
            /\ (\A k \in 1 .. Len(slots) : Sata!Own(k)) /\ c.op = "write" => c.port = p
  BY <1>1, SlotTaken
<1> DEFINE its == c.lba .. c.lba + c.n - 1
           filled == c.off + 1 .. c.off + c.n
<1>3. /\ ioBuf' = IF c.op = "identify" THEN p ELSE ioBuf
      /\ platter' = IF c.op = "write"
                    THEN [platter EXCEPT ![p] = [s \in 1 .. SataSectors |->
                             IF s \in its THEN Sata!Data(c.port, s, c.call) ELSE platter[p][s]]]
                    ELSE platter
      /\ ahci' = IF c.op = "read"
                 THEN [ahci EXCEPT !.out = [i \in 1 .. Len(ahci.out) |->
                          IF i \in filled THEN platter[p][c.lba + i - c.off - 1] ELSE ahci.out[i]]]
                 ELSE ahci
  BY <1>2 DEF Sata!Works
<1>4. PICK a \in SataCall : a = ahci
  BY SataFacts
<1>5. /\ a.port \in Sata!SataPort /\ a.off \in Nat /\ a.count \in Nat /\ a.lba \in Nat /\ a.call \in Nat /\ a.out \in Seq(SataWord)
      /\ SataSectors \in Nat /\ SataPorts \in Nat /\ p \in Nat
  BY <1>4, SataFacts
<1>6. PICK m \in Nat : m = Len(a.out)
  BY <1>5
<1>7. platter \in [Sata!SataPort -> [1 .. SataSectors -> SataWord]]
  BY SataFacts
<1>8. \A i \in filled : c.lba + i - c.off - 1 \in 1 .. SataSectors
  <2>1. PICK x \in Nat, y \in Nat, z \in Nat : x = c.lba /\ y = c.n /\ z = c.off
    BY <1>2
  <2>2. x >= 1 /\ x + y <= SataSectors + 1
    BY <1>2, <2>1
  <2>3. \A i \in z + 1 .. z + y : x + i - z - 1 \in 1 .. SataSectors
    BY <1>5, <2>2
  <2>4. QED BY <2>1, <2>3
<1>9. \E o \in Seq(SataWord) :
        /\ Len(o) = m
        /\ c.op # "read" => o = a.out
        /\ c.op = "read" => \A i \in 1 .. m : o[i] = IF i \in filled THEN platter[p][c.lba + i - c.off - 1] ELSE a.out[i]
        /\ ahci' = [a EXCEPT !.out = o]
  <2>1. CASE c.op = "read"
    <3>1. ASSUME NEW i \in 1 .. m PROVE (IF i \in filled THEN platter[p][c.lba + i - c.off - 1] ELSE a.out[i]) \in SataWord
      <4>1. CASE i \in filled
        <5>1. PICK s \in 1 .. SataSectors : s = c.lba + i - c.off - 1
          BY <1>8, <4>1
        <5>2. platter[p][s] \in SataWord
          BY <1>7
        <5>3. QED BY <4>1, <5>1, <5>2
      <4>2. CASE i \notin filled
        BY <1>5, <1>6, <4>2
      <4>3. QED BY <4>1, <4>2
    <3> DEFINE o == [i \in 1 .. m |-> IF i \in filled THEN platter[p][c.lba + i - c.off - 1] ELSE a.out[i]]
    <3>2. o \in Seq(SataWord) /\ Len(o) = m
      BY <3>1
    <3>3. \A i \in 1 .. m : o[i] = IF i \in filled THEN platter[p][c.lba + i - c.off - 1] ELSE a.out[i]
      OBVIOUS
    <3>4. ahci' = [a EXCEPT !.out = o]
      BY <1>3, <1>4, <1>6, <2>1
    <3> HIDE DEF o
    <3>5. QED BY <2>1, <3>2, <3>3, <3>4
  <2>2. CASE c.op # "read"
    <3>1. ahci' = [a EXCEPT !.out = a.out]
      BY <1>3, <1>4, <2>2 DEF SataCall
    <3>2. QED BY <1>5, <1>6, <2>2, <3>1
  <2>3. QED BY <2>1, <2>2
<1>10. PICK o \in Seq(SataWord) :
        /\ Len(o) = m
        /\ c.op # "read" => o = a.out
        /\ c.op = "read" => \A i \in 1 .. m : o[i] = IF i \in filled THEN platter[p][c.lba + i - c.off - 1] ELSE a.out[i]
        /\ ahci' = [a EXCEPT !.out = o]
  BY <1>9
<1>11. /\ ahci' \in SataCall /\ ahci'.pc = a.pc /\ ahci'.op = a.op /\ ahci'.slot = a.slot /\ ahci'.port = a.port
       /\ ahci'.lba = a.lba /\ ahci'.count = a.count /\ ahci'.off = a.off /\ ahci'.call = a.call /\ ahci'.out = o
  BY <1>10 DEF SataCall
<1>12. /\ platter' \in [Sata!SataPort -> [1 .. SataSectors -> SataWord]]
       /\ \A q \in Sata!SataPort, s \in 1 .. SataSectors :
            platter'[q][s] = IF c.op = "write" /\ q = p /\ s \in its THEN Sata!Data(c.port, s, c.call) ELSE platter[q][s]
  <2>1. CASE c.op = "write"
    <3>1. \A s \in 1 .. SataSectors : Sata!Data(c.port, s, c.call) \in SataWord
      <4>1. PICK x \in Nat, y \in Nat : x = c.port /\ y = c.call
        BY <1>2
      <4>2. \A s \in 1 .. SataSectors : Sata!Data(x, s, y) \in SataWord
        BY <1>5 DEF Sata!Data, SataWord
      <4>3. QED BY <4>1, <4>2
    <3>2. PICK t \in [1 .. SataSectors -> SataWord] :
            t = [s \in 1 .. SataSectors |-> IF s \in its THEN Sata!Data(c.port, s, c.call) ELSE platter[p][s]]
      BY <1>7, <3>1
    <3>3. platter' = [platter EXCEPT ![p] = t]
      BY <1>3, <2>1, <3>2
    <3>4. platter'[p] = t /\ \A q \in Sata!SataPort : q # p => platter'[q] = platter[q]
      BY <1>7, <3>3
    <3>5. platter' \in [Sata!SataPort -> [1 .. SataSectors -> SataWord]]
      BY <1>7, <3>3
    <3>6. \A s \in 1 .. SataSectors : t[s] = IF s \in its THEN Sata!Data(c.port, s, c.call) ELSE platter[p][s]
      BY <3>2
    <3>7. QED BY <2>1, <3>4, <3>5, <3>6
  <2>2. CASE c.op # "write"
    BY <1>3, <1>7, <2>2
  <2>3. QED BY <2>1, <2>2
<1>13. PICK r \in SataReg : r = sata[p]
  BY SataFacts
<1>14. PICK x \in SataReg : x = [r EXCEPT !.ci = FALSE]
  BY DEF SataReg
<1>15. /\ x.clb = r.clb /\ ~x.ci /\ (x.gave <=> r.gave) /\ (x.tfes <=> r.tfes) /\ (x.err <=> r.err) /\ (x.run <=> r.run)
  BY <1>14 DEF SataReg
<1>16. sata \in [Sata!SataPort -> SataReg]
  BY DEF AhciInv, SataTypes
<1>17. sata' = [sata EXCEPT ![p] = x]
  BY <1>1, <1>13, <1>14, <1>16
<1>18. sata' \in [Sata!SataPort -> SataReg] /\ sata'[p] = x /\ \A q \in Sata!SataPort : q # p => sata'[q] = sata[q]
  BY <1>16, <1>17, OnePort
<1>19. \A q \in Sata!SataPort : /\ sata'[q].clb = sata[q].clb /\ (sata'[q].run <=> sata[q].run) /\ (sata'[q].tfes <=> sata[q].tfes)
                                /\ sata'[q].err <=> sata[q].err
                                /\ sata[q].gave <=> sata'[q].gave
                                /\ sata'[q].ci => sata[q].ci
  BY <1>13, <1>15, <1>18
<1>20. Sata!Prompt(Sata!SataPort)' <=> Sata!Prompt(Sata!SataPort)
  BY <1>19 DEF Sata!Prompt
<1>21. SataTypes'
  <2>1. ioBuf' \in 0 .. SataPorts
    BY <1>3, <1>5 DEF AhciInv, SataTypes, Sata!SataPort
  <2>2. QED BY <1>1, <1>11, <1>12, <1>18, <2>1 DEF AhciInv, SataTypes
<1>22. Probed'
  <2>1. ~Fresh(p) /\ \A q \in Sata!SataPort : q # p => (Fresh(q) <=> Fresh(q)')
    BY <1>1, <1>18 DEF Fresh
  <2>2. Probing' <=> Probing
    BY <1>4, <1>11 DEF Probing
  <2>3. QED BY <1>1, <1>4, <1>5, <1>11, <1>19, <2>1, <2>2 DEF AhciInv, Probed
<1>23. Listed'
  <2>1. \A k \in 1 .. Len(slots) : sata'[slots[k].port].clb = sata[slots[k].port].clb
    BY <1>19, SataFacts
  <2>2. QED BY <1>1, <1>19, <2>1 DEF AhciInv, Listed
<1>24. Stopped'
  BY <1>19 DEF AhciInv, Stopped
<1>25. Awaited' /\ Ended'
  BY <1>4, <1>5, <1>11, <1>19 DEF AhciInv, Awaited, Ended
<1>26. Commands'
  <2>1. Sata!InChunk' = Sata!InChunk
    BY <1>4, <1>11 DEF Sata!InChunk
  <2>2. a.op \in {"read", "write"} => Len(o) = a.count
    BY <1>4, <1>6, <1>10 DEF AhciInv, Commands
  <2>3. QED BY <1>1, <1>4, <1>11, <2>1, <2>2 DEF AhciInv, Commands
<1>27. r.gave \/ (a.pc = "poll" /\ a.port = p)
  BY <1>1, <1>4, <1>13 DEF AhciInv, Awaited
<1>28. Sata!Prompt(Sata!SataPort) => ~r.gave /\ a.pc = "poll" /\ a.port = p
  BY <1>13, <1>27 DEF Sata!Prompt
<1>29. PICK n \in Nat : n = Sata!InChunk /\ a.off + n <= a.count
  BY <1>4, ChunkLeft
<1>30. PICK l \in Nat : l = a.lba + a.off
  BY <1>5
<1>31. ASSUME a.pc = "poll", a.port = p, sata[p].clb = p
       PROVE  c.op = a.op /\ c.port = p /\ c.lba = l /\ c.n = n /\ c.off = a.off /\ c.call = a.call
  <2>1. cmds[p] = [op |-> a.op, port |-> p, lba |-> l, n |-> n, off |-> a.off, call |-> a.call]
    BY <1>4, <1>29, <1>30, <1>31 DEF AhciInv, Commands
  <2>2. QED BY <1>2, <1>31, <2>1
<1>32. Transfers'
  <2>1. Sata!InChunk' = n
    BY <1>4, <1>11, <1>29 DEF Sata!InChunk
  <2>2. ASSUME a.op \in {"read", "write"}, Sata!Own(a.slot), a.pc \in {"issue", "poll", "check", "done"}
        PROVE  /\ \A i \in 1 .. a.off : SectorMoved(i)'
               /\ Answered' => \A i \in a.off + 1 .. a.off + n : SectorMoved(i)'
    <3>1. /\ a.slot \in 1 .. Len(slots) /\ slots[a.slot].port = a.port /\ m = a.count
          /\ a.lba >= 1 /\ a.lba + a.count <= SataSectors + 1 /\ a.off <= a.count
      BY <1>4, <1>6, <2>2 DEF AhciInv, Commands
    <3>2. \A i \in 1 .. a.off : SectorMoved(i)
      BY <1>4, <2>2 DEF AhciInv, Transfers
    <3>3. Answered => \A i \in a.off + 1 .. a.off + n : SectorMoved(i)
      BY <1>4, <1>29, <2>2 DEF AhciInv, Transfers
    <3>4. \A i \in 1 .. a.off + n : a.lba + i - 1 \in 1 .. SataSectors /\ i \in 1 .. m
      <4>1. PICK u \in Nat, v \in Nat, w \in Nat : u = a.lba /\ v = a.off /\ w = a.count
        BY <1>5
      <4>2. u >= 1 /\ u + w <= SataSectors + 1 /\ v + n <= w /\ m = w
        BY <1>29, <3>1, <4>1
      <4>3. \A i \in 1 .. v + n : u + i - 1 \in 1 .. SataSectors /\ i \in 1 .. m
        BY <1>5, <4>2
      <4>4. QED BY <4>1, <4>3
    <3>5. sata[a.port].clb = a.port
      <4>1. sata[a.port].clb = a.slot - 1
        BY <3>1 DEF AhciInv, Listed
      <4>2. QED BY <1>4, <2>2, <3>1, <4>1 DEF Sata!Own
    <3>6. CASE a.port # p
      <4>1. Answered' <=> Answered
        BY <1>4, <1>5, <1>11, <1>18, <3>6 DEF Answered
      <4>2. ASSUME NEW i \in 1 .. a.off + n, SectorMoved(i) PROVE SectorMoved(i)'
        <5>1. ~Sata!Prompt(Sata!SataPort)'
          BY <1>20, <1>28, <3>6
        <5>2. platter'[a.port][a.lba + i - 1] = platter[a.port][a.lba + i - 1]
          BY <1>5, <1>12, <3>4, <3>6
        <5>3. sata'[a.port] = sata[a.port]
          BY <1>5, <1>18, <3>6
        <5>4. QED BY <1>4, <1>11, <4>2, <5>1, <5>2, <5>3 DEF SectorMoved
      <4>3. \A i \in 1 .. a.off : i \in 1 .. a.off + n
        BY <1>5
      <4>4. \A i \in a.off + 1 .. a.off + n : i \in 1 .. a.off + n
        BY <1>5
      <4>5. QED BY <3>2, <3>3, <4>1, <4>2, <4>3, <4>4
    <3>7. CASE a.port = p /\ r.gave
      <4>1. ~Sata!Prompt(Sata!SataPort)' /\ sata'[p].gave
        BY <1>15, <1>18, <3>7 DEF Sata!Prompt
      <4>2. \A i : SectorMoved(i)'
        BY <1>11, <3>7, <4>1 DEF SectorMoved
      <4>3. QED BY <4>2
    <3>8. CASE a.port = p /\ ~r.gave
      <4>1. a.pc = "poll" /\ c.op = a.op /\ c.port = p /\ c.lba = l /\ c.n = n /\ c.off = a.off /\ c.call = a.call
        BY <1>27, <1>31, <3>5, <3>8
      <4>2. ASSUME NEW i \in 1 .. a.off + n, i \in 1 .. a.off => SectorMoved(i) PROVE SectorMoved(i)'
        <5>1. PICK s \in 1 .. SataSectors : s = a.lba + i - 1
          BY <3>4
        <5>2. CASE a.op = "read"
          <6>1. platter'[p][s] = platter[p][s]
            BY <1>12, <4>1, <5>2
          <6>2. Sata!Prompt(Sata!SataPort) => o[i] = platter[p][s]
            <7>1. CASE i \in 1 .. a.off
              <8>1. i \notin filled
                BY <1>5, <4>1, <7>1
              <8>2. o[i] = a.out[i]
                BY <1>10, <3>4, <4>1, <5>2, <8>1
              <8>3. Sata!Prompt(Sata!SataPort) => a.out[i] = platter[p][s]
                BY <1>4, <3>8, <4>2, <5>1, <5>2, <7>1 DEF SectorMoved
              <8>4. QED BY <8>2, <8>3
            <7>2. CASE i \notin 1 .. a.off
              <8>1. i \in filled
                BY <1>5, <4>1, <7>2
              <8>2. o[i] = platter[p][c.lba + i - c.off - 1]
                BY <1>10, <3>4, <4>1, <5>2, <8>1
              <8>3. c.lba = a.lba + a.off /\ c.off = a.off
                BY <1>30, <4>1
              <8>4. \A u, v, w \in Int : (u + v) + w - v - 1 = u + w - 1
                OBVIOUS
              <8>5. a.lba \in Int /\ a.off \in Int /\ i \in Int
                BY <1>5
              <8>6. (a.lba + a.off) + i - a.off - 1 = a.lba + i - 1
                BY <8>4, <8>5
              <8>7. c.lba + i - c.off - 1 = s
                BY <5>1, <8>3, <8>6
              <8>8. QED BY <8>2, <8>7
            <7>3. QED BY <7>1, <7>2
          <6>3. QED BY <1>11, <1>20, <3>8, <5>1, <5>2, <6>1, <6>2 DEF SectorMoved
        <5>3. CASE a.op = "write"
          <6>1. platter'[p][s] = Sata!Data(p, s, a.call)
            <7>1. CASE i \in 1 .. a.off
              <8>1. s \notin its
                <9>1. its = a.lba + a.off .. a.lba + a.off + n - 1
                  BY <1>30, <4>1
                <9>2. \A u, v, w, k \in Nat : w \in 1 .. v => u + w - 1 \notin u + v .. u + v + k - 1
                  OBVIOUS
                <9>3. a.lba \in Nat /\ a.off \in Nat /\ n \in Nat /\ i \in Nat
                  BY <1>5
                <9>4. a.lba + i - 1 \notin a.lba + a.off .. a.lba + a.off + n - 1
                  BY <7>1, <9>2, <9>3
                <9>5. QED BY <5>1, <9>1, <9>4
              <8>2. platter'[p][s] = platter[p][s]
                BY <1>12, <8>1
              <8>3. platter[p][s] = Sata!Data(p, s, a.call)
                BY <1>4, <1>13, <3>8, <4>2, <5>1, <5>3, <7>1 DEF SectorMoved
              <8>4. QED BY <8>2, <8>3
            <7>2. CASE i \notin 1 .. a.off
              <8>1. s \in its
                <9>1. its = a.lba + a.off .. a.lba + a.off + n - 1
                  BY <1>30, <4>1
                <9>2. \A u, v, w, k \in Nat :
                        w \in 1 .. v + k /\ w \notin 1 .. v => u + w - 1 \in u + v .. u + v + k - 1
                  OBVIOUS
                <9>3. a.lba \in Nat /\ a.off \in Nat /\ n \in Nat /\ i \in Nat
                  BY <1>5
                <9>4. a.lba + i - 1 \in a.lba + a.off .. a.lba + a.off + n - 1
                  BY <7>2, <9>2, <9>3
                <9>5. QED BY <5>1, <9>1, <9>4
              <8>2. QED BY <1>12, <4>1, <5>3, <8>1
            <7>3. QED BY <7>1, <7>2
          <6>2. QED BY <1>11, <3>8, <5>1, <5>3, <6>1 DEF SectorMoved
        <5>4. QED BY <2>2, <5>2, <5>3
      <4>3. \A i \in 1 .. a.off : i \in 1 .. a.off + n
        BY <1>5
      <4>4. \A i \in a.off + 1 .. a.off + n : i \in 1 .. a.off + n /\ i \notin 1 .. a.off
        BY <1>5
      <4>5. QED BY <3>2, <4>2, <4>3, <4>4
    <3>9. QED BY <3>6, <3>7, <3>8
  <2>3. ASSUME Probing, Answered', Len(slots) = a.port, Sata!Prompt(Sata!SataPort) PROVE ioBuf' = a.port
    <3>1. a.pc = "poll" /\ a.port = p
      BY <1>28, <2>3
    <3>2. sata[p].clb = p /\ a.op = "identify"
      BY <1>4, <2>3, <3>1 DEF AhciInv, Probed, Probing
    <3>3. c.op = "identify"
      BY <1>31, <3>1, <3>2
    <3>4. QED BY <1>3, <3>1, <3>3
  <2>4. Sata!Own(a.slot)' <=> Sata!Own(a.slot)
    BY <1>1 DEF Sata!Own
  <2>5. Probing' <=> Probing
    BY <1>4, <1>11 DEF Probing
  <2>6. QED BY <1>1, <1>11, <1>20, <2>1, <2>2, <2>3, <2>4, <2>5 DEF Transfers
<1>33. Sized'
  BY <1>1, <1>20 DEF AhciInv, Sized, Sata!Own
<1>34. Kept'
  <2>1. ASSUME \A k \in 1 .. Len(slots) : Sata!Own(k), NEW q \in Sata!SataPort, NEW s \in 1 .. SataSectors
        PROVE  platter'[q][s][1] = q /\ platter'[q][s][2] = s
    <3>1. CASE c.op = "write" /\ q = p /\ s \in its
      <4>1. c.port = p
        BY <1>2, <2>1, <3>1
      <4>2. platter'[q][s] = Sata!Data(p, s, c.call)
        BY <1>12, <3>1, <4>1
      <4>3. QED BY <3>1, <4>2 DEF Sata!Data
    <3>2. CASE ~(c.op = "write" /\ q = p /\ s \in its)
      <4>1. platter'[q][s] = platter[q][s]
        BY <1>12, <3>2
      <4>2. QED BY <2>1, <4>1 DEF AhciInv, Kept
    <3>3. QED BY <3>1, <3>2
  <2>2. QED BY <1>1, <2>1 DEF Kept, Sata!Own
<1>35. QED BY <1>21, <1>22, <1>23, <1>24, <1>25, <1>26, <1>32, <1>33, <1>34 DEF AhciInv

LEMMA IssueBehindKeeps == ASSUME SataSizes, AhciInv, Sata!IssueBehind PROVE AhciInv'
<1>1. ahci.pc = "issue" /\ ahci' = [ahci EXCEPT !.pc = "overrun"] /\ UNCHANGED <<attached, sata, cmds, ioBuf, slots, platter>>
  BY DEF Sata!IssueBehind
<1>2. PICK a \in SataCall : a = ahci
  BY SataFacts
<1>3. /\ ahci' \in SataCall /\ ahci'.pc = "overrun" /\ ahci'.op = a.op /\ ahci'.slot = a.slot /\ ahci'.port = a.port
      /\ ahci'.lba = a.lba /\ ahci'.count = a.count /\ ahci'.off = a.off /\ ahci'.call = a.call /\ ahci'.out = a.out
  BY <1>1, <1>2 DEF SataCall
<1>4. SataTypes' /\ Probed'
  BY <1>1, <1>3 DEF AhciInv, SataTypes, Probed, Probing
<1>5. Listed' /\ Stopped' /\ Ended'
  BY <1>1, <1>3 DEF AhciInv, Listed, Stopped, Ended
<1>6. Awaited'
  BY <1>1 DEF AhciInv, Awaited
<1>7. Commands'
  BY <1>1, <1>2, <1>3 DEF AhciInv, Commands
<1>8. Transfers' /\ Sized' /\ Kept'
  BY <1>1, <1>3 DEF AhciInv, Transfers, Probing, Answered, Sized, Kept, Sata!Own, Sata!Prompt
<1>9. QED BY <1>4, <1>5, <1>6, <1>7, <1>8 DEF AhciInv

LEMMA AhciStepKeeps == ASSUME SataSizes, AhciInv, [Sata!Next]_(Sata!ahciVars) PROVE AhciInv'
<1>1. CASE Sata!SkipPort \/ Sata!SetUpPort \/ Sata!Register
  BY <1>1, SkipPortKeeps, SetUpPortKeeps, RegisterKeeps
<1>2. ASSUME NEW op \in {"read", "write"}, NEW k \in 1 .. Len(slots), NEW s \in 1 .. SataSectors,
             NEW n \in 1 .. SataSectors, s + n - 1 <= SataSectors, Sata!Call(op, k, s, n)
      PROVE  AhciInv'
  BY <1>2, SataCallKeeps
<1>3. CASE Sata!Issue \/ Sata!IssueBehind \/ Sata!PollEnds \/ Sata!Check
  BY <1>3, IssueKeeps, IssueBehindKeeps, PollEndsKeeps, CheckKeeps
<1>4. ASSUME NEW p \in Sata!SataPort, Sata!Works(p) \/ Sata!Breaks(p) PROVE AhciInv'
  BY <1>4, WorksKeeps, BreaksKeeps
<1>5. CASE UNCHANGED Sata!ahciVars
  BY <1>5 DEF Sata!ahciVars, AhciInv, SataTypes, Probed, Probing, Fresh, Listed, Stopped, Awaited, Ended, Commands, Sata!InChunk,
              Transfers, SectorMoved, Answered, Sized, Kept, Sata!Own, Sata!Prompt
<1>6. QED BY <1>1, <1>2, <1>3, <1>4, <1>5 DEF Sata!Next

LEMMA AhciHolds == ASSUME SataSizes, AhciInv PROVE Sata!AhciTrue
<1>1. ASSUME ahci.pc = "done", Sata!Own(ahci.slot), NEW i \in 1 .. ahci.count PROVE SectorMoved(i)
  <2>1. ahci.off = ahci.count /\ ahci.op # "identify"
    BY <1>1 DEF AhciInv, Commands
  <2>2. ahci.op \in {"read", "write"}
    BY <2>1, SataFacts DEF SataCall
  <2>3. QED BY <1>1, <2>1, <2>2 DEF AhciInv, Transfers
<1>2. ahci.port \in Sata!SataPort
  BY SataFacts
<1>3. Sata!Prompt({ahci.port}) <=> ~sata[ahci.port].gave
  BY DEF Sata!Prompt
<1>4. QED BY <1>1, <1>3 DEF AhciInv, Sata!AhciTrue, SectorMoved, Sized, Kept

LEMMA AhciTypeOK == ASSUME SataSizes, AhciInv PROVE Sata!TypeOK
<1>1. PICK a \in SataCall : a = ahci
  BY SataFacts
<1>2. a.off \in Nat /\ a.count \in Nat /\ a.lba \in Nat /\ SataSectors \in Nat /\ a.call \in 0 .. SataCalls
  BY <1>1, SataFacts DEF SataCall
<1>3. a.lba >= 1 /\ a.lba + a.count <= SataSectors + 1 /\ a.off <= a.count
  BY <1>1 DEF AhciInv, Commands
<1>4. a.off \in 0 .. SataSectors
  BY <1>2, <1>3
<1>5. PICK m \in Nat : m = Len(slots)
  BY SataFacts
<1>6. m <= SataPorts
  <2>1. CASE m = 0
    BY <2>1, SataFacts
  <2>2. CASE m # 0
    <3>1. m \in 1 .. m /\ m \in 1 .. Len(slots)
      BY <1>5, <2>2
    <3>2. slots[m].port \in Sata!SataPort /\ m - 1 <= slots[m].port
      BY <3>1, SataFacts DEF AhciInv, Listed
    <3>3. QED BY <3>2, SataFacts, SMTT(20) DEF Sata!SataPort
  <2>3. QED BY <2>1, <2>2
<1>7. ASSUME NEW k \in 1 .. Len(slots) PROVE slots[k] \in [port : attached, size : Sata!SataPort]
  <2>1. PICK d \in SataDisk : d = slots[k]
    BY SataFacts
  <2>2. d.port \in attached
    BY <2>1 DEF AhciInv, Listed
  <2>3. QED BY <2>1, <2>2 DEF SataDisk
<1>8. a.pc \in {"probe", "issue", "poll", "check", "idle", "done", "failed", "overrun"}
  BY DEF SataCall
<1>9. QED BY <1>1, <1>2, <1>4, <1>5, <1>6, <1>7, <1>8, SataFacts DEF Sata!TypeOK, AhciInv, SataTypes

-----------------------------------------------------------------------------
(* The floppy driver: the sector a call is at, and what waits given up have   *)
(* left behind.                                                              *)
FlWords == {Diskette!Torn} \cup {Diskette!Data(s, c) : s \in 1 .. FlSectors, c \in 0 .. FlMaxCalls}
FlPcs == {"idle", "sector", "seekWait", "seekClear", "sense", "seekResult", "command", "dataWait", "dataClear",
          "data", "copy", "done", "failed"}
FlCall == [pc : FlPcs, op : {"none", "read", "write"}, lba : Nat, count : Nat, i : Nat, r : BOOLEAN, n : 0 .. 7,
           good : BOOLEAN, out : Seq(FlWords), call : 0 .. FlMaxCalls]
FlChip == [phase : {"idle", "exec", "result"}, op : {"none", "read", "write"}, s : Nat, left : 0 .. 7, good : BOOLEAN]
FlHead == [on : BOOLEAN, pending : {"none", "good", "bad"}]

FlTypes ==
    /\ flop \in FlCall /\ irqFired \in BOOLEAN /\ dmaBuf \in FlWords /\ dma \in {"in", "out", "off"}
    /\ fdc \in FlChip /\ seek \in FlHead /\ sectors \in [1 .. FlSectors -> FlWords] /\ given \in 0 .. 2

(* The call is at a sector of the disk, and so is a command.                 *)
OnDisk ==
    /\ flop.lba >= 1 /\ flop.lba + flop.count <= FlSectors + 1 /\ flop.i <= flop.count
    /\ flop.pc \notin {"idle", "done", "failed", "sector"} => flop.i < flop.count
    /\ flop.pc # "idle" => flop.op # "none"
    /\ flop.pc = "done" => flop.i = flop.count
    /\ flop.pc \notin {"idle", "failed"} => Len(flop.out) = flop.i
    /\ flop.pc = "sense" => flop.n = 0
    /\ flop.pc = "seekResult" => flop.n <= 1
    /\ flop.pc = "data" => flop.n <= 6
    /\ fdc.phase = "idle" => fdc.op = "none"
    /\ fdc.phase = "exec" => fdc.op # "none" /\ fdc.s \in 1 .. FlSectors
    /\ fdc.phase = "result" => fdc.left > 0

(* The sector the call is at was moved, or is filled in; the command is its. *)
SectorDone == IF flop.op = "read" THEN dmaBuf = sectors[Diskette!Sector] ELSE sectors[Diskette!Sector] = Diskette!Data(Diskette!Sector, flop.call)
Filled == flop.op = "write" => dmaBuf = Diskette!Data(Diskette!Sector, flop.call)
Its == fdc.op = flop.op /\ fdc.s = Diskette!Sector
Underway == fdc.phase = "exec" /\ Its /\ Filled
Over == fdc.phase = "result" /\ Its /\ fdc.left = 7 /\ (fdc.good => SectorDone)

(* What one wait that was given up may have left behind.                     *)
LeftBehind ==
    fdc.phase # "idle" => /\ ~seek.on /\ fdc.op # "none"
                          /\ fdc.phase = "exec" => ~irqFired
                          /\ fdc.phase = "result" /\ irqFired => fdc.left = 7
InTurn ==
    /\ flop.pc \in {"idle", "done", "failed", "sector", "seekWait"} => LeftBehind
    /\ flop.pc \in {"seekClear", "dataClear"} /\ ~flop.r => LeftBehind
    /\ ((flop.pc = "seekClear" /\ flop.r) \/ flop.pc = "sense") /\ fdc.phase # "idle" =>
                               /\ ~seek.on /\ fdc.op # "none" /\ fdc.phase = "result" /\ fdc.left = 7
                               /\ flop.pc = "sense" => ~irqFired
    /\ flop.pc = "seekResult" =>
         \/ fdc.phase = "idle" /\ flop.n = 1
         \/ fdc.phase = "result" /\ fdc.op = "none" /\ (fdc.left = 2 - flop.n \/ (fdc.left = 1 /\ flop.n = 0))
         \/ fdc.phase = "result" /\ fdc.op # "none" /\ fdc.left = 7 - flop.n /\ ~seek.on /\ ~irqFired
    /\ flop.pc = "command" =>
         fdc.phase = "idle" \/ (fdc.phase = "result" /\ fdc.op # "none" /\ ~seek.on /\ ~irqFired)
    /\ flop.pc = "dataWait" =>
         \/ Underway
         \/ Over /\ irqFired
         \/ fdc.phase = "result" /\ fdc.op # "none" /\ ~seek.on /\ ~irqFired /\ flop.i = 0
    /\ flop.pc = "dataClear" /\ flop.r => Underway \/ Over
    /\ flop.pc = "data" /\ flop.n = 0 => Underway \/ Over
    /\ flop.pc = "data" /\ flop.n > 0 =>
         fdc.phase = "result" /\ Its /\ fdc.left = 7 - flop.n /\ (flop.good => SectorDone)
    /\ flop.pc = "copy" => fdc.phase = "idle" /\ SectorDone

Seeking == {"seekWait", "seekClear", "sense", "seekResult", "command"}
FlReady ==
    /\ flop.pc \in Seeking /\ fdc.op = "none" => Filled
    /\ flop.pc \in Seeking \cup {"sector", "done"} /\ flop.i > 0 => fdc.op = "none"
SoFar ==
    flop.pc \notin {"idle", "failed"} /\ (flop.pc \in {"seekClear", "dataClear"} => flop.r) =>
      \A j \in 1 .. flop.i : LET s == flop.lba + j - 1 IN
        sectors[s] = IF flop.op = "read" THEN flop.out[j] ELSE Diskette!Data(s, flop.call)
AtMostOne == given < 2 => InTurn /\ FlReady /\ SoFar

(* As long as no wait was given up, nothing is left behind.                  *)
NoneGivenUp ==
    given = 0 =>
      /\ seek.on => flop.pc = "seekWait" /\ ~irqFired
      /\ fdc.phase = "exec" => flop.pc = "dataWait" /\ ~irqFired
      /\ irqFired => flop.pc \in {"seekWait", "seekClear", "dataWait", "dataClear"}
      /\ flop.pc \in {"seekClear", "dataClear"} => flop.r
      /\ flop.pc \in Seeking \cup {"idle", "done", "failed", "sector"} => fdc.op = "none"
      /\ flop.pc = "dataWait" => ~(fdc.phase = "result" /\ ~irqFired)
      /\ \A s \in 1 .. FlSectors : sectors[s] = Diskette!Torn \/ sectors[s][1] = s

FlInv == FlTypes /\ OnDisk /\ AtMostOne /\ NoneGivenUp

-----------------------------------------------------------------------------
LEMMA FlFacts ==
  ASSUME FlSizes, FlInv
  PROVE  /\ flop \in FlCall /\ flop.pc \in FlPcs /\ flop.op \in {"none", "read", "write"} /\ flop.lba \in Nat
         /\ flop.count \in Nat /\ flop.i \in Nat /\ flop.r \in BOOLEAN /\ flop.n \in 0 .. 7 /\ flop.good \in BOOLEAN
         /\ flop.out \in Seq(FlWords) /\ flop.call \in 0 .. FlMaxCalls
         /\ fdc \in FlChip /\ fdc.phase \in {"idle", "exec", "result"} /\ fdc.op \in {"none", "read", "write"}
         /\ fdc.s \in Nat /\ fdc.left \in 0 .. 7 /\ fdc.good \in BOOLEAN
         /\ seek \in FlHead /\ seek.on \in BOOLEAN /\ irqFired \in BOOLEAN /\ given \in 0 .. 2
         /\ dmaBuf \in FlWords /\ sectors \in [1 .. FlSectors -> FlWords]
         /\ FlSectors \in Nat /\ FlSectors > 0 /\ FlMaxCalls \in Nat
<1>1. FlTypes
  BY DEF FlInv
<1>2. PICK f \in FlCall : f = flop
  BY <1>1 DEF FlTypes
<1>3. /\ f.pc \in FlPcs /\ f.op \in {"none", "read", "write"} /\ f.lba \in Nat /\ f.count \in Nat /\ f.i \in Nat
      /\ f.r \in BOOLEAN /\ f.n \in 0 .. 7 /\ f.good \in BOOLEAN /\ f.out \in Seq(FlWords) /\ f.call \in 0 .. FlMaxCalls
  BY DEF FlCall
<1>4. PICK c \in FlChip : c = fdc
  BY <1>1 DEF FlTypes
<1>5. /\ c.phase \in {"idle", "exec", "result"} /\ c.op \in {"none", "read", "write"} /\ c.s \in Nat /\ c.left \in 0 .. 7
      /\ c.good \in BOOLEAN
  BY DEF FlChip
<1>6. PICK h \in FlHead : h = seek
  BY <1>1 DEF FlTypes
<1>7. h.on \in BOOLEAN
  BY DEF FlHead
<1>8. FlSectors \in Nat /\ FlSectors > 0 /\ FlMaxCalls \in Nat
  BY DEF FlSizes
<1>9. irqFired \in BOOLEAN /\ given \in 0 .. 2 /\ dmaBuf \in FlWords /\ sectors \in [1 .. FlSectors -> FlWords]
  BY <1>1 DEF FlTypes
<1>10. QED BY <1>2, <1>3, <1>4, <1>5, <1>6, <1>7, <1>8, <1>9

(* A sector that is moved is one of the disk. *)
LEMMA SectorOnDisk ==
  ASSUME FlSizes, FlInv, flop.i < flop.count
  PROVE  Diskette!Sector \in 1 .. FlSectors
<1>1. PICK l \in Nat, i \in Nat, n \in Nat : l = flop.lba /\ i = flop.i /\ n = flop.count
  BY FlFacts
<1>2. l >= 1 /\ l + n <= FlSectors + 1 /\ i < n
  BY <1>1 DEF FlInv, OnDisk
<1>3. l + i \in 1 .. FlSectors
  BY <1>2, FlFacts
<1>4. QED BY <1>1, <1>3 DEF Diskette!Sector

(* A step that leaves the call at its sector. *)
LEMMA SameSector ==
  ASSUME flop'.lba = flop.lba, flop'.i = flop.i, flop'.op = flop.op, flop'.call = flop.call,
         dmaBuf' = dmaBuf, sectors' = sectors
  PROVE  Diskette!Sector' = Diskette!Sector /\ (SectorDone' <=> SectorDone) /\ (Filled' <=> Filled)
BY DEF Diskette!Sector, SectorDone, Filled, Diskette!Data

LEMMA FlInitially == ASSUME FlSizes, Diskette!Init PROVE FlInv
<1>1. FlSectors \in Nat /\ FlSectors > 0 /\ FlMaxCalls \in Nat
  BY DEF FlSizes
<1>2. flop = [pc |-> "idle", op |-> "none", lba |-> 1, count |-> 0, i |-> 0, r |-> FALSE,
              n |-> 0, good |-> FALSE, out |-> <<>>, call |-> 0]
  BY DEF Diskette!Init
<1>3. irqFired = FALSE /\ dmaBuf = Diskette!Torn /\ dma = "off" /\ fdc = Diskette!Idle /\ sectors = [s \in 1 .. FlSectors |-> Diskette!Data(s, 0)]
  BY DEF Diskette!Init
<1>4. PICK on \in BOOLEAN : seek = [on |-> on, pending |-> "none"] /\ given = IF on THEN 1 ELSE 0
  BY DEF Diskette!Init
<1>5. fdc \in FlChip /\ fdc.phase = "idle" /\ fdc.op = "none"
  BY <1>3 DEF Diskette!Idle, FlChip
<1>6. \A s \in 1 .. FlSectors : sectors[s] = Diskette!Data(s, 0) /\ Diskette!Data(s, 0) \in FlWords /\ Diskette!Data(s, 0)[1] = s
  BY <1>1, <1>3 DEF Diskette!Data, FlWords
<1>7. flop \in FlCall
  <2>1. <<>> \in Seq(FlWords)
    OBVIOUS
  <2>2. 0 \in 0 .. FlMaxCalls
    BY <1>1
  <2>3. QED BY <1>2, <2>1, <2>2 DEF FlCall, FlPcs
<1>8. FlTypes
  <2>1. sectors \in [1 .. FlSectors -> FlWords]
    BY <1>3, <1>6
  <2>2. seek \in FlHead /\ given \in 0 .. 2
    BY <1>4 DEF FlHead
  <2>3. dmaBuf \in FlWords
    BY <1>3 DEF FlWords
  <2>4. QED BY <1>3, <1>5, <1>7, <2>1, <2>2, <2>3 DEF FlTypes
<1>9. OnDisk
  BY <1>1, <1>2, <1>5 DEF OnDisk
<1>10. AtMostOne
  BY <1>2, <1>5 DEF AtMostOne, InTurn, LeftBehind, FlReady, SoFar, Seeking
<1>11. NoneGivenUp
  <2>1. given = 0 => ~seek.on
    BY <1>4
  <2>2. QED BY <1>2, <1>3, <1>5, <1>6, <2>1 DEF NoneGivenUp, Seeking
<1>12. QED BY <1>8, <1>9, <1>10, <1>11 DEF FlInv

LEMMA FlCallKeeps ==
  ASSUME FlSizes, FlInv, NEW op \in {"read", "write"}, NEW s \in 1 .. FlSectors, NEW n \in 1 .. FlSectors,
         s + n - 1 <= FlSectors, Diskette!Call(op, s, n)
  PROVE  FlInv'
<1>1. /\ flop.pc \in {"idle", "done", "failed"} /\ flop.call < FlMaxCalls
      /\ flop' = [flop EXCEPT !.pc = "sector", !.op = op, !.lba = s, !.count = n, !.i = 0, !.out = <<>>,
                              !.call = flop.call + 1]
      /\ UNCHANGED <<irqFired, dmaBuf, dma, fdc, seek, sectors, given>>
  BY DEF Diskette!Call
<1>2. PICK c \in 0 .. FlMaxCalls : c = flop.call + 1
  BY <1>1, FlFacts
<1>3. s \in Nat /\ n \in Nat /\ s >= 1 /\ s + n <= FlSectors + 1 /\ <<>> \in Seq(FlWords)
  BY FlFacts
<1>4. /\ flop' \in FlCall /\ flop'.pc = "sector" /\ flop'.op = op /\ flop'.lba = s /\ flop'.count = n /\ flop'.i = 0
      /\ flop'.out = <<>>
  <2>1. PICK f \in FlCall : f = flop
    BY FlFacts
  <2>2. flop' = [f EXCEPT !.pc = "sector", !.op = op, !.lba = s, !.count = n, !.i = 0, !.out = <<>>, !.call = c]
    BY <1>1, <1>2, <2>1
  <2>3. QED BY <1>3, <2>2 DEF FlCall, FlPcs
<1>5. FlTypes'
  BY <1>1, <1>4 DEF FlInv, FlTypes
<1>6. OnDisk'
  BY <1>1, <1>3, <1>4 DEF FlInv, OnDisk
<1>7. AtMostOne'
  <2>1. given' < 2 => LeftBehind'
    BY <1>1 DEF FlInv, AtMostOne, InTurn, LeftBehind
  <2>2. QED BY <1>4, <2>1 DEF AtMostOne, InTurn, FlReady, Seeking, SoFar
<1>8. NoneGivenUp'
  BY <1>1, <1>4 DEF FlInv, NoneGivenUp, Seeking
<1>9. QED BY <1>5, <1>6, <1>7, <1>8 DEF FlInv

LEMMA SeekSendKeeps == ASSUME FlSizes, FlInv, Diskette!SeekSend PROVE FlInv'
<1>1. /\ flop.pc = "sector" /\ flop.i < flop.count /\ flop' = [flop EXCEPT !.pc = "seekWait"]
      /\ dmaBuf' = IF flop.op = "write" THEN Diskette!Data(Diskette!Sector, flop.call) ELSE dmaBuf
      /\ seek' = IF fdc.phase = "idle" THEN [seek EXCEPT !.on = TRUE] ELSE seek
      /\ UNCHANGED <<irqFired, dma, fdc, sectors, given>>
  BY DEF Diskette!SeekSend, Diskette!Takes
<1>2. PICK f \in FlCall : f = flop
  BY FlFacts
<1>3. /\ flop' \in FlCall /\ flop'.pc = "seekWait" /\ flop'.op = f.op /\ flop'.lba = f.lba /\ flop'.count = f.count
      /\ flop'.i = f.i /\ flop'.out = f.out /\ flop'.call = f.call
  BY <1>1, <1>2 DEF FlCall, FlPcs
<1>4. Diskette!Sector \in 1 .. FlSectors
  BY <1>1, SectorOnDisk
<1>5. Diskette!Sector' = Diskette!Sector
  BY <1>2, <1>3 DEF Diskette!Sector
<1>6. Filled'
  BY <1>1, <1>2, <1>3, <1>5 DEF Filled, Diskette!Data
<1>7. seek' \in FlHead
  BY <1>1, FlFacts DEF FlHead
<1>8. dmaBuf' \in FlWords
  BY <1>1, <1>4, FlFacts DEF FlWords
<1>9. FlTypes'
  BY <1>1, <1>3, <1>7, <1>8 DEF FlInv, FlTypes
<1>10. OnDisk'
  BY <1>1, <1>2, <1>3 DEF FlInv, OnDisk
<1>11. AtMostOne'
  <2>1. given' < 2 => LeftBehind'
    BY <1>1 DEF FlInv, AtMostOne, InTurn, LeftBehind
  <2>2. given' < 2 => SoFar'
    BY <1>1, <1>2, <1>3 DEF FlInv, AtMostOne, SoFar, Diskette!Data
  <2>3. given' < 2 => FlReady'
    BY <1>1, <1>2, <1>3, <1>6 DEF FlInv, AtMostOne, FlReady, Seeking
  <2>4. QED BY <1>3, <2>1, <2>2, <2>3 DEF AtMostOne, InTurn
<1>12. NoneGivenUp'
  BY <1>1, <1>3 DEF FlInv, NoneGivenUp, Seeking
<1>13. QED BY <1>9, <1>10, <1>11, <1>12 DEF FlInv

LEMMA WaitIrqKeeps == ASSUME FlSizes, FlInv, Diskette!WaitIrq PROVE FlInv'
<1>1. /\ flop.pc \in {"seekWait", "dataWait"} /\ UNCHANGED <<irqFired, dmaBuf, dma, fdc, seek, sectors>>
      /\ flop' = [flop EXCEPT !.r = irqFired, !.pc = IF flop.pc = "seekWait" THEN "seekClear" ELSE "dataClear"]
      /\ given' = IF irqFired THEN given ELSE IF given = 2 THEN 2 ELSE given + 1
  BY DEF Diskette!WaitIrq, Diskette!GiveUp
<1>2. PICK f \in FlCall : f = flop
  BY FlFacts
<1>3. PICK pc \in {"seekClear", "dataClear"} : pc = IF f.pc = "seekWait" THEN "seekClear" ELSE "dataClear"
  OBVIOUS
<1>4. PICK r \in BOOLEAN : r = irqFired
  BY FlFacts
<1>5. /\ flop' \in FlCall /\ flop'.pc = pc /\ flop'.op = f.op /\ flop'.lba = f.lba /\ flop'.count = f.count
      /\ flop'.i = f.i /\ flop'.out = f.out /\ flop'.call = f.call /\ (flop'.r <=> r)
  <2>1. flop' = [f EXCEPT !.r = r, !.pc = pc]
    BY <1>1, <1>2, <1>3, <1>4
  <2>2. QED BY <2>1 DEF FlCall, FlPcs
<1>6. Diskette!Sector' = Diskette!Sector /\ (SectorDone' <=> SectorDone) /\ (Filled' <=> Filled)
  BY <1>1, <1>2, <1>5, SameSector
<1>7. given' \in 0 .. 2 /\ (given' < 2 => given < 2) /\ (given' = 0 => given = 0 /\ r) /\ (given' < 2 /\ ~r => given = 0)
  BY <1>1, <1>4, FlFacts
<1>8. FlTypes'
  BY <1>1, <1>5, <1>7 DEF FlInv, FlTypes
<1>9. OnDisk'
  BY <1>1, <1>2, <1>5 DEF FlInv, OnDisk
<1>10. (Underway' <=> Underway) /\ (Over' <=> Over) /\ (LeftBehind' <=> LeftBehind)
  BY <1>1, <1>2, <1>5, <1>6 DEF Underway, Over, Its, LeftBehind
<1>11. ASSUME given' < 2 PROVE InTurn'
  <2>1. CASE r
    <3>1. CASE f.pc = "seekWait"
      <4>1. LeftBehind /\ irqFired /\ pc = "seekClear"
        BY <1>2, <1>3, <1>4, <1>7, <1>11, <2>1, <3>1 DEF FlInv, AtMostOne, InTurn
      <4>2. fdc.phase # "idle" => /\ ~seek.on /\ fdc.op # "none" /\ fdc.phase = "result" /\ fdc.left = 7
        BY <4>1, FlFacts DEF LeftBehind
      <4>3. QED BY <1>1, <1>5, <2>1, <4>1, <4>2 DEF InTurn
    <3>2. CASE f.pc = "dataWait"
      <4>1. (Underway \/ Over) /\ pc = "dataClear"
        BY <1>2, <1>3, <1>4, <1>7, <1>11, <2>1, <3>2 DEF FlInv, AtMostOne, InTurn
      <4>2. QED BY <1>5, <1>10, <2>1, <4>1 DEF InTurn
    <3>3. QED BY <1>1, <1>2, <3>1, <3>2
  <2>2. CASE ~r
    <3>1. LeftBehind
      <4>1. CASE f.pc = "seekWait"
        BY <1>2, <1>7, <1>11, <4>1 DEF FlInv, AtMostOne, InTurn
      <4>2. CASE f.pc = "dataWait"
        <5>1. ~seek.on /\ ~irqFired
          BY <1>2, <1>4, <1>7, <1>11, <2>2, <4>2 DEF FlInv, NoneGivenUp
        <5>2. fdc.phase # "idle" => fdc.op # "none"
          BY <1>2, <1>7, <1>11, <4>2, <5>1 DEF FlInv, AtMostOne, InTurn, OnDisk, Underway, Over, Its
        <5>3. QED BY <5>1, <5>2 DEF LeftBehind
      <4>3. QED BY <1>1, <1>2, <4>1, <4>2
    <3>2. QED BY <1>5, <1>10, <2>2, <3>1 DEF InTurn
  <2>3. QED BY <2>1, <2>2
<1>12. ASSUME given' < 2 PROVE FlReady'
  BY <1>1, <1>2, <1>3, <1>5, <1>6, <1>7, <1>12 DEF FlInv, AtMostOne, FlReady, Seeking
<1>13. ASSUME given' < 2 PROVE SoFar'
  BY <1>1, <1>2, <1>5, <1>7, <1>13 DEF FlInv, AtMostOne, SoFar, Diskette!Data
<1>14. NoneGivenUp'
  BY <1>1, <1>2, <1>3, <1>4, <1>5, <1>7 DEF FlInv, NoneGivenUp, Seeking
<1>15. QED BY <1>8, <1>9, <1>11, <1>12, <1>13, <1>14 DEF FlInv, AtMostOne

LEMMA ClearIrqKeeps == ASSUME FlSizes, FlInv, Diskette!ClearIrq PROVE FlInv'
<1>1. /\ flop.pc \in {"seekClear", "dataClear"} /\ ~irqFired' /\ irqFired' \in BOOLEAN
      /\ UNCHANGED <<dmaBuf, dma, fdc, seek, sectors, given>>
      /\ flop' = [flop EXCEPT !.n = 0, !.pc = CASE ~flop.r -> "failed"
                                                [] flop.r /\ flop.pc = "seekClear" -> "sense"
                                                [] flop.r /\ flop.pc = "dataClear" -> "data"]
  BY DEF Diskette!ClearIrq
<1>2. PICK f \in FlCall : f = flop
  BY FlFacts
<1>3. PICK pc \in {"failed", "sense", "data"} :
        pc = IF ~f.r THEN "failed" ELSE IF f.pc = "seekClear" THEN "sense" ELSE "data"
  OBVIOUS
<1>4. /\ flop' \in FlCall /\ flop'.pc = pc /\ flop'.op = f.op /\ flop'.lba = f.lba /\ flop'.count = f.count
      /\ flop'.i = f.i /\ flop'.out = f.out /\ flop'.call = f.call /\ flop'.n = 0
  <2>1. f.r \in BOOLEAN
    BY DEF FlCall
  <2>2. flop' = [f EXCEPT !.n = 0, !.pc = pc]
    BY <1>1, <1>2, <1>3, <2>1
  <2>4. PICK z \in 0 .. 7 : z = 0
    OBVIOUS
  <2>5. flop' = [f EXCEPT !.n = z, !.pc = pc]
    BY <2>2, <2>4
  <2>3. QED BY <2>4, <2>5 DEF FlCall, FlPcs
<1>5. Diskette!Sector' = Diskette!Sector /\ (SectorDone' <=> SectorDone) /\ (Filled' <=> Filled)
  BY <1>1, <1>2, <1>4, SameSector
<1>6. FlTypes'
  BY <1>1, <1>4 DEF FlInv, FlTypes
<1>7. OnDisk'
  BY <1>1, <1>2, <1>3, <1>4 DEF FlInv, OnDisk
<1>8. (Underway' <=> Underway) /\ (Over' <=> Over) /\ (LeftBehind => LeftBehind')
  BY <1>1, <1>2, <1>4, <1>5 DEF Underway, Over, Its, LeftBehind
<1>9. ASSUME given < 2 PROVE InTurn'
  BY <1>1, <1>2, <1>3, <1>4, <1>8, <1>9 DEF FlInv, AtMostOne, InTurn
<1>10. ASSUME given < 2 PROVE FlReady'
  BY <1>1, <1>2, <1>3, <1>4, <1>5, <1>10 DEF FlInv, AtMostOne, FlReady, Seeking
<1>11. ASSUME given < 2 PROVE SoFar'
  BY <1>1, <1>2, <1>3, <1>4, <1>11 DEF FlInv, AtMostOne, SoFar, Diskette!Data
<1>12. NoneGivenUp'
  BY <1>1, <1>2, <1>3, <1>4 DEF FlInv, NoneGivenUp, Seeking
<1>13. QED BY <1>1, <1>6, <1>7, <1>9, <1>10, <1>11, <1>12 DEF FlInv, AtMostOne


LEMMA SenseSendKeeps == ASSUME FlSizes, FlInv, Diskette!SenseSend PROVE FlInv'
<1>1. /\ flop.pc = "sense" /\ flop' = [flop EXCEPT !.pc = "seekResult"]
      /\ fdc' = IF fdc.phase # "idle" THEN fdc
                ELSE [Diskette!Idle EXCEPT !.phase = "result", !.left = IF seek.pending = "none" THEN 1 ELSE 2,
                                  !.good = seek.pending = "good"]
      /\ seek' = IF fdc.phase = "idle" THEN [seek EXCEPT !.pending = "none"] ELSE seek
      /\ UNCHANGED <<irqFired, dmaBuf, dma, sectors, given>>
  BY DEF Diskette!SenseSend, Diskette!Takes
<1>2. PICK f \in FlCall : f = flop
  BY FlFacts
<1>3. /\ flop' \in FlCall /\ flop'.pc = "seekResult" /\ flop'.op = f.op /\ flop'.lba = f.lba /\ flop'.count = f.count
      /\ flop'.i = f.i /\ flop'.out = f.out /\ flop'.call = f.call /\ flop'.n = f.n
  BY <1>1, <1>2 DEF FlCall, FlPcs
<1>4. Diskette!Sector' = Diskette!Sector /\ (SectorDone' <=> SectorDone) /\ (Filled' <=> Filled)
  BY <1>1, <1>2, <1>3, SameSector
<1>5. f.n = 0
  BY <1>1, <1>2 DEF FlInv, OnDisk
<1>6. /\ seek' \in FlHead /\ (seek'.on <=> seek.on)
      /\ fdc' \in FlChip
      /\ fdc.phase # "idle" => fdc' = fdc /\ seek' = seek
      /\ fdc.phase = "idle" => fdc'.phase = "result" /\ fdc'.op = "none" /\ fdc'.left \in {1, 2} /\ fdc.op = "none"
  <2>1. CASE fdc.phase # "idle"
    BY <1>1, <2>1, FlFacts
  <2>2. CASE fdc.phase = "idle"
    <3>1. PICK h \in FlHead : h = seek
      BY FlFacts
    <3>2. seek' = [h EXCEPT !.pending = "none"]
      BY <1>1, <2>2, <3>1
    <3>3. seek' \in FlHead /\ (seek'.on <=> seek.on)
      BY <3>1, <3>2 DEF FlHead
    <3>4. PICK l \in {1, 2} : l = IF seek.pending = "none" THEN 1 ELSE 2
      OBVIOUS
    <3>5. PICK g \in BOOLEAN : g = (seek.pending = "good")
      BY Zenon
    <3>6. fdc' = [phase |-> "result", op |-> "none", s |-> 0, left |-> l, good |-> g]
      BY <1>1, <2>2, <3>4, <3>5 DEF Diskette!Idle
    <3>7. l \in 0 .. 7
      BY <3>4
    <3>8. fdc' \in FlChip /\ fdc'.phase = "result" /\ fdc'.op = "none" /\ fdc'.left = l
      BY <3>6, <3>7 DEF FlChip
    <3>9. fdc.op = "none"
      BY <2>2 DEF FlInv, OnDisk
    <3>10. QED BY <2>2, <3>3, <3>4, <3>8, <3>9
  <2>3. QED BY <2>1, <2>2
<1>7. FlTypes'
  BY <1>1, <1>3, <1>6 DEF FlInv, FlTypes
<1>8. OnDisk'
  BY <1>1, <1>2, <1>3, <1>5, <1>6 DEF FlInv, OnDisk
<1>9. ASSUME given < 2 PROVE InTurn'
  BY <1>1, <1>3, <1>5, <1>6, <1>9 DEF FlInv, AtMostOne, InTurn
<1>10. ASSUME given < 2 PROVE FlReady'
  BY <1>1, <1>2, <1>3, <1>4, <1>6, <1>10 DEF FlInv, AtMostOne, FlReady, Seeking
<1>11. ASSUME given < 2 PROVE SoFar'
  BY <1>1, <1>2, <1>3, <1>11 DEF FlInv, AtMostOne, SoFar, Diskette!Data
<1>12. NoneGivenUp'
  BY <1>1, <1>2, <1>3, <1>6 DEF FlInv, NoneGivenUp, Seeking
<1>13. QED BY <1>1, <1>7, <1>8, <1>9, <1>10, <1>11, <1>12 DEF FlInv, AtMostOne

(* A result byte was taken in, the first of them with the verdict. *)
LEMMA FlReceived ==
  ASSUME FlSizes, FlInv, NEW n \in {2, 7}, NEW good \in BOOLEAN, NEW then \in {"command", "copy"}, flop.n < n,
         flop' = Diskette!Recvd(n, good, then)
  PROVE  /\ flop' \in FlCall /\ flop'.op = flop.op /\ flop'.lba = flop.lba /\ flop'.count = flop.count
         /\ flop'.i = flop.i /\ flop'.out = flop.out /\ flop'.call = flop.call
         /\ flop'.n = flop.n + 1 /\ (flop'.good <=> IF flop.n = 0 THEN good ELSE flop.good)
         /\ flop.n + 1 < n => flop'.pc = flop.pc
         /\ flop.n + 1 = n => flop'.pc = IF flop'.good THEN then ELSE "failed"
<1>1. PICK f \in FlCall : f = flop
  BY FlFacts
<1>2. PICK g \in BOOLEAN : g = IF f.n = 0 THEN good ELSE f.good
  BY <1>1, FlFacts
<1>3. PICK m \in 0 .. 7 : m = f.n + 1
  BY <1>1, FlFacts, SMTT(20)
<1>4. PICK pc \in FlPcs : pc = IF f.n + 1 < n THEN f.pc ELSE IF g THEN then ELSE "failed"
  BY <1>1, FlFacts DEF FlPcs
<1>5. flop' = [f EXCEPT !.n = m, !.good = g, !.pc = pc]
  BY <1>1, <1>2, <1>3, <1>4 DEF Diskette!Recvd
<1>6. /\ flop' \in FlCall /\ flop'.op = f.op /\ flop'.lba = f.lba /\ flop'.count = f.count /\ flop'.i = f.i
      /\ flop'.out = f.out /\ flop'.call = f.call /\ flop'.n = m /\ (flop'.good <=> g) /\ flop'.pc = pc
  BY <1>5 DEF FlCall
<1>7. f.n + 1 < n => pc = f.pc
  BY <1>4
<1>8. f.n + 1 = n => pc = IF g THEN then ELSE "failed"
  BY <1>3, <1>4
<1>9. QED BY <1>1, <1>2, <1>3, <1>6, <1>7, <1>8

LEMMA RecvByteKeeps == ASSUME FlSizes, FlInv, Diskette!RecvByte PROVE FlInv'
<1>1. /\ fdc.phase = "result" /\ fdc' = IF fdc.left = 1 THEN Diskette!Idle ELSE [fdc EXCEPT !.left = fdc.left - 1]
      /\ UNCHANGED <<irqFired, dmaBuf, dma, seek, sectors, given>>
  BY DEF Diskette!RecvByte
<1>2. PICK good \in BOOLEAN : Diskette!Receiving(good) /\ (fdc.op # "none" /\ fdc.left = 7 => good = fdc.good)
  BY FlFacts DEF Diskette!RecvByte, Diskette!First
<1>3. PICK n \in 0 .. 7, l \in 0 .. 7 : n = flop.n /\ l = fdc.left
  BY FlFacts
<1>4. l >= 1
  BY <1>1, <1>3 DEF FlInv, OnDisk
<1>5. /\ fdc' \in FlChip
      /\ l = 1 => fdc'.phase = "idle" /\ fdc'.op = "none"
      /\ l > 1 => fdc'.phase = "result" /\ fdc'.op = fdc.op /\ fdc'.s = fdc.s /\ fdc'.left = l - 1
  <2>1. CASE l = 1
    BY <1>1, <1>3, <2>1 DEF Diskette!Idle, FlChip
  <2>2. CASE l # 1
    <3>1. PICK c \in FlChip : c = fdc
      BY FlFacts
    <3>2. PICK k \in 0 .. 7 : k = l - 1
      BY <1>4
    <3>3. fdc' = [c EXCEPT !.left = k]
      BY <1>1, <1>3, <2>2, <3>1, <3>2
    <3>4. fdc' \in FlChip /\ fdc'.phase = c.phase /\ fdc'.op = c.op /\ fdc'.s = c.s /\ fdc'.left = k
      BY <3>3 DEF FlChip
    <3>5. QED BY <1>1, <2>2, <3>1, <3>2, <3>4
  <2>3. QED BY <2>1, <2>2
<1>6. CASE flop.pc = "seekResult" /\ flop' = Diskette!Recvd(2, good, "command")
  <2>1. n <= 1
    BY <1>3, <1>6 DEF FlInv, OnDisk
  <2>2. /\ flop' \in FlCall /\ flop'.op = flop.op /\ flop'.lba = flop.lba /\ flop'.count = flop.count
        /\ flop'.i = flop.i /\ flop'.out = flop.out /\ flop'.call = flop.call
        /\ flop'.n = n + 1 /\ (flop'.good <=> IF n = 0 THEN good ELSE flop.good)
        /\ n + 1 < 2 => flop'.pc = flop.pc
        /\ n + 1 = 2 => flop'.pc = IF flop'.good THEN "command" ELSE "failed"
    <3>1. flop.n < 2
      BY <1>3, <2>1
    <3>2. QED BY <1>3, <1>6, <3>1, FlReceived
  <2>3. /\ n = 0 => flop'.pc = "seekResult"
        /\ n = 1 => flop'.pc \in {"command", "failed"}
        /\ n = 0 \/ n = 1
    BY <1>6, <2>1, <2>2
  <2>4. Diskette!Sector' = Diskette!Sector /\ (SectorDone' <=> SectorDone) /\ (Filled' <=> Filled)
    BY <1>1, <2>2, SameSector
  <2>5. FlTypes'
    BY <1>1, <1>5, <2>2 DEF FlInv, FlTypes
  <2>6. OnDisk'
    BY <1>1, <1>3, <1>4, <1>5, <1>6, <2>1, <2>2, <2>3 DEF FlInv, OnDisk
  <2>7. ASSUME given < 2
        PROVE  \/ fdc.op = "none" /\ (l = 2 - n \/ (l = 1 /\ n = 0))
               \/ fdc.op # "none" /\ l = 7 - n /\ ~seek.on /\ ~irqFired
    BY <1>1, <1>3, <1>6, <2>7 DEF FlInv, AtMostOne, InTurn
  <2>8. ASSUME given < 2 PROVE InTurn'
    <3>1. CASE n = 0
      <4>1. flop'.pc = "seekResult" /\ flop'.n = 1
        BY <2>2, <2>3, <3>1
      <4>2. \/ fdc'.phase = "idle"
            \/ fdc'.phase = "result" /\ fdc'.op = "none" /\ fdc'.left = 1
            \/ fdc'.phase = "result" /\ fdc'.op # "none" /\ fdc'.left = 6 /\ ~seek'.on /\ ~irqFired'
        <5>1. l = 1 \/ (fdc.op = "none" /\ l = 2) \/ (fdc.op # "none" /\ l = 7 /\ ~seek.on /\ ~irqFired)
          BY <2>7, <2>8, <3>1
        <5>2. CASE l = 1
          BY <1>5, <5>2
        <5>3. CASE fdc.op = "none" /\ l = 2
          BY <1>5, <5>3
        <5>4. CASE fdc.op # "none" /\ l = 7 /\ ~seek.on /\ ~irqFired
          BY <1>1, <1>5, <5>4
        <5>5. QED BY <5>1, <5>2, <5>3, <5>4
      <4>3. QED BY <4>1, <4>2 DEF InTurn
    <3>2. CASE n = 1
      <4>1. flop'.pc \in {"command", "failed"}
        BY <2>3, <3>2
      <4>2. \/ fdc'.phase = "idle"
            \/ fdc'.phase = "result" /\ fdc'.op # "none" /\ ~seek'.on /\ ~irqFired'
        BY <1>1, <1>4, <1>5, <2>7, <2>8, <3>2
      <4>3. QED BY <4>1, <4>2 DEF InTurn, LeftBehind
    <3>3. QED BY <2>3, <3>1, <3>2
  <2>9. ASSUME given < 2 PROVE FlReady'
    <3>1. fdc'.op = "none" <=> fdc.op = "none"
      BY <1>4, <1>5, <2>3, <2>7, <2>9
    <3>2. QED BY <1>6, <2>2, <2>3, <2>4, <2>9, <3>1 DEF FlInv, AtMostOne, FlReady, Seeking
  <2>10. ASSUME given < 2 PROVE SoFar'
    BY <1>1, <1>6, <2>2, <2>3, <2>10 DEF FlInv, AtMostOne, SoFar, Diskette!Data
  <2>11. NoneGivenUp'
    BY <1>1, <1>4, <1>5, <1>6, <2>3 DEF FlInv, NoneGivenUp, Seeking
  <2>12. QED BY <1>1, <2>5, <2>6, <2>8, <2>9, <2>10, <2>11 DEF FlInv, AtMostOne
<1>7. CASE flop.pc = "data" /\ flop' = Diskette!Recvd(7, good, "copy")
  <2>1. n <= 6
    BY <1>3, <1>7 DEF FlInv, OnDisk
  <2>2. /\ flop' \in FlCall /\ flop'.op = flop.op /\ flop'.lba = flop.lba /\ flop'.count = flop.count
        /\ flop'.i = flop.i /\ flop'.out = flop.out /\ flop'.call = flop.call
        /\ flop'.n = n + 1 /\ (flop'.good <=> IF n = 0 THEN good ELSE flop.good)
        /\ n + 1 < 7 => flop'.pc = flop.pc
        /\ n + 1 = 7 => flop'.pc = IF flop'.good THEN "copy" ELSE "failed"
    <3>1. flop.n < 7
      BY <1>3, <2>1
    <3>2. QED BY <1>3, <1>7, <3>1, FlReceived
  <2>3. /\ n < 6 => flop'.pc = "data"
        /\ n = 6 => flop'.pc = IF flop'.good THEN "copy" ELSE "failed"
        /\ n < 6 \/ n = 6
    BY <1>7, <2>1, <2>2
  <2>4. Diskette!Sector' = Diskette!Sector /\ (SectorDone' <=> SectorDone) /\ (Filled' <=> Filled)
    BY <1>1, <2>2, SameSector
  <2>5. FlTypes'
    BY <1>1, <1>5, <2>2 DEF FlInv, FlTypes
  <2>6. OnDisk'
    BY <1>1, <1>3, <1>4, <1>5, <1>7, <2>1, <2>2, <2>3 DEF FlInv, OnDisk
  <2>7. ASSUME given < 2
        PROVE  Its /\ l = 7 - n /\ (flop'.good => SectorDone)
    <3>1. CASE n = 0
      <4>1. Over
        BY <1>1, <1>3, <1>7, <2>7, <3>1 DEF FlInv, AtMostOne, InTurn, Underway
      <4>2. fdc.op # "none"
        BY <1>7, <4>1 DEF FlInv, OnDisk, Over, Its
      <4>3. good => SectorDone
        BY <1>2, <1>3, <4>1, <4>2 DEF Over
      <4>4. QED BY <1>3, <2>2, <3>1, <4>1, <4>3 DEF Over
    <3>2. CASE n # 0
      <4>1. flop.n > 0
        BY <1>3, <3>2
      <4>2. QED BY <1>3, <1>7, <2>2, <2>7, <3>2, <4>1 DEF FlInv, AtMostOne, InTurn
    <3>3. QED BY <3>1, <3>2
  <2>8. ASSUME given < 2 PROVE InTurn'
    <3>1. CASE n < 6
      <4>1. flop'.pc = "data" /\ flop'.n = n + 1 /\ n + 1 > 0
        BY <2>2, <2>3, <3>1
      <4>2. fdc'.phase = "result" /\ fdc'.op = fdc.op /\ fdc'.s = fdc.s /\ fdc'.left = 7 - (n + 1)
        BY <1>5, <2>7, <2>8, <3>1
      <4>3. Its'
        BY <2>2, <2>4, <2>7, <2>8, <4>2 DEF Its
      <4>4. QED BY <2>4, <2>7, <2>8, <4>1, <4>2, <4>3 DEF InTurn
    <3>2. CASE n = 6
      <4>1. fdc'.phase = "idle"
        BY <1>5, <2>7, <2>8, <3>2
      <4>2. (flop'.pc = "copy" /\ SectorDone') \/ flop'.pc = "failed"
        BY <2>3, <2>4, <2>7, <2>8, <3>2
      <4>3. QED BY <4>1, <4>2 DEF InTurn, LeftBehind
    <3>3. QED BY <2>3, <3>1, <3>2
  <2>9. FlReady'
    BY <2>3 DEF FlReady, Seeking
  <2>10. ASSUME given < 2 PROVE SoFar'
    BY <1>1, <1>7, <2>2, <2>3, <2>10 DEF FlInv, AtMostOne, SoFar, Diskette!Data
  <2>11. NoneGivenUp'
    <3>1. given = 0 /\ flop'.pc = "failed" => fdc'.op = "none"
      <4>1. ASSUME given = 0, flop'.pc = "failed" PROVE fdc'.op = "none"
        <5>1. n = 6
          BY <2>3, <4>1
        <5>2. l = 1
          BY <2>7, <4>1, <5>1
        <5>3. QED BY <1>5, <5>2
      <4>2. QED BY <4>1
    <3>2. fdc'.phase # "exec"
      BY <1>4, <1>5
    <3>3. QED BY <1>1, <1>7, <2>3, <3>1, <3>2 DEF FlInv, NoneGivenUp, Seeking
  <2>12. QED BY <1>1, <2>5, <2>6, <2>8, <2>9, <2>10, <2>11 DEF FlInv, AtMostOne
<1>8. QED BY <1>2, <1>6, <1>7 DEF Diskette!Receiving


LEMMA RecvNothingKeeps == ASSUME FlSizes, FlInv, Diskette!RecvNothing PROVE FlInv'
<1>1. /\ fdc.phase # "result" /\ given' = (IF fdc.phase = "exec" THEN Diskette!GiveUp ELSE given)
      /\ UNCHANGED <<irqFired, dmaBuf, dma, fdc, seek, sectors>>
  BY DEF Diskette!RecvNothing
<1>0. \/ flop.pc = "seekResult" /\ flop' = Diskette!Recvd(2, FALSE, "command")
      \/ flop.pc = "data" /\ flop' = Diskette!Recvd(7, FALSE, "copy")
  BY DEF Diskette!RecvNothing, Diskette!Receiving
<1>2. PICK n \in 0 .. 7 : n = flop.n
  BY FlFacts
<1>3. /\ given' \in 0 .. 2 /\ (given' < 2 => given < 2) /\ (given' = 0 => given = 0 /\ given' = given)
      /\ fdc.phase = "exec" /\ given # 0 => given' = 2
      /\ fdc.phase # "exec" => given' = given
      /\ fdc.phase = "exec" => given' # 0
  BY <1>1, FlFacts DEF Diskette!GiveUp
<1>4. FALSE \in BOOLEAN
  BY Zenon
<1>5. CASE flop.pc = "seekResult" /\ flop' = Diskette!Recvd(2, FALSE, "command")
  <2>0. flop.pc = "seekResult"
    BY <1>5, Zenon
  <2>1. n <= 1
    BY <1>2, <2>0 DEF FlInv, OnDisk
  <2>2. /\ flop' \in FlCall /\ flop'.op = flop.op /\ flop'.lba = flop.lba /\ flop'.count = flop.count
        /\ flop'.i = flop.i /\ flop'.out = flop.out /\ flop'.call = flop.call
        /\ flop'.n = n + 1
        /\ n + 1 < 2 => flop'.pc = flop.pc
        /\ n + 1 = 2 => flop'.pc \in {"command", "failed"}
    <3>1. flop.n < 2
      BY <1>2, <2>1
    <3>2. QED BY <1>2, <1>4, <1>5, <3>1, FlReceived
  <2>3. /\ n = 0 => flop'.pc = "seekResult"
        /\ n = 1 => flop'.pc \in {"command", "failed"}
        /\ n = 0 \/ n = 1
    BY <2>0, <2>1, <2>2
  <2>4. Diskette!Sector' = Diskette!Sector /\ (SectorDone' <=> SectorDone) /\ (Filled' <=> Filled)
    BY <1>1, <2>2, SameSector
  <2>5. FlTypes'
    BY <1>1, <1>3, <2>2 DEF FlInv, FlTypes
  <2>6. OnDisk'
    BY <1>1, <1>2, <2>0, <2>1, <2>2, <2>3 DEF FlInv, OnDisk
  <2>7. ASSUME given' < 2 PROVE fdc.phase = "idle" /\ n = 1 /\ given < 2
    BY <1>1, <1>2, <1>3, <2>0, <2>7 DEF FlInv, AtMostOne, InTurn
  <2>8. ASSUME given' < 2 PROVE InTurn'
    <3>1. flop'.pc \in {"command", "failed"} /\ fdc'.phase = "idle"
      BY <1>1, <2>3, <2>7, <2>8
    <3>2. QED BY <3>1 DEF InTurn, LeftBehind
  <2>9. ASSUME given' < 2 PROVE FlReady'
    BY <1>1, <1>3, <2>0, <2>2, <2>3, <2>4, <2>9 DEF FlInv, AtMostOne, FlReady, Seeking
  <2>10. ASSUME given' < 2 PROVE SoFar'
    BY <1>1, <1>3, <2>0, <2>2, <2>3, <2>10 DEF FlInv, AtMostOne, SoFar, Diskette!Data
  <2>11. NoneGivenUp'
    BY <1>1, <1>3, <2>0, <2>3 DEF FlInv, NoneGivenUp, Seeking
  <2>12. QED BY <2>5, <2>6, <2>8, <2>9, <2>10, <2>11 DEF FlInv, AtMostOne
<1>6. CASE flop.pc = "data" /\ flop' = Diskette!Recvd(7, FALSE, "copy")
  <2>0. flop.pc = "data"
    BY <1>6, Zenon
  <2>1. n <= 6
    BY <1>2, <2>0 DEF FlInv, OnDisk
  <2>2. /\ flop' \in FlCall /\ flop'.op = flop.op /\ flop'.lba = flop.lba /\ flop'.count = flop.count
        /\ flop'.i = flop.i /\ flop'.out = flop.out /\ flop'.call = flop.call
        /\ flop'.n = n + 1
        /\ n + 1 < 7 => flop'.pc = flop.pc
        /\ n + 1 = 7 => flop'.pc \in {"copy", "failed"}
    <3>1. flop.n < 7
      BY <1>2, <2>1
    <3>2. QED BY <1>2, <1>4, <1>6, <3>1, FlReceived
  <2>3. /\ n < 6 => flop'.pc = "data"
        /\ n = 6 => flop'.pc \in {"copy", "failed"}
        /\ n < 6 \/ n = 6
    BY <2>0, <2>1, <2>2
  <2>5. FlTypes'
    BY <1>1, <1>3, <2>2 DEF FlInv, FlTypes
  <2>6. OnDisk'
    BY <1>1, <1>2, <2>0, <2>1, <2>2, <2>3 DEF FlInv, OnDisk
  <2>7. ASSUME given < 2 PROVE fdc.phase = "exec"
    BY <1>1, <2>0, <2>7, FlFacts DEF FlInv, AtMostOne, InTurn, Underway, Over
  <2>8. ASSUME given = 0 PROVE FALSE
    BY <2>0, <2>7, <2>8 DEF FlInv, NoneGivenUp
  <2>9. given' = 2
    BY <1>3, <2>7, <2>8, FlFacts
  <2>10. QED BY <2>5, <2>6, <2>9 DEF FlInv, AtMostOne, NoneGivenUp
<1>7. QED BY <1>0, <1>5, <1>6

LEMMA CommandSendKeeps == ASSUME FlSizes, FlInv, Diskette!CommandSend PROVE FlInv'
<1>1. /\ flop.pc = "command" /\ flop' = [flop EXCEPT !.pc = "dataWait"]
      /\ dma' \in {"in", "out"}
      /\ fdc' = IF fdc.phase = "idle" THEN [Diskette!Idle EXCEPT !.phase = "exec", !.op = flop.op, !.s = Diskette!Sector] ELSE fdc
      /\ UNCHANGED <<irqFired, dmaBuf, seek, sectors, given>>
  BY DEF Diskette!CommandSend, Diskette!Takes
<1>2. PICK f \in FlCall : f = flop
  BY FlFacts
<1>3. /\ flop' \in FlCall /\ flop'.pc = "dataWait" /\ flop'.op = f.op /\ flop'.lba = f.lba /\ flop'.count = f.count
      /\ flop'.i = f.i /\ flop'.out = f.out /\ flop'.call = f.call /\ flop'.n = f.n
  BY <1>1, <1>2 DEF FlCall, FlPcs
<1>4. Diskette!Sector' = Diskette!Sector /\ (SectorDone' <=> SectorDone) /\ (Filled' <=> Filled)
  BY <1>1, <1>2, <1>3, SameSector
<1>5. flop.i < flop.count /\ flop.op # "none"
  BY <1>1 DEF FlInv, OnDisk
<1>6. Diskette!Sector \in 1 .. FlSectors
  BY <1>5, SectorOnDisk
<1>7. /\ fdc' \in FlChip
      /\ fdc.phase # "idle" => fdc' = fdc
      /\ fdc.phase = "idle" => fdc'.phase = "exec" /\ fdc'.op = flop.op /\ fdc'.s = Diskette!Sector /\ fdc.op = "none"
  <2>1. CASE fdc.phase # "idle"
    BY <1>1, <2>1, FlFacts
  <2>2. CASE fdc.phase = "idle"
    <3>1. PICK o \in {"none", "read", "write"}, s \in Nat : o = flop.op /\ s = Diskette!Sector
      BY <1>6, FlFacts
    <3>2. PICK z \in 0 .. 7 : z = 0
      OBVIOUS
    <3>3. FALSE \in BOOLEAN
      BY Zenon
    <3>4. fdc' = [phase |-> "exec", op |-> o, s |-> s, left |-> z, good |-> FALSE]
      BY <1>1, <2>2, <3>1, <3>2 DEF Diskette!Idle
    <3>5. fdc' \in FlChip /\ fdc'.phase = "exec" /\ fdc'.op = o /\ fdc'.s = s
      BY <3>3, <3>4 DEF FlChip
    <3>6. fdc.op = "none"
      BY <2>2 DEF FlInv, OnDisk
    <3>7. QED BY <2>2, <3>1, <3>5, <3>6
  <2>3. QED BY <2>1, <2>2
<1>8. FlTypes'
  BY <1>1, <1>3, <1>7 DEF FlInv, FlTypes
<1>9. OnDisk'
  BY <1>1, <1>2, <1>3, <1>5, <1>6, <1>7 DEF FlInv, OnDisk
<1>10. ASSUME given < 2
       PROVE  \/ fdc.phase = "idle"
              \/ fdc.phase = "result" /\ fdc.op # "none" /\ ~seek.on /\ ~irqFired
  BY <1>1, <1>10 DEF FlInv, AtMostOne, InTurn
<1>11. ASSUME given < 2 PROVE InTurn'
  <2>1. CASE fdc.phase = "idle"
    <3>1. Filled
      BY <1>1, <1>7, <1>11, <2>1 DEF FlInv, AtMostOne, FlReady, Seeking
    <3>2. Underway'
      BY <1>2, <1>3, <1>4, <1>7, <2>1, <3>1 DEF Underway, Its
    <3>3. QED BY <1>3, <3>2 DEF InTurn
  <2>2. CASE fdc.phase = "result" /\ fdc.op # "none" /\ ~seek.on /\ ~irqFired
    <3>1. ~(flop.i > 0)
      BY <1>1, <1>11, <2>2 DEF FlInv, AtMostOne, FlReady, Seeking
    <3>2. flop'.i = 0
      BY <1>2, <1>3, <3>1, FlFacts
    <3>3. fdc'.phase = "result" /\ fdc'.op # "none" /\ ~seek'.on /\ ~irqFired'
      BY <1>1, <1>7, <2>2
    <3>4. QED BY <1>3, <3>2, <3>3 DEF InTurn
  <2>3. QED BY <1>10, <1>11, <2>1, <2>2
<1>12. FlReady'
  BY <1>3 DEF FlReady, Seeking
<1>13. ASSUME given < 2 PROVE SoFar'
  BY <1>1, <1>2, <1>3, <1>13 DEF FlInv, AtMostOne, SoFar, Diskette!Data
<1>14. NoneGivenUp'
  <2>1. ASSUME given = 0
        PROVE  ~seek.on /\ ~irqFired /\ fdc.phase = "idle" /\ \A s \in 1 .. FlSectors : sectors[s] = Diskette!Torn \/ sectors[s][1] = s
    <3>1. fdc.op = "none" /\ ~seek.on /\ ~irqFired
      BY <1>1, <2>1 DEF FlInv, NoneGivenUp, Seeking
    <3>2. QED BY <1>10, <2>1, <3>1 DEF FlInv, NoneGivenUp
  <2>2. QED BY <1>1, <1>3, <1>7, <2>1 DEF NoneGivenUp, Seeking
<1>15. QED BY <1>1, <1>8, <1>9, <1>11, <1>12, <1>13, <1>14 DEF FlInv, AtMostOne

LEMMA CopyKeeps == ASSUME FlSizes, FlInv, Diskette!Copy PROVE FlInv'
<1>1. /\ flop.pc = "copy" /\ flop' = [flop EXCEPT !.pc = "sector", !.i = flop.i + 1, !.out = Append(flop.out, dmaBuf)]
      /\ UNCHANGED <<irqFired, dmaBuf, dma, fdc, seek, sectors, given>>
  BY DEF Diskette!Copy
<1>2. PICK f \in FlCall : f = flop
  BY FlFacts
<1>3. PICK i \in Nat, lba \in Nat, n \in Nat, out \in Seq(FlWords) :
        i = flop.i /\ lba = flop.lba /\ n = flop.count /\ out = flop.out
  BY FlFacts
<1>4. i < n /\ Len(out) = i /\ lba >= 1 /\ lba + n <= FlSectors + 1 /\ flop.op # "none"
  BY <1>1, <1>3 DEF FlInv, OnDisk
<1>5. PICK k \in Nat : k = i + 1
  OBVIOUS
<1>6. dmaBuf \in FlWords
  BY FlFacts
<1>7. PICK more \in Seq(FlWords) :
        more = Append(out, dmaBuf) /\ Len(more) = i + 1 /\ more[i + 1] = dmaBuf /\ \A j \in 1 .. i : more[j] = out[j]
  <2>1. /\ Append(out, dmaBuf) \in Seq(FlWords) /\ Len(Append(out, dmaBuf)) = Len(out) + 1
        /\ \A j \in 1 .. Len(out) : Append(out, dmaBuf)[j] = out[j]
        /\ Append(out, dmaBuf)[Len(out) + 1] = dmaBuf
    BY <1>6, AppendProperties
  <2>2. QED BY <1>4, <2>1
<1>8. /\ flop' \in FlCall /\ flop'.pc = "sector" /\ flop'.op = f.op /\ flop'.lba = f.lba /\ flop'.count = f.count
      /\ flop'.i = k /\ flop'.out = more /\ flop'.call = f.call
  <2>1. flop' = [f EXCEPT !.pc = "sector", !.i = k, !.out = more]
    BY <1>1, <1>2, <1>3, <1>5, <1>7
  <2>2. QED BY <2>1 DEF FlCall, FlPcs
<1>9. FlTypes'
  BY <1>1, <1>8 DEF FlInv, FlTypes
<1>10. OnDisk'
  <2>1. k <= n /\ Len(more) = k
    BY <1>4, <1>5, <1>7
  <2>2. QED BY <1>1, <1>2, <1>3, <1>4, <1>8, <2>1 DEF FlInv, OnDisk
<1>11. ASSUME given < 2 PROVE fdc.phase = "idle" /\ fdc.op = "none" /\ SectorDone
  BY <1>1, <1>11 DEF FlInv, AtMostOne, InTurn, OnDisk
<1>12. ASSUME given < 2 PROVE InTurn'
  BY <1>1, <1>8, <1>11, <1>12 DEF InTurn, LeftBehind
<1>13. ASSUME given < 2 PROVE FlReady'
  BY <1>1, <1>8, <1>11, <1>13 DEF FlReady, Seeking
<1>14. ASSUME given < 2 PROVE SoFar'
  <2>1. ASSUME NEW j \in 1 .. k
        PROVE  sectors[lba + j - 1] = IF flop.op = "read" THEN more[j] ELSE Diskette!Data(lba + j - 1, flop.call)
    <3>1. CASE j <= i
      <4>1. j \in 1 .. i
        BY <1>5, <3>1
      <4>2. sectors[lba + j - 1] = IF flop.op = "read" THEN out[j] ELSE Diskette!Data(lba + j - 1, flop.call)
        BY <1>1, <1>3, <1>14, <4>1 DEF FlInv, AtMostOne, SoFar
      <4>3. QED BY <1>7, <4>1, <4>2
    <3>2. CASE j = i + 1
      <4>1. lba + j - 1 = Diskette!Sector
        BY <1>3, <3>2 DEF Diskette!Sector
      <4>2. QED BY <1>7, <1>11, <1>14, <3>2, <4>1 DEF SectorDone
    <3>3. QED BY <1>5, <3>1, <3>2
  <2>2. /\ flop'.lba = lba /\ flop'.i = k /\ flop'.out = more /\ flop'.op = flop.op /\ flop'.call = flop.call
        /\ sectors' = sectors
    BY <1>1, <1>2, <1>3, <1>8
  <2>3. \A j \in 1 .. flop'.i : sectors'[flop'.lba + j - 1] = IF flop'.op = "read" THEN flop'.out[j]
                                                             ELSE Diskette!Data(flop'.lba + j - 1, flop'.call)
    BY <2>1, <2>2
  <2>4. QED BY <2>3 DEF SoFar, Diskette!Data
<1>15. NoneGivenUp'
  BY <1>1, <1>8, <1>11 DEF FlInv, NoneGivenUp, Seeking
<1>16. QED BY <1>1, <1>9, <1>10, <1>12, <1>13, <1>14, <1>15 DEF FlInv, AtMostOne

LEMMA ReturnKeeps == ASSUME FlSizes, FlInv, Diskette!Return PROVE FlInv'
<1>1. /\ flop.pc = "sector" /\ flop.i = flop.count /\ flop' = [flop EXCEPT !.pc = "done"]
      /\ UNCHANGED <<irqFired, dmaBuf, dma, fdc, seek, sectors, given>>
  BY DEF Diskette!Return
<1>2. PICK f \in FlCall : f = flop
  BY FlFacts
<1>3. /\ flop' \in FlCall /\ flop'.pc = "done" /\ flop'.op = f.op /\ flop'.lba = f.lba /\ flop'.count = f.count
      /\ flop'.i = f.i /\ flop'.out = f.out /\ flop'.call = f.call /\ flop'.n = f.n
  BY <1>1, <1>2 DEF FlCall, FlPcs
<1>4. FlTypes'
  BY <1>1, <1>3 DEF FlInv, FlTypes
<1>5. OnDisk'
  BY <1>1, <1>2, <1>3 DEF FlInv, OnDisk
<1>6. ASSUME given < 2 PROVE InTurn'
  <2>1. LeftBehind'
    BY <1>1, <1>6 DEF FlInv, AtMostOne, InTurn, LeftBehind
  <2>2. QED BY <1>3, <2>1 DEF InTurn
<1>7. ASSUME given < 2 PROVE FlReady'
  BY <1>1, <1>2, <1>3, <1>7 DEF FlInv, AtMostOne, FlReady, Seeking
<1>8. ASSUME given < 2 PROVE SoFar'
  BY <1>1, <1>2, <1>3, <1>8 DEF FlInv, AtMostOne, SoFar, Diskette!Data
<1>9. NoneGivenUp'
  BY <1>1, <1>3 DEF FlInv, NoneGivenUp, Seeking
<1>10. QED BY <1>1, <1>4, <1>5, <1>6, <1>7, <1>8, <1>9 DEF FlInv, AtMostOne

LEMMA SeekEndsKeeps == ASSUME FlSizes, FlInv, Diskette!SeekEnds PROVE FlInv'
<1>1. /\ seek.on /\ irqFired' = TRUE
      /\ UNCHANGED <<flop, dmaBuf, dma, fdc, sectors, given>>
  BY DEF Diskette!SeekEnds, Diskette!OnIrq6
<1>2. PICK how \in {"good", "bad"} : seek' = [on |-> FALSE, pending |-> how]
  BY DEF Diskette!SeekEnds
<1>3. seek' \in FlHead /\ ~seek'.on /\ irqFired' \in BOOLEAN
  <2>1. TRUE \in BOOLEAN /\ FALSE \in BOOLEAN
    BY Zenon
  <2>2. QED BY <1>1, <1>2, <2>1 DEF FlHead
<1>4. Diskette!Sector' = Diskette!Sector /\ (SectorDone' <=> SectorDone) /\ (Filled' <=> Filled)
  BY <1>1, SameSector
<1>5. FlTypes'
  BY <1>1, <1>3 DEF FlInv, FlTypes
<1>6. OnDisk'
  BY <1>1 DEF FlInv, OnDisk
<1>7. (Underway' <=> Underway) /\ (Over' <=> Over) /\ (LeftBehind => LeftBehind') /\ (LeftBehind => fdc.phase = "idle")
      /\ (Its' <=> Its)
  BY <1>1, <1>4 DEF Underway, Over, Its, LeftBehind
<1>8. ASSUME given < 2 PROVE InTurn'
  BY <1>1, <1>4, <1>7, <1>8 DEF FlInv, AtMostOne, InTurn
<1>9. ASSUME given < 2 PROVE FlReady'
  BY <1>1, <1>4, <1>9 DEF FlInv, AtMostOne, FlReady
<1>10. ASSUME given < 2 PROVE SoFar'
  BY <1>1, <1>10 DEF FlInv, AtMostOne, SoFar, Diskette!Data
<1>11. NoneGivenUp'
  BY <1>1, <1>3 DEF FlInv, NoneGivenUp, Seeking
<1>12. QED BY <1>1, <1>5, <1>6, <1>8, <1>9, <1>10, <1>11 DEF FlInv, AtMostOne


(* A command comes to an end: good only if it moved its sector.               *)
LEMMA FlEndsKeeps == ASSUME FlSizes, FlInv, Diskette!Moves \/ Diskette!Fails PROVE FlInv'
<1>1. PICK good \in BOOLEAN : Diskette!Ends(good) /\ (Diskette!Moves \/ ~good)
  <2>1. TRUE \in BOOLEAN /\ FALSE \in BOOLEAN
    BY Zenon
  <2>2. QED BY <2>1, Zenon DEF Diskette!Moves, Diskette!Fails
<1>2. fdc.phase = "exec" /\ fdc' = [fdc EXCEPT !.phase = "result", !.left = 7, !.good = good] /\ irqFired' = TRUE
  BY <1>1 DEF Diskette!Ends, Diskette!OnIrq6
<1>3. UNCHANGED <<flop, seek, given>>
  BY DEF Diskette!Moves, Diskette!Fails
<1>4. fdc.op \in {"read", "write"} /\ fdc.s \in 1 .. FlSectors /\ flop.i <= flop.count
  BY <1>2, FlFacts DEF FlInv, OnDisk
<1>5. /\ fdc' \in FlChip /\ fdc'.phase = "result" /\ fdc'.op = fdc.op /\ fdc'.s = fdc.s /\ fdc'.left = 7
      /\ (fdc'.good <=> good)
  <2>1. PICK c \in FlChip : c = fdc
    BY FlFacts
  <2>2. PICK k \in 0 .. 7 : k = 7
    OBVIOUS
  <2>3. fdc' = [c EXCEPT !.phase = "result", !.left = k, !.good = good]
    BY <1>2, <2>1, <2>2
  <2>4. /\ fdc' \in FlChip /\ fdc'.phase = "result" /\ fdc'.op = c.op /\ fdc'.s = c.s /\ fdc'.left = k
        /\ (fdc'.good <=> good)
    BY <2>3 DEF FlChip
  <2>5. QED BY <2>1, <2>2, <2>4
<1>6. Diskette!Torn \in FlWords
  BY DEF FlWords
<1>7. ASSUME fdc.op = "read"
      PROVE  sectors' = sectors /\ dmaBuf' \in FlWords /\ (good => dmaBuf' = sectors[fdc.s])
  <2>1. fdc.op # "write"
    BY <1>7
  <2>2. CASE Diskette!Moves
    BY <1>4, <1>7, <2>2, FlFacts DEF Diskette!Moves
  <2>3. CASE Diskette!Fails /\ ~good
    BY <1>6, <2>1, <2>3, FlFacts DEF Diskette!Fails
  <2>4. QED BY <1>1, <2>2, <2>3
<1>8. ASSUME fdc.op = "write"
      PROVE  /\ dmaBuf' = dmaBuf
             /\ \E x \in {dmaBuf, sectors[fdc.s], Diskette!Torn} :
                  sectors' = [sectors EXCEPT ![fdc.s] = x] /\ (good => x = dmaBuf)
  <2>1. fdc.op # "read"
    BY <1>8
  <2>2. CASE Diskette!Moves
    <3>1. dmaBuf' = dmaBuf /\ sectors' = [sectors EXCEPT ![fdc.s] = dmaBuf]
      BY <2>1, <2>2 DEF Diskette!Moves
    <3>2. QED BY <3>1
  <2>3. CASE Diskette!Fails /\ ~good
    BY <2>1, <2>3 DEF Diskette!Fails
  <2>4. QED BY <1>1, <2>2, <2>3
<1>9. PICK s \in 1 .. FlSectors : s = fdc.s
  BY <1>4
<1>10. /\ sectors' \in [1 .. FlSectors -> FlWords] /\ dmaBuf' \in FlWords
       /\ \A t \in 1 .. FlSectors : t # s => sectors'[t] = sectors[t]
       /\ sectors'[s] \in {dmaBuf, sectors[s], Diskette!Torn}
       /\ fdc.op = "write" /\ good => sectors'[s] = dmaBuf
       /\ fdc.op = "read" => sectors' = sectors
  <2>1. CASE fdc.op = "read"
    BY <1>7, <1>9, <2>1, FlFacts
  <2>2. CASE fdc.op = "write"
    <3>1. PICK x \in {dmaBuf, sectors[s], Diskette!Torn} : sectors' = [sectors EXCEPT ![s] = x] /\ (good => x = dmaBuf)
      BY <1>8, <1>9, <2>2
    <3>2. x \in FlWords
      BY <1>6, FlFacts
    <3>3. sectors' \in [1 .. FlSectors -> FlWords] /\ sectors'[s] = x
          /\ \A t \in 1 .. FlSectors : t # s => sectors'[t] = sectors[t]
      BY <3>1, <3>2, FlFacts
    <3>4. QED BY <1>8, <2>2, <3>1, <3>3, FlFacts
  <2>3. QED BY <1>4, <2>1, <2>2
<1>11. FlTypes'
  <2>1. irqFired' \in BOOLEAN
    BY <1>2, Zenon
  <2>2. dma' \in {"in", "out", "off"}
    BY DEF Diskette!Moves, Diskette!Fails, FlInv, FlTypes
  <2>3. QED BY <1>3, <1>5, <1>10, <2>1, <2>2 DEF FlInv, FlTypes
<1>12. OnDisk'
  BY <1>3, <1>5 DEF FlInv, OnDisk
<1>13. Diskette!Sector' = Diskette!Sector /\ Diskette!Sector \in Nat
  BY <1>3, FlFacts DEF Diskette!Sector
<1>14. ASSUME Underway PROVE Over' /\ s = Diskette!Sector /\ fdc.op = flop.op
  <2>1. fdc.op = flop.op /\ s = Diskette!Sector /\ Filled
    BY <1>9, <1>14 DEF Underway, Its
  <2>2. ASSUME good PROVE SectorDone'
    <3>1. CASE flop.op = "read"
      <4>1. dmaBuf' = sectors[Diskette!Sector] /\ sectors' = sectors
        BY <1>7, <1>9, <2>1, <2>2, <3>1
      <4>2. flop'.op = "read"
        BY <1>3, <3>1
      <4>3. QED BY <1>13, <4>1, <4>2 DEF SectorDone
    <3>2. CASE flop.op = "write"
      <4>1. sectors'[Diskette!Sector] = Diskette!Data(Diskette!Sector, flop.call)
        BY <1>10, <2>1, <2>2, <3>2 DEF Filled
      <4>2. flop'.op # "read" /\ flop'.call = flop.call
        BY <1>3, <3>2
      <4>3. QED BY <1>13, <4>1, <4>2 DEF SectorDone, Diskette!Data
    <3>3. QED BY <1>4, <2>1, <3>1, <3>2
  <2>3. Its'
    BY <1>3, <1>5, <1>9, <1>13, <2>1 DEF Its
  <2>4. QED BY <1>5, <2>1, <2>2, <2>3 DEF Over
<1>15. ASSUME given < 2
       PROVE  \/ flop.pc \in {"idle", "done", "failed", "sector", "seekWait"} /\ LeftBehind
              \/ flop.pc \in {"seekClear", "dataClear"} /\ ~flop.r /\ LeftBehind
              \/ flop.pc \in {"dataWait", "dataClear", "data"} /\ Underway
                   /\ (flop.pc = "data" => flop.n = 0) /\ (flop.pc = "dataClear" => flop.r)
  <2>1. flop.pc \in FlPcs /\ fdc.phase = "exec" /\ flop.r \in BOOLEAN /\ (flop.n > 0 \/ flop.n = 0)
    BY <1>2, FlFacts
  <2>2. InTurn
    BY <1>15 DEF FlInv, AtMostOne
  <2>3. flop.pc \notin {"seekResult", "command", "copy", "sense"} /\ ~(flop.pc = "seekClear" /\ flop.r)
    BY <2>1, <2>2 DEF InTurn
  <2>4. flop.pc = "data" => flop.n = 0
    BY <2>1, <2>2 DEF InTurn
  <2>5. ~Over
    BY <2>1 DEF Over
  <2>6. flop.pc = "dataWait" => Underway
    BY <2>1, <2>2, <2>5 DEF InTurn
  <2>7. flop.pc = "dataClear" /\ flop.r => Underway
    BY <2>1, <2>2, <2>5 DEF InTurn
  <2>8. flop.pc = "data" => Underway
    BY <2>2, <2>4, <2>5 DEF InTurn
  <2>9. flop.pc \in {"idle", "done", "failed", "sector", "seekWait"} => LeftBehind
    BY <2>2 DEF InTurn
  <2>10. flop.pc \in {"seekClear", "dataClear"} /\ ~flop.r => LeftBehind
    BY <2>2 DEF InTurn
  <2>11. QED BY <2>1, <2>3, <2>4, <2>6, <2>7, <2>8, <2>9, <2>10 DEF FlPcs
<1>16. LeftBehind => LeftBehind'
  BY <1>2, <1>3, <1>5 DEF LeftBehind
<1>17. ASSUME given < 2 PROVE InTurn'
  <2>1. CASE flop.pc \in {"idle", "done", "failed", "sector", "seekWait"} /\ LeftBehind
    BY <1>3, <1>16, <2>1 DEF InTurn
  <2>2. CASE flop.pc \in {"seekClear", "dataClear"} /\ ~flop.r /\ LeftBehind
    BY <1>3, <1>16, <2>2 DEF InTurn
  <2>3. CASE flop.pc \in {"dataWait", "dataClear", "data"} /\ Underway
               /\ (flop.pc = "data" => flop.n = 0) /\ (flop.pc = "dataClear" => flop.r)
    <3>1. Over' /\ irqFired'
      BY <1>2, <1>14, <2>3
    <3>2. QED BY <1>3, <2>3, <3>1 DEF InTurn
  <2>4. QED BY <1>15, <1>17, <2>1, <2>2, <2>3
<1>18. ASSUME given < 2 PROVE FlReady'
  BY <1>3, <1>4, <1>5, <1>18 DEF FlInv, AtMostOne, FlReady
<1>19. ASSUME given < 2 PROVE SoFar'
  <2>1. SUFFICES ASSUME flop.pc \notin {"idle", "failed"}, flop.pc \in {"seekClear", "dataClear"} => flop.r,
                        NEW j \in 1 .. flop.i
                 PROVE  sectors'[flop.lba + j - 1] = IF flop.op = "read" THEN flop.out[j]
                                                     ELSE Diskette!Data(flop.lba + j - 1, flop.call)
    BY <1>3 DEF SoFar, Diskette!Data
  <2>2. sectors[flop.lba + j - 1] = IF flop.op = "read" THEN flop.out[j] ELSE Diskette!Data(flop.lba + j - 1, flop.call)
    BY <1>19, <2>1 DEF FlInv, AtMostOne, SoFar
  <2>3. PICK l \in Nat, i \in Nat, c \in Nat : l = flop.lba /\ i = flop.i /\ c = flop.count
    BY FlFacts
  <2>4. flop.pc \in {"dataWait", "dataClear", "data"} /\ Underway
    <3>1. flop.i > 0
      BY <2>1, FlFacts
    <3>2. flop.pc \notin {"sector", "done", "seekWait"}
      BY <1>4, <1>19, <3>1 DEF FlInv, AtMostOne, FlReady, Seeking
    <3>3. QED BY <1>15, <1>19, <2>1, <3>2
  <2>5. s = l + i
    BY <1>14, <2>3, <2>4 DEF Diskette!Sector
  <2>6. l >= 1 /\ l + c <= FlSectors + 1 /\ i <= c /\ j \in 1 .. i
    BY <2>1, <2>3 DEF FlInv, OnDisk
  <2>7. l + j - 1 \in 1 .. FlSectors /\ l + j - 1 # s
    BY <2>5, <2>6, FlFacts
  <2>8. sectors'[l + j - 1] = sectors[l + j - 1]
    BY <1>10, <2>7
  <2>9. QED BY <2>2, <2>3, <2>8
<1>20. NoneGivenUp'
  <2>1. ASSUME given = 0 PROVE flop.pc = "dataWait" /\ ~seek.on /\ Underway
    <3>1. flop.pc = "dataWait" /\ ~seek.on
      BY <1>2, <2>1 DEF FlInv, NoneGivenUp
    <3>2. QED BY <1>15, <2>1, <3>1
  <2>2. ASSUME given = 0, NEW t \in 1 .. FlSectors PROVE sectors'[t] = Diskette!Torn \/ sectors'[t][1] = t
    <3>1. sectors[t] = Diskette!Torn \/ sectors[t][1] = t
      BY <2>2 DEF FlInv, NoneGivenUp
    <3>2. CASE t # s \/ fdc.op = "read"
      BY <1>10, <3>1, <3>2
    <3>3. CASE t = s /\ fdc.op = "write"
      <4>1. Filled /\ s = Diskette!Sector /\ fdc.op = flop.op
        BY <1>14, <2>1, <2>2 DEF Underway
      <4>2. dmaBuf = Diskette!Data(s, flop.call)
        BY <3>3, <4>1 DEF Filled
      <4>3. dmaBuf[1] = s
        BY <4>2 DEF Diskette!Data
      <4>4. QED BY <1>10, <3>1, <3>3, <4>3
    <3>4. QED BY <1>4, <3>2, <3>3
  <2>3. QED BY <1>2, <1>3, <1>5, <2>1, <2>2 DEF NoneGivenUp, Seeking
<1>21. QED BY <1>3, <1>11, <1>12, <1>17, <1>18, <1>19, <1>20 DEF FlInv, AtMostOne

(* The invariant is kept. *)
LEMMA FlStepKeeps == ASSUME FlSizes, FlInv, [Diskette!Next]_(Diskette!flVars) PROVE FlInv'
<1>1. CASE UNCHANGED Diskette!flVars
  BY <1>1 DEF Diskette!flVars, FlInv, FlTypes, OnDisk, AtMostOne, NoneGivenUp, InTurn, LeftBehind, Underway, Over, Its, Filled,
              SectorDone, Diskette!Sector, FlReady, SoFar, Seeking, Diskette!Data
<1>2. CASE Diskette!Next
  <2>1. ASSUME NEW op \in {"read", "write"}, NEW s \in 1 .. FlSectors, NEW n \in 1 .. FlSectors,
               s + n - 1 <= FlSectors, Diskette!Call(op, s, n)
        PROVE  FlInv'
    BY <2>1, FlCallKeeps
  <2>2. CASE Diskette!SeekSend
    BY <2>2, SeekSendKeeps
  <2>3. CASE Diskette!WaitIrq
    BY <2>3, WaitIrqKeeps
  <2>4. CASE Diskette!ClearIrq
    BY <2>4, ClearIrqKeeps
  <2>5. CASE Diskette!SenseSend
    BY <2>5, SenseSendKeeps
  <2>6. CASE Diskette!RecvByte
    BY <2>6, RecvByteKeeps
  <2>7. CASE Diskette!RecvNothing
    BY <2>7, RecvNothingKeeps
  <2>8. CASE Diskette!CommandSend
    BY <2>8, CommandSendKeeps
  <2>9. CASE Diskette!Copy
    BY <2>9, CopyKeeps
  <2>10. CASE Diskette!Return
    BY <2>10, ReturnKeeps
  <2>11. CASE Diskette!SeekEnds
    BY <2>11, SeekEndsKeeps
  <2>12. CASE Diskette!Moves \/ Diskette!Fails
    BY <2>12, FlEndsKeeps
  <2>13. QED BY <1>2, <2>1, <2>2, <2>3, <2>4, <2>5, <2>6, <2>7, <2>8, <2>9, <2>10, <2>11, <2>12 DEF Diskette!Next
<1>3. QED BY <1>1, <1>2

(* Nothing but a result that is the command's own lets a call return 0.       *)
LEMMA FlHolds == ASSUME FlSizes, FlInv PROVE Diskette!FloppyTrue
<1>1. ASSUME flop.pc = "done", given < 2
      PROVE  \A i \in 1 .. flop.count : sectors[flop.lba + i - 1] = IF flop.op = "read" THEN flop.out[i]
                                                                    ELSE Diskette!Data(flop.lba + i - 1, flop.call)
  <2>1. flop.i = flop.count /\ SoFar
    BY <1>1 DEF FlInv, AtMostOne, OnDisk
  <2>2. QED BY <1>1, <2>1 DEF SoFar
<1>2. ASSUME given = 0 PROVE \A s \in 1 .. FlSectors : sectors[s] = Diskette!Torn \/ sectors[s][1] = s
  BY <1>2 DEF FlInv, NoneGivenUp
<1>3. QED BY <1>1, <1>2 DEF Diskette!FloppyTrue

LEMMA FlTypeOK == ASSUME FlSizes, FlInv PROVE Diskette!TypeOK
BY FlFacts DEF Diskette!TypeOK, FlWords

-----------------------------------------------------------------------------
(* The USB keyboard and mouse: where every press and every move is, from the *)
(* device to the ring.                                                       *)
(* A finite set can be listed without repetition, as far as wanted.          *)
LEMMA Enumerated ==
  ASSUME NEW S, IsFiniteSet(S), NEW m \in Nat, m <= Cardinality(S)
  PROVE  \E s \in [1 .. m -> S] : \A i, j \in 1 .. m : s[i] = s[j] => i = j
<1>1. PICK n \in Nat : n = Cardinality(S)
  BY FS_CardinalityType
<1>2. PICK f : f \in Bijection(1 .. n, S)
  BY <1>1, FS_CardinalityType DEF ExistsBijection
<1>3. f \in [1 .. n -> S] /\ \A i, j \in 1 .. n : f[i] = f[j] => i = j
  BY <1>2 DEF Bijection, Injection, IsInjective
<1>4. \A i \in 1 .. m : i \in 1 .. n
  BY <1>1
<1>5. [i \in 1 .. m |-> f[i]] \in [1 .. m -> S]
  BY <1>3, <1>4
<1>6. \A i, j \in 1 .. m : [h \in 1 .. m |-> f[h]][i] = [h \in 1 .. m |-> f[h]][j] => i = j
  BY <1>3, <1>4
<1>7. QED BY <1>5, <1>6

(* A list without repetition that is as long as the set has all of it.       *)
LEMMA ListsAll ==
  ASSUME NEW S, IsFiniteSet(S), NEW s, s \in Injection(1 .. Cardinality(S), S)
  PROVE  \A x \in S : \E i \in 1 .. Cardinality(S) : s[i] = x
<1>1. Cardinality(1 .. Cardinality(S)) = Cardinality(S)
  BY FS_Interval, FS_CardinalityType
<1>2. s \in Surjection(1 .. Cardinality(S), S)
  BY <1>1, FS_Interval, FS_Injection
<1>3. QED BY <1>2 DEF Surjection

HidPort == [dev : Hid!Devices, addr : 0 .. 1, conf : BOOLEAN]
HidSeen == [presses : [Keys -> Nat], typed : [Keys -> Nat], moved : Nat, taken : Nat,
            rolled : BOOLEAN, full : BOOLEAN, faults : Nat]
HidTypes ==
    /\ port \in [0 .. 1 -> HidPort]
    /\ boot \in {"off", "port0", "port1", "submit", "ehci", "run"}
    /\ kbdTd \in {"idle", "active", "done", "error"} /\ mouseTd \in {"idle", "active", "done", "error"}
    /\ hostTog \in [kbd : {0, 1}, mouse : {0, 1}] /\ devTog \in [kbd : {0, 1}, mouse : {0, 1}]
    /\ held \subseteq Keys /\ report \subseteq Hid!Usages /\ prev \subseteq Hid!Usages
    /\ reports \in Seq(SUBSET Hid!Usages)
    /\ usbRing \in Seq(Mapped) /\ Len(usbRing) < UsbBuf
    /\ moves \in Nat /\ mouseReport \in {0, 1} /\ seen \in HidSeen

(* Nothing is submitted before the end of usb_init.                          *)
Unsubmitted == boot \in {"off", "port0", "port1", "submit"} => kbdTd = "idle" /\ mouseTd = "idle"

(* Without bus errors the toggles differ only while a report waits for the   *)
(* driver, and every report of the mouse is in one place.                    *)
Toggled ==
    /\ kbdTd # "error" /\ mouseTd # "error"
    /\ kbdTd = "done" <=> hostTog.kbd # devTog.kbd
    /\ mouseTd = "done" <=> hostTog.mouse # devTog.mouse
MouseCounted ==
    /\ mouseTd = "done" => mouseReport = 1
    /\ seen.taken + moves + (IF mouseTd = "done" THEN 1 ELSE 0) = seen.moved

(* The keys that were down, from the report the driver got last to now; and  *)
(* how often each had been pressed by then. Only a bus error can make the    *)
(* controller drop a report, and the presses it would have shown with it.    *)
Down(i) == IF i = 0 THEN report ELSE IF i = Len(reports) + 1 THEN held ELSE reports[i]
Rise(k, from, to) == IF k \in to \ from THEN 1 ELSE 0
Rises(p) ==
    /\ p[Len(reports) + 1] = seen.presses
    /\ \A i \in 0 .. Len(reports) + 1, k \in Keys : p[i][k] <= seen.presses[k]
    /\ \A i \in 1 .. Len(reports) + 1, k \in Keys :
         /\ p[i][k] >= p[i - 1][k] + Rise(k, Down(i - 1), Down(i))
         /\ seen.faults = 0 => p[i][k] = p[i - 1][k] + Rise(k, Down(i - 1), Down(i))
Due(k) == IF kbdTd = "done" /\ k \in report \ prev THEN 1 ELSE 0
Typed(p) == \A k \in Keys :
    /\ seen.typed[k] + Due(k) <= p[0][k]
    /\ seen.faults = 0 /\ ~seen.full /\ k \in Mapped => seen.typed[k] + Due(k) = p[0][k]
KeysCounted ==
    /\ Hid!Cardinality(held) <= 2 /\ prev \subseteq Keys
    /\ \A i \in 0 .. Len(reports) + 1 : Down(i) \subseteq Keys
    /\ seen.faults = 0 => Down(Len(reports)) = held
    /\ kbdTd # "done" => prev = report
    /\ \E p \in [0 .. Len(reports) + 1 -> [Keys -> Nat]] : Rises(p) /\ Typed(p)

HidInv == /\ HidTypes /\ Unsubmitted
          /\ seen.faults = 0 => Toggled /\ MouseCounted
          /\ ~seen.rolled => KeysCounted

-----------------------------------------------------------------------------
LEMMA HidCount == \A S : Hid!Cardinality(S) = Cardinality(S)
BY DEF Hid!Cardinality, Cardinality

LEMMA HidFacts ==
  ASSUME HidTypes
  PROVE  /\ hostTog.kbd \in {0, 1} /\ hostTog.mouse \in {0, 1} /\ devTog.kbd \in {0, 1} /\ devTog.mouse \in {0, 1}
         /\ seen.presses \in [Keys -> Nat] /\ seen.typed \in [Keys -> Nat] /\ seen.moved \in Nat /\ seen.taken \in Nat
         /\ seen.rolled \in BOOLEAN /\ seen.full \in BOOLEAN /\ seen.faults \in Nat
         /\ \A i \in 0 .. 1 : port[i] \in HidPort /\ port[i].dev \in Hid!Devices /\ port[i].addr \in 0 .. 1
         /\ Len(reports) \in Nat /\ Len(usbRing) \in Nat
<1>1. PICK h \in [kbd : {0, 1}, mouse : {0, 1}] : h = hostTog
  BY DEF HidTypes
<1>2. PICK d \in [kbd : {0, 1}, mouse : {0, 1}] : d = devTog
  BY DEF HidTypes
<1>3. PICK s \in HidSeen : s = seen
  BY DEF HidTypes
<1>4. /\ s.presses \in [Keys -> Nat] /\ s.typed \in [Keys -> Nat] /\ s.moved \in Nat /\ s.taken \in Nat
      /\ s.rolled \in BOOLEAN /\ s.full \in BOOLEAN /\ s.faults \in Nat
  BY DEF HidSeen
<1>5. ASSUME NEW i \in 0 .. 1 PROVE port[i] \in HidPort /\ port[i].dev \in Hid!Devices /\ port[i].addr \in 0 .. 1
  <2>1. PICK q \in HidPort : q = port[i]
    BY DEF HidTypes
  <2>2. q.dev \in Hid!Devices /\ q.addr \in 0 .. 1
    BY DEF HidPort
  <2>3. QED BY <2>1, <2>2
<1>6. Len(reports) \in Nat /\ Len(usbRing) \in Nat
  BY DEF HidTypes
<1>7. QED BY <1>1, <1>2, <1>3, <1>4, <1>5, <1>6

(* What is put into the ring for a report.                                   *)
LEMMA EnqueuedIs ==
  ASSUME HidSizes, HidTypes, NEW S \in SUBSET Mapped
  PROVE  /\ IsFiniteSet(S) /\ Hid!Cardinality(S) \in Nat
         /\ \E m \in 0 .. Hid!Cardinality(S) :
              /\ Hid!Enqueued(S) \in [1 .. m -> S] /\ Hid!Enqueued(S) \in Seq(Mapped) /\ Len(Hid!Enqueued(S)) = m
              /\ Len(usbRing) + m <= UsbBuf - 1
              /\ m = Hid!Cardinality(S) => \A x \in S : \E i \in 1 .. m : Hid!Enqueued(S)[i] = x
<1>1. IsFiniteSet(S) /\ Hid!Cardinality(S) \in Nat
  <2>1. S \in SUBSET Keys
    BY DEF HidSizes
  <2>2. IsFiniteSet(S)
    BY <2>1, FS_Subset DEF HidSizes
  <2>3. QED BY <2>2, HidCount, FS_CardinalityType
<1>2. PICK n \in Nat, u \in Nat, l \in Nat : n = Hid!Cardinality(S) /\ u = UsbBuf /\ l = Len(usbRing) /\ l < u
  BY <1>1, HidFacts DEF HidTypes, HidSizes
<1>3. PICK m \in 0 .. n : m = IF l + n > u - 1 THEN u - 1 - l ELSE n
  <2>1. CASE l + n > u - 1
    <3>1. u - 1 - l \in 0 .. n
      BY <1>2, <2>1
    <3>2. QED BY <2>1, <3>1
  <2>2. CASE ~(l + n > u - 1)
    BY <2>2
  <2>3. QED BY <2>1, <2>2
<1>4. l + m <= u - 1
  BY <1>2, <1>3
<1>5. PICK s \in [1 .. m -> S] : \A i, j \in 1 .. m : s[i] = s[j] => i = j
  <2>1. m \in Nat /\ m <= Hid!Cardinality(S)
    BY <1>2, <1>3
  <2>2. QED BY <1>1, <2>1, Enumerated, HidCount
<1>6. \A t \in [1 .. m -> S] : t \in Seq(S) /\ DOMAIN t = 1 .. m /\ Len(t) = m
  OBVIOUS
<1> DEFINE Lists(t) == /\ \A i, j \in DOMAIN t : t[i] = t[j] => i = j
                       /\ Len(t) = m
           All == UNION {[1 .. k -> S] : k \in 0 .. n}
<1>7. Hid!Enqueued(S) = CHOOSE t \in All : Lists(t)
  BY <1>2, <1>3 DEF Hid!Enqueued
<1>8. s \in All /\ Lists(s)
  BY <1>5, <1>6
<1>9. Hid!Enqueued(S) \in All /\ Lists(Hid!Enqueued(S))
  <2> HIDE DEF Lists, All
  <2>1. QED BY <1>7, <1>8
<1>10. PICK t : t = Hid!Enqueued(S)
  OBVIOUS
<1>11. t \in [1 .. m -> S] /\ t \in Seq(S) /\ Len(t) = m /\ \A i, j \in 1 .. m : t[i] = t[j] => i = j
  <2>1. PICK k \in 0 .. n : t \in [1 .. k -> S]
    BY <1>9, <1>10
  <2>2. k = Len(t) /\ Len(t) = m
    BY <1>9, <1>10, <2>1
  <2>3. t \in [1 .. m -> S]
    BY <2>1, <2>2
  <2>4. QED BY <1>6, <1>9, <1>10, <2>3
<1>12. t \in Seq(Mapped)
  BY <1>11, SeqMonotonic
<1>13. ASSUME m = n PROVE \A x \in S : \E i \in 1 .. m : t[i] = x
  <2>1. m = Hid!Cardinality(S) /\ m \in Nat
    BY <1>2, <1>13
  <2>2. IsFiniteSet(S) /\ m = Cardinality(S)
    BY <1>1, <2>1, HidCount
  <2>3. m \in Nat /\ t \in [1 .. m -> S] /\ \A i, j \in 1 .. m : t[i] = t[j] => i = j
    BY <1>11, <2>1
  <2>4. t \in Injection(1 .. m, S)
    BY <2>3 DEF Injection, IsInjective
  <2>5. \A x \in S : \E i \in 1 .. Cardinality(S) : t[i] = x
    <3>1. t \in Injection(1 .. Cardinality(S), S)
      BY <2>2, <2>4
    <3>2. QED BY <2>2, <3>1, ListsAll
  <2>6. QED BY <2>2, <2>5
<1>14. QED BY <1>1, <1>2, <1>3, <1>4, <1>10, <1>11, <1>12, <1>13

LEMMA HidInitially == ASSUME HidSizes, Hid!Init PROVE HidInv
<1>1. /\ port = [p \in 0 .. 1 |-> [dev |-> "none", addr |-> 0, conf |-> FALSE]]
      /\ boot = "off" /\ kbdTd = "idle" /\ mouseTd = "idle"
      /\ hostTog = [kbd |-> 0, mouse |-> 0] /\ devTog = [kbd |-> 0, mouse |-> 0]
      /\ held = {} /\ reports = <<>> /\ report = {} /\ prev = {} /\ usbRing = <<>> /\ moves = 0 /\ mouseReport = 0
      /\ seen = [presses |-> [k \in Keys |-> 0], typed |-> [k \in Keys |-> 0], moved |-> 0,
                 taken |-> 0, rolled |-> FALSE, full |-> FALSE, faults |-> 0]
  BY DEF Hid!Init
<1>2. PICK z \in Nat : z = 0
  OBVIOUS
<1>3. PICK none \in [Keys -> Nat] : none = [k \in Keys |-> 0] /\ \A k \in Keys : none[k] = 0
  <2>1. [k \in Keys |-> 0] \in [Keys -> Nat] /\ \A k \in Keys : [j \in Keys |-> 0][k] = 0
    OBVIOUS
  <2>2. QED BY <2>1
<1>4. FALSE \in BOOLEAN
  BY Zenon
<1>5. seen = [presses |-> none, typed |-> none, moved |-> z, taken |-> z, rolled |-> FALSE, full |-> FALSE, faults |-> z]
  BY <1>1, <1>2, <1>3
<1>6. seen \in HidSeen
  BY <1>4, <1>5 DEF HidSeen
<1>7. port \in [0 .. 1 -> HidPort]
  <2>1. [dev |-> "none", addr |-> 0, conf |-> FALSE] \in HidPort
    <3>1. PICK y \in 0 .. 1 : y = 0
      OBVIOUS
    <3>2. [dev |-> "none", addr |-> y, conf |-> FALSE] \in HidPort
      BY <1>4 DEF HidPort, Hid!Devices
    <3>3. QED BY <3>1, <3>2
  <2>2. QED BY <1>1, <2>1
<1>8. HidTypes
  <2>1. hostTog \in [kbd : {0, 1}, mouse : {0, 1}] /\ devTog \in [kbd : {0, 1}, mouse : {0, 1}]
    BY <1>1
  <2>2. reports \in Seq(SUBSET Hid!Usages) /\ usbRing \in Seq(Mapped) /\ Len(usbRing) = 0 /\ UsbBuf > 0
    BY <1>1 DEF HidSizes
  <2>3. QED BY <1>1, <1>6, <1>7, <2>1, <2>2 DEF HidTypes
<1>9. Toggled /\ MouseCounted
  BY <1>1 DEF Toggled, MouseCounted
<1>10. KeysCounted
  <2>1. PICK n \in Nat : n = Len(reports) /\ n = 0 /\ n + 1 = 1
    BY <1>1
  <2>2. Hid!Cardinality(held) = 0
    BY <1>1, HidCount, FS_EmptySet
  <2>3. PICK p \in [0 .. n + 1 -> [Keys -> Nat]] : p = [i \in 0 .. n + 1 |-> none]
    OBVIOUS
  <2>4. (\A i \in 0 .. n + 1 : p[i] = none) /\ seen.presses = none /\ seen.typed = none
    BY <1>5, <2>3
  <2>5. \A i \in 0 .. n + 1 : Down(i) = {}
    <3>1. \A i \in 0 .. n + 1 : i = 0 \/ i = n + 1
      BY <2>1
    <3>2. QED BY <1>1, <2>1, <3>1 DEF Down
  <2>6. Rises(p)
    <3>1. ASSUME NEW i \in 1 .. n + 1, NEW k \in Keys
          PROVE  p[i][k] = 0 /\ p[i - 1][k] = 0 /\ Rise(k, Down(i - 1), Down(i)) = 0
      <4>1. i \in 0 .. n + 1 /\ i - 1 \in 0 .. n + 1
        OBVIOUS
      <4>2. Down(i) = {} /\ Down(i - 1) = {}
        BY <2>5, <4>1
      <4>3. QED BY <1>3, <2>4, <4>1, <4>2 DEF Rise
    <3>2. \A i \in 0 .. n + 1, k \in Keys : p[i][k] = 0 /\ seen.presses[k] = 0
      BY <1>3, <2>4
    <3>3. p[n + 1] = seen.presses
      BY <2>4
    <3>4. QED BY <2>1, <3>1, <3>2, <3>3 DEF Rises
  <2>7. Typed(p)
    <3>1. 0 \in 0 .. n + 1
      OBVIOUS
    <3>2. QED BY <1>1, <1>3, <2>4, <3>1 DEF Typed, Due
  <2>8. Down(Len(reports)) = held
    BY <1>1, <2>1, <2>5
  <2>9. QED BY <1>1, <2>1, <2>2, <2>3, <2>5, <2>6, <2>7, <2>8 DEF KeysCounted
<1>11. QED BY <1>1, <1>8, <1>9, <1>10 DEF HidInv, Unsubmitted


(* A detour takes at least as many presses.                                  *)
LEMMA Detour == \A x, y, z : \A k : /\ Rise(k, x, y) \in {0, 1} /\ Rise(k, x, x) = 0
                                    /\ Rise(k, x, z) <= Rise(k, x, y) + Rise(k, y, z)
<1>1. ASSUME NEW x, NEW y, NEW z, NEW k
      PROVE  Rise(k, x, y) \in {0, 1} /\ Rise(k, x, x) = 0 /\ Rise(k, x, z) <= Rise(k, x, y) + Rise(k, y, z)
  <2>1. CASE k \in x
    BY <2>1 DEF Rise
  <2>2. CASE k \notin x /\ k \in y
    BY <2>2 DEF Rise
  <2>3. CASE k \notin x /\ k \notin y
    BY <2>3 DEF Rise
  <2>4. QED BY <2>1, <2>2, <2>3
<1>2. QED BY <1>1

(* A step that leaves the keyboard as it is.                                 *)
LEMMA KeysSame ==
  ASSUME KeysCounted, UNCHANGED <<held, reports, report, prev>>, seen'.presses = seen.presses,
         seen'.typed = seen.typed, seen'.full = seen.full, kbdTd' = "done" <=> kbdTd = "done",
         seen'.faults = 0 => seen.faults = 0
  PROVE  KeysCounted'
<1>1. \A i \in 0 .. Len(reports) + 1 : Down(i)' = Down(i)
  BY DEF Down
<1>2. \A k : Due(k)' = Due(k)
  BY DEF Due
<1>3. ASSUME NEW p \in [0 .. Len(reports) + 1 -> [Keys -> Nat]], Rises(p), Typed(p) PROVE Rises(p)' /\ Typed(p)'
  BY <1>3 DEF Rises, Typed, Down, Due
<1>4. Down(Len(reports))' = Down(Len(reports))
  BY DEF Down
<1>5. QED BY <1>1, <1>3, <1>4 DEF KeysCounted

(* A step of the buses.                                                      *)
LEMMA BusKeeps ==
  ASSUME HidSizes, HidInv, port' \in [0 .. 1 -> HidPort], boot' \in {"off", "port0", "port1", "submit", "ehci", "run"},
         boot' \in {"off", "port0", "port1", "submit"} => boot \in {"off", "port0", "port1", "submit"},
         UNCHANGED <<kbdTd, mouseTd, hostTog, devTog, Hid!kbd, Hid!mouse, seen>>
  PROVE  HidInv'
<1>1. HidTypes' /\ Unsubmitted'
  BY DEF HidInv, HidTypes, Unsubmitted, Hid!kbd, Hid!mouse
<1>2. ASSUME seen.faults = 0 PROVE Toggled' /\ MouseCounted'
  BY <1>2 DEF HidInv, Toggled, MouseCounted, Hid!mouse
<1>3. ASSUME ~seen.rolled PROVE KeysCounted'
  BY <1>3, KeysSame DEF HidInv, Hid!kbd
<1>4. QED BY <1>1, <1>2, <1>3 DEF HidInv

LEMMA ProbeKeeps ==
  ASSUME HidSizes, HidInv, Hid!UsbInit \/ Hid!ProbeNothing \/ Hid!ProbeFails \/ Hid!ProbeWorks \/ Hid!EhciInit \/ Hid!StickTransfer
  PROVE  HidInv'
<1>1. UNCHANGED <<kbdTd, mouseTd, hostTog, devTog, Hid!kbd, Hid!mouse, seen>>
  BY DEF Hid!UsbInit, Hid!ProbeNothing, Hid!ProbeFails, Hid!ProbeWorks, Hid!EhciInit, Hid!StickTransfer
<1>2. port \in [0 .. 1 -> HidPort] /\ \A i \in 0 .. 1 : port[i] \in HidPort /\ port[i].dev \in Hid!Devices
  BY HidFacts DEF HidInv, HidTypes
<1>3. FALSE \in BOOLEAN /\ TRUE \in BOOLEAN
  BY Zenon
<1>4. Hid!Number \in 0 .. 1 /\ Hid!NextBoot \in {"port1", "submit"}
  BY DEF Hid!Number, Hid!NextBoot
<1>5. PICK zero \in 0 .. 1, one \in 0 .. 1 : zero = 0 /\ one = 1
  OBVIOUS
<1>6. CASE Hid!UsbInit
  <2>1. PICK d0 \in Hid!Devices, d1 \in Hid!Devices :
          port' = [p \in 0 .. 1 |-> [dev |-> IF p = 0 THEN d0 ELSE d1, addr |-> 0, conf |-> FALSE]]
    BY <1>6 DEF Hid!UsbInit
  <2>2. ASSUME NEW d \in Hid!Devices PROVE [dev |-> d, addr |-> 0, conf |-> FALSE] \in HidPort
    <3>1. [dev |-> d, addr |-> zero, conf |-> FALSE] \in HidPort
      BY <1>3 DEF HidPort
    <3>2. QED BY <1>5, <3>1
  <2>3. port' \in [0 .. 1 -> HidPort]
    BY <2>1, <2>2
  <2>4. boot = "off" /\ boot' = "port0"
    BY <1>6 DEF Hid!UsbInit
  <2>5. QED BY <1>1, <2>3, <2>4, BusKeeps
<1>7. ASSUME Hid!ProbeNothing \/ Hid!ProbeFails \/ Hid!ProbeWorks PROVE boot \in {"port0", "port1"} /\ boot' \in {"port1", "submit"}
  BY <1>4, <1>7 DEF Hid!ProbeNothing, Hid!ProbeFails, Hid!ProbeWorks
<1>8. CASE Hid!ProbeNothing
  <2>1. port' = port
    BY <1>8 DEF Hid!ProbeNothing
  <2>2. QED BY <1>1, <1>2, <1>7, <1>8, <2>1, BusKeeps
<1>9. CASE Hid!ProbeFails
  <2>1. PICK n \in 0 .. 1 : n = Hid!Number
    BY <1>4
  <2>2. PICK q \in HidPort : q = port[n]
    BY <1>2
  <2>3. [q EXCEPT !.addr = one] \in HidPort
    BY DEF HidPort
  <2>4. port' = [port EXCEPT ![n] = [q EXCEPT !.addr = one]]
    BY <1>5, <1>9, <2>1, <2>2 DEF Hid!ProbeFails
  <2>5. port' \in [0 .. 1 -> HidPort]
    BY <1>2, <2>3, <2>4
  <2>6. QED BY <1>1, <1>7, <1>9, <2>5, BusKeeps
<1>10. CASE Hid!ProbeWorks
  <2>1. PICK n \in 0 .. 1 : n = Hid!Number
    BY <1>4
  <2>2. PICK q \in HidPort : q = [port[n] EXCEPT !.addr = one]
    <3>1. PICK r \in HidPort : r = port[n]
      BY <1>2
    <3>2. [r EXCEPT !.addr = one] \in HidPort
      BY DEF HidPort
    <3>3. QED BY <3>1, <3>2
  <2>3. PICK a \in 0 .. 1 : a = Hid!Answers
    <3>1. \E x \in 0 .. Hid!Number : (x = Hid!Number \/ port[x].addr = 1) /\ \A y \in 0 .. x - 1 : port[y].addr # 1
      <4>1. CASE n = 0 \/ port[0].addr = 1
        <5>1. 0 \in 0 .. n /\ (0 = n \/ port[0].addr = 1)
          BY <4>1
        <5>2. \A y \in 0 .. 0 - 1 : port[y].addr # 1
          OBVIOUS
        <5>3. QED BY <2>1, <5>1, <5>2
      <4>2. CASE n # 0 /\ port[0].addr # 1
        <5>1. n = 1 /\ 1 \in 0 .. n
          BY <4>2
        <5>2. \A y \in 0 .. 1 - 1 : port[y].addr # 1
          BY <4>2
        <5>3. QED BY <2>1, <5>1, <5>2
      <4>3. QED BY <4>1, <4>2
    <3>2. Hid!Answers \in 0 .. Hid!Number
      BY <3>1 DEF Hid!Answers
    <3>3. QED BY <2>1, <3>2
  <2>4. PICK d \in Hid!Devices : d = port[a].dev
    BY <1>2
  <2>5. [dev |-> d, addr |-> one, conf |-> TRUE] \in HidPort
    BY <1>3 DEF HidPort
  <2>6. port' = [port EXCEPT ![n] = q, ![a] = [dev |-> d, addr |-> one, conf |-> TRUE]]
    BY <1>5, <1>10, <2>1, <2>2, <2>3, <2>4 DEF Hid!ProbeWorks
  <2>7. port' \in [0 .. 1 -> HidPort]
    BY <1>2, <2>5, <2>6
  <2>8. QED BY <1>1, <1>7, <1>10, <2>7, BusKeeps
<1>11. CASE Hid!EhciInit
  <2>1. ASSUME NEW i \in 0 .. 1 PROVE [port[i] EXCEPT !.addr = 0, !.conf = FALSE] \in HidPort
    <3>1. PICK r \in HidPort : r = port[i]
      BY <1>2
    <3>2. [r EXCEPT !.addr = zero, !.conf = FALSE] \in HidPort
      BY <1>3 DEF HidPort
    <3>3. QED BY <1>5, <3>1, <3>2
  <2>2. port' \in [0 .. 1 -> HidPort]
    BY <1>2, <1>11, <2>1 DEF Hid!EhciInit
  <2>3. boot = "ehci" /\ boot' = "run"
    BY <1>11 DEF Hid!EhciInit
  <2>4. QED BY <1>1, <2>2, <2>3, BusKeeps
<1>12. CASE Hid!StickTransfer
  <2>1. UNCHANGED <<port, boot>>
    BY <1>12 DEF Hid!StickTransfer, Hid!buses
  <2>2. QED BY <1>1, <1>2, <2>1, BusKeeps DEF HidInv, HidTypes
<1>13. QED BY <1>6, <1>8, <1>9, <1>10, <1>11, <1>12

LEMMA SubmitKeeps == ASSUME HidSizes, HidInv, Hid!UsbSubmit PROVE HidInv'
<1>1. /\ boot = "submit" /\ boot' = "ehci" /\ kbdTd' \in {"active", "idle"} /\ mouseTd' \in {"active", "idle"}
      /\ UNCHANGED <<port, hostTog, devTog, Hid!kbd, Hid!mouse, seen>>
  BY DEF Hid!UsbSubmit
<1>2. kbdTd = "idle" /\ mouseTd = "idle"
  BY <1>1 DEF HidInv, Unsubmitted
<1>3. HidTypes' /\ Unsubmitted'
  BY <1>1 DEF HidInv, HidTypes, Unsubmitted, Hid!kbd, Hid!mouse
<1>4. ASSUME seen.faults = 0 PROVE Toggled' /\ MouseCounted'
  BY <1>1, <1>2, <1>4 DEF HidInv, Toggled, MouseCounted, Hid!mouse
<1>5. ASSUME ~seen.rolled PROVE KeysCounted'
  BY <1>1, <1>2, <1>5, KeysSame DEF HidInv, Hid!kbd
<1>6. QED BY <1>1, <1>3, <1>4, <1>5 DEF HidInv

LEMMA ErrorKeeps == ASSUME HidSizes, HidInv, Hid!BusError PROVE HidInv'
<1>1. /\ kbdTd = "active" \/ mouseTd = "active"
      /\ kbdTd' \in {"idle", "active", "done", "error"} /\ mouseTd' \in {"idle", "active", "done", "error"}
      /\ seen' = [seen EXCEPT !.faults = seen.faults + 1]
      /\ UNCHANGED <<port, boot, hostTog, devTog, Hid!kbd, Hid!mouse>>
  BY DEF Hid!BusError, Hid!buses, HidInv, HidTypes
<1>2. PICK s \in HidSeen : s = seen
  BY DEF HidInv, HidTypes
<1>3. PICK n \in Nat : n = s.faults + 1 /\ n # 0
  BY <1>2, HidFacts DEF HidInv
<1>4. seen' \in HidSeen /\ seen'.faults = n
  <2>1. seen' = [s EXCEPT !.faults = n]
    BY <1>1, <1>2, <1>3
  <2>2. QED BY <2>1 DEF HidSeen
<1>5. HidTypes'
  BY <1>1, <1>4 DEF HidInv, HidTypes, Hid!kbd, Hid!mouse
<1>6. Unsubmitted'
  BY <1>1 DEF HidInv, Unsubmitted
<1>7. seen'.presses = s.presses /\ seen'.typed = s.typed /\ seen'.full = s.full /\ seen'.rolled = s.rolled
  <2>1. seen' = [s EXCEPT !.faults = n]
    BY <1>1, <1>2, <1>3
  <2>2. QED BY <2>1 DEF HidSeen
<1>8. ASSUME ~seen.rolled PROVE KeysCounted'
  <2>1. kbdTd' = "done" <=> kbdTd = "done"
    BY DEF Hid!BusError
  <2>2. UNCHANGED <<held, reports, report, prev>>
    BY <1>1 DEF Hid!kbd
  <2>3. KeysCounted
    BY <1>8 DEF HidInv
  <2>4. QED BY <1>2, <1>3, <1>4, <1>7, <2>1, <2>2, <2>3, KeysSame
<1>9. QED BY <1>2, <1>3, <1>4, <1>5, <1>6, <1>7, <1>8 DEF HidInv

(* The mouse moves, answers, and is polled.                                  *)
LEMMA MouseKeeps == ASSUME HidSizes, HidInv, Hid!MouseMoves \/ Hid!MouseAnswers \/ Hid!MousePoll PROVE HidInv'
<1>1. UNCHANGED <<port, boot, kbdTd, Hid!kbd>>
  BY DEF Hid!MouseMoves, Hid!MouseAnswers, Hid!MousePoll, Hid!buses
<1>2. PICK s \in HidSeen : s = seen
  BY DEF HidInv, HidTypes
<1>3. PICK n \in Nat, got \in Nat : n = s.moved + 1 /\ got = s.taken + mouseReport
  <2>1. PICK a \in Nat, b \in Nat, c \in {0, 1} : a = s.moved /\ b = s.taken /\ c = mouseReport
    BY <1>2, HidFacts DEF HidInv, HidTypes
  <2>2. a + 1 \in Nat /\ b + c \in Nat
    OBVIOUS
  <2>3. QED BY <2>1, <2>2
<1>4. PICK h \in [kbd : {0, 1}, mouse : {0, 1}], d \in [kbd : {0, 1}, mouse : {0, 1}] : h = hostTog /\ d = devTog
  BY DEF HidInv, HidTypes
<1>5. PICK x \in {0, 1}, y \in {0, 1} : x = 1 - h.mouse /\ y = 1 - d.mouse
  BY <1>4, HidFacts DEF HidInv
<1>6. CASE Hid!MouseMoves
  <2>1. /\ moves' = moves + 1 /\ seen' = [s EXCEPT !.moved = n] /\ UNCHANGED <<mouseTd, hostTog, devTog, mouseReport>>
    BY <1>2, <1>3, <1>6 DEF Hid!MouseMoves
  <2>2. /\ seen' \in HidSeen /\ seen'.presses = s.presses /\ seen'.typed = s.typed /\ seen'.moved = n
        /\ seen'.taken = s.taken /\ seen'.rolled = s.rolled /\ seen'.full = s.full /\ seen'.faults = s.faults
    BY <2>1 DEF HidSeen
  <2>3. moves' \in Nat
    BY <2>1 DEF HidInv, HidTypes
  <2>4. HidTypes' /\ Unsubmitted'
    BY <1>1, <2>1, <2>2, <2>3 DEF HidInv, HidTypes, Unsubmitted, Hid!kbd
  <2>5. ASSUME seen.faults = 0 PROVE Toggled' /\ MouseCounted'
    <3>1. Toggled'
      BY <1>1, <2>1, <2>5 DEF HidInv, Toggled
    <3>2. PICK a \in Nat, b \in Nat : a = s.taken /\ b = moves
      BY <1>2, HidFacts DEF HidInv, HidTypes
    <3>3. a + b + (IF mouseTd = "done" THEN 1 ELSE 0) = s.moved
      BY <1>2, <2>5, <3>2 DEF HidInv, MouseCounted
    <3>4. a + (b + 1) + (IF mouseTd = "done" THEN 1 ELSE 0) = n
      BY <1>3, <3>2, <3>3
    <3>5. QED BY <2>1, <2>2, <2>5, <3>1, <3>2, <3>4 DEF HidInv, MouseCounted
  <2>6. ASSUME ~seen.rolled PROVE KeysCounted'
    BY <1>1, <1>2, <2>2, <2>6, KeysSame DEF HidInv, Hid!kbd
  <2>7. QED BY <1>2, <2>2, <2>4, <2>5, <2>6 DEF HidInv
<1>7. CASE Hid!MouseAnswers
  <2>1. /\ mouseTd = "active" /\ moves > 0 /\ moves' = moves - 1
        /\ IF h.mouse = d.mouse THEN mouseReport' = 1 /\ mouseTd' = "done" ELSE UNCHANGED <<mouseReport, mouseTd>>
        /\ devTog' = [d EXCEPT !.mouse = y] /\ UNCHANGED <<hostTog, seen>>
    BY <1>4, <1>5, <1>7 DEF Hid!MouseAnswers
  <2>2. devTog' \in [kbd : {0, 1}, mouse : {0, 1}] /\ devTog'.kbd = d.kbd /\ devTog'.mouse = y
    BY <2>1
  <2>3. moves' \in Nat /\ mouseReport' \in {0, 1} /\ mouseTd' \in {"active", "done"}
    BY <2>1 DEF HidInv, HidTypes
  <2>4. HidTypes' /\ Unsubmitted'
    BY <1>1, <2>1, <2>2, <2>3 DEF HidInv, HidTypes, Unsubmitted, Hid!kbd
  <2>5. ASSUME seen.faults = 0 PROVE Toggled' /\ MouseCounted'
    <3>1. h.mouse = d.mouse
      BY <1>4, <2>1, <2>5 DEF HidInv, Toggled
    <3>2. mouseReport' = 1 /\ mouseTd' = "done"
      BY <2>1, <3>1
    <3>3. h.mouse # y
      BY <1>4, <1>5, <3>1, HidFacts DEF HidInv
    <3>4. Toggled'
      BY <1>1, <1>4, <2>1, <2>2, <2>5, <3>2, <3>3 DEF HidInv, Toggled
    <3>5. PICK a \in Nat, b \in Nat : a = seen.taken /\ b = moves
      BY HidFacts DEF HidInv, HidTypes
    <3>6. a + b + 0 = seen.moved
      BY <2>1, <2>5, <3>5 DEF HidInv, MouseCounted
    <3>7. a + (b - 1) + 1 = seen.moved
      BY <3>5, <3>6
    <3>8. QED BY <2>1, <3>2, <3>4, <3>5, <3>7 DEF MouseCounted
  <2>6. ASSUME ~seen.rolled PROVE KeysCounted'
    BY <1>1, <2>1, <2>6, KeysSame DEF HidInv, Hid!kbd
  <2>7. QED BY <2>1, <2>4, <2>5, <2>6 DEF HidInv
<1>8. CASE Hid!MousePoll
  <2>1. /\ mouseTd \in {"done", "error"} /\ mouseTd' = "active"
        /\ hostTog' = [h EXCEPT !.mouse = x] /\ seen' = [s EXCEPT !.taken = got]
        /\ UNCHANGED <<devTog, moves, mouseReport>>
    BY <1>2, <1>3, <1>4, <1>5, <1>8 DEF Hid!MousePoll, Hid!MouseSubmit
  <2>2. /\ seen' \in HidSeen /\ seen'.presses = s.presses /\ seen'.typed = s.typed /\ seen'.moved = s.moved
        /\ seen'.taken = got /\ seen'.rolled = s.rolled /\ seen'.full = s.full /\ seen'.faults = s.faults
    BY <2>1 DEF HidSeen
  <2>3. hostTog' \in [kbd : {0, 1}, mouse : {0, 1}] /\ hostTog'.kbd = h.kbd /\ hostTog'.mouse = x
    BY <2>1
  <2>4. HidTypes' /\ Unsubmitted'
    BY <1>1, <2>1, <2>2, <2>3 DEF HidInv, HidTypes, Unsubmitted, Hid!kbd
  <2>5. ASSUME seen.faults = 0 PROVE Toggled' /\ MouseCounted'
    <3>1. mouseTd = "done" /\ h.mouse # d.mouse /\ mouseReport = 1
      BY <1>4, <2>1, <2>5 DEF HidInv, Toggled, MouseCounted
    <3>2. x = d.mouse
      BY <1>4, <1>5, <3>1, HidFacts DEF HidInv
    <3>3. Toggled'
      BY <1>1, <1>4, <2>1, <2>3, <2>5, <3>2 DEF HidInv, Toggled
    <3>4. PICK a \in Nat, b \in Nat : a = s.taken /\ b = moves
      BY <1>2, HidFacts DEF HidInv, HidTypes
    <3>5. a + b + 1 = s.moved
      BY <1>2, <2>5, <3>1, <3>4 DEF HidInv, MouseCounted
    <3>6. got + b + 0 = s.moved
      BY <1>3, <3>1, <3>4, <3>5
    <3>7. QED BY <2>1, <2>2, <3>3, <3>4, <3>6 DEF MouseCounted
  <2>6. ASSUME ~seen.rolled PROVE KeysCounted'
    BY <1>1, <1>2, <2>2, <2>6, KeysSame DEF HidInv, Hid!kbd
  <2>7. QED BY <1>2, <2>2, <2>4, <2>5, <2>6 DEF HidInv
<1>9. QED BY <1>6, <1>7, <1>8


(* The keyboard queues a report of the keys now held.                        *)
LEMMA QueueKeeps ==
  ASSUME HidSizes, HidTypes, NEW keys \in SUBSET Keys, Hid!Cardinality(keys) <= 2, KeysCounted,
         held' = keys, reports' = Append(reports, keys), UNCHANGED <<kbdTd, report, prev>>,
         seen'.typed = seen.typed, seen'.full = seen.full, seen'.faults = seen.faults, seen'.presses \in [Keys -> Nat],
         \A k \in Keys : seen'.presses[k] = seen.presses[k] + Rise(k, held, keys)
  PROVE  KeysCounted'
<1>1. PICK n \in Nat : n = Len(reports)
  BY HidFacts
<1>2. PICK p \in [0 .. n + 1 -> [Keys -> Nat]] : Rises(p) /\ Typed(p)
  BY <1>1 DEF KeysCounted
<1>3. PICK now \in [Keys -> Nat], was \in [Keys -> Nat] : now = seen'.presses /\ was = seen.presses
  BY HidFacts
<1>4. /\ Len(reports') = n + 1 /\ \A i \in 1 .. n : reports'[i] = reports[i]
      /\ reports'[n + 1] = keys
  <2>1. keys \in SUBSET Hid!Usages
    BY DEF Hid!Usages
  <2>2. QED BY <1>1, <2>1, AppendProperties DEF HidTypes
<1>5. \A i \in 0 .. n : Down(i)' = Down(i)
  <2>1. ASSUME NEW i \in 0 .. n PROVE Down(i)' = Down(i)
    <3>1. i # n + 1 /\ i # n + 1 + 1
      OBVIOUS
    <3>2. CASE i = 0
      BY <3>2 DEF Down
    <3>3. CASE i # 0
      <4>1. i \in 1 .. n
        BY <3>3
      <4>2. QED BY <1>1, <1>4, <3>1, <3>3, <4>1 DEF Down
    <3>4. QED BY <3>2, <3>3
  <2>2. QED BY <2>1
<1>6. Down(n + 1)' = keys /\ Down(n + 2)' = keys /\ Down(n + 1) = held
  <2>1. n + 1 # 0 /\ n + 2 # 0 /\ n + 2 = n + 1 + 1 /\ n + 1 # n + 1 + 1
    OBVIOUS
  <2>2. QED BY <1>1, <1>4, <2>1 DEF Down
<1>7. PICK q \in [0 .. n + 2 -> [Keys -> Nat]] : q = [i \in 0 .. n + 2 |-> IF i \in 0 .. n THEN p[i] ELSE now]
  <2>1. ASSUME NEW i \in 0 .. n + 2 PROVE (IF i \in 0 .. n THEN p[i] ELSE now) \in [Keys -> Nat]
    <3>1. CASE i \in 0 .. n
      <4>1. i \in 0 .. n + 1
        BY <3>1
      <4>2. QED BY <3>1, <4>1
    <3>2. CASE i \notin 0 .. n
      BY <3>2
    <3>3. QED BY <3>1, <3>2
  <2>2. QED BY <2>1
<1>8. q[n + 1] = now /\ q[n + 2] = now /\ \A i \in 0 .. n : q[i] = p[i]
  <2>1. n + 1 \in 0 .. n + 2 /\ n + 2 \in 0 .. n + 2 /\ n + 1 \notin 0 .. n /\ n + 2 \notin 0 .. n
    OBVIOUS
  <2>2. \A i \in 0 .. n : i \in 0 .. n + 2
    OBVIOUS
  <2>3. QED BY <1>7, <2>1, <2>2
<1>9. p[n + 1] = was /\ (seen.faults = 0 => Down(n) = held)
  BY <1>1, <1>2, <1>3 DEF Rises, KeysCounted
<1>10. \A k \in Keys : was[k] <= now[k] /\ now[k] = was[k] + Rise(k, held, keys)
  <2>1. ASSUME NEW k \in Keys PROVE was[k] <= now[k] /\ now[k] = was[k] + Rise(k, held, keys)
    <3>1. now[k] = was[k] + Rise(k, held, keys) /\ was[k] \in Nat
      BY <1>3
    <3>2. Rise(k, held, keys) \in {0, 1}
      BY Detour
    <3>3. QED BY <3>1, <3>2
  <2>2. QED BY <2>1
<1>11. \A i \in 1 .. n + 2 : i \in 1 .. n \/ i = n + 1 \/ i = n + 2
  OBVIOUS
<1>12. ASSUME NEW i \in 0 .. n + 2, NEW k \in Keys PROVE q[i][k] <= now[k]
  <2>1. CASE i \in 0 .. n
    <3>1. i \in 0 .. n + 1
      BY <2>1
    <3>2. p[i][k] <= was[k] /\ p[i][k] \in Nat
      BY <1>1, <1>2, <1>3, <3>1 DEF Rises
    <3>3. was[k] \in Nat /\ now[k] \in Nat
      BY <1>3
    <3>4. QED BY <1>8, <1>10, <2>1, <3>2, <3>3
  <2>2. CASE i = n + 1 \/ i = n + 2
    BY <1>8, <2>2
  <2>3. QED BY <2>1, <2>2
<1>13. ASSUME NEW i \in 1 .. n + 2, NEW k \in Keys
       PROVE  /\ q[i][k] >= q[i - 1][k] + Rise(k, Down(i - 1)', Down(i)')
              /\ seen.faults = 0 => q[i][k] = q[i - 1][k] + Rise(k, Down(i - 1)', Down(i)')
  <2>1. CASE i \in 1 .. n
    <3>1. i \in 0 .. n /\ i - 1 \in 0 .. n /\ i \in 1 .. n + 1
      BY <2>1
    <3>2. /\ p[i][k] >= p[i - 1][k] + Rise(k, Down(i - 1), Down(i))
          /\ seen.faults = 0 => p[i][k] = p[i - 1][k] + Rise(k, Down(i - 1), Down(i))
      BY <1>1, <1>2, <3>1 DEF Rises
    <3>3. Down(i)' = Down(i) /\ Down(i - 1)' = Down(i - 1) /\ q[i] = p[i] /\ q[i - 1] = p[i - 1]
      BY <1>5, <1>8, <3>1
    <3>4. QED BY <3>2, <3>3
  <2>2. CASE i = n + 1
    <3>1. i - 1 = n /\ n \in 0 .. n /\ n + 1 \in 1 .. n + 1 /\ n + 1 - 1 = n /\ n \in 0 .. n + 1
      BY <2>2
    <3>2. PICK low, mid : low = Down(n) /\ mid = Down(n + 1)
      OBVIOUS
    <3>3. /\ p[n + 1][k] >= p[n][k] + Rise(k, low, mid)
          /\ seen.faults = 0 => p[n + 1][k] = p[n][k] + Rise(k, low, mid)
      <4>1. PICK j \in 1 .. n + 1 : j = n + 1 /\ j - 1 = n
        BY <3>1
      <4>2. /\ p[j][k] >= p[j - 1][k] + Rise(k, Down(j - 1), Down(j))
            /\ seen.faults = 0 => p[j][k] = p[j - 1][k] + Rise(k, Down(j - 1), Down(j))
        BY <1>1, <1>2 DEF Rises
      <4>3. QED BY <3>2, <4>1, <4>2
    <3>4. PICK a \in Nat, b \in Nat, c \in Nat : a = p[n][k] /\ b = was[k] /\ c = now[k]
      BY <1>3, <3>1
    <3>5. PICK x \in {0, 1}, y \in {0, 1}, z \in {0, 1} :
            /\ x = Rise(k, low, mid) /\ y = Rise(k, mid, keys) /\ z = Rise(k, low, keys)
            /\ z <= x + y
      <4>1. /\ Rise(k, low, mid) \in {0, 1} /\ Rise(k, mid, keys) \in {0, 1} /\ Rise(k, low, keys) \in {0, 1}
            /\ Rise(k, low, keys) <= Rise(k, low, mid) + Rise(k, mid, keys)
        BY Detour
      <4>2. QED BY <4>1
    <3>6. mid = held
      BY <1>6, <3>2
    <3>7. c = b + y /\ b >= a + x /\ (seen.faults = 0 => b = a + x)
      BY <1>9, <1>10, <3>3, <3>4, <3>5, <3>6
    <3>8. c >= a + z
      <4>1. c = b + y /\ b >= a + x /\ z <= x + y
        BY <3>5, <3>7
      <4>2. QED BY <4>1
    <3>9. ASSUME seen.faults = 0 PROVE c = a + z
      <4>1. low = mid
        BY <1>9, <3>2, <3>6, <3>9
      <4>2. x = 0 /\ y = z
        BY <3>5, <4>1, Detour
      <4>3. QED BY <3>7, <3>9, <4>2
    <3>10. Down(i)' = keys /\ Down(i - 1)' = low
      BY <1>5, <1>6, <2>2, <3>1, <3>2
    <3>11. q[i][k] = c /\ q[i - 1][k] = a
      BY <1>8, <2>2, <3>1, <3>4
    <3>12. QED BY <3>5, <3>8, <3>9, <3>10, <3>11
  <2>3. CASE i = n + 2
    <3>1. i - 1 = n + 1
      BY <2>3
    <3>2. Down(i)' = keys /\ Down(i - 1)' = keys
      BY <1>6, <2>3, <3>1
    <3>3. q[i][k] = now[k] /\ q[i - 1][k] = now[k] /\ now[k] \in Nat
      BY <1>3, <1>8, <2>3, <3>1
    <3>4. Rise(k, Down(i - 1)', Down(i)') = 0
      BY <3>2, Detour
    <3>5. PICK v \in Nat : v = now[k]
      BY <3>3
    <3>6. v = v + 0 /\ v >= v + 0
      OBVIOUS
    <3>7. QED BY <3>3, <3>4, <3>5, <3>6
  <2>4. QED BY <1>11, <2>1, <2>2, <2>3
<1>14. Rises(q)'
  <2>1. n + 2 = n + 1 + 1
    OBVIOUS
  <2>2. q[n + 2] = seen'.presses
    BY <1>3, <1>8
  <2>3. QED BY <1>3, <1>4, <1>12, <1>13, <2>1, <2>2 DEF Rises
<1>15. Typed(q)'
  <2>1. q[0] = p[0]
    BY <1>8
  <2>2. QED BY <1>2, <2>1 DEF Typed, Due
<1>16. ASSUME NEW i \in 0 .. n + 2 PROVE Down(i)' \subseteq Keys
  <2>1. CASE i \in 0 .. n
    <3>1. i \in 0 .. n + 1
      BY <2>1
    <3>2. Down(i) \subseteq Keys
      BY <1>1, <3>1 DEF KeysCounted
    <3>3. QED BY <1>5, <2>1, <3>2
  <2>2. CASE i = n + 1 \/ i = n + 2
    <3>1. Down(i)' = keys
      BY <1>6, <2>2
    <3>2. QED BY <3>1
  <2>3. i \in 0 .. n \/ i = n + 1 \/ i = n + 2
    <3>1. \A x, y \in Int : 0 <= x /\ x <= y + 2 => x \in 0 .. y \/ x = y + 1 \/ x = y + 2
      OBVIOUS
    <3>2. i \in Int /\ n \in Int /\ 0 <= i /\ i <= n + 2
      OBVIOUS
    <3>3. QED BY <3>1, <3>2
  <2>4. QED BY <2>1, <2>2, <2>3
<1>17. Hid!Cardinality(held)' <= 2 /\ prev' \subseteq Keys /\ Down(Len(reports))' = held' /\ (kbdTd' # "done" => prev' = report')
  BY <1>4, <1>6 DEF KeysCounted
<1>18. n + 2 = Len(reports') + 1
  BY <1>4
<1>19. q \in [0 .. Len(reports') + 1 -> [Keys -> Nat]] /\ \A i \in 0 .. Len(reports') + 1 : Down(i)' \subseteq Keys
  BY <1>7, <1>16, <1>18
<1>20. QED BY <1>14, <1>15, <1>17, <1>19 DEF KeysCounted

(* A key goes down or up.                                                    *)
LEMMA KeyKeeps == ASSUME HidSizes, HidInv, Hid!Press \/ Hid!Release PROVE HidInv'
<1>1. PICK s \in HidSeen : s = seen
  BY DEF HidInv, HidTypes
<1>2. PICK pr \in [Keys -> Nat] : pr = s.presses
  BY <1>1, HidFacts DEF HidInv
<1>3. held \subseteq Keys /\ IsFiniteSet(held) /\ Hid!Cardinality(held) \in Nat
  <2>1. held \subseteq Keys
    BY DEF HidInv, HidTypes
  <2>2. IsFiniteSet(held)
    BY <2>1, FS_Subset DEF HidSizes
  <2>3. QED BY <2>1, <2>2, HidCount, FS_CardinalityType
<1>4. ASSUME NEW keys \in SUBSET Keys, Hid!KeyMoves(keys), seen' \in HidSeen, seen'.moved = s.moved,
             seen'.taken = s.taken, seen'.faults = s.faults,
             ~seen'.rolled => ~seen.rolled /\ (KeysCounted => KeysCounted')
      PROVE  HidInv'
  <2>1. /\ held' = keys /\ reports' = Append(reports, IF Hid!Cardinality(keys) > 2 THEN Hid!Rollover ELSE keys)
        /\ UNCHANGED <<port, boot, kbdTd, mouseTd, hostTog, devTog, report, prev, usbRing, moves, mouseReport>>
    BY <1>4 DEF Hid!KeyMoves, Hid!buses, Hid!mouse
  <2>2. reports' \in Seq(SUBSET Hid!Usages)
    <3>1. PICK r \in SUBSET Hid!Usages : r = IF Hid!Cardinality(keys) > 2 THEN Hid!Rollover ELSE keys
      <4>1. keys \in SUBSET Hid!Usages /\ Hid!Rollover \in SUBSET Hid!Usages
        BY DEF Hid!Usages
      <4>2. QED BY <4>1
    <3>2. reports \in Seq(SUBSET Hid!Usages)
      BY DEF HidInv, HidTypes
    <3>3. QED BY <2>1, <3>1, <3>2, AppendProperties
  <2>3. HidTypes' /\ Unsubmitted'
    BY <1>4, <2>1, <2>2 DEF HidInv, HidTypes, Unsubmitted
  <2>4. ASSUME seen.faults = 0 PROVE Toggled' /\ MouseCounted'
    BY <1>1, <1>4, <2>1, <2>4 DEF HidInv, Toggled, MouseCounted
  <2>5. QED BY <1>1, <1>4, <2>3, <2>4 DEF HidInv
<1>5. CASE Hid!Press
  <2>1. PICK k \in Keys \ held : /\ Hid!KeyMoves(held \cup {k})
                                 /\ seen' = [seen EXCEPT !.presses[k] = @ + 1, !.rolled = @ \/ Hid!Cardinality(held) > 1]
    BY <1>5 DEF Hid!Press
  <2>2. PICK b \in BOOLEAN : b = (s.rolled \/ Hid!Cardinality(held) > 1)
    BY Zenon
  <2>3. PICK new \in [Keys -> Nat] : new = [pr EXCEPT ![k] = pr[k] + 1]
    <3>1. PICK c \in Nat : c = pr[k] + 1
      OBVIOUS
    <3>2. [pr EXCEPT ![k] = c] \in [Keys -> Nat]
      OBVIOUS
    <3>3. QED BY <3>1, <3>2
  <2>4. seen' = [s EXCEPT !.presses = new, !.rolled = b]
    BY <1>1, <1>2, <2>1, <2>2, <2>3
  <2>5. /\ seen' \in HidSeen /\ seen'.presses = new /\ seen'.typed = s.typed /\ seen'.moved = s.moved
        /\ seen'.taken = s.taken /\ seen'.rolled = b /\ seen'.full = s.full /\ seen'.faults = s.faults
    BY <2>4 DEF HidSeen
  <2>6. PICK keys \in SUBSET Keys : keys = held \cup {k}
    BY <1>3
  <2>7. ASSUME ~b, KeysCounted PROVE KeysCounted'
    <3>1. Hid!Cardinality(held) <= 1
      <4>1. ~(Hid!Cardinality(held) > 1)
        BY <2>2, <2>7, Zenon
      <4>2. QED BY <1>3, <4>1
    <3>2. Hid!Cardinality(keys) <= 2
      <4>1. Hid!Cardinality(keys) = Hid!Cardinality(held) + 1
        BY <1>3, <2>1, <2>6, HidCount, FS_AddElement, Zenon
      <4>2. QED BY <1>3, <3>1, <4>1
    <3>3. held' = keys /\ reports' = Append(reports, keys) /\ UNCHANGED <<kbdTd, report, prev>>
      <4>1. ~(Hid!Cardinality(keys) > 2)
        <5>1. Hid!Cardinality(keys) = Hid!Cardinality(held) + 1
          BY <1>3, <2>1, <2>6, HidCount, FS_AddElement, Zenon
        <5>2. QED BY <1>3, <3>2, <5>1
      <4>2. QED BY <2>1, <2>6, <4>1 DEF Hid!KeyMoves
    <3>4. \A j \in Keys : seen'.presses[j] = seen.presses[j] + Rise(j, held, keys)
      <4>1. \A j \in Keys : new[j] = pr[j] + Rise(j, held, keys)
        BY <2>1, <2>3, <2>6 DEF Rise
      <4>2. QED BY <1>1, <1>2, <2>5, <4>1
    <3>5. HidTypes
      BY DEF HidInv
    <3>6. seen'.typed = seen.typed /\ seen'.full = seen.full /\ seen'.faults = seen.faults /\ seen'.presses \in [Keys -> Nat]
      BY <1>1, <2>5
    <3>7. QED BY <2>7, <3>2, <3>3, <3>4, <3>5, <3>6, QueueKeeps
  <2>8. ~seen'.rolled => ~seen.rolled /\ (KeysCounted => KeysCounted')
    BY <1>1, <2>2, <2>5, <2>7
  <2>9. QED BY <1>4, <2>1, <2>5, <2>6, <2>8
<1>6. CASE Hid!Release
  <2>1. PICK k \in held : Hid!KeyMoves(held \ {k}) /\ UNCHANGED seen
    BY <1>6 DEF Hid!Release
  <2>2. PICK keys \in SUBSET Keys : keys = held \ {k}
    BY <1>3
  <2>3. ASSUME KeysCounted PROVE KeysCounted'
    <3>1. Hid!Cardinality(keys) \in Nat /\ Hid!Cardinality(keys) <= 2
      <4>1. Hid!Cardinality(keys) = Hid!Cardinality(held) - 1 /\ Hid!Cardinality(held) > 0
        BY <1>3, <2>1, <2>2, HidCount, FS_RemoveElement, FS_EmptySet
      <4>2. QED BY <1>3, <2>3, <4>1 DEF KeysCounted
    <3>2. held' = keys /\ reports' = Append(reports, keys) /\ UNCHANGED <<kbdTd, report, prev>>
      BY <2>1, <2>2, <3>1 DEF Hid!KeyMoves
    <3>3. \A j \in Keys : seen'.presses[j] = seen.presses[j] + Rise(j, held, keys)
      <4>1. \A j \in Keys : pr[j] = pr[j] + Rise(j, held, keys)
        BY <2>2 DEF Rise
      <4>2. QED BY <1>1, <1>2, <2>1, <4>1
    <3>4. HidTypes /\ seen'.presses \in [Keys -> Nat]
      BY <1>1, <1>2, <2>1 DEF HidInv
    <3>5. QED BY <2>1, <2>3, <3>1, <3>2, <3>3, <3>4, QueueKeeps
  <2>4. QED BY <1>1, <1>4, <2>1, <2>2, <2>3
<1>7. QED BY <1>5, <1>6


(* The controller fetches the oldest report.                                 *)
LEMMA FetchKeeps ==
  ASSUME HidSizes, HidTypes, KeysCounted, kbdTd = "active", reports # <<>>, report' = Head(reports),
         kbdTd' = "done", reports' = Tail(reports), UNCHANGED <<held, prev, seen>>
  PROVE  KeysCounted'
<1>1. PICK n \in Nat, m \in Nat : n = Len(reports) /\ n > 0 /\ m = n - 1 /\ n = m + 1
  <2>1. Len(reports) \in Nat /\ Len(reports) > 0
    BY HidFacts DEF HidTypes
  <2>2. \A x \in Nat : x > 0 => x - 1 \in Nat /\ x = x - 1 + 1
    OBVIOUS
  <2>3. QED BY <2>1, <2>2
<1>2. PICK p \in [0 .. n + 1 -> [Keys -> Nat]] : Rises(p) /\ Typed(p)
  BY <1>1 DEF KeysCounted
<1>3. Len(reports') = m /\ report' = reports[1] /\ \A i \in 1 .. m : reports'[i] = reports[i + 1]
  BY <1>1, HeadTailProperties DEF HidTypes
<1>4. \A i \in 0 .. m + 1 : i + 1 \in 0 .. n + 1 /\ i + 1 \in 1 .. n + 1
  BY <1>1
<1>5. \A i \in 0 .. m + 1 : Down(i)' = Down(i + 1)
  <2>1. ASSUME NEW i \in 0 .. m + 1 PROVE Down(i)' = Down(i + 1)
    <3>1. i + 1 # 0 /\ (i = m + 1 <=> i + 1 = n + 1) /\ m + 1 # 0
      BY <1>1
    <3>2. CASE i = 0
      <4>1. i + 1 = 1 /\ 1 # n + 1
        BY <1>1, <3>2
      <4>2. QED BY <1>1, <1>3, <3>1, <3>2, <4>1 DEF Down
    <3>3. CASE i = m + 1
      BY <1>1, <1>3, <3>1, <3>3 DEF Down
    <3>4. CASE i # 0 /\ i # m + 1
      <4>1. i \in 1 .. m
        BY <3>4
      <4>2. QED BY <1>1, <1>3, <3>1, <3>4, <4>1 DEF Down
    <3>5. QED BY <3>2, <3>3, <3>4
  <2>2. QED BY <2>1
<1>6. PICK q \in [0 .. m + 1 -> [Keys -> Nat]] : \A i \in 0 .. m + 1 : q[i] = p[i + 1]
  <2>1. \A i \in 0 .. m + 1 : p[i + 1] \in [Keys -> Nat]
    BY <1>4
  <2>2. [i \in 0 .. m + 1 |-> p[i + 1]] \in [0 .. m + 1 -> [Keys -> Nat]]
    BY <2>1
  <2>3. QED BY <2>2
<1>7. ASSUME NEW i \in 0 .. m + 1, NEW k \in Keys PROVE q[i][k] <= seen.presses[k]
  <2>1. p[i + 1][k] <= seen.presses[k]
    BY <1>1, <1>2, <1>4 DEF Rises
  <2>2. QED BY <1>6, <2>1
<1>8. ASSUME NEW i \in 1 .. m + 1, NEW k \in Keys
      PROVE  /\ q[i][k] >= q[i - 1][k] + Rise(k, Down(i - 1)', Down(i)')
             /\ seen.faults = 0 => q[i][k] = q[i - 1][k] + Rise(k, Down(i - 1)', Down(i)')
  <2>1. PICK j \in 1 .. n + 1 : j = i + 1 /\ j - 1 = i - 1 + 1
    BY <1>1
  <2>2. /\ p[j][k] >= p[j - 1][k] + Rise(k, Down(j - 1), Down(j))
        /\ seen.faults = 0 => p[j][k] = p[j - 1][k] + Rise(k, Down(j - 1), Down(j))
    BY <1>1, <1>2 DEF Rises
  <2>3. i \in 0 .. m + 1 /\ i - 1 \in 0 .. m + 1
    OBVIOUS
  <2>4. q[i] = p[j] /\ q[i - 1] = p[j - 1] /\ Down(i)' = Down(j) /\ Down(i - 1)' = Down(j - 1)
    BY <1>5, <1>6, <2>1, <2>3
  <2>5. QED BY <2>2, <2>4
<1>9. Rises(q)'
  <2>1. p[n + 1] = seen.presses
    BY <1>1, <1>2 DEF Rises
  <2>2. m + 1 \in 0 .. m + 1 /\ m + 1 + 1 = n + 1
    BY <1>1
  <2>3. q[m + 1] = seen.presses
    BY <1>6, <2>1, <2>2
  <2>4. QED BY <1>3, <1>7, <1>8, <2>3 DEF Rises
<1>10. Typed(q)'
  <2>1. ASSUME NEW k \in Keys
        PROVE  /\ seen.typed[k] + Due(k)' <= q[0][k]
               /\ seen.faults = 0 /\ ~seen.full /\ k \in Mapped => seen.typed[k] + Due(k)' = q[0][k]
    <3>1. PICK low, mid : low = Down(0) /\ mid = Down(1)
      OBVIOUS
    <3>2. Due(k)' = Rise(k, low, mid)
      <4>1. Down(0) = report /\ prev = report
        BY DEF Down, KeysCounted
      <4>2. Down(1) = reports[1]
        BY <1>1 DEF Down
      <4>3. QED BY <1>3, <3>1, <4>1, <4>2 DEF Due, Rise
    <3>3. 0 \in 0 .. n + 1 /\ 1 \in 0 .. n + 1 /\ 1 \in 1 .. n + 1 /\ 1 - 1 = 0 /\ 0 \in 0 .. m + 1 /\ 0 + 1 = 1
      OBVIOUS
    <3>4. /\ p[1][k] >= p[0][k] + Rise(k, low, mid)
          /\ seen.faults = 0 => p[1][k] = p[0][k] + Rise(k, low, mid)
      <4>1. /\ p[1][k] >= p[1 - 1][k] + Rise(k, Down(1 - 1), Down(1))
            /\ seen.faults = 0 => p[1][k] = p[1 - 1][k] + Rise(k, Down(1 - 1), Down(1))
        BY <1>1, <1>2, <3>3 DEF Rises
      <4>2. QED BY <3>1, <3>3, <4>1
    <3>5. PICK a \in Nat, b \in Nat, c \in Nat, e \in {0, 1} :
            a = seen.typed[k] /\ b = p[0][k] /\ c = p[1][k] /\ e = Rise(k, low, mid)
      <4>1. seen.typed[k] \in Nat
        BY HidFacts
      <4>2. p[0][k] \in Nat /\ p[1][k] \in Nat
        BY <3>3
      <4>3. Rise(k, low, mid) \in {0, 1}
        BY Detour
      <4>4. QED BY <4>1, <4>2, <4>3
    <3>6. Due(k) = 0
      BY DEF Due
    <3>7. a <= b /\ (seen.faults = 0 /\ ~seen.full /\ k \in Mapped => a = b)
      BY <1>2, <3>5, <3>6 DEF Typed
    <3>8. c >= b + e /\ (seen.faults = 0 => c = b + e)
      BY <3>4, <3>5
    <3>9. a + e <= c /\ (seen.faults = 0 /\ ~seen.full /\ k \in Mapped => a + e = c)
      <4>1. a + e <= c
        BY <3>7, <3>8
      <4>2. ASSUME seen.faults = 0, ~seen.full, k \in Mapped PROVE a + e = c
        BY <3>7, <3>8, <4>2
      <4>3. QED BY <4>1, <4>2
    <3>10. q[0][k] = c
      BY <1>6, <3>3, <3>5
    <3>11. QED BY <3>2, <3>5, <3>9, <3>10
  <2>2. QED BY <2>1 DEF Typed
<1>11. \A i \in 0 .. m + 1 : Down(i)' \subseteq Keys
  <2>1. \A i \in 0 .. n + 1 : Down(i) \subseteq Keys
    BY <1>1 DEF KeysCounted
  <2>2. QED BY <1>4, <1>5, <2>1
<1>12. Hid!Cardinality(held)' <= 2 /\ prev' \subseteq Keys
  BY DEF KeysCounted
<1>13. ASSUME seen.faults = 0 PROVE Down(m)' = held
  <2>1. m \in 0 .. m + 1
    OBVIOUS
  <2>2. Down(m)' = Down(m + 1)
    BY <1>5, <2>1
  <2>3. QED BY <1>1, <1>13, <2>2 DEF KeysCounted
<1>14. QED BY <1>3, <1>6, <1>9, <1>10, <1>11, <1>12, <1>13 DEF KeysCounted

(* After a bus error it may drop the oldest report: the toggles differ.      *)
LEMMA DropKeeps ==
  ASSUME HidSizes, HidTypes, KeysCounted, seen.faults # 0, reports # <<>>,
         reports' = Tail(reports), UNCHANGED <<held, report, kbdTd, prev, seen>>
  PROVE  KeysCounted'
<1>1. PICK n \in Nat, m \in Nat : n = Len(reports) /\ n > 0 /\ m = n - 1 /\ n = m + 1
  <2>1. Len(reports) \in Nat /\ Len(reports) > 0
    BY HidFacts DEF HidTypes
  <2>2. \A x \in Nat : x > 0 => x - 1 \in Nat /\ x = x - 1 + 1
    OBVIOUS
  <2>3. QED BY <2>1, <2>2
<1>2. PICK p \in [0 .. n + 1 -> [Keys -> Nat]] : Rises(p) /\ Typed(p)
  BY <1>1 DEF KeysCounted
<1>3. Len(reports') = m /\ \A i \in 1 .. m : reports'[i] = reports[i + 1]
  BY <1>1, HeadTailProperties DEF HidTypes
<1>4. \A i \in 1 .. m + 1 : i + 1 \in 0 .. n + 1 /\ i + 1 \in 1 .. n + 1
  BY <1>1
<1>5. Down(0)' = Down(0)
  BY DEF Down
<1>6. \A i \in 1 .. m + 1 : Down(i)' = Down(i + 1)
  <2>1. ASSUME NEW i \in 1 .. m + 1 PROVE Down(i)' = Down(i + 1)
    <3>1. i # 0 /\ i + 1 # 0 /\ (i = m + 1 <=> i + 1 = n + 1)
      BY <1>1
    <3>2. CASE i = m + 1
      BY <1>1, <1>3, <3>1, <3>2 DEF Down
    <3>3. CASE i # m + 1
      <4>1. i \in 1 .. m
        BY <3>3
      <4>2. QED BY <1>1, <1>3, <3>1, <3>3, <4>1 DEF Down
    <3>4. QED BY <3>2, <3>3
  <2>2. QED BY <2>1
<1>7. PICK q \in [0 .. m + 1 -> [Keys -> Nat]] : q[0] = p[0] /\ \A i \in 1 .. m + 1 : q[i] = p[i + 1]
  <2>1. ASSUME NEW i \in 0 .. m + 1 PROVE (IF i = 0 THEN p[0] ELSE p[i + 1]) \in [Keys -> Nat]
    <3>1. CASE i = 0
      <4>1. 0 \in 0 .. n + 1
        OBVIOUS
      <4>2. QED BY <3>1, <4>1
    <3>2. CASE i # 0
      <4>1. i \in 1 .. m + 1
        BY <3>2
      <4>2. QED BY <1>4, <3>2, <4>1
    <3>3. QED BY <3>1, <3>2
  <2>2. [i \in 0 .. m + 1 |-> IF i = 0 THEN p[0] ELSE p[i + 1]] \in [0 .. m + 1 -> [Keys -> Nat]]
    BY <2>1
  <2>3. 0 \in 0 .. m + 1 /\ \A i \in 1 .. m + 1 : i \in 0 .. m + 1 /\ i # 0
    OBVIOUS
  <2>4. QED BY <2>2, <2>3
<1>8. ASSUME NEW i \in 0 .. m + 1, NEW k \in Keys PROVE q[i][k] <= seen.presses[k]
  <2>1. CASE i = 0
    <3>1. 0 \in 0 .. n + 1
      OBVIOUS
    <3>2. p[0][k] <= seen.presses[k]
      BY <1>1, <1>2, <3>1 DEF Rises
    <3>3. QED BY <1>7, <2>1, <3>2
  <2>2. CASE i # 0
    <3>1. i \in 1 .. m + 1
      BY <2>2
    <3>2. p[i + 1][k] <= seen.presses[k]
      BY <1>1, <1>2, <1>4, <3>1 DEF Rises
    <3>3. QED BY <1>7, <3>1, <3>2
  <2>3. QED BY <2>1, <2>2
<1>9. ASSUME NEW i \in 1 .. n + 1, NEW k \in Keys PROVE p[i][k] >= p[i - 1][k] + Rise(k, Down(i - 1), Down(i))
  BY <1>1, <1>2 DEF Rises
<1>10. ASSUME NEW i \in 1 .. m + 1, NEW k \in Keys
       PROVE  q[i][k] >= q[i - 1][k] + Rise(k, Down(i - 1)', Down(i)')
  <2>1. CASE i # 1
    <3>1. PICK j \in 1 .. n + 1 : j = i + 1 /\ j - 1 = i - 1 + 1
      BY <1>1
    <3>2. p[j][k] >= p[j - 1][k] + Rise(k, Down(j - 1), Down(j))
      BY <1>9
    <3>3. i \in 1 .. m + 1 /\ i - 1 \in 1 .. m + 1
      BY <2>1
    <3>4. q[i] = p[j] /\ q[i - 1] = p[j - 1] /\ Down(i)' = Down(j) /\ Down(i - 1)' = Down(j - 1)
      BY <1>6, <1>7, <3>1, <3>3
    <3>5. QED BY <3>2, <3>4
  <2>2. CASE i = 1
    <3>1. PICK low, mid, high : low = Down(0) /\ mid = Down(1) /\ high = Down(2)
      OBVIOUS
    <3>2. PICK x \in {0, 1}, y \in {0, 1}, z \in {0, 1} :
            /\ x = Rise(k, low, mid) /\ y = Rise(k, mid, high) /\ z = Rise(k, low, high)
            /\ z <= x + y
      <4>1. /\ Rise(k, low, mid) \in {0, 1} /\ Rise(k, mid, high) \in {0, 1} /\ Rise(k, low, high) \in {0, 1}
            /\ Rise(k, low, high) <= Rise(k, low, mid) + Rise(k, mid, high)
        BY Detour
      <4>2. QED BY <4>1
    <3>3. /\ 0 \in 0 .. n + 1 /\ 1 \in 0 .. n + 1 /\ 2 \in 0 .. n + 1 /\ 1 \in 1 .. n + 1 /\ 2 \in 1 .. n + 1
          /\ 1 - 1 = 0 /\ 2 - 1 = 1 /\ 1 \in 1 .. m + 1 /\ 1 + 1 = 2
      BY <1>1
    <3>4. PICK a \in Nat, b \in Nat, c \in Nat : a = p[0][k] /\ b = p[1][k] /\ c = p[2][k]
      BY <3>3
    <3>5. b >= a + x
      <4>1. p[1][k] >= p[1 - 1][k] + Rise(k, Down(1 - 1), Down(1))
        BY <1>9, <3>3
      <4>2. QED BY <3>1, <3>2, <3>3, <3>4, <4>1
    <3>6. c >= b + y
      <4>1. p[2][k] >= p[2 - 1][k] + Rise(k, Down(2 - 1), Down(2))
        BY <1>9, <3>3
      <4>2. QED BY <3>1, <3>2, <3>3, <3>4, <4>1
    <3>7. c >= a + z
      BY <3>2, <3>5, <3>6
    <3>8. q[i] = p[2] /\ q[i - 1] = p[0] /\ Down(i)' = high /\ Down(i - 1)' = low
      BY <1>5, <1>6, <1>7, <2>2, <3>1, <3>3
    <3>9. QED BY <3>2, <3>4, <3>7, <3>8
  <2>3. QED BY <2>1, <2>2
<1>11. Rises(q)'
  <2>1. p[n + 1] = seen.presses
    BY <1>1, <1>2 DEF Rises
  <2>2. m + 1 \in 1 .. m + 1 /\ m + 1 + 1 = n + 1
    BY <1>1
  <2>3. q[m + 1] = seen.presses
    BY <1>7, <2>1, <2>2
  <2>4. QED BY <1>3, <1>8, <1>10, <2>3 DEF Rises
<1>12. Typed(q)'
  BY <1>2, <1>7 DEF Typed, Due
<1>13. \A i \in 0 .. m + 1 : Down(i)' \subseteq Keys
  <2>1. \A i \in 0 .. m + 1 : i = 0 \/ i \in 1 .. m + 1
    OBVIOUS
  <2>2. 0 \in 0 .. n + 1
    OBVIOUS
  <2>3. \A i \in 0 .. n + 1 : Down(i) \subseteq Keys
    BY <1>1 DEF KeysCounted
  <2>4. QED BY <1>4, <1>5, <1>6, <2>1, <2>2, <2>3
<1>14. Hid!Cardinality(held)' <= 2 /\ prev' \subseteq Keys /\ (kbdTd' # "done" => prev' = report') /\ seen'.faults # 0
  BY DEF KeysCounted
<1>15. QED BY <1>3, <1>7, <1>11, <1>12, <1>13, <1>14 DEF KeysCounted

LEMMA AnswerKeeps == ASSUME HidSizes, HidInv, Hid!KbdAnswers PROVE HidInv'
<1>1. PICK h \in [kbd : {0, 1}, mouse : {0, 1}], d \in [kbd : {0, 1}, mouse : {0, 1}] : h = hostTog /\ d = devTog
  BY DEF HidInv, HidTypes
<1>2. PICK y \in {0, 1} : y = 1 - d.kbd
  BY <1>1, HidFacts DEF HidInv
<1>3. /\ kbdTd = "active" /\ reports # <<>>
      /\ IF h.kbd = d.kbd THEN report' = Head(reports) /\ kbdTd' = "done" ELSE UNCHANGED <<report, kbdTd>>
      /\ reports' = Tail(reports) /\ devTog' = [d EXCEPT !.kbd = y]
      /\ UNCHANGED <<port, boot, mouseTd, hostTog, held, prev, usbRing, moves, mouseReport, seen>>
  BY <1>1, <1>2 DEF Hid!KbdAnswers, Hid!buses, Hid!mouse
<1>4. devTog' \in [kbd : {0, 1}, mouse : {0, 1}] /\ devTog'.kbd = y /\ devTog'.mouse = d.mouse
  BY <1>3
<1>5. HidTypes' /\ Unsubmitted'
  <2>1. Head(reports) \in SUBSET Hid!Usages /\ Tail(reports) \in Seq(SUBSET Hid!Usages)
    BY <1>3, HeadTailProperties DEF HidInv, HidTypes
  <2>2. report' \subseteq Hid!Usages /\ kbdTd' \in {"active", "done"}
    BY <1>3, <2>1 DEF HidInv, HidTypes
  <2>3. QED BY <1>3, <1>4, <2>1, <2>2 DEF HidInv, HidTypes, Unsubmitted
<1>6. ASSUME seen.faults = 0 PROVE report' = Head(reports) /\ kbdTd' = "done" /\ Toggled' /\ MouseCounted'
  <2>1. h.kbd = d.kbd
    BY <1>1, <1>3, <1>6 DEF HidInv, Toggled
  <2>2. report' = Head(reports) /\ kbdTd' = "done"
    BY <1>3, <2>1
  <2>3. h.kbd # y
    BY <1>1, <1>2, <2>1, HidFacts DEF HidInv
  <2>4. Toggled'
    BY <1>1, <1>3, <1>4, <1>6, <2>2, <2>3 DEF HidInv, Toggled
  <2>5. MouseCounted'
    BY <1>3, <1>6 DEF HidInv, MouseCounted
  <2>6. QED BY <2>2, <2>4, <2>5
<1>7. ASSUME ~seen.rolled PROVE KeysCounted'
  <2>1. KeysCounted /\ HidTypes
    BY <1>7 DEF HidInv
  <2>2. CASE h.kbd = d.kbd
    BY <1>3, <2>1, <2>2, FetchKeeps
  <2>3. CASE h.kbd # d.kbd
    <3>1. seen.faults # 0
      BY <1>1, <1>3, <2>3 DEF HidInv, Toggled
    <3>2. QED BY <1>3, <2>1, <2>3, <3>1, DropKeeps
  <2>4. QED BY <2>2, <2>3
<1>8. QED BY <1>3, <1>5, <1>6, <1>7 DEF HidInv


(* What usb_kbd_trygetc makes of a report: its new keys are put into the     *)
(* ring, and each of them counts as typed.                                   *)
LEMMA TakenKeys ==
  ASSUME HidSizes, HidTypes, Hid!TakeReport, Hid!Cardinality(Hid!Fresh(report, prev)) \in Nat
  PROVE  /\ usbRing' \in Seq(Mapped) /\ Len(usbRing)' < UsbBuf
         /\ seen' \in HidSeen
         /\ seen'.presses = seen.presses /\ seen'.moved = seen.moved /\ seen'.taken = seen.taken
         /\ seen'.rolled = seen.rolled /\ seen'.faults = seen.faults
         /\ \A k \in Keys : /\ seen'.typed[k] = seen.typed[k] \/ (k \in Hid!Fresh(report, prev) /\ seen'.typed[k] = seen.typed[k] + 1)
                            /\ ~seen'.full => ~seen.full /\ seen'.typed[k] = seen.typed[k] + (IF k \in Hid!Fresh(report, prev) THEN 1 ELSE 0)
<1>1. PICK F \in SUBSET Mapped : F = Hid!Fresh(report, prev)
  <2>1. Hid!Fresh(report, prev) \subseteq Mapped
    BY DEF Hid!Fresh
  <2>2. QED BY <2>1
<1>2. PICK new : new = Hid!Enqueued(F)
  OBVIOUS
<1>3. PICK m \in 0 .. Hid!Cardinality(F) :
        /\ new \in [1 .. m -> F] /\ new \in Seq(Mapped) /\ Len(new) = m
        /\ Len(usbRing) + m <= UsbBuf - 1
        /\ m = Hid!Cardinality(F) => \A x \in F : \E i \in 1 .. m : new[i] = x
  BY <1>2, EnqueuedIs
<1>4. DOMAIN new = 1 .. m
  BY <1>3
<1>5. PICK s \in HidSeen : s = seen
  BY DEF HidTypes
<1>6. PICK old \in [Keys -> Nat] : old = s.typed
  BY <1>5, HidFacts
<1>7. PICK b \in BOOLEAN : b = (s.full \/ Len(new) < Hid!Cardinality(F))
  BY Zenon
<1>8. PICK now \in [Keys -> Nat] :
        now = [k \in Keys |-> old[k] + (IF \E i \in DOMAIN new : new[i] = k THEN 1 ELSE 0)]
  <2>1. ASSUME NEW k \in Keys PROVE old[k] + (IF \E i \in DOMAIN new : new[i] = k THEN 1 ELSE 0) \in Nat
    <3>1. PICK c \in {0, 1} : c = IF \E i \in DOMAIN new : new[i] = k THEN 1 ELSE 0
      <4>1. CASE \E i \in DOMAIN new : new[i] = k
        BY <4>1
      <4>2. CASE ~\E i \in DOMAIN new : new[i] = k
        BY <4>2
      <4>3. QED BY <4>1, <4>2
    <3>2. old[k] + c \in Nat
      OBVIOUS
    <3>3. QED BY <3>1, <3>2
  <2>2. QED BY <2>1
<1>9. /\ usbRing' = (IF usbRing \o new = <<>> THEN <<>> ELSE Tail(usbRing \o new))
      /\ seen' = [seen EXCEPT
            !.typed = [k \in Keys |-> @[k] + (IF \E i \in DOMAIN new : new[i] = k THEN 1 ELSE 0)],
            !.full = @ \/ Len(new) < Hid!Cardinality(F)]
  BY <1>1, <1>2 DEF Hid!TakeReport
<1>10. seen' = [s EXCEPT !.typed = now, !.full = b]
  BY <1>5, <1>6, <1>7, <1>8, <1>9
<1>11. /\ seen' \in HidSeen /\ seen'.presses = s.presses /\ seen'.typed = now /\ seen'.moved = s.moved
       /\ seen'.taken = s.taken /\ seen'.rolled = s.rolled /\ seen'.full = b /\ seen'.faults = s.faults
  BY <1>10 DEF HidSeen
<1>12. usbRing' \in Seq(Mapped) /\ Len(usbRing)' < UsbBuf
  <2>1. PICK l \in Nat, u \in Nat : l = Len(usbRing) /\ u = UsbBuf /\ u > 0
    BY HidFacts DEF HidSizes
  <2>2. PICK all : all = usbRing \o new
    OBVIOUS
  <2>3. all \in Seq(Mapped) /\ Len(all) = l + m
    BY <1>3, <2>1, <2>2, ConcatProperties DEF HidTypes
  <2>4. m \in Nat /\ l + m <= u - 1
    BY <1>1, <1>3, <2>1
  <2>5. CASE all = <<>>
    <3>1. usbRing' = <<>>
      BY <1>9, <2>2, <2>5
    <3>2. QED BY <2>1, <3>1
  <2>6. CASE all # <<>>
    <3>1. Tail(all) \in Seq(Mapped) /\ Len(Tail(all)) = Len(all) - 1
      BY <2>3, <2>6, HeadTailProperties
    <3>2. usbRing' = Tail(all)
      BY <1>9, <2>2, <2>6
    <3>3. QED BY <2>1, <2>3, <2>4, <3>1, <3>2
  <2>7. QED BY <2>5, <2>6
<1>13. ASSUME NEW k \in Keys
       PROVE  /\ now[k] = old[k] \/ (k \in F /\ now[k] = old[k] + 1)
              /\ ~b => ~s.full /\ now[k] = old[k] + (IF k \in F THEN 1 ELSE 0)
  <2>1. \A i \in DOMAIN new : new[i] \in F
    BY <1>3, <1>4
  <2>2. now[k] = old[k] + (IF \E i \in DOMAIN new : new[i] = k THEN 1 ELSE 0) /\ old[k] \in Nat
    BY <1>8
  <2>3. now[k] = old[k] \/ (k \in F /\ now[k] = old[k] + 1)
    <3>1. CASE \E i \in DOMAIN new : new[i] = k
      BY <2>1, <2>2, <3>1
    <3>2. CASE ~\E i \in DOMAIN new : new[i] = k
      <4>1. now[k] = old[k] + 0
        BY <2>2, <3>2, Zenon
      <4>2. QED BY <2>2, <4>1
    <3>3. QED BY <3>1, <3>2
  <2>4. ASSUME ~b PROVE ~s.full /\ now[k] = old[k] + (IF k \in F THEN 1 ELSE 0)
    <3>1. ~s.full /\ ~(Len(new) < Hid!Cardinality(F))
      BY <1>7, <2>4, Zenon
    <3>2. m = Hid!Cardinality(F)
      BY <1>1, <1>3, <3>1
    <3>3. k \in F <=> \E i \in DOMAIN new : new[i] = k
      BY <1>3, <1>4, <2>1, <3>2
    <3>4. CASE k \in F
      BY <2>2, <3>1, <3>3, <3>4
    <3>5. CASE k \notin F
      BY <2>2, <3>1, <3>3, <3>5
    <3>6. QED BY <3>4, <3>5
  <2>5. QED BY <2>3, <2>4
<1>14. QED BY <1>1, <1>5, <1>6, <1>11, <1>12, <1>13

LEMMA GetKeeps == ASSUME HidSizes, HidInv, Hid!TryGetc PROVE HidInv'
<1>1. HidTypes
  BY DEF HidInv
<1>2. UNCHANGED <<port, boot, mouseTd, devTog, held, reports, report, moves, mouseReport>>
  BY DEF Hid!TryGetc, Hid!buses, Hid!mouse
<1>3. CASE kbdTd \notin {"done", "error"}
  <2>1. usbRing # <<>> /\ usbRing' = Tail(usbRing) /\ UNCHANGED <<kbdTd, hostTog, prev, seen>>
    BY <1>3 DEF Hid!TryGetc
  <2>2. Tail(usbRing) \in Seq(Mapped) /\ Len(Tail(usbRing)) = Len(usbRing) - 1
    BY <1>1, <2>1, HeadTailProperties DEF HidTypes
  <2>3. PICK l \in Nat, u \in Nat : l = Len(usbRing) /\ u = UsbBuf /\ l < u
    BY <1>1, HidFacts DEF HidTypes, HidSizes
  <2>4. Len(Tail(usbRing)) < UsbBuf
    BY <2>2, <2>3
  <2>5. HidTypes' /\ Unsubmitted'
    BY <1>2, <2>1, <2>2, <2>4 DEF HidInv, HidTypes, Unsubmitted
  <2>6. ASSUME seen.faults = 0 PROVE Toggled' /\ MouseCounted'
    BY <1>2, <2>1, <2>6 DEF HidInv, Toggled, MouseCounted
  <2>7. ASSUME ~seen.rolled PROVE KeysCounted'
    BY <1>2, <2>1, <2>7, KeysSame DEF HidInv
  <2>8. QED BY <2>1, <2>5, <2>6, <2>7 DEF HidInv
<1>4. CASE kbdTd \in {"done", "error"}
  <2>1. PICK h \in [kbd : {0, 1}, mouse : {0, 1}] : h = hostTog
    BY <1>1 DEF HidTypes
  <2>2. PICK x \in {0, 1} : x = 1 - h.kbd
    BY <1>1, <2>1, HidFacts
  <2>3. Hid!TakeReport
    BY <1>4 DEF Hid!TryGetc
  <2>4. prev' = report /\ hostTog' = [h EXCEPT !.kbd = x] /\ kbdTd' = "active"
    BY <2>1, <2>2, <2>3 DEF Hid!TakeReport, Hid!KbdSubmit
  <2>5. hostTog' \in [kbd : {0, 1}, mouse : {0, 1}] /\ hostTog'.kbd = x /\ hostTog'.mouse = h.mouse
    BY <2>4
  <2>6. Hid!Fresh(report, prev) \in SUBSET Mapped
    BY DEF Hid!Fresh
  <2>7. Hid!Cardinality(Hid!Fresh(report, prev)) \in Nat
    BY <1>1, <2>6, EnqueuedIs
  <2>8. /\ usbRing' \in Seq(Mapped) /\ Len(usbRing)' < UsbBuf
        /\ seen' \in HidSeen
        /\ seen'.presses = seen.presses /\ seen'.moved = seen.moved /\ seen'.taken = seen.taken
        /\ seen'.rolled = seen.rolled /\ seen'.faults = seen.faults
    BY <1>1, <2>3, <2>7, TakenKeys
  <2>9. \A k \in Keys : /\ seen'.typed[k] = seen.typed[k] \/ (k \in Hid!Fresh(report, prev) /\ seen'.typed[k] = seen.typed[k] + 1)
                        /\ ~seen'.full => ~seen.full /\ seen'.typed[k] = seen.typed[k] + (IF k \in Hid!Fresh(report, prev) THEN 1 ELSE 0)
    BY <1>1, <2>3, <2>7, TakenKeys
  <2>10. Unsubmitted'
    BY <1>2, <1>4, <2>4 DEF HidInv, Unsubmitted
  <2>11. HidTypes'
    BY <1>1, <1>2, <2>4, <2>5, <2>8 DEF HidTypes
  <2>12. ASSUME seen.faults = 0 PROVE kbdTd = "done" /\ Toggled' /\ MouseCounted'
    <3>1. kbdTd = "done" /\ h.kbd # devTog.kbd
      BY <1>4, <2>1, <2>12 DEF HidInv, Toggled
    <3>2. x = devTog.kbd
      BY <1>1, <2>1, <2>2, <3>1, HidFacts
    <3>3. Toggled'
      BY <1>2, <2>1, <2>4, <2>5, <2>12, <3>2 DEF HidInv, Toggled
    <3>4. MouseCounted'
      BY <1>2, <2>8, <2>12 DEF HidInv, MouseCounted
    <3>5. QED BY <3>1, <3>3, <3>4
  <2>13. ASSUME ~seen.rolled PROVE KeysCounted'
    <3>1. KeysCounted /\ Hid!Fresh(report, prev) = (report \ prev) \cap Mapped
      BY <2>13 DEF HidInv, Hid!Fresh
    <3>2. PICK n \in Nat : n = Len(reports) /\ 0 \in 0 .. n + 1
      BY <1>1, HidFacts
    <3>3. PICK p \in [0 .. n + 1 -> [Keys -> Nat]] : Rises(p) /\ Typed(p)
      BY <3>1, <3>2 DEF KeysCounted
    <3>4. Rises(p)'
      BY <1>2, <2>8, <3>3 DEF Rises, Down
    <3>5. Typed(p)'
      <4>1. ASSUME NEW k \in Keys
            PROVE  /\ seen'.typed[k] + Due(k)' <= p[0][k]
                   /\ seen'.faults = 0 /\ ~seen'.full /\ k \in Mapped => seen'.typed[k] + Due(k)' = p[0][k]
        <5>1. PICK a \in Nat, c \in Nat, e \in {0, 1}, f \in Nat :
                a = seen.typed[k] /\ c = p[0][k] /\ e = Due(k) /\ f = seen'.typed[k]
          <6>1. seen.typed[k] \in Nat /\ p[0][k] \in Nat
            <7>1. seen.typed \in [Keys -> Nat]
              BY <1>1, HidFacts
            <7>2. QED BY <3>2, <3>3, <7>1
          <6>2. seen'.typed \in [Keys -> Nat]
            <7>1. PICK z \in HidSeen : z = seen'
              BY <2>8
            <7>2. z.typed \in [Keys -> Nat]
              BY DEF HidSeen
            <7>3. QED BY <7>1, <7>2
          <6>3. Due(k) \in {0, 1}
            BY DEF Due
          <6>4. QED BY <6>1, <6>2, <6>3
        <5>2. a + e <= c /\ (seen.faults = 0 /\ ~seen.full /\ k \in Mapped => a + e = c)
          BY <3>3, <5>1 DEF Typed
        <5>3. Due(k)' = 0
          BY <2>4 DEF Due
        <5>4. e = (IF k \in report \ prev THEN 1 ELSE 0)
          <6>1. kbdTd # "done" => prev = report
            BY <3>1 DEF KeysCounted
          <6>2. QED BY <5>1, <6>1 DEF Due
        <5>5. /\ f = a \/ (k \in report \ prev /\ f = a + 1)
              /\ ~seen'.full => ~seen.full /\ f = a + (IF k \in (report \ prev) \cap Mapped THEN 1 ELSE 0)
          BY <2>9, <3>1, <5>1
        <5>6. f <= c
          BY <5>2, <5>4, <5>5
        <5>7. ASSUME seen.faults = 0, ~seen'.full, k \in Mapped PROVE f = c
          BY <5>2, <5>4, <5>5, <5>7
        <5>8. QED BY <2>8, <5>1, <5>3, <5>6, <5>7
      <4>2. QED BY <4>1 DEF Typed
    <3>6. \A i \in 0 .. n + 1 : Down(i)' = Down(i)
      BY <1>2 DEF Down
    <3>7. Down(n)' = Down(n)
      BY <1>2 DEF Down
    <3>8. report \subseteq Keys
      <4>1. Down(0) = report
        BY DEF Down
      <4>2. QED BY <3>1, <3>2, <4>1 DEF KeysCounted
    <3>9. /\ Hid!Cardinality(held)' <= 2 /\ (seen'.faults = 0 => Down(n)' = held')
          /\ \A i \in 0 .. n + 1 : Down(i)' \subseteq Keys
      BY <1>2, <2>8, <3>1, <3>2, <3>6, <3>7 DEF KeysCounted
    <3>10. prev' \subseteq Keys /\ prev' = report'
      BY <1>2, <2>4, <3>8
    <3>11. QED BY <1>2, <3>2, <3>3, <3>4, <3>5, <3>9, <3>10 DEF KeysCounted
  <2>14. QED BY <2>8, <2>10, <2>11, <2>12, <2>13 DEF HidInv
<1>5. QED BY <1>3, <1>4

(* Every step of usb.c.                                                      *)
LEMMA HidStepKeeps == ASSUME HidSizes, HidInv, [Hid!Next]_(Hid!hidVars) PROVE HidInv'
<1>1. CASE Hid!Next
  BY <1>1, ProbeKeeps, SubmitKeeps, ErrorKeeps, MouseKeeps, KeyKeeps, AnswerKeeps, GetKeeps DEF Hid!Next
<1>2. CASE UNCHANGED Hid!hidVars
  <2>1. UNCHANGED <<port, boot, kbdTd, mouseTd, hostTog, devTog, Hid!kbd, Hid!mouse, seen>>
    BY <1>2 DEF Hid!hidVars, Hid!kbd, Hid!mouse
  <2>2. port \in [0 .. 1 -> HidPort] /\ boot \in {"off", "port0", "port1", "submit", "ehci", "run"}
    BY DEF HidInv, HidTypes
  <2>3. QED BY <2>1, <2>2, BusKeeps
<1>3. QED BY <1>1, <1>2

(* A key is not typed more often than it was pressed, and no press is lost.  *)
LEMMA HidHolds == ASSUME HidSizes, HidInv PROVE Hid!HidOnce
<1>1. HidTypes
  BY DEF HidInv
<1>2. ASSUME ~seen.rolled, NEW k \in Keys
      PROVE  /\ seen.typed[k] <= seen.presses[k]
             /\ seen.faults = 0 /\ kbdTd = "active" /\ reports = <<>> /\ ~seen.full /\ k \in Mapped =>
                  seen.typed[k] = seen.presses[k]
  <2>1. KeysCounted
    BY <1>2 DEF HidInv
  <2>2. PICK n \in Nat : n = Len(reports) /\ 0 \in 0 .. n + 1
    BY <1>1, HidFacts
  <2>3. PICK p \in [0 .. n + 1 -> [Keys -> Nat]] : Rises(p) /\ Typed(p)
    BY <2>1, <2>2 DEF KeysCounted
  <2>4. PICK a \in Nat, b \in Nat, c \in Nat, e \in {0, 1} :
          a = seen.typed[k] /\ b = p[0][k] /\ c = seen.presses[k] /\ e = Due(k)
    <3>1. seen.typed[k] \in Nat /\ seen.presses[k] \in Nat
      BY <1>1, HidFacts
    <3>2. p[0][k] \in Nat
      BY <2>2, <2>3
    <3>3. Due(k) \in {0, 1}
      BY DEF Due
    <3>4. QED BY <3>1, <3>2, <3>3
  <2>5. a + e <= b /\ (seen.faults = 0 /\ ~seen.full /\ k \in Mapped => a + e = b)
    BY <2>3, <2>4 DEF Typed
  <2>6. b <= c
    BY <2>2, <2>3, <2>4 DEF Rises
  <2>7. ASSUME seen.faults = 0, kbdTd = "active", reports = <<>>, ~seen.full, k \in Mapped PROVE a = c
    <3>1. e = 0
      BY <2>4, <2>7 DEF Due
    <3>2. n = 0 /\ 1 \in 1 .. n + 1 /\ 1 - 1 = 0 /\ n + 1 = 1
      BY <2>2, <2>7
    <3>3. p[1] = seen.presses
      <4>1. p[n + 1] = seen.presses
        BY <2>2, <2>3 DEF Rises
      <4>2. QED BY <3>2, <4>1
    <3>4. Down(0) = held /\ Down(1) = held
      <4>1. Down(n) = held
        BY <2>1, <2>2, <2>7 DEF KeysCounted
      <4>2. Down(1) = held
        BY <2>2, <3>2 DEF Down
      <4>3. QED BY <3>2, <4>1, <4>2
    <3>5. p[1][k] = p[0][k] + Rise(k, held, held)
      <4>1. p[1][k] = p[1 - 1][k] + Rise(k, Down(1 - 1), Down(1))
        BY <2>2, <2>3, <2>7, <3>2 DEF Rises
      <4>2. QED BY <3>2, <3>4, <4>1
    <3>6. Rise(k, held, held) = 0
      BY Detour
    <3>7. b = c
      BY <2>4, <3>3, <3>5, <3>6
    <3>8. QED BY <2>5, <2>7, <3>1, <3>7
  <2>8. QED BY <2>4, <2>5, <2>6, <2>7
<1>3. ASSUME seen.faults = 0
      PROVE  seen.taken <= seen.moved /\ ((mouseTd = "active" /\ moves = 0) => seen.taken = seen.moved)
  <2>1. PICK a \in Nat, b \in Nat, c \in Nat : a = seen.taken /\ b = moves /\ c = seen.moved
    BY <1>1, HidFacts DEF HidTypes
  <2>2. a + b + (IF mouseTd = "done" THEN 1 ELSE 0) = c
    BY <1>3, <2>1 DEF HidInv, MouseCounted
  <2>3. QED BY <2>1, <2>2
<1>4. Mapped \subseteq Keys
  BY DEF HidSizes
<1>5. QED BY <1>2, <1>3, <1>4 DEF Hid!HidOnce

LEMMA HidTypeOK == ASSUME HidInv PROVE Hid!TypeOK
BY HidFacts DEF HidInv, HidTypes, Hid!TypeOK
=============================================================================
