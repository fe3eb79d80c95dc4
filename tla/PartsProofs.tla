---------------------------- MODULE PartsProofs ----------------------------
EXTENDS Parts, DevicesProofs, CardsProofs

Fd == INSTANCE FatDiskProofs

-----------------------------------------------------------------------------
(* The FAT volume on disk: FatDiskProofs has the argument, over the module   *)
(* Parts takes its FatOrder from.                                            *)

LEMMA FatInit == FatOrder!Init => Fd!Init
BY DEF FatOrder!Init, Fd!Init, FatOrder!Clusters, Fd!Clusters, FatOrder!NoEntry, Fd!NoEntry,
   FatOrder!NoSector, Fd!NoSector, FatOrder!Sector, Fd!Sector, FatOrder!NoCall, Fd!NoCall

LEMMA FatNext == FatOrder!Next => Fd!Next
BY DEF FatOrder!Next, FatOrder!Mounted, FatOrder!Flush1, FatOrder!Flush2, FatOrder!Load, FatOrder!AccessFails,
   FatOrder!FsCreate, FatOrder!FsWrite, FatOrder!FsUnlink, FatOrder!Walk, FatOrder!Scan, FatOrder!Link, FatOrder!Mark,
   FatOrder!Free, FatOrder!Clear, FatOrder!Data, FatOrder!DirUpdate, FatOrder!DirFails, FatOrder!Return, FatOrder!PowerCut,
   FatOrder!Call, FatOrder!Go, FatOrder!Set, FatOrder!Stepped, FatOrder!WalkFrom, FatOrder!ScanOn, FatOrder!FreeOn,
   FatOrder!Entry, FatOrder!Dir, FatOrder!Needs, FatOrder!Flushing, FatOrder!Loaded, FatOrder!MayFail, FatOrder!Clusters,
   FatOrder!NoEntry, FatOrder!NoSector, FatOrder!Sector, FatOrder!NoCall, FatOrder!Eof, FatOrder!store, FatOrder!cache, FatOrder!rest,
   Fd!Next, Fd!Mounted, Fd!Flush1, Fd!Flush2, Fd!Load, Fd!AccessFails,
   Fd!FsCreate, Fd!FsWrite, Fd!FsUnlink, Fd!Walk, Fd!Scan, Fd!Link, Fd!Mark,
   Fd!Free, Fd!Clear, Fd!Data, Fd!DirUpdate, Fd!DirFails, Fd!Return, Fd!PowerCut,
   Fd!Call, Fd!Go, Fd!Set, Fd!Stepped, Fd!WalkFrom, Fd!ScanOn, Fd!FreeOn,
   Fd!Entry, Fd!Dir, Fd!Needs, Fd!Flushing, Fd!Loaded, Fd!MayFail, Fd!Clusters,
   Fd!NoEntry, Fd!NoSector, Fd!Sector, Fd!NoCall, Fd!Eof, Fd!store, Fd!cache, Fd!rest

LEMMA FatKeeps == Fd!DiskKeeps => FatOrder!DiskKeeps
<1>0. FatOrder!Clusters = Fd!Clusters /\ FatOrder!Eof = Fd!Eof /\ FatOrder!Dir = Fd!Dir /\ FatOrder!Fat = Fd!Fat
  BY DEF FatOrder!Clusters, Fd!Clusters, FatOrder!Eof, Fd!Eof, FatOrder!Dir, Fd!Dir, FatOrder!Fat, Fd!Fat,
     FatOrder!Sector, Fd!Sector
<1>1. \A fat, c : FatOrder!Steps(fat, c) = Fd!Steps(fat, c)
  BY DEF FatOrder!Steps, Fd!Steps, FatOrder!Clusters, Fd!Clusters
<1>2. \A fat, c : FatOrder!Chain(fat, c) = Fd!Chain(fat, c)
  BY <1>0, <1>1 DEF FatOrder!Chain, Fd!Chain
<1>3. \A fat, e : FatOrder!Whole(fat, e) <=> Fd!Whole(fat, e)
  <2>1. \A S : FatOrder!Cardinality(S) = Fd!Cardinality(S)
    BY DEF FatOrder!Cardinality, Fd!Cardinality
  <2>2. QED BY <1>0, <1>1, <1>2, <2>1 DEF FatOrder!Whole, Fd!Whole
<1>4. \A fat, dir, f, g : FatOrder!Apart(fat, dir, f, g) <=> Fd!Apart(fat, dir, f, g)
  BY <1>2 DEF FatOrder!Apart, Fd!Apart
<1>5. Fd!CallsComplete => FatOrder!CallsComplete
  BY <1>0, <1>2, <1>3, <1>4, Zenon DEF Fd!CallsComplete, FatOrder!CallsComplete
<1>6. Fd!CutHurtsOne => FatOrder!CutHurtsOne
  BY <1>3, <1>4, Zenon DEF Fd!CutHurtsOne, FatOrder!CutHurtsOne
<1>7. Fd!NeverShared => FatOrder!NeverShared
  BY <1>0, <1>4, Zenon DEF Fd!NeverShared, FatOrder!NeverShared
<1>8. QED BY <1>5, <1>6, <1>7 DEF Fd!DiskKeeps, FatOrder!DiskKeeps

LEMMA FatTypes == Fd!TypeOK => FatOrder!TypeOK
BY DEF FatOrder!TypeOK, FatOrder!Dir, FatOrder!Clusters, FatOrder!Eof, FatOrder!Sector, FatOrder!NoSector,
   Fd!TypeOK, Fd!Dir, Fd!Clusters, Fd!Eof, Fd!Sector, Fd!NoSector


-----------------------------------------------------------------------------
(* The network stack: a call, its waits in ip_send, the frames in the air    *)
(* and the datagram udp_recv keeps. *)
Station == Hosts \cup {Far}
HostName == Names \cup {"-"}
Packet == [kind : {"none", "echo", "query", "pong"}, dst : Station, id : Nat,
           port : Ports \cup {0}, name : HostName]
Waiting == [hop : Hosts, own : Packet, tries : Nat, alone : BOOLEAN]
Frame == [kind : {"arpRequest", "arpReply", "ping", "echoReply"}, from : Station]
Datagram == [kind : {"dns"}, id : Nat, port : Ports \cup {0}, name : HostName, empty : BOOLEAN]
NetCall == [op : {"none", "ping", "resolve"}, pc : {"idle", "send", "sent", "wait"},
            pkt : Packet, tries : Nat, result : HostName \cup {"unreachable", "answered", "timeout"}]
Received == [port : Ports \cup {0}, ready : BOOLEAN, data : [id : Nat, name : HostName, empty : BOOLEAN]]

Travelling(S) == /\ S \subseteq Frame \cup Datagram
                 /\ \A m \in S : m.kind \in {"arpRequest", "arpReply", "ping"} => m.from \in Hosts

NetTypes ==
    /\ arp \in [1 .. ArpN -> Hosts \cup {"-"}]
    /\ buf \in Packet /\ waits \in Seq(Waiting) /\ Travelling(air)
    /\ ncall \in NetCall /\ ncalls \in 0 .. MaxCalls /\ udp \in Received

(* The ip_send calls that wait: all but the innermost have lost the buffer,  *)
(* and the outermost is the call's own as long as the call sends.            *)
Nested ==
    /\ \A i \in 1 .. Len(waits) :
          /\ waits[i].hop = Net!NextHop(waits[i].own.dst)
          /\ waits[i].alone => i = Len(waits) /\ waits[i].own = buf
    /\ Len(waits) <= MaxDepth + 1
    /\ ncall.pc = "send" => waits # <<>> /\ waits[1].own = ncall.pkt
    /\ waits # <<>> => ncall.pc = "send" \/ (ncall.pc = "wait" /\ waits[1].own.kind = "pong")

Calling ==
    /\ ncall.pc # "idle" => ncall.op # "none" /\ ncall.pkt.kind # "pong"
    /\ ncall.op = "resolve" => ncall.pkt.id = ncalls

(* A query or an answer of this number and name belongs to an earlier call,  *)
(* or to this one and its name.                                              *)
Asks(id, nam) == id <= ncalls /\ (id = ncalls /\ ncall.op = "resolve" => nam = ncall.pkt.name)

Answering ==
    /\ buf.kind = "query" => Asks(buf.id, buf.name)
    /\ \A m \in air : m.kind = "dns" => Asks(m.id, m.name)
    /\ udp.ready => Asks(udp.data.id, udp.data.name)

NetInv == NetTypes /\ Net!NetTrue /\ Nested /\ Calling /\ Answering

-----------------------------------------------------------------------------
LEMMA HopTypes == ASSUME NetSizes PROVE \A d : Net!NextHop(d) \in Hosts
BY DEF NetSizes, Net!NextHop

(* What a packet brings back travels well, and answers that packet. *)
LEMMA AnswersTravel ==
  ASSUME NetSizes, NEW mac, NEW p \in Packet
  PROVE  /\ Travelling(Net!Answers(mac, p))
         /\ \A m \in Net!Answers(mac, p) : m.kind = "dns" => p.kind = "query" /\ m.id = p.id /\ m.name = p.name
<1>1. ASSUME NEW m \in Net!Answers(mac, p)
      PROVE  \/ m = [kind |-> "echoReply", from |-> p.dst]
             \/ /\ p.kind = "query"
                /\ \E e \in BOOLEAN : m = [kind |-> "dns", id |-> p.id, port |-> p.port, name |-> p.name, empty |-> e]
  BY <1>1 DEF Net!Answers
<1>2. p.dst \in Station /\ p.id \in Nat /\ p.port \in Ports \cup {0} /\ p.name \in HostName
  BY DEF Packet
<1>3. ASSUME NEW m \in Net!Answers(mac, p)
      PROVE  /\ m \in Frame \cup Datagram
             /\ m.kind \notin {"arpRequest", "arpReply", "ping"}
             /\ m.kind = "dns" => p.kind = "query" /\ m.id = p.id /\ m.name = p.name
  <2>1. CASE m = [kind |-> "echoReply", from |-> p.dst]
    BY <2>1, <1>2 DEF Frame
  <2>2. CASE /\ p.kind = "query"
             /\ \E e \in BOOLEAN : m = [kind |-> "dns", id |-> p.id, port |-> p.port, name |-> p.name, empty |-> e]
    BY <2>2, <1>2 DEF Datagram
  <2>3. QED BY <1>1, <2>1, <2>2
<1>4. QED BY <1>3 DEF Travelling

(* eth_send: what is in the air afterwards. *)
LEMMA EthSendAir ==
  ASSUME NetSizes, NEW w, NEW rest, Travelling(rest), buf' \in Packet, Net!EthSend(w, rest)
  PROVE  /\ Travelling(air')
         /\ \A m \in air' : m.kind = "dns" => m \in rest \/ (buf'.kind = "query" /\ m.id = buf'.id /\ m.name = buf'.name)
<1>1. PICK a \in SUBSET Net!Answers(w.hop, buf') : air' = rest \cup a
  BY DEF Net!EthSend
<1>2. /\ Travelling(Net!Answers(w.hop, buf'))
      /\ \A m \in Net!Answers(w.hop, buf') : m.kind = "dns" => buf'.kind = "query" /\ m.id = buf'.id /\ m.name = buf'.name
  BY AnswersTravel
<1>3. QED BY <1>1, <1>2 DEF Travelling

LEMMA ArpRequestAir ==
  ASSUME NetSizes, NEW hop \in Hosts, NEW rest, Travelling(rest), Net!ArpRequest(hop, rest)
  PROVE  Travelling(air') /\ \A m \in air' : m.kind = "dns" => m \in rest
<1>1. air' = rest \cup {[kind |-> "arpReply", from |-> hop]}
  BY DEF Net!ArpRequest
<1>2. [kind |-> "arpReply", from |-> hop] \in Frame
  BY DEF Frame, Station
<1>3. QED BY <1>1, <1>2 DEF Travelling


(* ip_send: the packet is in the buffer, and leaves for its hop or waits     *)
(* innermost.                                                                *)
LEMMA IpSendEffect ==
  ASSUME NetSizes, NEW p \in Packet, NEW rest, Travelling(rest), waits \in Seq(Waiting),
         \A i \in 1 .. Len(waits) : waits[i].hop = Net!NextHop(waits[i].own.dst), Net!IpSend(p, rest)
  PROVE  /\ buf' = p /\ waits' \in Seq(Waiting) /\ Travelling(air')
         /\ \A m \in air' : m.kind = "dns" => m \in rest \/ (p.kind = "query" /\ m.id = p.id /\ m.name = p.name)
         /\ \A i \in 1 .. Len(waits') : /\ waits'[i].hop = Net!NextHop(waits'[i].own.dst)
                                        /\ waits'[i].alone => i = Len(waits') /\ waits'[i].own = p
         /\ \A i \in 1 .. Len(waits) : waits'[i].own = waits[i].own
         /\ IF Net!ArpFind(Net!NextHop(p.dst)) THEN Len(waits') = Len(waits)
            ELSE Len(waits') = Len(waits) + 1 /\ waits'[Len(waits) + 1].own = p
         /\ Net!ToItsHop => Net!ToItsHop'
<1> DEFINE w == [hop |-> Net!NextHop(p.dst), own |-> p, tries |-> ArpTries - 1, alone |-> TRUE]
           below == [i \in DOMAIN waits |-> [waits[i] EXCEPT !.alone = FALSE]]
<1>1. w \in Waiting
  BY HopTypes DEF Waiting, NetSizes
<1>2. /\ below \in Seq(Waiting) /\ Len(below) = Len(waits)
      /\ \A i \in 1 .. Len(waits) : /\ below[i].hop = waits[i].hop /\ below[i].own = waits[i].own
                                    /\ below[i].alone = FALSE
  <2>1. ASSUME NEW i \in 1 .. Len(waits)
        PROVE  [waits[i] EXCEPT !.alone = FALSE] \in Waiting
    <3>1. waits[i] \in Waiting
      OBVIOUS
    <3>2. QED BY <3>1 DEF Waiting
  <2>2. DOMAIN waits = 1 .. Len(waits) /\ Len(waits) \in Nat
    OBVIOUS
  <2>3. ASSUME NEW i \in 1 .. Len(waits)
        PROVE  /\ below[i].hop = waits[i].hop /\ below[i].own = waits[i].own
               /\ below[i].alone = FALSE
    <3>1. waits[i] \in Waiting /\ below[i] = [waits[i] EXCEPT !.alone = FALSE]
      BY <2>2
    <3>2. \A x \in Waiting : LET y == [x EXCEPT !.alone = FALSE]
                            IN  y.hop = x.hop /\ y.own = x.own /\ y.alone = FALSE
      BY DEF Waiting
    <3> HIDE DEF below
    <3>3. QED BY <3>1, <3>2
  <2>4. below \in [1 .. Len(waits) -> Waiting]
    BY <2>1, <2>2
  <2> HIDE DEF below
  <2>5. below \in Seq(Waiting) /\ Len(below) = Len(waits)
    BY <2>2, <2>4
  <2>6. QED BY <2>3, <2>5
<1>3. w.hop = Net!NextHop(p.dst) /\ w.own = p /\ w.alone = TRUE
  OBVIOUS
<1> HIDE DEF below
<1>4. buf' = p
  BY DEF Net!IpSend
<1>5. CASE Net!ArpFind(Net!NextHop(p.dst))
  <2>1. Net!EthSend(w, rest) /\ waits' = below
    BY <1>5 DEF Net!IpSend, below
  <2>2. Net!ToItsHop'
    BY <2>1, <1>3, <1>4 DEF Net!EthSend, Net!ToItsHop, Net!NextHop
  <2> HIDE DEF w
  <2>3. Travelling(air') /\ \A m \in air' : m.kind = "dns" => m \in rest \/ (p.kind = "query" /\ m.id = p.id /\ m.name = p.name)
    BY <2>1, <1>4, EthSendAir
  <2>4. QED BY <2>1, <2>2, <2>3, <1>2, <1>4, <1>5
<1>6. CASE ~ Net!ArpFind(Net!NextHop(p.dst))
  <2>1. Net!ArpRequest(w.hop, rest) /\ waits' = Append(below, w) /\ UNCHANGED wire
    BY <1>6 DEF Net!IpSend, below
  <2>2. Net!ToItsHop => Net!ToItsHop'
    BY <2>1 DEF Net!ToItsHop
  <2> HIDE DEF w
  <2>3. Travelling(air') /\ \A m \in air' : m.kind = "dns" => m \in rest
    BY <2>1, <1>3, HopTypes, ArpRequestAir
  <2>4. /\ waits' \in Seq(Waiting) /\ Len(waits') = Len(waits) + 1 /\ waits'[Len(waits) + 1] = w
        /\ \A i \in 1 .. Len(waits) : waits'[i] = below[i]
    BY <2>1, <1>1, <1>2
  <2>5. ASSUME NEW i \in 1 .. Len(waits')
        PROVE  /\ waits'[i].hop = Net!NextHop(waits'[i].own.dst)
               /\ waits'[i].alone => i = Len(waits') /\ waits'[i].own = p
    <3>1. CASE i = Len(waits) + 1
      BY <3>1, <2>4, <1>3
    <3>2. CASE i \in 1 .. Len(waits)
      BY <3>2, <2>4, <1>2
    <3>3. QED BY <3>1, <3>2, <2>4
  <2>6. QED BY <2>2, <2>3, <2>4, <2>5, <1>2, <1>3, <1>4, <1>6
<1>7. QED BY <1>5, <1>6

-----------------------------------------------------------------------------
(* Each action keeps the invariant.                                          *)

LEMMA NetInitially == ASSUME NetSizes, Net!Init PROVE NetInv
<1>1. Net!NoPacket \in Packet /\ Net!NoPacket.kind = "none" /\ Net!NoDatagram \in [id : Nat, name : HostName, empty : BOOLEAN]
  BY DEF Net!NoPacket, Packet, Station, HostName, Net!NoDatagram
<1>2. Net!Idle \in NetCall /\ Net!Idle.op = "none" /\ Net!Idle.pc = "idle"
  BY <1>1 DEF Net!Idle, NetCall, HostName
<1>3. NetTypes
  BY <1>1, <1>2 DEF Net!Init, NetTypes, NetSizes, Received, Travelling
<1>4. Net!NetTrue
  BY <1>2 DEF Net!Init, Net!NetTrue, Net!ArpOnce, Net!ToItsHop, Net!ResolvedRight, Net!NoWire
<1>5. Nested /\ Calling /\ Answering
  BY <1>1, <1>2 DEF Net!Init, Nested, Calling, Answering, NetSizes
<1>6. QED BY <1>3, <1>4, <1>5 DEF NetInv

LEMMA ArpInputKeeps == ASSUME NetSizes, NetInv, Net!ArpInput PROVE NetInv'
<1> USE DEF NetInv
<1>1. PICK m \in air : /\ m.kind \in {"arpRequest", "arpReply"} /\ Net!ArpInsert(m.from) /\ air' = air \ {m}
                       /\ UNCHANGED <<buf, waits, asked, ncall, ncalls, echoed, udp, wire>>
  BY DEF Net!ArpInput
<1>2. m.from \in Hosts
  BY <1>1 DEF NetTypes, Travelling
<1>3. \/ arp' = arp
      \/ ~ Net!ArpFind(m.from) /\ \E slot : arp' = [arp EXCEPT ![slot] = m.from]
  BY <1>1 DEF Net!ArpInsert
<1>4. NetTypes'
  BY <1>1, <1>2, <1>3 DEF NetTypes, Travelling
<1>5. Net!ArpOnce'
  <2>1. CASE arp' = arp
    BY <2>1 DEF Net!NetTrue, Net!ArpOnce
  <2>2. ASSUME ~ Net!ArpFind(m.from), NEW slot, arp' = [arp EXCEPT ![slot] = m.from]
        PROVE  Net!ArpOnce'
    <3> SUFFICES ASSUME NEW i \in 1 .. ArpN, NEW j \in 1 .. ArpN, arp'[i] = arp'[j], arp'[i] # "-", i # j
                 PROVE  FALSE
      BY DEF Net!ArpOnce
    <3>1. arp'[i] = (IF i = slot THEN m.from ELSE arp[i]) /\ arp'[j] = (IF j = slot THEN m.from ELSE arp[j])
      BY <2>2 DEF NetTypes
    <3>2. QED BY <3>1, <2>2 DEF Net!ArpFind, Net!NetTrue, Net!ArpOnce
  <2>3. QED BY <2>1, <2>2, <1>3
<1>6. Net!NetTrue'
  BY <1>1, <1>5 DEF Net!NetTrue, Net!ToItsHop, Net!ResolvedRight
<1>7. Nested' /\ Calling' /\ Answering'
  BY <1>1 DEF Nested, Calling, Answering, Asks
<1>8. QED BY <1>4, <1>6, <1>7

LEMMA HostSendsKeeps == ASSUME NetSizes, NetInv, Net!HostSends PROVE NetInv'
<1> USE DEF NetInv
<1>1. PICK h \in Hosts, k \in {"arpRequest", "ping"} :
         /\ air' = air \cup {[kind |-> k, from |-> h]}
         /\ UNCHANGED <<arp, buf, waits, ncall, ncalls, echoed, udp, wire>>
  BY DEF Net!HostSends
<1>2. [kind |-> k, from |-> h] \in Frame
  BY DEF Frame, Station
<1>3. NetTypes'
  BY <1>1, <1>2 DEF NetTypes, Travelling
<1>4. Net!NetTrue' /\ Nested' /\ Calling' /\ Answering'
  BY <1>1 DEF Net!NetTrue, Net!ArpOnce, Net!ToItsHop, Net!ResolvedRight, Nested, Calling, Answering, Asks
<1>5. QED BY <1>3, <1>4

LEMMA EchoReplyKeeps == ASSUME NetSizes, NetInv, Net!EchoReply PROVE NetInv'
<1> USE DEF NetInv
<1>1. air' \subseteq air /\ UNCHANGED <<arp, buf, waits, ncall, ncalls, udp, wire>>
  BY DEF Net!EchoReply
<1>2. NetTypes'
  BY <1>1 DEF NetTypes, Travelling
<1>3. Net!NetTrue' /\ Nested' /\ Calling' /\ Answering'
  BY <1>1 DEF Net!NetTrue, Net!ArpOnce, Net!ToItsHop, Net!ResolvedRight, Nested, Calling, Answering, Asks
<1>4. QED BY <1>2, <1>3

LEMMA UdpInputKeeps == ASSUME NetSizes, NetInv, Net!UdpInput PROVE NetInv'
<1> USE DEF NetInv
<1>1. PICK m \in air :
         /\ m.kind = "dns" /\ air' \subseteq air
         /\ udp' = IF udp.port # m.port \/ udp.ready THEN udp
                   ELSE [udp EXCEPT !.ready = TRUE, !.data = [id |-> m.id, name |-> m.name, empty |-> m.empty]]
         /\ UNCHANGED <<arp, buf, waits, ncall, ncalls, wire>>
  BY DEF Net!UdpInput
<1>2. m \in Datagram
  BY <1>1 DEF NetTypes, Travelling, Frame
<1>3. udp' = udp \/ (udp'.data.id = m.id /\ udp'.data.name = m.name)
  BY <1>1 DEF NetTypes, Received
<1>4. NetTypes'
  BY <1>1, <1>2 DEF NetTypes, Travelling, Received, Datagram
<1>5. Asks(m.id, m.name)
  BY <1>1 DEF Answering
<1>6. Net!NetTrue' /\ Nested' /\ Calling'
  BY <1>1 DEF Net!NetTrue, Net!ArpOnce, Net!ToItsHop, Net!ResolvedRight, Nested, Calling
<1>7. Answering'
  BY <1>1, <1>3, <1>5 DEF Answering, Asks
<1>8. QED BY <1>4, <1>6, <1>7

LEMMA StartWaitKeeps == ASSUME NetSizes, NetInv, Net!StartWait PROVE NetInv'
<1> USE DEF NetInv
<1>1. /\ ncall.pc = "sent" /\ ncall' = [ncall EXCEPT !.pc = "wait"]
      /\ udp' = IF ncall.op = "ping" THEN udp ELSE [udp EXCEPT !.port = ncall.pkt.port, !.ready = FALSE]
      /\ UNCHANGED <<arp, buf, waits, air, ncalls, wire>>
  BY DEF Net!StartWait
<1>2. /\ ncall'.pc = "wait" /\ ncall'.op = ncall.op /\ ncall'.pkt = ncall.pkt /\ ncall'.result = ncall.result
      /\ udp' = udp \/ udp'.ready = FALSE
  BY <1>1 DEF NetTypes, NetCall, Received
<1>3. NetTypes'
  BY <1>1 DEF NetTypes, NetCall, Received, Packet
<1>4. Net!NetTrue' /\ Nested' /\ Calling'
  BY <1>1, <1>2 DEF Net!NetTrue, Net!ArpOnce, Net!ToItsHop, Net!ResolvedRight, Nested, Calling
<1>5. Answering'
  BY <1>1, <1>2 DEF Answering, Asks
<1>6. QED BY <1>3, <1>4, <1>5

LEMMA PingReturnsKeeps == ASSUME NetSizes, NetInv, Net!PingReturns PROVE NetInv'
<1> USE DEF NetInv
<1>1. /\ waits = <<>> /\ ncall' = [Net!Idle EXCEPT !.result = IF echoed THEN "answered" ELSE "timeout"]
      /\ UNCHANGED <<arp, buf, waits, air, ncalls, udp, wire>>
  BY DEF Net!PingReturns
<1>2. ncall' \in NetCall /\ ncall'.op = "none" /\ ncall'.pc = "idle"
  BY <1>1 DEF Net!Idle, NetCall, HostName, Packet, Net!NoPacket, Station
<1>3. NetTypes'
  BY <1>1, <1>2 DEF NetTypes
<1>4. Net!NetTrue' /\ Nested' /\ Calling' /\ Answering'
  BY <1>1, <1>2 DEF Net!NetTrue, Net!ArpOnce, Net!ToItsHop, Net!ResolvedRight, Nested, Calling, Answering, Asks
<1>5. QED BY <1>3, <1>4

LEMMA EchoRequestKeeps == ASSUME NetSizes, NetInv, Net!EchoRequest PROVE NetInv'
<1> USE DEF NetInv
<1>1. PICK m \in air :
         /\ Net!Polling /\ m.kind = "ping" /\ Len(waits) < MaxDepth
         /\ Net!IpSend([Net!NoPacket EXCEPT !.kind = "pong", !.dst = m.from], air \ {m})
         /\ UNCHANGED <<arp, ncall, ncalls, udp>>
  BY DEF Net!EchoRequest
<1>2. PICK p : p = [Net!NoPacket EXCEPT !.kind = "pong", !.dst = m.from]
  OBVIOUS
<1>3. p \in Packet /\ p.kind = "pong"
  BY <1>1, <1>2 DEF NetTypes, Travelling, Net!NoPacket, Packet, Station, HostName
<1>4. Travelling(air \ {m}) /\ waits \in Seq(Waiting) /\ Net!IpSend(p, air \ {m})
      /\ \A i \in 1 .. Len(waits) : waits[i].hop = Net!NextHop(waits[i].own.dst)
  BY <1>1, <1>2 DEF NetTypes, Travelling, Nested
<1>5. /\ buf' = p /\ waits' \in Seq(Waiting) /\ Travelling(air')
      /\ \A n \in air' : n.kind = "dns" => n \in air
      /\ \A i \in 1 .. Len(waits') : /\ waits'[i].hop = Net!NextHop(waits'[i].own.dst)
                                     /\ waits'[i].alone => i = Len(waits') /\ waits'[i].own = p
      /\ \A i \in 1 .. Len(waits) : waits'[i].own = waits[i].own
      /\ IF Net!ArpFind(Net!NextHop(p.dst)) THEN Len(waits') = Len(waits)
         ELSE Len(waits') = Len(waits) + 1 /\ waits'[Len(waits) + 1].own = p
      /\ Net!ToItsHop'
  BY <1>3, <1>4, IpSendEffect DEF Net!NetTrue
<1>6. NetTypes'
  BY <1>1, <1>3, <1>5 DEF NetTypes
<1>7. Net!NetTrue' /\ Calling' /\ Answering'
  BY <1>1, <1>3, <1>5 DEF Net!NetTrue, Net!ArpOnce, Net!ResolvedRight, Calling, Answering, Asks
<1>8. Nested'
  <2>1. Len(waits') <= MaxDepth + 1 /\ Len(waits) \in Nat /\ Len(waits') >= Len(waits)
    BY <1>1, <1>4, <1>5 DEF NetSizes
  <2>2. CASE waits = <<>>
    <3>1. ncall.pc = "wait" /\ (waits' = <<>> \/ waits'[1].own = p)
      BY <2>2, <1>1, <1>5 DEF Net!Polling
    <3>2. QED BY <3>1, <2>1, <1>1, <1>3, <1>5 DEF Nested
  <2>3. CASE waits # <<>>
    <3>1. waits' # <<>> /\ waits'[1].own = waits[1].own
      BY <2>1, <2>3, <1>4, <1>5
    <3>2. QED BY <3>1, <2>1, <2>3, <1>1, <1>5 DEF Nested
  <2>4. QED BY <2>2, <2>3
<1>9. QED BY <1>6, <1>7, <1>8

(* icmp_ping and dns_resolve begin: the number is a new one. *)
LEMMA BeginKeeps ==
  ASSUME NetSizes, NetInv, NEW op \in {"ping", "resolve"}, NEW p \in Packet, NEW tries \in Nat,
         p.id = ncalls + 1, p.kind \in {"echo", "query"}, Net!Begin(op, p, tries), UNCHANGED <<arp, udp>>
  PROVE  NetInv'
<1> USE DEF NetInv
<1>1. /\ ncall.pc = "idle" /\ ncalls < MaxCalls /\ ncalls' = ncalls + 1
      /\ ncall' = [op |-> op, pkt |-> p, tries |-> tries, result |-> "-",
                   pc |-> IF Net!ArpFind(Net!NextHop(p.dst)) THEN "sent" ELSE "send"]
      /\ Net!IpSend(p, air)
  BY DEF Net!Begin
<1>2. Travelling(air) /\ waits \in Seq(Waiting) /\ ncalls \in Nat /\ waits = <<>> /\ Len(waits) = 0
      /\ \A i \in 1 .. Len(waits) : waits[i].hop = Net!NextHop(waits[i].own.dst)
  BY <1>1 DEF NetTypes, Nested
<1>3. /\ buf' = p /\ waits' \in Seq(Waiting) /\ Travelling(air')
      /\ \A n \in air' : n.kind = "dns" => n \in air \/ (p.kind = "query" /\ n.id = p.id /\ n.name = p.name)
      /\ \A i \in 1 .. Len(waits') : /\ waits'[i].hop = Net!NextHop(waits'[i].own.dst)
                                     /\ waits'[i].alone => i = Len(waits') /\ waits'[i].own = p
      /\ IF Net!ArpFind(Net!NextHop(p.dst)) THEN Len(waits') = Len(waits)
         ELSE Len(waits') = Len(waits) + 1 /\ waits'[Len(waits) + 1].own = p
      /\ Net!ToItsHop'
  BY <1>1, <1>2, IpSendEffect DEF Net!NetTrue
<1>4. /\ ncall'.op = op /\ ncall'.pkt = p /\ ncall'.pc = IF Net!ArpFind(Net!NextHop(p.dst)) THEN "sent" ELSE "send"
      /\ ncall' \in NetCall
  BY <1>1 DEF NetCall, HostName
<1>5. NetTypes'
  BY <1>1, <1>3, <1>4 DEF NetTypes, NetSizes
<1>6. Calling' /\ Net!ResolvedRight' /\ Net!ArpOnce'
  BY <1>1, <1>4 DEF Calling, Net!ResolvedRight, Net!NetTrue, Net!ArpOnce
<1>7. Nested'
  BY <1>2, <1>3, <1>4 DEF Nested, NetSizes
<1>8. Answering'
  <2>1. Asks(p.id, p.name)'
    BY <1>1, <1>2, <1>4 DEF Asks
  <2>2. ASSUME NEW id \in Nat, NEW nam, Asks(id, nam)
        PROVE  Asks(id, nam)'
    BY <2>2, <1>1, <1>2 DEF Asks
  <2>3. ASSUME NEW m \in air', m.kind = "dns"
        PROVE  Asks(m.id, m.name)'
    <3>1. CASE m \in air
      <4>1. m.id \in Nat /\ Asks(m.id, m.name)
        BY <2>3, <3>1 DEF NetTypes, Travelling, Frame, Datagram, Answering
      <4>2. QED BY <4>1, <2>2
    <3>2. QED BY <3>1, <2>1, <2>3, <1>3 DEF Asks
  <2>4. udp.ready => udp.data.id \in Nat /\ Asks(udp.data.id, udp.data.name)
    BY DEF NetTypes, Received, Answering
  <2>5. (udp.ready => Asks(udp.data.id, udp.data.name))'
    BY <2>2, <2>4 DEF Asks
  <2>6. (buf.kind = "query" => Asks(buf.id, buf.name))'
    BY <2>1, <1>3 DEF Asks
  <2>7. QED BY <2>3, <2>5, <2>6 DEF Answering
<1>9. QED BY <1>3, <1>5, <1>6, <1>7, <1>8 DEF Net!NetTrue

LEMMA PingKeeps == ASSUME NetSizes, NetInv, Net!Ping PROVE NetInv'
<1>1. PICK dst \in Hosts \cup {Far} :
         /\ Net!Begin("ping", [Net!NoPacket EXCEPT !.kind = "echo", !.dst = dst, !.id = ncalls + 1], 0)
         /\ UNCHANGED <<arp, udp>>
  BY DEF Net!Ping
<1>2. PICK p : p = [Net!NoPacket EXCEPT !.kind = "echo", !.dst = dst, !.id = ncalls + 1]
  OBVIOUS
<1>3. p \in Packet /\ p.kind = "echo" /\ p.id = ncalls + 1
  <2>1. ncalls + 1 \in Nat
    BY DEF NetInv, NetTypes, NetSizes
  <2>2. p = [kind |-> "echo", dst |-> dst, id |-> ncalls + 1, port |-> 0, name |-> "-"]
    BY <1>2 DEF Net!NoPacket
  <2>3. QED BY <2>1, <2>2 DEF Packet, Station, HostName
<1>4. Net!Begin("ping", p, 0) /\ UNCHANGED <<arp, udp>>
  BY <1>1, <1>2
<1>5. QED BY <1>3, <1>4, BeginKeeps

LEMMA ResolveKeeps == ASSUME NetSizes, NetInv, Net!Resolve PROVE NetInv'
<1>1. PICK n \in Names, pn \in Ports :
         /\ Net!Begin("resolve", [kind |-> "query", dst |-> Far, id |-> ncalls + 1, port |-> pn, name |-> n], DnsTries - 1)
         /\ UNCHANGED <<arp, udp>>
  BY DEF Net!Resolve
<1>2. PICK p : p = [kind |-> "query", dst |-> Far, id |-> ncalls + 1, port |-> pn, name |-> n]
  OBVIOUS
<1>3. p \in Packet /\ p.kind = "query" /\ p.id = ncalls + 1 /\ DnsTries - 1 \in Nat
  BY <1>2 DEF Packet, Station, HostName, NetInv, NetTypes, NetSizes
<1>4. Net!Begin("resolve", p, DnsTries - 1) /\ UNCHANGED <<arp, udp>>
  BY <1>1, <1>2
<1>5. QED BY <1>3, <1>4, BeginKeeps

(* dns_resolve goes on: with the answer, at the end of its tries, or with     *)
(* the same query again.                                                     *)
LEMMA ResolveGoesOnKeeps == ASSUME NetSizes, NetInv, Net!ResolveGoesOn PROVE NetInv'
<1> USE DEF NetInv
<1>1. /\ ncall.op = "resolve" /\ ncall.pc = "wait" /\ waits = <<>>
      /\ udp' = [udp EXCEPT !.port = 0, !.ready = FALSE]
      /\ UNCHANGED <<arp, ncalls>>
  BY DEF Net!ResolveGoesOn
<1>2. udp' \in Received /\ udp'.ready = FALSE
  BY <1>1 DEF NetTypes, Received
<1>3. ncall.pkt \in Packet /\ ncall.tries \in Nat /\ ncall.pkt.kind # "pong" /\ ncall.pkt.id = ncalls
  BY <1>1 DEF NetTypes, NetCall, Calling
<1>4. CASE udp.ready /\ Net!Usable(udp.data)
  <2>1. /\ ncall' = [ncall EXCEPT !.pc = "idle", !.result = udp.data.name]
        /\ UNCHANGED <<buf, waits, air, wire>>
    BY <1>4 DEF Net!ResolveGoesOn
  <2>2. udp.data.name = ncall.pkt.name /\ udp.data.name \in HostName
    BY <1>1, <1>3, <1>4 DEF Net!Usable, Answering, Asks, NetTypes, Received
  <2>3. /\ ncall' \in NetCall /\ ncall'.pc = "idle" /\ ncall'.op = "resolve" /\ ncall'.pkt = ncall.pkt
        /\ ncall'.result = ncall.pkt.name
    BY <2>1, <2>2, <1>1 DEF NetTypes, NetCall
  <2>4. NetTypes' /\ Nested' /\ Calling'
    BY <2>1, <2>3, <1>1, <1>2, <1>3 DEF NetTypes, Nested, Calling
  <2>5. Net!NetTrue'
    BY <2>1, <2>3, <1>1 DEF Net!NetTrue, Net!ArpOnce, Net!ToItsHop, Net!ResolvedRight
  <2>6. Answering'
    BY <2>1, <2>3, <1>1, <1>2 DEF Answering, Asks
  <2>7. QED BY <2>4, <2>5, <2>6
<1>5. CASE ~ (udp.ready /\ Net!Usable(udp.data)) /\ ncall.tries = 0
  <2>1. ncall' = Net!Idle /\ UNCHANGED <<buf, waits, air, wire>>
    BY <1>5 DEF Net!ResolveGoesOn
  <2>2. ncall' \in NetCall /\ ncall'.op = "none" /\ ncall'.pc = "idle"
    BY <2>1 DEF Net!Idle, NetCall, HostName, Packet, Net!NoPacket, Station
  <2>3. NetTypes' /\ Nested' /\ Calling'
    BY <2>1, <2>2, <1>1, <1>2 DEF NetTypes, Nested, Calling
  <2>4. Net!NetTrue' /\ Answering'
    BY <2>1, <2>2, <1>1, <1>2 DEF Net!NetTrue, Net!ArpOnce, Net!ToItsHop, Net!ResolvedRight, Answering, Asks
  <2>5. QED BY <2>3, <2>4
<1>6. CASE ~ (udp.ready /\ Net!Usable(udp.data)) /\ ncall.tries # 0
  <2>1. PICK p : p = ncall.pkt
    OBVIOUS
  <2>2. /\ ncall' = [ncall EXCEPT !.tries = @ - 1, !.pc = IF Net!ArpFind(Net!NextHop(p.dst)) THEN "sent" ELSE "send"]
        /\ Net!IpSend(p, air)
    BY <2>1, <1>6 DEF Net!ResolveGoesOn
  <2>3. /\ Travelling(air) /\ waits \in Seq(Waiting) /\ Len(waits) = 0
        /\ \A i \in 1 .. Len(waits) : waits[i].hop = Net!NextHop(waits[i].own.dst)
    BY <1>1 DEF NetTypes
  <2>4. /\ buf' = p /\ waits' \in Seq(Waiting) /\ Travelling(air')
        /\ \A n \in air' : n.kind = "dns" => n \in air \/ (p.kind = "query" /\ n.id = p.id /\ n.name = p.name)
        /\ \A i \in 1 .. Len(waits') : /\ waits'[i].hop = Net!NextHop(waits'[i].own.dst)
                                       /\ waits'[i].alone => i = Len(waits') /\ waits'[i].own = p
        /\ IF Net!ArpFind(Net!NextHop(p.dst)) THEN Len(waits') = Len(waits)
           ELSE Len(waits') = Len(waits) + 1 /\ waits'[Len(waits) + 1].own = p
        /\ Net!ToItsHop'
    BY <2>1, <2>2, <2>3, <1>3, IpSendEffect DEF Net!NetTrue
  <2>5. /\ ncall' \in NetCall /\ ncall'.op = "resolve" /\ ncall'.pkt = p
        /\ ncall'.pc = IF Net!ArpFind(Net!NextHop(p.dst)) THEN "sent" ELSE "send"
    <3>1. PICK s \in {"sent", "send"} : s = IF Net!ArpFind(Net!NextHop(p.dst)) THEN "sent" ELSE "send"
      OBVIOUS
    <3>2. ncall' = [ncall EXCEPT !.tries = @ - 1, !.pc = s] /\ ncall \in NetCall /\ ncall.tries - 1 \in Nat
      BY <2>2, <3>1, <1>3, <1>6 DEF NetTypes
    <3>3. QED BY <3>1, <3>2, <2>1, <1>1 DEF NetCall
  <2>6. NetTypes' /\ Calling'
    BY <2>1, <2>4, <2>5, <1>1, <1>2, <1>3 DEF NetTypes, Calling
  <2>7. Nested'
    BY <2>3, <2>4, <2>5 DEF Nested, NetSizes
  <2>8. Net!ArpOnce' /\ Net!ResolvedRight'
    BY <2>5, <1>1 DEF Net!NetTrue, Net!ArpOnce, Net!ResolvedRight
  <2>9. Answering'
    <3>1. p.id \in Nat /\ Asks(p.id, p.name)'
      BY <2>1, <2>5, <1>1, <1>3 DEF Asks, Packet
    <3>2. ASSUME NEW m \in air', m.kind = "dns"
          PROVE  Asks(m.id, m.name)'
      <4>1. CASE m \in air
        BY <4>1, <3>2, <2>1, <2>5, <1>1 DEF Answering, Asks
      <4>2. QED BY <4>1, <3>1, <3>2, <2>4 DEF Asks
    <3>3. QED BY <3>1, <3>2, <2>4, <1>2 DEF Answering, Asks
  <2>10. QED BY <2>4, <2>6, <2>7, <2>8, <2>9 DEF Net!NetTrue
<1>7. QED BY <1>4, <1>5, <1>6

(* The wait of the innermost ip_send is over. *)
LEMMA WaitOverKeeps == ASSUME NetSizes, NetInv, Net!WaitOver PROVE NetInv'
<1> USE DEF NetInv
<1>1. PICK w : w = waits[Len(waits)]
  OBVIOUS
<1>2. PICK n : n = Len(waits)
  OBVIOUS
<1>3. /\ n \in Nat \ {0} /\ waits \in Seq(Waiting) /\ waits # <<>> /\ w = waits[n] /\ w \in Waiting
      /\ w.hop = Net!NextHop(w.own.dst) /\ w.hop \in Hosts /\ (w.alone => w.own = buf)
  <2>1. waits # <<>> /\ waits \in Seq(Waiting)
    BY DEF Net!WaitOver, NetTypes
  <2>2. n \in Nat \ {0} /\ w = waits[n] /\ w \in Waiting /\ n \in 1 .. Len(waits)
    BY <2>1, <1>1, <1>2
  <2>3. waits[n].hop = Net!NextHop(waits[n].own.dst) /\ (waits[n].alone => waits[n].own = buf)
    BY <2>2 DEF Nested
  <2>4. w.hop \in Hosts
    BY <2>2 DEF Waiting
  <2>5. QED BY <2>1, <2>2, <2>3, <2>4
<1>4. UNCHANGED <<arp, buf, ncalls, udp>>
  BY DEF Net!WaitOver
<1>5. CASE ~Net!ArpFind(w.hop) /\ w.tries > 0
  <2>1. /\ Net!ArpRequest(w.hop, air) /\ waits' = [waits EXCEPT ![n].tries = @ - 1] /\ UNCHANGED <<wire, ncall>>
    BY <1>1, <1>2, <1>5 DEF Net!WaitOver
  <2>2. Travelling(air') /\ \A m \in air' : m.kind = "dns" => m \in air
    BY <2>1, <1>3, ArpRequestAir DEF NetTypes
  <2>3. PICK v : v = [w EXCEPT !.tries = @ - 1]
    OBVIOUS
  <2>4. v \in Waiting /\ v.hop = w.hop /\ v.own = w.own /\ v.alone = w.alone
    BY <2>3, <1>3, <1>5 DEF Waiting
  <2>5. waits' = [waits EXCEPT ![n] = v]
    BY <2>1, <2>3, <1>3
  <2>6. /\ waits' \in Seq(Waiting) /\ Len(waits') = n /\ waits'[n] = v
        /\ \A i \in 1 .. n : i # n => waits'[i] = waits[i]
    BY <2>4, <2>5, <1>2, <1>3
  <2>7. ASSUME NEW i \in 1 .. n
        PROVE  /\ waits'[i].hop = waits[i].hop /\ waits'[i].own = waits[i].own
               /\ waits'[i].alone = waits[i].alone
    BY <2>4, <2>6, <1>3
  <2>8. NetTypes' /\ Net!NetTrue' /\ Calling' /\ Answering'
    BY <2>1, <2>2, <2>6, <1>4 DEF NetTypes, Net!NetTrue, Net!ArpOnce, Net!ToItsHop, Net!ResolvedRight, Calling, Answering, Asks
  <2>9. Nested'
    BY <2>1, <2>6, <2>7, <1>2, <1>3, <1>4 DEF Nested
  <2>10. QED BY <2>8, <2>9
<1>6. CASE Net!ArpFind(w.hop) \/ ~ (w.tries > 0)
  <2>1. /\ IF Net!ArpFind(w.hop) THEN Net!EthSend(w, air) ELSE UNCHANGED <<wire, air>>
        /\ waits' = SubSeq(waits, 1, n - 1)
        /\ ncall' = IF n > 1 \/ ncall.pc # "send" THEN ncall
                    ELSE IF Net!ArpFind(w.hop) \/ ncall.op = "resolve" THEN [ncall EXCEPT !.pc = "sent"]
                    ELSE [Net!Idle EXCEPT !.result = "unreachable"]
    BY <1>1, <1>2, <1>6 DEF Net!WaitOver
  <2>2. /\ waits' \in Seq(Waiting) /\ Len(waits') = n - 1 /\ \A i \in 1 .. n - 1 : waits'[i] = waits[i]
    BY <2>1, <1>2, <1>3
  <2>3. /\ Travelling(air')
        /\ \A m \in air' : m.kind = "dns" => m \in air \/ (buf.kind = "query" /\ m.id = buf.id /\ m.name = buf.name)
    <3>1. CASE Net!ArpFind(w.hop)
      <4>1. Net!EthSend(w, air) /\ Travelling(air) /\ buf' \in Packet
        BY <3>1, <2>1, <1>4 DEF NetTypes
      <4>2. QED BY <4>1, <1>4, EthSendAir
    <3>2. CASE ~ Net!ArpFind(w.hop)
      BY <3>2, <2>1 DEF NetTypes
    <3>3. QED BY <3>1, <3>2
  <2>4. Net!ToItsHop'
    BY <2>1, <1>3, <1>4 DEF Net!NetTrue, Net!EthSend, Net!ToItsHop, Net!NextHop
  <2>5. /\ ncall' \in NetCall /\ (ncall'.op = "resolve" => ncall.op = "resolve" /\ ncall'.pkt = ncall.pkt)
        /\ ncall'.pc # "idle" => ncall'.op = ncall.op /\ ncall'.pkt = ncall.pkt /\ ncall.pc # "idle"
        /\ ncall'.pc = "idle" /\ ncall'.op = "resolve" => ncall' = ncall
        /\ ncall' = ncall \/ (n = 1 /\ ncall'.pc \in {"sent", "idle"})
        /\ n = 1 /\ ncall.pc = "send" => ncall'.pc # "send"
    <3>1. CASE n > 1 \/ ncall.pc # "send"
      BY <3>1, <2>1 DEF NetTypes
    <3>2. CASE ~ (n > 1 \/ ncall.pc # "send") /\ (Net!ArpFind(w.hop) \/ ncall.op = "resolve")
      BY <3>2, <2>1, <1>3 DEF NetTypes, NetCall
    <3>3. CASE ~ (n > 1 \/ ncall.pc # "send") /\ ~ (Net!ArpFind(w.hop) \/ ncall.op = "resolve")
      <4>1. ncall' \in NetCall /\ ncall'.op = "none" /\ ncall'.pc = "idle"
        BY <3>3, <2>1 DEF Net!Idle, NetCall, HostName, Packet, Net!NoPacket, Station
      <4>2. QED BY <4>1, <3>3, <1>3
    <3>4. QED BY <3>1, <3>2, <3>3
  <2>6. NetTypes' /\ Calling'
    BY <2>2, <2>3, <2>5, <1>4 DEF NetTypes, Calling
  <2>7. Net!NetTrue'
    BY <2>4, <2>5, <1>4 DEF Net!NetTrue, Net!ArpOnce, Net!ResolvedRight
  <2>8. Nested'
    <3>1. \A i \in 1 .. Len(waits') : /\ waits'[i].hop = Net!NextHop(waits'[i].own.dst)
                                      /\ waits'[i].alone => i = Len(waits') /\ waits'[i].own = buf'
      BY <2>2, <1>2, <1>3 DEF Nested
    <3>2. CASE n = 1
      <4>1. waits' = <<>>
        BY <3>2, <2>2
      <4>2. ncall'.pc # "send"
        BY <3>2, <2>5
      <4>3. QED BY <4>1, <4>2, <3>1 DEF Nested, NetSizes
    <3>3. CASE n # 1
      <4>1. ncall' = ncall /\ waits' # <<>> /\ waits'[1] = waits[1] /\ Len(waits') <= Len(waits)
        BY <3>3, <2>2, <2>5, <1>2, <1>3
      <4>2. QED BY <4>1, <3>1, <1>2, <1>3 DEF Nested, NetSizes
    <3>4. QED BY <3>2, <3>3
  <2>9. Answering'
    <3>1. ASSUME NEW id, NEW nam, Asks(id, nam)
          PROVE  Asks(id, nam)'
      BY <3>1, <2>5, <1>4 DEF Asks
    <3>2. QED BY <3>1, <2>3, <1>4 DEF Answering
  <2>10. QED BY <2>6, <2>7, <2>8, <2>9
<1>7. QED BY <1>5, <1>6

LEMMA NetStepKeeps == ASSUME NetSizes, NetInv, [Net!Next]_(Net!nsVars) PROVE NetInv'
<1>1. CASE UNCHANGED Net!nsVars
  BY <1>1 DEF Net!nsVars, NetInv, NetTypes, Net!NetTrue, Net!ArpOnce, Net!ToItsHop, Net!ResolvedRight, Nested, Calling, Answering, Asks
<1>2. CASE Net!Next
  BY <1>2, WaitOverKeeps, HostSendsKeeps, ArpInputKeeps, EchoRequestKeeps, EchoReplyKeeps, UdpInputKeeps,
     PingKeeps, ResolveKeeps, StartWaitKeeps, PingReturnsKeeps, ResolveGoesOnKeeps DEF Net!Next
<1>3. QED BY <1>1, <1>2

LEMMA NetTypeOK == ASSUME NetSizes, NetInv PROVE Net!TypeOK
<1>1. ncall.pc = "send" <=> waits # <<>> /\ waits[1].own = ncall.pkt
  BY DEF NetInv, Nested, Calling
<1>2. QED BY <1>1 DEF NetInv, NetTypes, NetCall, Received, Nested, Net!TypeOK

-----------------------------------------------------------------------------
(* The windows of the desktop: the table, the order and what is held.        *)
Widget == [used : BOOLEAN, kind : Kinds \cup {"-"}, r : Int, c : Int, w : Int, h : Int,
           focused : BOOLEAN, minimized : BOOLEAN]
Grips == [what : {"none", "drag", "resize"}, i : Windows!Slot, dc : Int, dr : Int]

DtTypes ==
    /\ win \in [Windows!Slot -> Widget] /\ order \in Seq(Windows!Slot) /\ grip \in Grips
    /\ chips \subseteq Windows!Slot /\ note \in 0 .. NoteCap /\ noteFile \in 0 .. NoteCap
    /\ running \in BOOLEAN /\ pressed \in BOOLEAN /\ hidden \subseteq Windows!Slot

(* The order lists the used entries, each once. *)
Lists(o, ws) ==
    /\ \A p, q \in 1 .. Len(o) : o[p] = o[q] => p = q
    /\ \A i \in Windows!Slot : ws[i].used <=> \E p \in 1 .. Len(o) : o[p] = i

(* A window in use has its kind, a size that fits, a place that can be kept. *)
Rect(w) == [r |-> w.r, c |-> w.c, w |-> w.w, h |-> w.h]
Sound(w, i) ==
    w.used =>
        /\ w.kind \in Kinds
        /\ MinW <= w.w /\ w.w <= Cols /\ MinH <= w.h /\ w.h <= Rows - 2
        /\ w.kind \in Resizable => /\ 0 <= w.c /\ w.c + MinW <= Cols
                                   /\ 1 <= w.r /\ w.r + MinH <= Rows - 1
        /\ Rect(w) # Windows!At(w.kind, i) => w.c >= 0 /\ w.c + w.w <= Cols /\ w.r >= 1 /\ w.r + w.h <= Rows - 1

Holding ==
    /\ pressed = (grip # Windows!NoGrip) /\ (grip # Windows!NoGrip => grip.what # "none" /\ running)
    /\ grip.what = "resize" => win[grip.i].kind \in Resizable

DtInv ==
    /\ DtTypes /\ Lists(order, win) /\ \A i \in Windows!Slot : Sound(win[i], i)
    /\ Windows!OneFocus /\ Windows!HeldOnTop /\ Windows!KeysSeen /\ Holding /\ ~win[0].minimized

-----------------------------------------------------------------------------
LEMMA Greatest ==
  ASSUME NEW n \in Nat, NEW S \in SUBSET (0 .. n), S # {}
  PROVE  \E x \in S : \A y \in S : x >= y
<1> DEFINE T == {n - x : x \in S}
<1>1. T \in SUBSET Nat /\ T # {}
  <2>1. \A x \in S : x \in 0 .. n
    OBVIOUS
  <2>2. \A x \in S : n - x \in Nat
    BY <2>1
  <2>3. PICK x \in S : TRUE
    OBVIOUS
  <2>4. n - x \in T
    BY <2>3
  <2>5. QED BY <2>2, <2>4
<1>2. PICK m \in T : \A k \in T : m <= k
  <2> HIDE DEF T
  <2> QED BY <1>1, LeastElement
<1>3. PICK x \in S : m = n - x
  BY <1>2
<1>4. \A y \in S : n - x <= n - y
  BY <1>2, <1>3
<1>5. QED BY <1>4

(* What only changes who has the focus, or hides, leaves a window sound.     *)
Alike(a, b) == /\ a.used = b.used /\ a.kind = b.kind
               /\ a.r = b.r /\ a.c = b.c /\ a.w = b.w /\ a.h = b.h

LEMMA SoundAlike ==
  ASSUME NEW a, NEW b, NEW i, Alike(a, b), Sound(a, i)
  PROVE  Sound(b, i)
BY DEF Alike, Sound, Rect

LEMMA FocusedEffect ==
  ASSUME NEW ws \in [Windows!Slot -> Widget], NEW i
  PROVE  /\ Windows!Focused(ws, i) \in [Windows!Slot -> Widget]
         /\ \A j \in Windows!Slot : /\ Alike(ws[j], Windows!Focused(ws, i)[j])
                                    /\ Windows!Focused(ws, i)[j].minimized = ws[j].minimized
                                    /\ Windows!Focused(ws, i)[j].focused <=> j = i
<1>1. ASSUME NEW j \in Windows!Slot
      PROVE  /\ Windows!Focused(ws, i)[j] \in Widget
             /\ Alike(ws[j], Windows!Focused(ws, i)[j])
             /\ Windows!Focused(ws, i)[j].minimized = ws[j].minimized
             /\ Windows!Focused(ws, i)[j].focused = (j = i)
  <2>1. PICK b \in BOOLEAN : b = (j = i)
    OBVIOUS
  <2>2. PICK x \in Widget : x = ws[j]
    OBVIOUS
  <2>3. Windows!Focused(ws, i)[j] = [x EXCEPT !.focused = b]
    BY <2>1, <2>2 DEF Windows!Focused
  <2>4. /\ [x EXCEPT !.focused = b] \in Widget
        /\ [x EXCEPT !.focused = b].focused = b
        /\ [x EXCEPT !.focused = b].minimized = x.minimized
        /\ Alike(x, [x EXCEPT !.focused = b])
    BY DEF Widget, Alike
  <2>5. QED BY <2>1, <2>2, <2>3, <2>4
<1>2. Windows!Focused(ws, i) = [j \in Windows!Slot |-> Windows!Focused(ws, i)[j]]
  BY DEF Windows!Focused
<1>3. QED BY <1>1, <1>2

LEMMA PutEffect ==
  ASSUME DtSizes, NEW w \in Widget, NEW k \in Kinds, NEW i \in Windows!Slot
  PROVE  /\ Windows!Put(w, k, i) \in Widget /\ Windows!Put(w, k, i).used = TRUE /\ Windows!Put(w, k, i).kind = k
         /\ Windows!Put(w, k, i).focused = w.focused /\ Windows!Put(w, k, i).minimized = w.minimized
         /\ Sound(Windows!Put(w, k, i), i)
<1>1. Windows!At(k, i) \in [r : Int, c : Int, w : Int, h : Int]
  BY DEF Windows!At, DtSizes, Windows!Slot
<1>2. PICK a \in [r : Int, c : Int, w : Int, h : Int] : a = Windows!At(k, i)
  BY <1>1
<1>3. PICK x : x = Windows!Put(w, k, i)
  OBVIOUS
<1>4. x = [w EXCEPT !.used = TRUE, !.kind = k, !.r = a.r, !.c = a.c, !.w = a.w, !.h = a.h]
  BY <1>2, <1>3 DEF Windows!Put
<1>5. /\ x \in Widget /\ x.used = TRUE /\ x.kind = k /\ x.focused = w.focused /\ x.minimized = w.minimized
      /\ x.r = a.r /\ x.c = a.c /\ x.w = a.w /\ x.h = a.h
  BY <1>4 DEF Widget
<1>6. Rect(x) = a
  BY <1>5 DEF Rect
<1>7. a.w = Place[k].w /\ a.h = Place[k].h
  BY <1>2 DEF Windows!At
<1>8. Sound(x, i)
  BY <1>2, <1>5, <1>6, <1>7 DEF Sound, DtSizes
<1>9. QED BY <1>3, <1>5, <1>8

LEMMA DraggedEffect ==
  ASSUME DtSizes, NEW x \in Widget, NEW i \in Windows!Slot, x.used, Sound(x, i), NEW c \in Int, NEW r \in Int
  PROVE  LET y == Windows!Dragged(x, c, r) IN
         /\ y \in Widget /\ y.used = x.used /\ y.kind = x.kind /\ y.focused = x.focused /\ y.minimized = x.minimized
         /\ Sound(y, i)
<1>1. PICK nc \in Int : nc = Windows!Most(0, c)
  BY DEF Windows!Most
<1>2. PICK nr \in Int : nr = Windows!Most(1, r)
  BY DEF Windows!Most
<1>3. nc >= 0 /\ nr >= 1
  BY <1>1, <1>2 DEF Windows!Most
<1>4. x.w \in Int /\ x.h \in Int /\ Cols \in Nat /\ Rows \in Nat /\ MinW \in Nat /\ MinH \in Nat
  BY DEF Widget, DtSizes
<1>5. PICK fc \in Int : fc = IF nc + x.w > Cols THEN Cols - x.w ELSE nc
  BY <1>4
<1>6. PICK fr \in Int : fr = IF nr + x.h > Rows - 1 THEN Rows - 1 - x.h ELSE nr
  BY <1>4
<1>7. PICK y : y = Windows!Dragged(x, c, r)
  OBVIOUS
<1>8. y = [x EXCEPT !.c = fc, !.r = fr]
  BY <1>1, <1>2, <1>5, <1>6, <1>7 DEF Windows!Dragged
<1>9. /\ y \in Widget /\ y.used = x.used /\ y.kind = x.kind /\ y.focused = x.focused /\ y.minimized = x.minimized
      /\ y.w = x.w /\ y.h = x.h /\ y.c = fc /\ y.r = fr
  BY <1>8 DEF Widget
<1>10. /\ x.kind \in Kinds /\ MinW <= x.w /\ x.w <= Cols /\ MinH <= x.h /\ x.h <= Rows - 2
  BY DEF Sound
<1>11. fc >= 0 /\ fc + x.w <= Cols /\ fr >= 1 /\ fr + x.h <= Rows - 1
  BY <1>3, <1>4, <1>5, <1>6, <1>10
<1>12. fc + MinW <= Cols /\ fr + MinH <= Rows - 1
  BY <1>4, <1>10, <1>11
<1>13. Sound(y, i)
  BY <1>9, <1>10, <1>11, <1>12 DEF Sound
<1>14. QED BY <1>7, <1>9, <1>13

LEMMA ResizedEffect ==
  ASSUME DtSizes, NEW x \in Widget, NEW i \in Windows!Slot, x.used, x.kind \in Resizable, Sound(x, i),
         NEW c \in Int, NEW r \in Int
  PROVE  LET y == Windows!Resized(x, c, r) IN
         /\ y \in Widget /\ y.used = x.used /\ y.kind = x.kind /\ y.focused = x.focused /\ y.minimized = x.minimized
         /\ Sound(y, i)
<1>1. x.c \in Int /\ x.r \in Int /\ Cols \in Nat /\ Rows \in Nat /\ MinW \in Nat /\ MinH \in Nat
  BY DEF Widget, DtSizes
<1>2. 0 <= x.c /\ x.c + MinW <= Cols /\ 1 <= x.r /\ x.r + MinH <= Rows - 1 /\ x.kind \in Kinds
  BY DEF Sound
<1>3. PICK nw \in Int : nw = Windows!Least(Windows!Most(MinW, c - x.c + 1), Cols - x.c)
  BY <1>1 DEF Windows!Least, Windows!Most
<1>4. PICK nh \in Int : nh = Windows!Least(Windows!Most(MinH, r - x.r + 1), Rows - 1 - x.r)
  BY <1>1 DEF Windows!Least, Windows!Most
<1>5. MinW <= nw /\ nw <= Cols - x.c
  BY <1>1, <1>2, <1>3 DEF Windows!Least, Windows!Most
<1>6. MinH <= nh /\ nh <= Rows - 1 - x.r
  BY <1>1, <1>2, <1>4 DEF Windows!Least, Windows!Most
<1>7. PICK y : y = Windows!Resized(x, c, r)
  OBVIOUS
<1>8. y = [x EXCEPT !.w = nw, !.h = nh]
  BY <1>3, <1>4, <1>7 DEF Windows!Resized
<1>9. /\ y \in Widget /\ y.used = x.used /\ y.kind = x.kind /\ y.focused = x.focused /\ y.minimized = x.minimized
      /\ y.w = nw /\ y.h = nh /\ y.c = x.c /\ y.r = x.r
  BY <1>8 DEF Widget
<1>10. /\ nw <= Cols /\ nh <= Rows - 2 /\ x.c + nw <= Cols /\ x.r + nh <= Rows - 1
  BY <1>1, <1>2, <1>5, <1>6
<1>11. Sound(y, i)
  BY <1>2, <1>5, <1>6, <1>9, <1>10 DEF Sound
<1>12. QED BY <1>7, <1>9, <1>11

-----------------------------------------------------------------------------
(* Where no window is held, nothing moves; the one that is held moves alone. *)
LEMMA MovedEffect ==
  ASSUME DtSizes, NEW ws \in [Windows!Slot -> Widget], NEW g \in Grips, NEW c \in Int, NEW r \in Int,
         \A j \in Windows!Slot : Sound(ws[j], j),
         g.what # "none" => ws[g.i].used,
         g.what = "resize" => ws[g.i].kind \in Resizable
  PROVE  LET vs == Windows!Moved(ws, g, c, r) IN
         /\ vs \in [Windows!Slot -> Widget]
         /\ \A j \in Windows!Slot : /\ vs[j].used = ws[j].used /\ vs[j].kind = ws[j].kind
                                    /\ vs[j].focused = ws[j].focused /\ vs[j].minimized = ws[j].minimized
                                    /\ Sound(vs[j], j)
<1>1. g.i \in Windows!Slot /\ g.dc \in Int /\ g.dr \in Int /\ g.what \in {"none", "drag", "resize"}
  BY DEF Grips
<1>2. CASE g.what = "drag"
  <2>1. PICK dc \in Int : dc = c - g.dc
    BY <1>1
  <2>2. PICK dr \in Int : dr = r - g.dr
    BY <1>1
  <2>3. PICK x \in Widget : x = ws[g.i]
    BY <1>1
  <2>4. PICK y : y = Windows!Dragged(x, dc, dr)
    OBVIOUS
  <2>5. /\ y \in Widget /\ y.used = x.used /\ y.kind = x.kind /\ y.focused = x.focused /\ y.minimized = x.minimized
        /\ Sound(y, g.i)
    BY <1>1, <1>2, <2>3, <2>4, DraggedEffect
  <2>6. Windows!Moved(ws, g, c, r) = [ws EXCEPT ![g.i] = y]
    BY <1>2, <2>1, <2>2, <2>3, <2>4 DEF Windows!Moved
  <2>7. QED BY <1>1, <2>3, <2>5, <2>6
<1>3. CASE g.what = "resize"
  <2>3. PICK x \in Widget : x = ws[g.i]
    BY <1>1
  <2>4. PICK y : y = Windows!Resized(x, c, r)
    OBVIOUS
  <2>5. /\ y \in Widget /\ y.used = x.used /\ y.kind = x.kind /\ y.focused = x.focused /\ y.minimized = x.minimized
        /\ Sound(y, g.i)
    BY <1>1, <1>3, <2>3, <2>4, ResizedEffect
  <2>6. Windows!Moved(ws, g, c, r) = [ws EXCEPT ![g.i] = y]
    BY <1>3, <2>3, <2>4 DEF Windows!Moved
  <2>7. QED BY <1>1, <2>3, <2>5, <2>6
<1>4. CASE g.what = "none"
  <2>1. Windows!Moved(ws, g, c, r) = ws
    BY <1>4 DEF Windows!Moved
  <2>2. QED BY <2>1
<1>5. QED BY <1>1, <1>2, <1>3, <1>4

(* Taking an entry out of the order leaves the others, in their order. *)
LEMMA WithoutEffect ==
  ASSUME DtSizes, order \in Seq(Windows!Slot), NEW i \in Windows!Slot,
         \A p, q \in 1 .. Len(order) : order[p] = order[q] => p = q
  PROVE  /\ Windows!Without(i) \in Seq(Windows!Slot)
         /\ \A p, q \in 1 .. Len(Windows!Without(i)) : Windows!Without(i)[p] = Windows!Without(i)[q] => p = q
         /\ \A j \in Windows!Slot : (\E p \in 1 .. Len(Windows!Without(i)) : Windows!Without(i)[p] = j)
                            <=> j # i /\ \E p \in 1 .. Len(order) : order[p] = j
<1> DEFINE at == {p \in 1 .. Len(order) : order[p] = i}
<1>1. CASE at = {}
  BY <1>1 DEF Windows!Without
<1>2. CASE at # {}
  <2>1. PICK m \in 1 .. Len(order) : order[m] = i
    BY <1>2
  <2>2. at = {m}
    BY <2>1
  <2>3. Windows!Min(at) = m
    BY <2>2 DEF Windows!Min
  <2>4. PICK s : s = [p \in 1 .. Len(order) - 1 |-> IF p < m THEN order[p] ELSE order[p + 1]]
    OBVIOUS
  <2>5. Windows!Without(i) = s
    <3>1. Len(order) \in Nat /\ m \in Nat /\ m >= 1 /\ m <= Len(order)
      BY <2>1
    <3>2. PICK a \in Seq(Windows!Slot) : a = SubSeq(order, 1, m - 1)
      <4>1. \A q \in 1 .. m - 1 : order[q] \in Windows!Slot
        BY <3>1
      <4>2. 1 \in Int /\ m - 1 \in Int
        BY <3>1
      <4>3. QED BY <4>1, <4>2, SubSeqProperties, Zenon
    <3>3. PICK b \in Seq(Windows!Slot) : b = SubSeq(order, m + 1, Len(order))
      <4>1. \A q \in m + 1 .. Len(order) : order[q] \in Windows!Slot
        BY <3>1
      <4>2. m + 1 \in Int /\ Len(order) \in Int
        BY <3>1
      <4>3. QED BY <4>1, <4>2, SubSeqProperties, Zenon
    <3>4. Len(a) = m - 1 /\ \A p \in 1 .. m - 1 : a[p] = order[p]
      BY <3>1, <3>2
    <3>5. Len(b) = Len(order) - m /\ \A p \in 1 .. Len(order) - m : b[p] = order[m + p]
      BY <3>1, <3>3
    <3>6. PICK t \in Seq(Windows!Slot) : t = a \o b
      BY ConcatProperties
    <3>0. Len(t) = Len(a) + Len(b)
          /\ \A p \in 1 .. Len(a) + Len(b) : t[p] = IF p <= Len(a) THEN a[p] ELSE b[p - Len(a)]
      <4>1. Len(a \o b) = Len(a) + Len(b)
            /\ \A p \in 1 .. Len(a) + Len(b) : (a \o b)[p] = IF p <= Len(a) THEN a[p] ELSE b[p - Len(a)]
        BY ConcatProperties
      <4>2. QED BY <3>6, <4>1, Zenon
    <3>7. Len(t) = Len(order) - 1
      BY <3>0, <3>1, <3>4, <3>5
    <3>8. ASSUME NEW p \in 1 .. Len(order) - 1
          PROVE  t[p] = IF p < m THEN order[p] ELSE order[p + 1]
      <4>1. CASE p < m
        <5>1. p \in 1 .. m - 1 /\ p \in 1 .. Len(a) + Len(b) /\ p <= Len(a)
          BY <3>1, <3>4, <3>5, <4>1
        <5>2. t[p] = a[p]
          BY <3>0, <5>1
        <5>3. a[p] = order[p]
          BY <3>4, <5>1
        <5>4. QED BY <4>1, <5>2, <5>3, Zenon
      <4>2. CASE ~ (p < m)
        <5>1. p - (m - 1) \in 1 .. Len(order) - m /\ m + (p - (m - 1)) = p + 1
          BY <3>1, <4>2
        <5>2. t[p] = b[p - (m - 1)]
          <6>1. p \in 1 .. Len(a) + Len(b) /\ ~(p <= Len(a)) /\ p - Len(a) = p - (m - 1)
            BY <3>1, <3>4, <3>5, <4>2
          <6>2. t[p] = b[p - Len(a)]
            BY <3>0, <6>1
          <6>3. QED BY <6>1, <6>2, Zenon
        <5>3. QED BY <3>5, <4>2, <5>1, <5>2
      <4>3. QED BY <4>1, <4>2
    <3>9. t = [p \in 1 .. Len(order) - 1 |-> t[p]]
      BY <3>7
    <3>10. t = s
      BY <2>4, <3>8, <3>9
    <3>11. Windows!Without(i) = t
      BY <1>2, <2>3, <3>2, <3>3, <3>6 DEF Windows!Without, Windows!RemoveAt
    <3>12. QED BY <3>10, <3>11
  <2>6. Len(order) \in Nat /\ Len(order) - 1 \in Nat
    BY <2>1
  <2>7. s \in [1 .. Len(order) - 1 -> Windows!Slot]
    BY <2>1, <2>4
  <2>8. s \in Seq(Windows!Slot) /\ Len(s) = Len(order) - 1
    BY <2>6, <2>7
  <2>9. \A p \in 1 .. Len(s) : s[p] = IF p < m THEN order[p] ELSE order[p + 1]
    BY <2>4, <2>8
  <2>10. \A p, q \in 1 .. Len(s) : s[p] = s[q] => p = q
    BY <2>1, <2>8, <2>9
  <2>11. ASSUME NEW j \in Windows!Slot
         PROVE  (\E p \in 1 .. Len(s) : s[p] = j) <=> j # i /\ \E p \in 1 .. Len(order) : order[p] = j
    <3>1. ASSUME NEW p \in 1 .. Len(s), s[p] = j
          PROVE  j # i /\ \E q \in 1 .. Len(order) : order[q] = j
      BY <2>1, <2>6, <2>8, <2>9, <3>1, SMTT(20)
    <3>2. ASSUME j # i, NEW q \in 1 .. Len(order), order[q] = j
          PROVE  \E p \in 1 .. Len(s) : s[p] = j
      <4>1. CASE q < m
        <5>1. q \in 1 .. Len(s) /\ s[q] = j
          BY <2>1, <2>6, <2>8, <2>9, <3>2, <4>1
        <5>2. QED BY <5>1
      <4>2. CASE q > m
        <5>1. q - 1 \in 1 .. Len(s) /\ ~ (q - 1 < m) /\ (q - 1) + 1 = q
          BY <2>1, <2>6, <2>8, <4>2
        <5>2. s[q - 1] = j
          BY <2>9, <3>2, <5>1
        <5>3. QED BY <5>1, <5>2
      <4>3. CASE q = m
        BY <2>1, <3>2, <4>3
      <4>4. QED BY <2>1, <4>1, <4>2, <4>3
    <3>3. QED BY <3>1, <3>2
  <2>12. QED BY <2>5, <2>8, <2>10, <2>11
<1>3. QED BY <1>1, <1>2

LEMMA RaisedEffect ==
  ASSUME DtSizes, NEW ws, order \in Seq(Windows!Slot), Lists(order, ws), NEW i \in Windows!Slot, ws[i].used
  PROVE  Windows!Raised(i) \in Seq(Windows!Slot) /\ Lists(Windows!Raised(i), ws) /\ Windows!Last(Windows!Raised(i)) = i /\ Windows!Raised(i) # <<>>
<1>1. PICK s : s = Windows!Without(i)
  OBVIOUS
<1>2. /\ s \in Seq(Windows!Slot)
      /\ \A p, q \in 1 .. Len(s) : s[p] = s[q] => p = q
      /\ \A j \in Windows!Slot : (\E p \in 1 .. Len(s) : s[p] = j) <=> j # i /\ \E p \in 1 .. Len(order) : order[p] = j
  <2>1. \A p, q \in 1 .. Len(order) : order[p] = order[q] => p = q
    BY DEF Lists
  <2>2. /\ Windows!Without(i) \in Seq(Windows!Slot)
        /\ \A p, q \in 1 .. Len(Windows!Without(i)) : Windows!Without(i)[p] = Windows!Without(i)[q] => p = q
        /\ \A j \in Windows!Slot : (\E p \in 1 .. Len(Windows!Without(i)) : Windows!Without(i)[p] = j)
                           <=> j # i /\ \E p \in 1 .. Len(order) : order[p] = j
    BY <2>1, WithoutEffect, Zenon
  <2>3. QED BY <1>1, <2>2, Zenon
<1>3. PICK t : t = Append(s, i)
  OBVIOUS
<1>4. /\ t \in Seq(Windows!Slot) /\ Len(t) = Len(s) + 1 /\ t[Len(s) + 1] = i /\ Len(s) \in Nat
      /\ \A p \in 1 .. Len(s) : t[p] = s[p]
  BY <1>2, <1>3
<1>5. \A p, q \in 1 .. Len(t) : t[p] = t[q] => p = q
  BY <1>2, <1>4
<1>6. ASSUME NEW j \in Windows!Slot
      PROVE  ws[j].used <=> \E p \in 1 .. Len(t) : t[p] = j
  <2>1. CASE j = i
    BY <1>4, <2>1
  <2>2. CASE j # i
    <3>1. (\E p \in 1 .. Len(t) : t[p] = j) <=> \E p \in 1 .. Len(s) : s[p] = j
      BY <1>4, <2>2
    <3>2. QED BY <1>2, <2>2, <3>1 DEF Lists
  <2>3. QED BY <2>1, <2>2
<1>7. Windows!Last(t) = i /\ t # <<>>
  BY <1>4 DEF Windows!Last
<1>8. Windows!Raised(i) = t
  BY <1>1, <1>3 DEF Windows!Raised
<1>9. QED BY <1>4, <1>5, <1>6, <1>7, <1>8 DEF Lists

LEMMA WidgetAtEffect ==
  ASSUME DtSizes, order \in Seq(Windows!Slot), Lists(order, win), NEW c, NEW r, Windows!WidgetAt(c, r) >= 0
  PROVE  Windows!WidgetAt(c, r) \in Windows!Slot /\ Windows!Covers(win[Windows!WidgetAt(c, r)], c, r)
<1> DEFINE on == {p \in 1 .. Len(order) : Windows!Covers(win[order[p]], c, r)}
<1>1. on # {}
  BY DEF Windows!WidgetAt
<1>2. on \in SUBSET (0 .. Len(order)) /\ Len(order) \in Nat
  OBVIOUS
<1>3. PICK n \in on : \A y \in on : n >= y
  <2> HIDE DEF on
  <2> QED BY <1>1, <1>2, Greatest
<1>4. Windows!Max(on) \in on
  <2> HIDE DEF on
  <2> QED BY <1>3 DEF Windows!Max
<1>5. Windows!WidgetAt(c, r) = order[Windows!Max(on)]
  BY <1>1 DEF Windows!WidgetAt
<1>6. QED BY <1>2, <1>4, <1>5

LEMMA TaskbarEffect ==
  ASSUME NEW ws, chips \subseteq Windows!Slot
  PROVE  Windows!Taskbar(ws) \subseteq Windows!Slot
BY DEF Windows!Taskbar

-----------------------------------------------------------------------------
LEMMA DtInitially == ASSUME DtSizes, Windows!Init PROVE DtInv
<1>1. Windows!Unused \in Widget /\ Windows!Unused.used = FALSE /\ Windows!Unused.focused = FALSE /\ Windows!Unused.minimized = FALSE
  BY DEF Windows!Unused, Widget, DtSizes
<1>2. Windows!NoGrip \in Grips /\ Windows!NoGrip.what = "none" /\ 0 \in Windows!Slot
  BY DEF Windows!NoGrip, Grips, DtSizes, Windows!Slot
<1>3. win \in [Windows!Slot -> Widget] /\ \A i \in Windows!Slot : win[i] = Windows!Unused
  BY <1>1 DEF Windows!Init
<1>4. /\ order = <<>> /\ grip = Windows!NoGrip /\ pressed = FALSE /\ chips = {} /\ running = FALSE
      /\ note = 0 /\ noteFile = 0 /\ hidden = {}
  BY DEF Windows!Init
<1>5. DtTypes
  <2>1. NoteCap \in Nat
    BY DEF DtSizes
  <2>2. order \in Seq(Windows!Slot) /\ chips \subseteq Windows!Slot /\ hidden \subseteq Windows!Slot
    BY <1>4
  <2>3. note \in 0 .. NoteCap /\ noteFile \in 0 .. NoteCap
    BY <1>4, <2>1
  <2>4. running \in BOOLEAN /\ pressed \in BOOLEAN
    BY <1>4, Zenon
  <2>5. QED BY <1>2, <1>3, <1>4, <2>2, <2>3, <2>4, Zenon DEF DtTypes
<1>6. Lists(order, win)
  BY <1>1, <1>3, <1>4 DEF Lists
<1>7. \A i \in Windows!Slot : Sound(win[i], i)
  BY <1>1, <1>3 DEF Sound
<1>8. Windows!OneFocus /\ Windows!KeysSeen /\ Windows!HeldOnTop
  BY <1>1, <1>3, <1>4 DEF Windows!OneFocus, Windows!KeysSeen, Windows!HeldOnTop
<1>9. Holding
  BY <1>2, <1>4 DEF Holding
<1>10. QED BY <1>1, <1>2, <1>3, <1>5, <1>6, <1>7, <1>8, <1>9 DEF DtInv

LEMMA EnterKeeps == ASSUME DtSizes, DtInv, Windows!Enter PROVE DtInv'
<1>1. /\ win \in [Windows!Slot -> Widget] /\ 0 \in Windows!Slot /\ "welcome" \in Kinds
      /\ grip = Windows!NoGrip /\ ~win[0].minimized
  BY DEF DtInv, DtTypes, Holding, Windows!Enter, DtSizes, Windows!Slot
<1>2. PICK x : x = Windows!Put(win[0], "welcome", 0)
  OBVIOUS
<1>3. /\ x \in Widget /\ x.used = TRUE /\ x.focused = win[0].focused /\ x.minimized = win[0].minimized
      /\ Sound(x, 0)
  <2>1. PICK w \in Widget : w = win[0]
    BY <1>1
  <2>2. PICK k \in Kinds, i \in Windows!Slot : k = "welcome" /\ i = 0
    BY <1>1
  <2>3. x = Windows!Put(w, k, i)
    BY <1>2, <2>1, <2>2
  <2>4. /\ Windows!Put(w, k, i) \in Widget /\ Windows!Put(w, k, i).used = TRUE
        /\ Windows!Put(w, k, i).focused = w.focused /\ Windows!Put(w, k, i).minimized = w.minimized
        /\ Sound(Windows!Put(w, k, i), i)
    BY PutEffect, Zenon
  <2>5. QED BY <2>1, <2>2, <2>3, <2>4
<1>4. win' = [i \in Windows!Slot |-> IF i = 0 THEN x ELSE [win[i] EXCEPT !.used = FALSE]]
  BY <1>2 DEF Windows!Enter
<1>5. ASSUME NEW i \in Windows!Slot
      PROVE  /\ win'[i] \in Widget /\ win'[i].focused = win[i].focused /\ win'[i].minimized = win[i].minimized
             /\ win'[i].used <=> i = 0
             /\ Sound(win'[i], i)
  <2>1. CASE i = 0
    BY <1>3, <1>4, <2>1
  <2>2. CASE i # 0
    <3>1. PICK w \in Widget : w = win[i]
      BY <1>1
    <3>2. win'[i] = [w EXCEPT !.used = FALSE]
      BY <1>4, <2>2, <3>1
    <3>3. win'[i] \in Widget /\ win'[i].focused = w.focused /\ win'[i].minimized = w.minimized /\ win'[i].used = FALSE
      BY <3>2 DEF Widget
    <3>4. QED BY <2>2, <3>1, <3>3 DEF Sound
  <2>3. QED BY <2>1, <2>2
<1>6. win' \in [Windows!Slot -> Widget]
  BY <1>4, <1>5
<1>7. Lists(order', win')
  <2>1. order' = <<0>>
    BY DEF Windows!Enter
  <2>2. QED BY <1>5, <2>1 DEF Lists
<1>8. DtTypes'
  <2>1. Windows!Taskbar(win') \subseteq Windows!Slot
    BY TaskbarEffect DEF DtInv, DtTypes
  <2>2. order' \in Seq(Windows!Slot)
    BY <1>1 DEF Windows!Enter
  <2>3. QED BY <1>6, <2>1, <2>2 DEF DtInv, DtTypes, Windows!Enter
<1>9. Windows!OneFocus'
  BY <1>5 DEF DtInv, Windows!OneFocus
<1>10. Windows!HeldOnTop' /\ Holding'
  BY <1>1 DEF DtInv, Windows!HeldOnTop, Holding, Windows!Enter, Windows!NoGrip
<1>11. Windows!KeysSeen'
  BY <1>1, <1>5 DEF Windows!KeysSeen
<1>12. QED BY <1>1, <1>5, <1>7, <1>8, <1>9, <1>10, <1>11 DEF DtInv

(* What the places that raise, show and hide windows come to. *)
LEMMA Settled ==
  ASSUME DtSizes, DtInv, win' \in [Windows!Slot -> Widget], order' \in Seq(Windows!Slot), Lists(order', win'),
         \A i \in Windows!Slot : Sound(win'[i], i),
         \A i, j \in Windows!Slot : win'[i].focused /\ win'[j].focused => i = j,
         \A i \in Windows!Slot \ hidden' : win'[i].used /\ win'[i].focused => ~win'[i].minimized,
         ~win'[0].minimized, grip = Windows!NoGrip, UNCHANGED <<grip, pressed, running>>,
         chips' = Windows!Taskbar(win') \/ UNCHANGED chips,
         note' \in 0 .. NoteCap, noteFile' \in 0 .. NoteCap, hidden' \subseteq Windows!Slot
  PROVE  DtInv'
<1>1. Windows!Taskbar(win') \subseteq Windows!Slot
  BY TaskbarEffect DEF DtInv, DtTypes
<1>2. DtTypes'
  BY <1>1 DEF DtInv, DtTypes
<1>3. Windows!OneFocus' /\ Windows!HeldOnTop' /\ Windows!KeysSeen' /\ Holding'
  BY DEF Windows!OneFocus, Windows!HeldOnTop, Windows!KeysSeen, Holding, DtInv, Windows!NoGrip
<1>4. QED BY <1>2, <1>3 DEF DtInv

LEMMA ListsAlike ==
  ASSUME NEW o, NEW ws, NEW vs, Lists(o, ws), \A i \in Windows!Slot : vs[i].used = ws[i].used
  PROVE  Lists(o, vs)
BY DEF Lists

(* Focus set aside, the windows before spawn_widget are those of the table. *)
Before(old) ==
    /\ old \in [Windows!Slot -> Widget]
    /\ \A j \in Windows!Slot : /\ Alike(win[j], old[j]) /\ old[j].minimized = win[j].minimized
                               /\ old[j].focused => win[j].focused

LEMMA BeforeFacts ==
  ASSUME DtSizes, DtInv, NEW old, Before(old)
  PROVE  /\ old \in [Windows!Slot -> Widget] /\ Lists(order, old)
         /\ \A j \in Windows!Slot : /\ Sound(old[j], j) /\ old[j].used = win[j].used
                                    /\ old[j].minimized = win[j].minimized
                                    /\ old[j].focused => win[j].focused
<1>1. \A j \in Windows!Slot : old[j].used = win[j].used
  BY DEF Before, Alike
<1>2. \A j \in Windows!Slot : Sound(old[j], j)
  BY SoundAlike DEF Before, DtInv
<1>3. Lists(order, old)
  BY <1>1, ListsAlike DEF DtInv
<1>4. QED BY <1>1, <1>2, <1>3 DEF Before

LEMMA LeastSlot ==
  ASSUME DtSizes, NEW S \in SUBSET Windows!Slot, S # {}
  PROVE  (CHOOSE i \in S : \A j \in S : i <= j) \in S
<1>1. S \in SUBSET Nat
  BY DEF Windows!Slot
<1>2. \E i \in S : \A j \in S : i <= j
  BY <1>1, LeastElement
<1>3. QED BY <1>2

LEMMA OpenedEffect ==
  ASSUME DtSizes, DtInv, NEW old, Before(old), NEW k \in Kinds, NEW i \in Windows!Slot, ~win[i].used
  PROVE  LET ws == Windows!Opened(old, k, i) IN
         /\ ws \in [Windows!Slot -> Widget]
         /\ \A j \in Windows!Slot : /\ Sound(ws[j], j) /\ (ws[j].used <=> win[j].used \/ j = i)
                                    /\ ws[j].minimized = win[j].minimized
         /\ \/ \A j \in Windows!Slot : ws[j].focused => win[j].focused /\ j # i
            \/ \A j \in Windows!Slot : ws[j].focused => j = i
<1>1. /\ old \in [Windows!Slot -> Widget]
      /\ \A j \in Windows!Slot : /\ Sound(old[j], j) /\ old[j].used = win[j].used
                                 /\ old[j].minimized = win[j].minimized
                                 /\ old[j].focused => win[j].focused
  BY BeforeFacts
<1>2. PICK w \in Widget : w = old[i]
  BY <1>1
<1>3. PICK x \in Widget : /\ x = Windows!Put(w, k, i) /\ x.used = TRUE /\ x.minimized = w.minimized /\ Sound(x, i)
  BY PutEffect, Zenon
<1>4. PICK y : y = [x EXCEPT !.focused = FALSE]
  OBVIOUS
<1>5. /\ y \in Widget /\ y.used = TRUE /\ y.minimized = x.minimized /\ y.focused = FALSE /\ Alike(x, y)
  BY <1>3, <1>4 DEF Widget, Alike
<1>6. Sound(y, i)
  BY <1>3, <1>5, SoundAlike
<1>7. PICK ws : ws = [old EXCEPT ![i] = y]
  OBVIOUS
<1>8. /\ ws \in [Windows!Slot -> Widget]
      /\ \A j \in Windows!Slot : ws[j] = IF j = i THEN y ELSE old[j]
  BY <1>1, <1>5, <1>7
<1>9. \A j \in Windows!Slot : /\ Sound(ws[j], j) /\ (ws[j].used <=> win[j].used \/ j = i)
                              /\ ws[j].minimized = win[j].minimized
                              /\ ws[j].focused => win[j].focused /\ j # i
  BY <1>1, <1>2, <1>3, <1>5, <1>6, <1>8
<1>10. CASE k \in ReadOnly
  <2>1. Windows!Opened(old, k, i) = ws
    BY <1>2, <1>3, <1>4, <1>7, <1>10 DEF Windows!Opened
  <2>2. QED BY <1>8, <1>9, <2>1
<1>11. CASE k \notin ReadOnly
  <2>1. PICK vs : vs = Windows!Focused(ws, i)
    OBVIOUS
  <2>2. /\ vs \in [Windows!Slot -> Widget]
        /\ \A j \in Windows!Slot : /\ Alike(ws[j], vs[j]) /\ vs[j].minimized = ws[j].minimized
                                   /\ vs[j].focused <=> j = i
    BY <1>8, <2>1, FocusedEffect
  <2>3. \A j \in Windows!Slot : Sound(vs[j], j)
    BY <1>9, <2>2, SoundAlike
  <2>4. \A j \in Windows!Slot : vs[j].used = ws[j].used
    BY <2>2 DEF Alike
  <2>5. Windows!Opened(old, k, i) = vs
    BY <1>2, <1>3, <1>4, <1>7, <1>11, <2>1 DEF Windows!Opened
  <2>6. QED BY <1>9, <2>2, <2>3, <2>4, <2>5
<1>12. QED BY <1>10, <1>11

LEMMA OpenWindowKeeps == ASSUME DtSizes, DtInv, Windows!OpenWindow PROVE DtInv'
<1>1. PICK k \in Kinds, old \in {win, Windows!Focused(win, -1)} : Windows!Spawn(old, k)
  BY DEF Windows!OpenWindow
<1>2. /\ grip = Windows!NoGrip /\ UNCHANGED <<grip, pressed, running, noteFile>>
      /\ chips' = Windows!Taskbar(win') \/ UNCHANGED chips
  BY DEF Windows!OpenWindow
<1>3. /\ win \in [Windows!Slot -> Widget] /\ order \in Seq(Windows!Slot) /\ Lists(order, win) /\ hidden \subseteq Windows!Slot
      /\ note \in 0 .. NoteCap /\ noteFile \in 0 .. NoteCap /\ NoteCap \in Nat /\ ~win[0].minimized
      /\ 0 \in Windows!Slot
  BY DEF DtInv, DtTypes, DtSizes, Windows!Slot
<1>4. Before(old)
  <2>1. CASE old = win
    BY <1>3, <2>1 DEF Before, Alike
  <2>2. CASE old = Windows!Focused(win, -1)
    <3>1. \A j \in Windows!Slot : j # -1
      BY DEF Windows!Slot
    <3>2. QED BY <1>3, <2>2, <3>1, FocusedEffect DEF Before
  <2>3. QED BY <2>1, <2>2
<1>5. /\ old \in [Windows!Slot -> Widget] /\ Lists(order, old)
      /\ \A j \in Windows!Slot : /\ Sound(old[j], j) /\ old[j].used = win[j].used
                                 /\ old[j].minimized = win[j].minimized
                                 /\ old[j].focused => win[j].focused
  BY <1>4, BeforeFacts
<1> DEFINE same == {i \in Windows!Slot : win[i].used /\ win[i].kind = k}
           free == {i \in 1 .. Slots : ~win[i].used}
<1>6. CASE k \in Singletons /\ same # {}
  <2>1. PICK i \in Windows!Slot : /\ win[i].used
                                  /\ win' = Windows!Focused(old, i) /\ order' = Windows!Raised(i)
                                  /\ hidden' = IF win[i].minimized THEN hidden \cup {i} ELSE hidden
                                  /\ UNCHANGED note
    <3>1. PICK i : i = CHOOSE j \in same : \A l \in same : j <= l
      OBVIOUS
    <3>2. i \in same
      <4> HIDE DEF same
      <4>1. same \in SUBSET Windows!Slot
        BY DEF same
      <4>2. QED BY <1>6, <3>1, <4>1, LeastSlot
    <3>3. QED BY <1>1, <1>6, <3>1, <3>2 DEF Windows!Spawn
  <2>2. /\ win' \in [Windows!Slot -> Widget]
        /\ \A j \in Windows!Slot : /\ Alike(old[j], win'[j]) /\ win'[j].minimized = old[j].minimized
                                   /\ win'[j].focused <=> j = i
    BY <1>5, <2>1, FocusedEffect
  <2>3. \A j \in Windows!Slot : Sound(win'[j], j) /\ win'[j].used = win[j].used
    <3>1. \A j \in Windows!Slot : Sound(win'[j], j)
      BY <1>5, <2>2, SoundAlike
    <3>2. QED BY <1>5, <2>2, <3>1 DEF Alike
  <2>4. order' \in Seq(Windows!Slot) /\ Lists(order', win)
    BY <1>3, <2>1, RaisedEffect
  <2>5. Lists(order', win')
    BY <2>3, <2>4, ListsAlike
  <2>6. \A j \in Windows!Slot \ hidden' : win'[j].used /\ win'[j].focused => ~win'[j].minimized
    BY <1>5, <2>1, <2>2
  <2>7. hidden' \subseteq Windows!Slot /\ note' \in 0 .. NoteCap /\ noteFile' \in 0 .. NoteCap /\ ~win'[0].minimized
    BY <1>2, <1>3, <1>5, <2>1, <2>2
  <2>8. \A j, l \in Windows!Slot : win'[j].focused /\ win'[l].focused => j = l
    BY <2>2
  <2>9. QED BY <1>2, <2>2, <2>3, <2>4, <2>5, <2>6, <2>7, <2>8, Settled
<1>7. CASE ~ (k \in Singletons /\ same # {}) /\ free = {}
  <2>1. win' = old /\ UNCHANGED <<order, hidden, note>>
    BY <1>1, <1>7 DEF Windows!Spawn
  <2>2. \A j \in Windows!Slot \ hidden' : win'[j].used /\ win'[j].focused => ~win'[j].minimized
    <3>1. CASE running
      BY <1>5, <2>1, <3>1 DEF DtInv, Windows!KeysSeen
    <3>2. QED BY <3>1 DEF Windows!OpenWindow, Windows!Input
  <2>3. \A j, l \in Windows!Slot : win'[j].focused /\ win'[l].focused => j = l
    BY <1>5, <2>1 DEF DtInv, Windows!OneFocus
  <2>4. QED BY <1>2, <1>3, <1>5, <2>1, <2>2, <2>3, Settled
<1>8. CASE ~ (k \in Singletons /\ same # {}) /\ free # {}
  <2>1. PICK i \in Windows!Slot : /\ ~win[i].used
                                  /\ win' = Windows!Opened(old, k, i) /\ order' = Append(order, i)
                                  /\ hidden' = IF win[i].minimized THEN hidden \cup {i} ELSE hidden \ {i}
                                  /\ note' = IF k = "notes" THEN IF noteFile < NoteCap THEN noteFile ELSE NoteCap ELSE note
    <3>1. PICK i : i = CHOOSE j \in free : \A l \in free : j <= l
      OBVIOUS
    <3>2. i \in free /\ free \in SUBSET Windows!Slot
      <4>1. free \in SUBSET Windows!Slot
        BY DEF Windows!Slot, DtSizes
      <4> HIDE DEF free
      <4>2. QED BY <1>8, <3>1, <4>1, LeastSlot
    <3>3. QED BY <1>1, <1>8, <3>1, <3>2 DEF Windows!Spawn
  <2>2. /\ win' \in [Windows!Slot -> Widget]
        /\ \A j \in Windows!Slot : /\ Sound(win'[j], j) /\ (win'[j].used <=> win[j].used \/ j = i)
                                   /\ win'[j].minimized = win[j].minimized
        /\ \/ \A j \in Windows!Slot : win'[j].focused => win[j].focused /\ j # i
           \/ \A j \in Windows!Slot : win'[j].focused => j = i
    BY <1>4, <2>1, OpenedEffect
  <2>3. /\ order' \in Seq(Windows!Slot) /\ Len(order') = Len(order) + 1 /\ order'[Len(order) + 1] = i
        /\ \A p \in 1 .. Len(order) : order'[p] = order[p]
    BY <1>3, <2>1
  <2>4. Lists(order', win')
    <3>1. \A p \in 1 .. Len(order) : order[p] # i
      BY <1>3, <2>1 DEF Lists
    <3>2. \A p, q \in 1 .. Len(order') : order'[p] = order'[q] => p = q
      BY <1>3, <2>3, <3>1 DEF Lists
    <3>3. ASSUME NEW j \in Windows!Slot
          PROVE  win'[j].used <=> \E p \in 1 .. Len(order') : order'[p] = j
      <4>1. CASE j = i
        <5>1. Len(order) + 1 \in 1 .. Len(order')
          BY <1>3, <2>3
        <5>2. QED BY <2>2, <2>3, <4>1, <5>1
      <4>2. CASE j # i
        <5>1. (\E p \in 1 .. Len(order') : order'[p] = j) <=> \E p \in 1 .. Len(order) : order[p] = j
          BY <1>3, <2>3, <4>2
        <5>2. QED BY <1>3, <2>2, <4>2, <5>1 DEF Lists
      <4>3. QED BY <4>1, <4>2
    <3>4. QED BY <3>2, <3>3 DEF Lists
  <2>5. \A j, l \in Windows!Slot : win'[j].focused /\ win'[l].focused => j = l
    BY <2>2 DEF DtInv, Windows!OneFocus
  <2>6. \A j \in Windows!Slot \ hidden' : win'[j].used /\ win'[j].focused => ~win'[j].minimized
    <3>1. running
      BY DEF Windows!OpenWindow, Windows!Input
    <3>2. QED BY <2>1, <2>2, <3>1 DEF DtInv, Windows!KeysSeen
  <2>7. hidden' \subseteq Windows!Slot /\ note' \in 0 .. NoteCap /\ noteFile' \in 0 .. NoteCap /\ ~win'[0].minimized
    BY <1>2, <1>3, <2>1, <2>2
  <2>8. QED BY <1>2, <2>2, <2>3, <2>4, <2>5, <2>6, <2>7, Settled
<1>9. QED BY <1>6, <1>7, <1>8

-----------------------------------------------------------------------------
LEMMA RefocusedKept ==
  ASSUME DtSizes, DtInv, NEW i
  PROVE  LET ws == Windows!Focused(win, i) IN
         /\ ws \in [Windows!Slot -> Widget] /\ Lists(order, ws)
         /\ \A j \in Windows!Slot : /\ Sound(ws[j], j) /\ ws[j].used = win[j].used /\ ws[j].kind = win[j].kind
                                    /\ ws[j].minimized = win[j].minimized
                                    /\ ws[j].focused <=> j = i
<1>1. PICK ws : ws = Windows!Focused(win, i)
  OBVIOUS
<1>2. win \in [Windows!Slot -> Widget]
  BY DEF DtInv, DtTypes
<1>3. /\ ws \in [Windows!Slot -> Widget]
      /\ \A j \in Windows!Slot : /\ Alike(win[j], ws[j]) /\ ws[j].minimized = win[j].minimized
                                 /\ ws[j].focused <=> j = i
  BY <1>1, <1>2, FocusedEffect
<1>4. \A j \in Windows!Slot : Sound(ws[j], j)
  BY <1>3, SoundAlike DEF DtInv
<1>5. \A j \in Windows!Slot : ws[j].used = win[j].used /\ ws[j].kind = win[j].kind
  BY <1>3 DEF Alike
<1>6. Lists(order, ws)
  BY <1>5, ListsAlike DEF DtInv
<1>7. QED BY <1>1, <1>3, <1>4, <1>5, <1>6

(* What a press, a key and the mouse start from. *)
LEMMA AtRest ==
  ASSUME DtSizes, DtInv
  PROVE  /\ win \in [Windows!Slot -> Widget] /\ order \in Seq(Windows!Slot) /\ Lists(order, win) /\ hidden \subseteq Windows!Slot
         /\ chips \subseteq Windows!Slot /\ grip \in Grips
         /\ \A j \in Windows!Slot : Sound(win[j], j)
         /\ note \in 0 .. NoteCap /\ noteFile \in 0 .. NoteCap /\ NoteCap \in Nat /\ ~win[0].minimized
         /\ 0 \in Windows!Slot /\ \A i \in Windows!Slot : i # -1
BY DEF DtInv, DtTypes, DtSizes, Windows!Slot

LEMMA PressChipKeeps ==
  ASSUME DtSizes, DtInv, NEW i \in chips, Windows!PressChip(i), ~pressed, UNCHANGED <<running, note>>
  PROVE  DtInv'
<1>1. i \in Windows!Slot /\ grip = Windows!NoGrip
  BY AtRest DEF DtInv, Holding
<1>2. PICK w \in Widget : w = win[i]
  BY <1>1, AtRest
<1>3. PICK y : y = [w EXCEPT !.minimized = FALSE]
  OBVIOUS
<1>4. y \in Widget /\ y.minimized = FALSE /\ Alike(w, y)
  BY <1>3 DEF Widget, Alike
<1>5. PICK ws : ws = [win EXCEPT ![i] = y]
  OBVIOUS
<1>6. ws \in [Windows!Slot -> Widget] /\ \A j \in Windows!Slot : ws[j] = IF j = i THEN y ELSE win[j]
  BY <1>4, <1>5, AtRest
<1>7. ws = [win EXCEPT ![i].minimized = FALSE]
  BY <1>1, <1>2, <1>3, <1>5, AtRest
<1>8. win' = Windows!Focused(ws, i)
  BY <1>7 DEF Windows!PressChip
<1>9. /\ win' \in [Windows!Slot -> Widget]
      /\ \A j \in Windows!Slot : /\ Alike(ws[j], win'[j]) /\ win'[j].minimized = ws[j].minimized
                                 /\ win'[j].focused <=> j = i
  BY <1>6, <1>8, FocusedEffect
<1>10. \A j \in Windows!Slot : Alike(win[j], ws[j])
  BY <1>2, <1>4, <1>6 DEF Alike
<1>11. \A j \in Windows!Slot : Sound(win'[j], j) /\ win'[j].used = win[j].used
  <2>1. \A j \in Windows!Slot : Alike(win[j], win'[j])
    BY <1>9, <1>10 DEF Alike
  <2>2. QED BY <2>1, SoundAlike, AtRest DEF Alike
<1>12. order' \in Seq(Windows!Slot) /\ Lists(order', win)
  <2>1. CASE win[i].used
    BY <1>1, <2>1, AtRest, RaisedEffect DEF Windows!PressChip
  <2>2. CASE ~win[i].used
    BY <2>2, AtRest DEF Windows!PressChip
  <2>3. QED BY <2>1, <2>2
<1>13. Lists(order', win')
  BY <1>11, <1>12, ListsAlike
<1>14. \A j \in Windows!Slot \ hidden' : win'[j].used /\ win'[j].focused => ~win'[j].minimized
  BY <1>1, <1>4, <1>6, <1>9
<1>15. ~win'[0].minimized
  BY <1>4, <1>6, <1>9, AtRest
<1>16. /\ UNCHANGED <<grip, pressed, running>> /\ chips' = Windows!Taskbar(win')
       /\ note' \in 0 .. NoteCap /\ noteFile' \in 0 .. NoteCap /\ hidden' \subseteq Windows!Slot
  BY AtRest DEF Windows!PressChip
<1>17. \A j, l \in Windows!Slot : win'[j].focused /\ win'[l].focused => j = l
  BY <1>9
<1>18. win' \in [Windows!Slot -> Widget] /\ \A j \in Windows!Slot : Sound(win'[j], j)
  BY <1>9, <1>11
<1>19. QED BY <1>1, <1>12, <1>13, <1>14, <1>15, <1>16, <1>17, <1>18, Settled

LEMMA MinimizedEffect ==
  ASSUME DtSizes, DtInv, NEW i \in Windows!Slot
  PROVE  LET ws == Windows!Minimized(win, i) IN
         /\ ws \in [Windows!Slot -> Widget] /\ Lists(order, ws) /\ ~ws[0].minimized
         /\ \A j \in Windows!Slot : /\ Sound(ws[j], j) /\ (ws[j].focused => win[j].focused)
                                    /\ ws[j].used = win[j].used
                                    /\ j # i => ws[j] = win[j]
                                    /\ ws[j].focused => ~ws[j].minimized \/ ws[j] = win[j]
<1>1. CASE i = 0
  <2>1. Windows!Minimized(win, i) = win
    BY <1>1 DEF Windows!Minimized
  <2>2. QED BY <2>1, AtRest
<1>2. CASE i # 0
  <2>1. PICK w \in Widget : w = win[i]
    BY AtRest
  <2>2. PICK y : y = [w EXCEPT !.minimized = TRUE, !.focused = FALSE]
    OBVIOUS
  <2>3. y \in Widget /\ y.focused = FALSE /\ Alike(w, y)
    BY <2>2 DEF Widget, Alike
  <2>4. PICK ws : ws = [win EXCEPT ![i] = y]
    OBVIOUS
  <2>5. ws \in [Windows!Slot -> Widget] /\ \A j \in Windows!Slot : ws[j] = IF j = i THEN y ELSE win[j]
    BY <2>3, <2>4, AtRest
  <2>6. Windows!Minimized(win, i) = ws
    BY <1>2, <2>1, <2>2, <2>4, AtRest DEF Windows!Minimized
  <2>7. \A j \in Windows!Slot : Alike(win[j], ws[j])
    BY <2>1, <2>3, <2>5 DEF Alike
  <2>8. \A j \in Windows!Slot : Sound(ws[j], j) /\ ws[j].used = win[j].used
    BY <2>7, SoundAlike, AtRest DEF Alike
  <2>9. Lists(order, ws)
    BY <2>8, ListsAlike, AtRest
  <2>10. QED BY <1>2, <2>3, <2>5, <2>6, <2>8, <2>9, AtRest
<1>3. QED BY <1>1, <1>2

LEMMA CloseKeeps ==
  ASSUME DtSizes, DtInv, NEW i \in Windows!Slot, Windows!Close(i), ~pressed, running, hidden' = hidden \ {i},
         ~win[i].minimized,
         chips' = Windows!Taskbar(win'), UNCHANGED <<grip, pressed, running, note>>
  PROVE  DtInv'
<1>1. grip = Windows!NoGrip
  BY DEF DtInv, Holding
<1>2. CASE i = 0
  <2>1. UNCHANGED <<win, order, noteFile>>
    BY <1>2 DEF Windows!Close
  <2>2. \A j \in Windows!Slot \ hidden' : win'[j].used /\ win'[j].focused => ~win'[j].minimized
    BY <1>2, <2>1, AtRest DEF DtInv, Windows!KeysSeen
  <2>3. \A j, l \in Windows!Slot : win'[j].focused /\ win'[l].focused => j = l
    BY <2>1 DEF DtInv, Windows!OneFocus
  <2>4. QED BY <1>1, <2>1, <2>2, <2>3, Settled, AtRest
<1>3. CASE i # 0
  <2>1. PICK y : y = [Windows!Unused EXCEPT !.minimized = win[i].minimized]
    OBVIOUS
  <2>2. y \in Widget /\ y.used = FALSE /\ y.focused = FALSE
    <3>1. PICK b \in BOOLEAN : b = win[i].minimized
      <4>1. PICK w \in Widget : w = win[i]
        BY AtRest
      <4>2. w.minimized \in BOOLEAN
        BY DEF Widget
      <4>3. QED BY <4>1, <4>2
    <3>2. y = [Windows!Unused EXCEPT !.minimized = b]
      BY <2>1, <3>1
    <3>3. y = [used |-> FALSE, kind |-> "-", r |-> 0, c |-> 0, w |-> 0, h |-> 0, focused |-> FALSE, minimized |-> b]
      BY <3>2 DEF Windows!Unused
    <3>4. QED BY <3>3 DEF Widget
  <2>3. win' = [win EXCEPT ![i] = y] /\ order' = Windows!Without(i)
    BY <1>3, <2>1 DEF Windows!Close
  <2>4. win' \in [Windows!Slot -> Widget] /\ \A j \in Windows!Slot : win'[j] = IF j = i THEN y ELSE win[j]
    BY <2>2, <2>3, AtRest
  <2>5. \A p, q \in 1 .. Len(order) : order[p] = order[q] => p = q
    BY AtRest DEF Lists
  <2>6. /\ order' \in Seq(Windows!Slot)
        /\ \A p, q \in 1 .. Len(order') : order'[p] = order'[q] => p = q
        /\ \A j \in Windows!Slot : (\E p \in 1 .. Len(order') : order'[p] = j)
                            <=> j # i /\ \E p \in 1 .. Len(order) : order[p] = j
    <3>1. order \in Seq(Windows!Slot)
      BY AtRest
    <3>2. /\ Windows!Without(i) \in Seq(Windows!Slot)
          /\ \A p, q \in 1 .. Len(Windows!Without(i)) : Windows!Without(i)[p] = Windows!Without(i)[q] => p = q
          /\ \A j \in Windows!Slot : (\E p \in 1 .. Len(Windows!Without(i)) : Windows!Without(i)[p] = j)
                             <=> j # i /\ \E p \in 1 .. Len(order) : order[p] = j
      BY <2>5, <3>1, WithoutEffect, Zenon
    <3>3. QED BY <2>3, <3>2, Zenon
  <2>7. Lists(order', win')
    <3>1. ASSUME NEW j \in Windows!Slot
          PROVE  win'[j].used <=> \E p \in 1 .. Len(order') : order'[p] = j
      <4>1. win[j].used <=> \E p \in 1 .. Len(order) : order[p] = j
        BY AtRest DEF Lists
      <4>2. win'[j].used <=> j # i /\ win[j].used
        BY <2>2, <2>4
      <4>3. (\E p \in 1 .. Len(order') : order'[p] = j) <=> j # i /\ \E p \in 1 .. Len(order) : order[p] = j
        BY <2>6
      <4>4. QED BY <4>1, <4>2, <4>3
    <3>2. QED BY <2>6, <3>1 DEF Lists
  <2>8. \A j \in Windows!Slot : Sound(win'[j], j)
    <3>1. Sound(y, i)
      BY <2>2 DEF Sound
    <3>2. QED BY <2>4, <3>1, AtRest
  <2>9. \A j \in Windows!Slot \ hidden' : win'[j].used /\ win'[j].focused => ~win'[j].minimized
    BY <2>2, <2>4 DEF DtInv, Windows!KeysSeen
  <2>10. \A j, l \in Windows!Slot : win'[j].focused /\ win'[l].focused => j = l
    BY <2>2, <2>4 DEF DtInv, Windows!OneFocus
  <2>11. noteFile' \in 0 .. NoteCap /\ hidden' \subseteq Windows!Slot /\ note' \in 0 .. NoteCap /\ ~win'[0].minimized
    BY <1>3, <2>4, AtRest DEF Windows!Close
  <2>12. QED BY <1>1, <2>4, <2>6, <2>7, <2>8, <2>9, <2>10, <2>11, Settled
<1>4. QED BY <1>2, <1>3

LEMMA GripEffect ==
  ASSUME DtSizes, DtInv, NEW i \in Windows!Slot, NEW c \in Int, NEW r \in Int
  PROVE  LET g == Windows!Grip(i, c, r) IN
         /\ g \in Grips /\ (g = Windows!NoGrip \/ (g.what # "none" /\ g.i = i))
         /\ g.what = "resize" => win[i].kind \in Resizable
<1>1. Windows!NoGrip \in Grips /\ Windows!NoGrip.what = "none"
  BY AtRest DEF Windows!NoGrip, Grips
<1>2. PICK w \in Widget : w = win[i]
  BY AtRest
<1>3. PICK dc \in Int : dc = c - w.c
  BY DEF Widget
<1>4. PICK dr \in Int : dr = r - w.r
  BY DEF Widget
<1>5. /\ [what |-> "resize", i |-> i, dc |-> 0, dr |-> 0] \in Grips
      /\ [what |-> "drag", i |-> i, dc |-> dc, dr |-> dr] \in Grips
  BY DEF Grips
<1>6. PICK g : g = Windows!Grip(i, c, r)
  OBVIOUS
<1>7. \/ g = [what |-> "resize", i |-> i, dc |-> 0, dr |-> 0] /\ w.kind \in Resizable
      \/ g = [what |-> "drag", i |-> i, dc |-> dc, dr |-> dr]
      \/ g = Windows!NoGrip
  BY <1>2, <1>3, <1>4, <1>6 DEF Windows!Grip
<1>8. QED BY <1>1, <1>2, <1>5, <1>6, <1>7

LEMMA TakenHoldKeeps ==
  ASSUME DtSizes, DtInv, NEW i \in Windows!Slot, NEW c \in Int, NEW r \in Int, running,
         win[i].used, ~win[i].minimized,
         grip' = Windows!Grip(i, c, r), order' = Windows!Raised(i),
         win' = Windows!Moved(Windows!Focused(win, i), grip', c, r),
         chips' = Windows!Taskbar(win') \/ UNCHANGED chips,
         pressed' = (grip' # Windows!NoGrip), UNCHANGED <<running, note, noteFile, hidden>>
  PROVE  DtInv'
<1>1. PICK g : g = Windows!Grip(i, c, r)
  OBVIOUS
<1>2. /\ g \in Grips /\ (g = Windows!NoGrip \/ (g.what # "none" /\ g.i = i))
      /\ g.what = "resize" => win[i].kind \in Resizable
  BY <1>1, GripEffect
<1>3. PICK ws : ws = Windows!Focused(win, i)
  OBVIOUS
<1>4. /\ ws \in [Windows!Slot -> Widget] /\ Lists(order, ws)
      /\ \A j \in Windows!Slot : /\ Sound(ws[j], j) /\ ws[j].used = win[j].used /\ ws[j].kind = win[j].kind
                                 /\ ws[j].minimized = win[j].minimized
                                 /\ ws[j].focused <=> j = i
  BY <1>3, RefocusedKept
<1>5. Windows!NoGrip.what = "none"
  BY DEF Windows!NoGrip
<1>6. PICK vs : vs = Windows!Moved(ws, g, c, r)
  OBVIOUS
<1>7. /\ vs \in [Windows!Slot -> Widget]
      /\ \A j \in Windows!Slot : /\ vs[j].used = ws[j].used /\ vs[j].kind = ws[j].kind
                                 /\ vs[j].focused = ws[j].focused /\ vs[j].minimized = ws[j].minimized
                                 /\ Sound(vs[j], j)
  BY <1>2, <1>4, <1>5, <1>6, MovedEffect
<1>8. win' = vs /\ grip' = g
  BY <1>1, <1>3, <1>6
<1>9. PICK o : o = Windows!Raised(i)
  OBVIOUS
<1>10. o \in Seq(Windows!Slot) /\ Lists(o, win) /\ Windows!Last(o) = i
  BY <1>9, AtRest, RaisedEffect
<1>11. order' = o /\ Lists(o, vs)
  <2>1. \A j \in Windows!Slot : vs[j].used = win[j].used
    BY <1>4, <1>7
  <2>2. QED BY <1>9, <1>10, <2>1, ListsAlike
<1>12. DtTypes'
  <2>1. Windows!Taskbar(win') \subseteq Windows!Slot
    BY AtRest, TaskbarEffect
  <2>2. pressed' \in BOOLEAN
    OBVIOUS
  <2>3. QED BY <1>2, <1>7, <1>8, <1>10, <1>11, <2>1, <2>2 DEF DtInv, DtTypes
<1>13. Windows!OneFocus'
  BY <1>4, <1>7, <1>8 DEF Windows!OneFocus
<1>14. Windows!HeldOnTop'
  BY <1>2, <1>4, <1>7, <1>8, <1>10, <1>11 DEF Windows!HeldOnTop
<1>15. Windows!KeysSeen'
  BY <1>4, <1>7, <1>8 DEF Windows!KeysSeen
<1>16. Holding'
  <2>1. grip' # Windows!NoGrip => grip'.what # "none" /\ running'
    BY <1>2, <1>8
  <2>2. grip'.what = "resize" => win'[grip'.i].kind \in Resizable
    BY <1>2, <1>4, <1>5, <1>7, <1>8
  <2>3. QED BY <2>1, <2>2 DEF Holding
<1>17. ~win'[0].minimized
  BY <1>4, <1>7, <1>8, AtRest
<1>18. QED BY <1>7, <1>8, <1>11, <1>12, <1>13, <1>14, <1>15, <1>16, <1>17 DEF DtInv

LEMMA PressKeeps == ASSUME DtSizes, DtInv, Windows!Press PROVE DtInv'
<1>1. running /\ ~pressed /\ UNCHANGED <<running, note>> /\ grip = Windows!NoGrip
  BY DEF Windows!Press, Windows!Input, DtInv, Holding
<1>2. CASE \E i \in chips : Windows!PressChip(i)
  BY <1>1, <1>2, PressChipKeeps
<1>3. ASSUME NEW c \in 0 .. Cols - 1, NEW r \in 1 .. Rows - 2, Windows!WidgetAt(c, r) >= 0, Windows!PressWindow(Windows!WidgetAt(c, r), c, r)
      PROVE  DtInv'
  <2>1. PICK i : i = Windows!WidgetAt(c, r)
    OBVIOUS
  <2>2. i \in Windows!Slot /\ win[i].used /\ ~win[i].minimized
    <3>1. Windows!WidgetAt(c, r) \in Windows!Slot /\ Windows!Covers(win[Windows!WidgetAt(c, r)], c, r)
      BY <1>3, AtRest, WidgetAtEffect
    <3>2. QED BY <2>1, <3>1 DEF Windows!Covers
  <2>3. Windows!PressWindow(i, c, r)
    BY <1>3, <2>1
  <2>4. c \in Int /\ r \in Int
    BY DEF DtSizes
  <2>5. CASE r = win[i].r /\ c = win[i].c + 1
    <3>1. Windows!Close(i) /\ hidden' = hidden \ {i} /\ chips' = Windows!Taskbar(win') /\ UNCHANGED <<grip, pressed>>
      BY <2>3, <2>5 DEF Windows!PressWindow
    <3>2. QED BY <1>1, <2>2, <3>1, CloseKeeps
  <2>6. CASE ~ (r = win[i].r /\ c = win[i].c + 1) /\ r = win[i].r /\ c = win[i].c + 2
    <3>1. win' = Windows!Minimized(win, i) /\ chips' = Windows!Taskbar(win') /\ UNCHANGED <<order, grip, pressed, noteFile, hidden>>
      BY <2>3, <2>6 DEF Windows!PressWindow
    <3>2. /\ win' \in [Windows!Slot -> Widget] /\ Lists(order, win') /\ ~win'[0].minimized
          /\ \A j \in Windows!Slot : /\ Sound(win'[j], j) /\ (win'[j].focused => win[j].focused)
                                     /\ win'[j].used = win[j].used
                                     /\ j # i => win'[j] = win[j]
                                     /\ win'[j].focused => ~win'[j].minimized \/ win'[j] = win[j]
      BY <2>2, <3>1, MinimizedEffect
    <3>3. \A j, l \in Windows!Slot : win'[j].focused /\ win'[l].focused => j = l
      BY <3>2 DEF DtInv, Windows!OneFocus
    <3>4. \A j \in Windows!Slot \ hidden' : win'[j].used /\ win'[j].focused => ~win'[j].minimized
      BY <1>1, <3>1, <3>2 DEF DtInv, Windows!KeysSeen
    <3>5. order' \in Seq(Windows!Slot) /\ Lists(order', win') /\ note' \in 0 .. NoteCap /\ noteFile' \in 0 .. NoteCap
          /\ hidden' \subseteq Windows!Slot
      BY <1>1, <3>1, <3>2, AtRest
    <3>6. QED BY <1>1, <3>1, <3>2, <3>3, <3>4, <3>5, Settled
  <2>7. CASE ~ (r = win[i].r /\ c = win[i].c + 1) /\ ~ (r = win[i].r /\ c = win[i].c + 2)
    <3>1. /\ grip' = Windows!Grip(i, c, r) /\ order' = Windows!Raised(i)
          /\ win' = Windows!Moved(Windows!Focused(win, i), grip', c, r)
          /\ chips' = Windows!Taskbar(win') \/ UNCHANGED chips
          /\ pressed' = (grip' # Windows!NoGrip) /\ UNCHANGED <<noteFile, hidden>>
      BY <2>3, <2>7 DEF Windows!PressWindow
    <3>2. QED BY <1>1, <2>2, <2>4, <3>1, TakenHoldKeeps
  <2>8. QED BY <2>5, <2>6, <2>7
<1>4. CASE win' = Windows!Focused(win, -1) /\ UNCHANGED <<order, grip, pressed, chips, noteFile, hidden>>
  <2>1. /\ win' \in [Windows!Slot -> Widget] /\ Lists(order, win')
        /\ \A j \in Windows!Slot : /\ Sound(win'[j], j) /\ win'[j].used = win[j].used /\ win'[j].kind = win[j].kind
                                   /\ win'[j].minimized = win[j].minimized
                                   /\ win'[j].focused <=> j = -1
    BY <1>4, RefocusedKept
  <2>2. \A j \in Windows!Slot : ~win'[j].focused
    BY <2>1, AtRest
  <2>3. order' \in Seq(Windows!Slot) /\ Lists(order', win') /\ note' \in 0 .. NoteCap /\ noteFile' \in 0 .. NoteCap
        /\ hidden' \subseteq Windows!Slot /\ ~win'[0].minimized
    BY <1>1, <1>4, <2>1, AtRest
  <2>4. QED BY <1>1, <1>4, <2>1, <2>2, <2>3, Settled
<1>5. \/ \E i \in chips : Windows!PressChip(i)
      \/ \E c \in 0 .. Cols - 1, r \in 1 .. Rows - 2 : Windows!WidgetAt(c, r) >= 0 /\ Windows!PressWindow(Windows!WidgetAt(c, r), c, r)
      \/ win' = Windows!Focused(win, -1) /\ UNCHANGED <<order, grip, pressed, chips, noteFile, hidden>>
  BY Zenon DEF Windows!Press
<1>6. QED BY <1>2, <1>3, <1>4, <1>5

LEMMA HoldKeeps == ASSUME DtSizes, DtInv, Windows!Hold PROVE DtInv'
<1>1. /\ running /\ grip # Windows!NoGrip /\ chips' = Windows!Taskbar(win')
      /\ UNCHANGED <<order, grip, pressed, running, note, noteFile, inputs, hidden>>
  BY DEF Windows!Hold
<1>2. PICK c \in Int, r \in Int : win' = Windows!Moved(win, grip, c, r)
  <2>1. PICK c \in 0 .. Cols - 1, r \in 0 .. Rows - 1 : win' = Windows!Moved(win, grip, c, r)
    BY DEF Windows!Hold
  <2>2. c \in Int /\ r \in Int
    BY DEF DtSizes
  <2>3. QED BY <2>1, <2>2
<1>3. /\ win' \in [Windows!Slot -> Widget]
      /\ \A j \in Windows!Slot : /\ win'[j].used = win[j].used /\ win'[j].kind = win[j].kind
                                 /\ win'[j].focused = win[j].focused /\ win'[j].minimized = win[j].minimized
                                 /\ Sound(win'[j], j)
  <2>1. win[grip.i].used /\ (grip.what = "resize" => win[grip.i].kind \in Resizable)
    BY <1>1 DEF DtInv, Windows!HeldOnTop, Holding
  <2>2. QED BY <1>2, <2>1, AtRest, MovedEffect
<1>4. DtTypes'
  <2>1. Windows!Taskbar(win') \subseteq Windows!Slot
    BY AtRest, TaskbarEffect
  <2>2. QED BY <1>1, <1>3, <2>1 DEF DtInv, DtTypes
<1>5. Lists(order', win')
  BY <1>1, <1>3, AtRest, ListsAlike
<1>6. grip.i \in Windows!Slot
  BY AtRest DEF Grips
<1>7. Windows!OneFocus' /\ Windows!KeysSeen'
  BY <1>1, <1>3 DEF DtInv, Windows!OneFocus, Windows!KeysSeen
<1>8. Windows!HeldOnTop' /\ Holding'
  BY <1>1, <1>3, <1>6 DEF DtInv, Windows!HeldOnTop, Holding, Windows!Last
<1>9. ~win'[0].minimized
  BY <1>3, AtRest
<1>10. QED BY <1>3, <1>4, <1>5, <1>7, <1>8, <1>9 DEF DtInv

LEMMA ReleaseKeeps == ASSUME DtSizes, DtInv, Windows!Release PROVE DtInv'
<1>1. pressed' = FALSE /\ grip' = Windows!NoGrip /\ UNCHANGED <<win, order, chips, running, note, noteFile, hidden>>
  BY DEF Windows!Release
<1>2. Windows!NoGrip \in Grips /\ Windows!NoGrip.what = "none"
  BY AtRest DEF Windows!NoGrip, Grips
<1>3. pressed' \in BOOLEAN
  BY <1>1, Zenon
<1>4. DtTypes'
  BY <1>1, <1>2, <1>3 DEF DtInv, DtTypes
<1>5. Lists(order', win') /\ \A i \in Windows!Slot : Sound(win'[i], i)
  BY <1>1, AtRest
<1>6. Windows!OneFocus' /\ Windows!KeysSeen' /\ Windows!HeldOnTop' /\ ~win'[0].minimized
  BY <1>1 DEF DtInv, Windows!OneFocus, Windows!KeysSeen, Windows!HeldOnTop
<1>7. Holding'
  BY <1>1, <1>2 DEF Holding
<1>8. QED BY <1>4, <1>5, <1>6, <1>7 DEF DtInv

LEMMA KeyNotesKeeps == ASSUME DtSizes, DtInv, Windows!KeyNotes PROVE DtInv'
<1>1. /\ running /\ grip = Windows!NoGrip
      /\ UNCHANGED <<win, order, grip, pressed, chips, running, noteFile, hidden>>
  BY DEF Windows!KeyNotes, Windows!Input
<1>2. note' \in 0 .. NoteCap
  <2>1. note \in 0 .. NoteCap /\ NoteCap \in Nat
    BY AtRest
  <2>2. QED BY <2>1 DEF Windows!KeyNotes
<1>3. DtTypes'
  BY <1>1, <1>2 DEF DtInv, DtTypes
<1>4. Lists(order', win') /\ \A i \in Windows!Slot : Sound(win'[i], i)
  BY <1>1, AtRest
<1>5. Windows!OneFocus' /\ Windows!KeysSeen' /\ Windows!HeldOnTop' /\ ~win'[0].minimized /\ Holding'
  BY <1>1 DEF DtInv, Windows!OneFocus, Windows!KeysSeen, Windows!HeldOnTop, Holding
<1>6. QED BY <1>3, <1>4, <1>5 DEF DtInv

LEMMA KeyF8Keeps == ASSUME DtSizes, DtInv, Windows!KeyF8 PROVE DtInv'
<1>1. /\ running /\ grip = Windows!NoGrip /\ chips' = Windows!Taskbar(win')
      /\ UNCHANGED <<order, grip, pressed, running, note, noteFile>>
  BY DEF Windows!KeyF8, Windows!Input
<1>2. PICK i \in Windows!Slot : /\ win[i].used /\ win[i].focused
                                /\ win' = Windows!Minimized(win, i) /\ hidden' = hidden \ {i}
  BY DEF Windows!KeyF8
<1>3. /\ win' \in [Windows!Slot -> Widget] /\ Lists(order, win') /\ ~win'[0].minimized
      /\ \A j \in Windows!Slot : /\ Sound(win'[j], j) /\ (win'[j].focused => win[j].focused)
                                 /\ win'[j].used = win[j].used
                                 /\ j # i => win'[j] = win[j]
                                 /\ win'[j].focused => ~win'[j].minimized \/ win'[j] = win[j]
  BY <1>2, MinimizedEffect
<1>4. \A j, l \in Windows!Slot : win'[j].focused /\ win'[l].focused => j = l
  BY <1>3 DEF DtInv, Windows!OneFocus
<1>5. \A j \in Windows!Slot \ hidden' : win'[j].used /\ win'[j].focused => ~win'[j].minimized
  <2>1. i = 0 \/ ~win'[i].focused
    <3>1. ASSUME i # 0 PROVE ~win'[i].focused
      <4>1. PICK w \in Widget : w = win[i]
        BY AtRest
      <4>2. win'[i] = [w EXCEPT !.minimized = TRUE, !.focused = FALSE]
        BY <1>2, <3>1, <4>1, AtRest DEF Windows!Minimized
      <4>3. QED BY <4>2 DEF Widget
    <3>2. QED BY <3>1
  <2>2. QED BY <1>1, <1>2, <1>3, <2>1 DEF DtInv, Windows!KeysSeen
<1>6. order' \in Seq(Windows!Slot) /\ Lists(order', win') /\ note' \in 0 .. NoteCap /\ noteFile' \in 0 .. NoteCap
      /\ hidden' \subseteq Windows!Slot
  BY <1>1, <1>2, <1>3, AtRest
<1>7. QED BY <1>1, <1>3, <1>4, <1>5, <1>6, Settled

LEMMA LeaveKeeps == ASSUME DtSizes, DtInv, Windows!Leave PROVE DtInv'
<1>1. grip = Windows!NoGrip /\ running' = FALSE
      /\ UNCHANGED <<win, order, grip, pressed, chips, note, noteFile, inputs, hidden>>
  BY DEF Windows!Leave
<1>2. running' \in BOOLEAN
  BY <1>1, Zenon
<1>3. DtTypes'
  BY <1>1, <1>2 DEF DtInv, DtTypes
<1>4. Lists(order', win') /\ \A i \in Windows!Slot : Sound(win'[i], i)
  BY <1>1, AtRest
<1>5. Windows!OneFocus' /\ Windows!KeysSeen' /\ Windows!HeldOnTop' /\ ~win'[0].minimized /\ Holding'
  BY <1>1 DEF DtInv, Windows!OneFocus, Windows!KeysSeen, Windows!HeldOnTop, Holding
<1>6. QED BY <1>3, <1>4, <1>5 DEF DtInv

LEMMA DtStepKeeps == ASSUME DtSizes, DtInv, [Windows!Next]_(Windows!dtVars) PROVE DtInv'
<1>1. CASE UNCHANGED Windows!dtVars
  BY <1>1 DEF Windows!dtVars, DtInv, DtTypes, Lists, Sound, Windows!OneFocus, Windows!KeysSeen, Windows!HeldOnTop, Holding
<1>2. QED
  BY <1>1, EnterKeeps, OpenWindowKeeps, PressKeeps, HoldKeeps, ReleaseKeeps, KeyNotesKeeps, KeyF8Keeps, LeaveKeeps
  DEF Windows!Next

LEMMA DtWindowsTrue == ASSUME DtSizes, DtInv PROVE Windows!WindowsTrue
<1>1. Windows!OnScreen
  BY DEF DtInv, Windows!OnScreen, Sound, Rect
<1>2. QED BY <1>1 DEF DtInv, Windows!WindowsTrue

LEMMA DtTypeOK == ASSUME DtSizes, DtInv PROVE Windows!TypeOK
<1>1. Windows!ToSet(order) = {i \in Windows!Slot : win[i].used}
  <2>1. \A p \in 1 .. Len(order) : order[p] \in Windows!Slot
    BY AtRest
  <2>2. \A i : i \in Windows!ToSet(order) <=> \E p \in 1 .. Len(order) : order[p] = i
    BY AtRest DEF Windows!ToSet
  <2>3. QED BY <2>1, <2>2 DEF DtInv, Lists
<1>2. Windows!IsInjective(order)
  BY AtRest DEF Windows!IsInjective, Lists
<1>3. QED BY <1>1, <1>2 DEF DtInv, DtTypes, Windows!TypeOK, Sound, Holding

-----------------------------------------------------------------------------
(* A step of the parts is a step of each of them, or leaves it as it was.    *)
LEMMA StepOfEach ==
  ASSUME [Next]_vars
  PROVE  /\ [FatOrder!Next]_(FatOrder!fdVars)
         /\ [Net!Next]_(Net!nsVars)
         /\ [Windows!Next]_(Windows!dtVars)
         /\ [Storage!Next]_(Storage!msVars)
         /\ [Diskette!Next]_(Diskette!flVars)
         /\ [Sata!Next]_(Sata!ahciVars)
         /\ [Ide!Next]_(Ide!ataVars)
         /\ [Clock!Next]_(Clock!rtcVars)
         /\ [Hid!Next]_(Hid!hidVars)
         /\ [Intel!Next]_(Intel!vars)
         /\ [Novell!Next]_(Novell!neVars)
<1> USE DEF Next, vars, driverVars, fileVars, restVars,
      IntelStep, NovellStep, HidStep, StorageStep, NetStep, FatOrderStep, EditorStep, WindowsStep,
      AssemblerStep, DisketteStep, SataStep, IdeStep, ClockStep, ShellStep
<1>1. FatOrder!Next \/ UNCHANGED fatVars
  OBVIOUS
<1>2. Net!Next \/ UNCHANGED netVars
  OBVIOUS
<1>3. Windows!Next \/ UNCHANGED windowsVars
  OBVIOUS
<1>4. Storage!Next \/ UNCHANGED storageVars
  OBVIOUS
<1>5. Diskette!Next \/ UNCHANGED floppyVars
  OBVIOUS
<1>6. Sata!Next \/ UNCHANGED sataVars
  OBVIOUS
<1>7. Ide!Next \/ UNCHANGED ideVars
  OBVIOUS
<1>8. Clock!Next \/ UNCHANGED clockVars
  OBVIOUS
<1>9. Hid!Next \/ UNCHANGED hidVars
  OBVIOUS
<1>10. Intel!Next \/ UNCHANGED intelVars
  OBVIOUS
<1>11. Novell!Next \/ UNCHANGED novellVars
  OBVIOUS
<1> HIDE DEF Next, vars, driverVars, fileVars, restVars,
      IntelStep, NovellStep, HidStep, StorageStep, NetStep, FatOrderStep, EditorStep, WindowsStep,
      AssemblerStep, DisketteStep, SataStep, IdeStep, ClockStep, ShellStep
<1>12. [FatOrder!Next]_(FatOrder!fdVars)
  BY <1>1 DEF FatOrder!fdVars, fatVars
<1>13. [Net!Next]_(Net!nsVars)
  BY <1>2 DEF Net!nsVars, netVars
<1>14. [Windows!Next]_(Windows!dtVars)
  BY <1>3 DEF Windows!dtVars, windowsVars
<1>15. [Storage!Next]_(Storage!msVars)
  BY <1>4 DEF Storage!msVars, storageVars
<1>16. [Diskette!Next]_(Diskette!flVars)
  BY <1>5 DEF Diskette!flVars, floppyVars
<1>17. [Sata!Next]_(Sata!ahciVars)
  BY <1>6 DEF Sata!ahciVars, sataVars
<1>18. [Ide!Next]_(Ide!ataVars)
  BY <1>7 DEF Ide!ataVars, ideVars
<1>19. [Clock!Next]_(Clock!rtcVars)
  BY <1>8 DEF Clock!rtcVars, clockVars
<1>20. [Hid!Next]_(Hid!hidVars)
  BY <1>9 DEF Hid!hidVars, hidVars
<1>21. [Intel!Next]_(Intel!vars)
  BY <1>10 DEF Intel!vars, Intel!rxVars, Intel!txVars, intelVars
<1>22. [Novell!Next]_(Novell!neVars)
  BY <1>11 DEF Novell!neVars, Novell!neRx, Novell!neTx, novellVars
<1>23. QED BY <1>12, <1>13, <1>14, <1>15, <1>16, <1>17, <1>18, <1>19, <1>20, <1>21, <1>22

(* When nothing failed to be transferred, an operation of fat.c that has     *)
(* returned left whole chains that no two files share, and a power cut hurts *)
(* the file in work alone: the order of flush_cache, fat_set and the         *)
(* directory writes.                                                         *)
THEOREM DiskKept == Spec => []DiskKeeps
<1>1. Init => Fd!Init
  BY FatInit DEF Init
<1>2. [Next]_vars => [Fd!Next]_(Fd!fdVars)
  BY StepOfEach, FatNext DEF FatOrder!fdVars, Fd!fdVars
<1>3. Fd!Sizes /\ Fd!Spec => []Fd!DiskKeeps
  BY Fd!DiskStaysWhole
<1>4. Fd!DiskKeeps => DiskKeeps
  BY FatKeeps DEF DiskKeeps
<1>5. Fd!Sizes
  BY PartsSizes DEF PartsSizes, DiskSizes, Fd!Sizes
<1>6. QED BY <1>1, <1>2, <1>3, <1>4, <1>5, PTL DEF Spec, Fd!Spec

(* What ip_send, eth_send and the ARP cache of net.c keep: a packet leaves   *)
(* whole and for the address of its own hop, unless net_poll ran another     *)
(* ip_send while it waited, for the buffer is one; and a name is resolved by *)
(* an answer to the query that asked for it.                                 *)
THEOREM NetStaysTrue == Spec => []NetTrue
<1>1. Init => NetInv
  BY NetInitially, PartsSizes DEF PartsSizes, Init
<1>2. NetInv /\ [Next]_vars => NetInv'
  BY StepOfEach, NetStepKeeps, PartsSizes DEF PartsSizes
<1>3. NetInv => NetTrue
  BY DEF NetInv, NetTrue
<1>4. QED BY <1>1, <1>2, <1>3, PTL DEF Spec

(* What opening, closing, raising, minimizing, dragging and resizing in      *)
(* desktop.c keep: one window at most has the focus, a window that was moved *)
(* is on the screen, the one that is held is on top of the others, and the   *)
(* focus is on no minimized window but one that spawn_widget opened in a     *)
(* minimized entry or raised while it was minimized.                         *)
THEOREM WindowsStayTrue == Spec => []WindowsTrue
<1>1. Init => DtInv
  BY DtInitially, PartsSizes DEF PartsSizes, Init
<1>2. DtInv /\ [Next]_vars => DtInv'
  BY StepOfEach, DtStepKeeps, PartsSizes DEF PartsSizes
<1>3. DtInv => WindowsTrue
  BY DtWindowsTrue, PartsSizes DEF PartsSizes, WindowsTrue
<1>4. QED BY <1>1, <1>2, <1>3, PTL DEF Spec

(* What the drivers of disks and clock keep. Until the first transfer that is *)
(* given up or cut short: a USB stick and its driver stay in step, and a      *)
(* transfer that succeeds moved its sectors (usb.c, ehci.c). A call that      *)
(* returns 0 moved the sectors it was asked for: of floppy.c unless two waits *)
(* were given up before it, of ahci.c on a disk whose slot has its port's     *)
(* number and none of whose waits was given up, of ata.c always, but for the  *)
(* writes the drive refused. rtc_read returns zeros or a time that it was     *)
(* (rtc.c), and a noon or midnight of a 12 hour clock as its opposite.        *)
THEOREM DriversStayTrue == Spec => []DriversTrue
<1> DEFINE Inv == MsInv /\ FlInv /\ AhciInv /\ IdeInv /\ RtcInv
<1>1. Init => Inv
  BY MsInitially, FlInitially, AhciInitially, IdeInitially, RtcInitially, DevicesSizes DEF DevicesSizes, Init
<1>2. Inv /\ [Next]_vars => Inv'
  BY StepOfEach, MsStepKeeps, FlStepKeeps, AhciStepKeeps, IdeStepKeeps, RtcStepKeeps, DevicesSizes DEF DevicesSizes
<1>3. Inv => DriversTrue
  BY MsInStep, FlHolds, AhciHolds, IdeTrue, DevicesSizes DEF DevicesSizes, DriversTrue, RtcInv
<1>4. QED BY <1>1, <1>2, <1>3, PTL DEF Spec

(* What usb_kbd_trygetc and usb_mouse_poll keep of the reports the keyboard's *)
(* and the mouse's transfer descriptors fetch: until a rollover report no key *)
(* is typed more often than it was pressed, even after bus errors, and until  *)
(* a bus error every press is typed and the mouse's moves are added once,     *)
(* whatever the order of reports, polls and transfers to a stick.            *)
THEOREM HidOnceKept == Spec => []HidOnce
<1>1. Init => HidInv
  BY HidInitially, DevicesSizes DEF DevicesSizes, Init
<1>2. HidInv /\ [Next]_vars => HidInv'
  BY StepOfEach, HidStepKeeps, DevicesSizes DEF DevicesSizes
<1>3. HidInv => HidOnce
  BY HidHolds, DevicesSizes DEF DevicesSizes, HidOnce
<1>4. QED BY <1>1, <1>2, <1>3, PTL DEF Spec

(* What e1000.c and ne2000.c keep with their rings, whatever the card does:  *)
(* frames reach net_poll whole, once and in the order they came, and the wire *)
(* until a wait for the transmitter runs out on a frame the card still has.   *)
THEOREM QueuesStayTrue == Spec => QueuesKept
<1> DEFINE Inv == IntelInv /\ NeInv
           Steps == /\ [Intel!RxQueue!Next]_(Intel!RxQueue!vars) /\ [Intel!TxQueue!Next]_(Intel!TxQueue!vars)
                    /\ [Novell!RxQueue!Next]_(Novell!RxQueue!vars) /\ [Novell!TxQueue!Next]_(Novell!TxQueue!vars)
<1>1. Init => Inv /\ Intel!RxQueue!Init /\ Intel!TxQueue!Init /\ Novell!RxQueue!Init /\ Novell!TxQueue!Init
  BY IntelInitially, NeInitially, CardsSizes DEF CardsSizes, Init
<1>2. Inv /\ [Next]_vars => Inv' /\ Steps
  BY StepOfEach, IntelStepKeeps, NeStepKeeps, CardsSizes DEF CardsSizes
<1>3. QED
  BY <1>1, <1>2, PTL DEF Spec, QueuesKept, Intel!RingsAreQueues, Novell!PagesAreQueues,
     Intel!RxQueue!Spec, Intel!TxQueue!Spec, Novell!RxQueue!Spec, Novell!TxQueue!Spec
=============================================================================
