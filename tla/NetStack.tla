------------------------------ MODULE NetStack ------------------------------
(* kernel/net/net.c below TCP: ARP cache, ip_send and the waits inside it,   *)
(* the receive path, ping and the resolver. Everything runs on one stack:    *)
(* ip_send waits for an ARP answer by calling net_poll, net_poll handles     *)
(* frames, and an echo request is answered with ip_send again. Frames on     *)
(* their way to this machine may be lost, late, repeated or out of order. A  *)
(* host has one address, and its MAC is named by it.                         *)
EXTENDS Naturals, Sequences, FiniteSets

CONSTANTS Hosts, Gateway, Far, \* hosts on the local net, one of them the gateway; one behind it
          ArpN,        \* ARP_N
          ArpTries,    \* the 5 requests of ip_send
          DnsTries,    \* the 3 queries of dns_resolve
          Names, Ports, \* host names, the ports dns_resolve may pick
          MaxCalls, MaxIn, MaxDepth \* bounds: calls, frames hosts send unasked, nesting

NoPacket == [kind |-> "none", dst |-> Far, id |-> 0, port |-> 0, name |-> "-"]

VARIABLES
    arp,        \* arp_cache: the addresses in its slots, "-" if not valid
    buf,        \* the static buffer of ip_send
    waits,      \* ip_send calls waiting for ARP, innermost last
    air,        \* frames on their way here
    asked,      \* frames sent unasked so far
    ncall,      \* the call in progress: op, pc, packet, tries left, result
    ncalls,     \* calls so far: ping_seq and dns_id count them
    echoed,     \* icmp_reply_received
    udp,        \* udp_listen_port, udp_recv_ready and the datagram
    wire        \* the last IP packet that left, and what it should have been

nsVars == <<arp, buf, waits, air, asked, ncall, ncalls, echoed, udp, wire>>

Idle == [op |-> "none", pc |-> "idle", pkt |-> NoPacket, tries |-> 0, result |-> "-"]
NoDatagram == [id |-> 0, name |-> "-", empty |-> FALSE]
NoWire == [mac |-> "-", pkt |-> NoPacket, own |-> NoPacket, alone |-> FALSE]

Init ==
    /\ arp = [i \in 1 .. ArpN |-> "-"] /\ buf = NoPacket /\ waits = <<>>
    /\ air = {} /\ asked = 0 /\ ncall = Idle /\ ncalls = 0 /\ echoed = FALSE
    /\ udp = [port |-> 0, ready |-> FALSE, data |-> NoDatagram]
    /\ wire = NoWire

-----------------------------------------------------------------------------
(* ARP. *)

ArpFind(ip) == \E i \in 1 .. ArpN : arp[i] = ip

(* Mutant of ArpInsert: the first free slot, without a look for the address. *)
ArpInsertMutant(ip) ==
    LET free == {i \in 1 .. ArpN : arp[i] = "-"}
        slot == IF free # {} THEN CHOOSE i \in free : \A j \in free : i <= j ELSE 1
    IN  arp' = [arp EXCEPT ![slot] = ip]

(* arp_insert: its own slot, else the first free one, else the first.        *)
ArpInsert(ip) ==
    LET free == {i \in 1 .. ArpN : arp[i] = "-"}
        slot == IF free # {} THEN CHOOSE i \in free : \A j \in free : i <= j ELSE 1
    IN  arp' = IF ArpFind(ip) THEN arp ELSE [arp EXCEPT ![slot] = ip]

-----------------------------------------------------------------------------
(* ip_send. *)

(* The gateway, unless the destination is on the local net. *)
NextHop(dst) == IF dst \in Hosts THEN dst ELSE Gateway

(* What an IP packet on the wire to a MAC brings back. *)
Answers(mac, p) ==
    IF mac # NextHop(p.dst) THEN {}
    ELSE CASE p.kind = "echo" -> {[kind |-> "echoReply", from |-> p.dst]}
           [] p.kind = "query" -> {[kind |-> "dns", id |-> p.id, port |-> p.port,
                                    name |-> p.name, empty |-> e] : e \in BOOLEAN}
           [] OTHER -> {}

(* The buffer goes out to the hop's MAC; `rest` is what was in the air. *)
EthSend(w, rest) ==
    /\ wire' = [mac |-> w.hop, pkt |-> buf', own |-> w.own, alone |-> w.alone]
    /\ \E a \in SUBSET Answers(w.hop, buf') : Cardinality(a) <= 1 /\ air' = rest \cup a

(* arp_request for a hop: a host that is there answers. *)
ArpRequest(hop, rest) == air' = rest \cup {[kind |-> "arpReply", from |-> hop]}

(* ip_send up to its wait: the packet is built in the one buffer; it leaves  *)
(* at once if the hop is in the cache, else the first request goes out. An   *)
(* ip_send below that waits has lost its buffer.                             *)
IpSend(p, rest) ==
    LET w == [hop |-> NextHop(p.dst), own |-> p, tries |-> ArpTries - 1, alone |-> TRUE]
        below == [i \in DOMAIN waits |-> [waits[i] EXCEPT !.alone = FALSE]]
    IN  /\ buf' = p
        /\ IF ArpFind(w.hop) THEN EthSend(w, rest) /\ waits' = below
           ELSE ArpRequest(w.hop, rest) /\ waits' = Append(below, w) /\ UNCHANGED wire

(* 50 ticks are over for the innermost ip_send: it asks again, or sends what *)
(* the buffer holds by now, or gives up. What waited below it goes on in its *)
(* own wait, icmp_ping and udp_recv too; the call's own ip_send returns to it. *)
WaitOver ==
    /\ waits # <<>>
    /\ LET w == waits[Len(waits)]
           found == ArpFind(w.hop)
       IN IF ~found /\ w.tries > 0
          THEN /\ ArpRequest(w.hop, air)
               /\ waits' = [waits EXCEPT ![Len(waits)].tries = @ - 1]
               /\ UNCHANGED <<buf, wire, ncall>>
          ELSE /\ UNCHANGED buf
               /\ IF found THEN EthSend(w, air) ELSE UNCHANGED <<wire, air>>
               /\ waits' = SubSeq(waits, 1, Len(waits) - 1)
               /\ ncall' = IF Len(waits) > 1 \/ ncall.pc # "send" THEN ncall
                           ELSE IF found \/ ncall.op = "resolve" THEN [ncall EXCEPT !.pc = "sent"]
                           ELSE [Idle EXCEPT !.result = "unreachable"]
    /\ UNCHANGED <<arp, asked, ncalls, echoed, udp>>

-----------------------------------------------------------------------------
(* net_poll: it runs inside every wait, and handles what has arrived.        *)

Polling == waits # <<>> \/ ncall.pc = "wait"

(* A host sends an ARP request or a ping unasked. *)
HostSends == \E h \in Hosts, k \in {"arpRequest", "ping"} :
    /\ asked < MaxIn /\ asked' = asked + 1
    /\ air' = air \cup {[kind |-> k, from |-> h]}
    /\ UNCHANGED <<arp, buf, waits, ncall, ncalls, echoed, udp, wire>>

(* arp_input: the sender is learned whatever the packet says. *)
ArpInput == \E m \in air :
    /\ Polling /\ m.kind \in {"arpRequest", "arpReply"}
    /\ ArpInsert(m.from) /\ air' = air \ {m}
    /\ UNCHANGED <<buf, waits, asked, ncall, ncalls, echoed, udp, wire>>

(* icmp_input of an echo request. The frame is gone before the answer. *)
EchoRequest == \E m \in air :
    /\ Polling /\ m.kind = "ping" /\ Len(waits) < MaxDepth
    /\ IpSend([NoPacket EXCEPT !.kind = "pong", !.dst = m.from], air \ {m})
    /\ UNCHANGED <<arp, asked, ncall, ncalls, echoed, udp>>

(* An echo reply: any one ends the wait of icmp_ping. *)
EchoReply == \E m \in air :
    /\ Polling /\ m.kind = "echoReply"
    /\ echoed' = TRUE
    /\ air' \in {air, air \ {m}}
    /\ UNCHANGED <<arp, buf, waits, asked, ncall, ncalls, udp, wire>>

(* udp_input: only for the port listened on, and only the first.             *)
UdpInput == \E m \in air :
    /\ Polling /\ m.kind = "dns"
    /\ air' \in {air, air \ {m}}
    /\ udp' = IF udp.port # m.port \/ udp.ready THEN udp
              ELSE [udp EXCEPT !.ready = TRUE,
                               !.data = [id |-> m.id, name |-> m.name, empty |-> m.empty]]
    /\ UNCHANGED <<arp, buf, waits, asked, ncall, ncalls, echoed, wire>>

-----------------------------------------------------------------------------
(* The calls. *)

Begin(op, p, tries) ==
    /\ ncall.pc = "idle" /\ ncalls < MaxCalls
    /\ ncalls' = ncalls + 1
    /\ ncall' = [op |-> op, pkt |-> p, tries |-> tries, result |-> "-",
                 pc |-> IF ArpFind(NextHop(p.dst)) THEN "sent" ELSE "send"]
    /\ IpSend(p, air)

(* icmp_ping: the flag is cleared, then the request sent. *)
Ping == \E dst \in Hosts \cup {Far} :
    /\ Begin("ping", [NoPacket EXCEPT !.kind = "echo", !.dst = dst, !.id = ncalls + 1], 0)
    /\ echoed' = FALSE
    /\ UNCHANGED <<arp, asked, udp>>

(* dns_resolve: a new id, a port, the first of DnsTries queries.             *)
Resolve == \E n \in Names, port \in Ports :
    /\ Begin("resolve", [kind |-> "query", dst |-> Far, id |-> ncalls + 1, port |-> port, name |-> n],
             DnsTries - 1)
    /\ UNCHANGED <<arp, asked, echoed, udp>>

(* The send has returned: icmp_ping starts its wait, udp_recv opens the port. *)
StartWait ==
    /\ ncall.pc = "sent" /\ ncall' = [ncall EXCEPT !.pc = "wait"]
    /\ udp' = IF ncall.op = "ping" THEN udp
              ELSE [udp EXCEPT !.port = ncall.pkt.port, !.ready = FALSE]
    /\ UNCHANGED <<arp, buf, waits, air, asked, ncalls, echoed, wire>>

(* icmp_ping returns: a reply came, or the time is over. *)
PingReturns ==
    /\ ncall.op = "ping" /\ ncall.pc = "wait" /\ waits = <<>>
    /\ ncall' = [Idle EXCEPT !.result = IF echoed THEN "answered" ELSE "timeout"]
    /\ UNCHANGED <<arp, buf, waits, air, asked, ncalls, echoed, udp, wire>>

(* Mutant of Usable: the id is not compared. *)
UsableMutant(d) == ~d.empty

(* A reply dns_resolve takes: its own id, and an answer in it. *)
Usable(d) == d.id = ncall.pkt.id /\ ~d.empty

(* udp_recv returns, with a datagram or without: a usable one is the result, *)
(* after any other the query is sent again until the tries are used up.      *)
ResolveGoesOn ==
    /\ ncall.op = "resolve" /\ ncall.pc = "wait" /\ waits = <<>>
    /\ udp' = [udp EXCEPT !.port = 0, !.ready = FALSE]
    /\ IF udp.ready /\ Usable(udp.data)
       THEN /\ ncall' = [ncall EXCEPT !.pc = "idle", !.result = udp.data.name]
            /\ UNCHANGED <<buf, waits, air, wire>>
       ELSE IF ncall.tries = 0
       THEN ncall' = Idle /\ UNCHANGED <<buf, waits, air, wire>>
       ELSE /\ ncall' = [ncall EXCEPT !.tries = @ - 1,
                           !.pc = IF ArpFind(NextHop(ncall.pkt.dst)) THEN "sent" ELSE "send"]
            /\ IpSend(ncall.pkt, air)
    /\ UNCHANGED <<arp, asked, ncalls, echoed>>

Next == \/ WaitOver \/ HostSends \/ ArpInput \/ EchoRequest \/ EchoReply \/ UdpInput
        \/ Ping \/ Resolve \/ StartWait \/ PingReturns \/ ResolveGoesOn

Spec == Init /\ [][Next]_nsVars

-----------------------------------------------------------------------------
TypeOK ==
    /\ \A i \in 1 .. ArpN : arp[i] \in Hosts \cup {"-"}
    /\ Len(waits) <= MaxDepth + 1
    /\ ncall.pc \in {"idle", "send", "sent", "wait"}
    /\ ncall.pc = "send" <=> (waits # <<>> /\ waits[1].own = ncall.pkt)
    /\ udp.port \in Ports \cup {0} /\ ncalls \in 0 .. MaxCalls

(* The cache holds an address once. *)
ArpOnce == \A i, j \in 1 .. ArpN : arp[i] = arp[j] /\ arp[i] # "-" => i = j

(* "Picks a destination MAC via ARP (gateway if not on local subnet)"        *)
(* (net.c:220): a packet leaves for its own hop, and whole, unless another   *)
(* ip_send ran while it waited.                                              *)
ToItsHop == wire.alone =>
    /\ wire.pkt = wire.own
    /\ wire.mac = IF wire.pkt.dst \in Hosts THEN wire.pkt.dst ELSE Gateway

(* What dns_resolve returns is an answer to the name it was asked, however   *)
(* late, repeated or disordered the replies to it and to earlier calls are.  *)
ResolvedRight == (ncall.op = "resolve" /\ ncall.pc = "idle") => ncall.result = ncall.pkt.name

NetTrue == ArpOnce /\ ToItsHop /\ ResolvedRight
=============================================================================
