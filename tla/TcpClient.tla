----------------------------- MODULE TcpClient -----------------------------
(***************************************************************************)
(* The single-connection TCP client of kernel/net/net.c and the program    *)
(* that uses it: http_get_once, which connects, sends one request, reads   *)
(* to the end and closes, and connects again when it is redirected.        *)
(*                                                                         *)
(* The peer is any correct TCP server: it answers a SYN, sends its stream  *)
(* within the window the client advertises, retransmits, ends it with a    *)
(* FIN, or resets.  The network loses, duplicates and reorders: a segment  *)
(* arrives any number of times, or never, from the moment the peer may     *)
(* have sent it.  What the peer may have sent only grows, so that it is a  *)
(* function of what the client has sent and needs no variable.             *)
(*                                                                         *)
(* Units of data stand for bytes and are numbered by their place in the    *)
(* peer's stream.  The peer's initial sequence number is 0, so that unit k *)
(* has sequence number k.  Of the client's segments only what a peer can   *)
(* make use of is kept, the number of the SYN and the highest              *)
(* acknowledgement of each connection.  snd_una, which is written and      *)
(* never read, and the checksums are left out.                             *)
(***************************************************************************)
EXTENDS Integers, Sequences

CONSTANTS
  MaxConns,   \* bound on the connections made; each has its own port
  Stream,     \* units the peer sends on a connection
  MaxSeg,     \* units a segment may carry
  RingSize,   \* sizeof tcp.rbuf
  Window,     \* the window tcp_emit advertises
  Chunk,      \* units the caller of tcp_recv has room for
  MaxRcv      \* bound on rcv_nxt, which every repeated FIN increments

ASSUME ConstAssumption ==
  /\ MaxConns \in Nat \ {0} /\ Stream \in Nat /\ MaxSeg \in Nat \ {0}
  /\ RingSize \in Nat /\ RingSize >= 2
  /\ Window \in Nat \ {0} /\ Chunk \in Nat \ {0}
  /\ MaxRcv \in Nat /\ MaxRcv > Stream + 1

VARIABLES
  tcp,     \* struct tcp_conn
  app,     \* where the caller is and what tcp_recv gave it
  out      \* what the client has sent on each port

vars == <<tcp, app, out>>

Port == 1 .. MaxConns
Units == 1 .. Stream
FinSeq == Stream + 1

(* The client's initial sequence number, from pit_ticks: one per port.     *)
Iss(p) == 10 * p

Unit == [port : Port, k : Units]

Closed == [st |-> "closed", port |-> 0, snd |-> 0, rcv |-> 0, ring |-> << >>]

TypeOK ==
  /\ tcp \in [st : {"closed", "syn_sent", "established", "closed_by_peer"},
              port : 0 .. MaxConns, snd : Nat, rcv : Nat, ring : Seq(Unit)]
  /\ Len(tcp.ring) < RingSize
  /\ app \in [pc : {"idle", "connect", "send", "recv", "close"},
              end : {"none", "eof", "timeout"}, got : Seq(Unit)]
  /\ out \in [Port -> [iss : Nat, ack : Nat]]

NotSent == [iss |-> 0, ack |-> 0]

Init ==
  /\ tcp = Closed
  /\ app = [pc |-> "idle", end |-> "none", got |-> << >>]
  /\ out = [p \in Port |-> NotSent]

-----------------------------------------------------------------------------
Least(i, j) == IF i < j THEN i ELSE j

(* tcp_emit: every segment acknowledges rcv_nxt, which only grows; the SYN *)
(* carries the initial sequence number.  ip_send finds the next hop in the *)
(* ARP cache.                                                              *)
EmitSyn(c) == out' = [out EXCEPT ![c.port] = [iss |-> c.snd, ack |-> 0]]
Emit(c)    == out' = [out EXCEPT ![c.port].ack = c.rcv]

-----------------------------------------------------------------------------
(* The peer: the segments it may have sent so far.                         *)
Seg(p, flags, seq, ack, n) == [port |-> p, flags |-> flags, seq |-> seq, ack |-> ack, len |-> n]

Started == {p \in Port : out[p] # NotSent}

SynAcks == {Seg(p, {"syn", "ack"}, 0, out[p].iss + 1, 0) : p \in Started}
Resets  == {Seg(p, {"rst"}, 0, 0, 0) : p \in Started}

(* Data and FIN wait for the acknowledgement of the SYN and stay within    *)
(* the window; a segment may be cut anew, and the last may carry the FIN.  *)
Slices ==
  {x \in Started \X (1 .. FinSeq) \X (0 .. MaxSeg) :
     out[x[1]].ack >= 1 /\ x[2] + x[3] <= Least(FinSeq, out[x[1]].ack + Window)}
Datas == {Seg(x[1], {"ack"}, x[2], 0, x[3]) : x \in Slices}
Fins  == {Seg(x[1], {"ack", "fin"}, x[2], 0, x[3]) : x \in {y \in Slices : y[2] + y[3] = FinSeq}}

Sendable == SynAcks \cup Resets \cup Datas \cup Fins

-----------------------------------------------------------------------------
(* tcp_input: what a segment does to the connection, and whether it is     *)
(* acknowledged.                                                           *)

(* Mutant of Mine: the destination port is not looked at.                  *)
MineAnyPort(m) == tcp.st # "closed"

Mine(m) == tcp.st # "closed" /\ m.port = tcp.port

Reset(m) ==
  /\ "rst" \in m.flags
  /\ tcp' = [tcp EXCEPT !.st = "closed"]
  /\ UNCHANGED out

SynAck(m) ==
  /\ "rst" \notin m.flags /\ tcp.st = "syn_sent"
  /\ {"syn", "ack"} \subseteq m.flags
  /\ tcp' = [tcp EXCEPT !.rcv = m.seq + 1, !.snd = m.ack, !.st = "established"]
  /\ Emit(tcp')

(* Mutant of InOrder: a segment at or behind rcv_nxt is taken.             *)
InOrderOrOld(c, m) == m.len > 0 /\ m.seq <= c.rcv

InOrder(c, m) == m.len > 0 /\ m.seq = c.rcv

(* Mutant of Store: the ring is not checked for room.                      *)
StoreNoRoom(c, m) ==
  [c EXCEPT !.ring = @ \o [i \in 1 .. m.len |-> [port |-> m.port, k |-> m.seq + i - 1]],
            !.rcv = @ + m.len]

(* The ring keeps one place empty; bytes it has no room for are dropped,   *)
(* and acknowledged with the others.                                       *)
Store(c, m) ==
  LET room == RingSize - 1 - Len(c.ring)
      data == [i \in 1 .. Least(m.len, room) |-> [port |-> m.port, k |-> m.seq + i - 1]]
  IN  [c EXCEPT !.ring = @ \o data, !.rcv = @ + m.len]

(* A FIN counts wherever it stands.                                        *)
TakeFin(c) == [c EXCEPT !.rcv = @ + 1, !.st = "closed_by_peer"]

Accept(m) ==
  /\ "rst" \notin m.flags /\ tcp.st \in {"established", "closed_by_peer"}
  /\ LET fin == "fin" \in m.flags
         c   == IF InOrder(tcp, m) THEN Store(tcp, m) ELSE tcp
     IN  /\ tcp' = IF fin THEN TakeFin(c) ELSE c
         /\ IF fin \/ InOrder(tcp, m) THEN Emit(tcp') ELSE UNCHANGED out

(* net_poll runs in the waiting loops of the four calls and nowhere else.  *)
NetPoll ==
  /\ app.pc # "idle" /\ tcp.rcv < MaxRcv
  /\ \E m \in Sendable : Mine(m) /\ (Reset(m) \/ SynAck(m) \/ Accept(m))
  /\ UNCHANGED app

-----------------------------------------------------------------------------
(* The calls, and http_get_once between them.                              *)

(* Mutant of Fresh: the ring of the last connection is kept.               *)
FreshKeepsRing(p) == [st |-> "syn_sent", port |-> p, snd |-> Iss(p), rcv |-> 0, ring |-> tcp.ring]

(* tcp_connect clears the connection and takes the next port.              *)
Fresh(p) == [st |-> "syn_sent", port |-> p, snd |-> Iss(p), rcv |-> 0, ring |-> << >>]

Connect ==
  /\ app.pc = "idle" /\ tcp.port < MaxConns
  /\ LET c == Fresh(tcp.port + 1)
     IN  /\ tcp' = [c EXCEPT !.snd = @ + 1]
         /\ EmitSyn(c)
  /\ app' = [pc |-> "connect", end |-> "none", got |-> << >>]

(* tcp_connect returns 0, and tcp_send sends the request.                  *)
Connected ==
  /\ app.pc = "connect" /\ tcp.st = "established"
  /\ Emit(tcp)
  /\ tcp' = [tcp EXCEPT !.snd = @ + 1]
  /\ app' = [app EXCEPT !.pc = "send"]

(* Mutant of ConnectFails: the connection is not given up at the timeout.  *)
ConnectFailsReset ==
  /\ app.pc = "connect" /\ tcp.st = "closed"
  /\ app' = [app EXCEPT !.pc = "idle"]
  /\ UNCHANGED <<tcp, out>>

(* tcp_connect returns -1: reset, or 500 ticks without an answer.  A FIN   *)
(* behind the SYN-ACK in the same poll leaves it in neither state.         *)
ConnectFails ==
  /\ app.pc = "connect" /\ tcp.st # "established"
  /\ tcp' = [tcp EXCEPT !.st = "closed"]
  /\ app' = [app EXCEPT !.pc = "idle"]
  /\ UNCHANGED out

(* The two ticks after the request are over.                               *)
Sent ==
  /\ app.pc = "send"
  /\ app' = [app EXCEPT !.pc = "recv"]
  /\ UNCHANGED <<tcp, out>>

(* tcp_recv returns what the ring holds, as much as fits.                  *)
Recv ==
  /\ app.pc = "recv" /\ tcp.ring # << >>
  /\ LET n == Least(Chunk, Len(tcp.ring))
     IN  /\ app' = [app EXCEPT !.got = @ \o SubSeq(tcp.ring, 1, n)]
         /\ tcp' = [tcp EXCEPT !.ring = SubSeq(@, n + 1, Len(@))]
  /\ UNCHANGED out

(* tcp_close: a FIN if the connection is up, then 100 ticks of polling.    *)
StartClose(end) ==
  /\ app' = [app EXCEPT !.pc = "close", !.end = end]
  /\ IF tcp.st \in {"established", "closed_by_peer"}
     THEN /\ Emit(tcp)
          /\ tcp' = [tcp EXCEPT !.snd = @ + 1]
     ELSE UNCHANGED <<tcp, out>>

(* tcp_recv returns 0 or -1, and the caller closes.                        *)
RecvEof ==
  /\ app.pc = "recv" /\ tcp.ring = << >> /\ tcp.st \in {"closed_by_peer", "closed"}
  /\ StartClose("eof")

RecvTimeout ==
  /\ app.pc = "recv" /\ tcp.ring = << >> /\ tcp.st = "established"
  /\ StartClose("timeout")

(* The output file cannot be made: the connection is closed at once.       *)
Abandon ==
  /\ app.pc = "send"
  /\ StartClose("none")

CloseDone ==
  /\ app.pc = "close"
  /\ tcp' = [tcp EXCEPT !.st = "closed"]
  /\ app' = [app EXCEPT !.pc = "idle"]
  /\ UNCHANGED out

-----------------------------------------------------------------------------
(* Steps of the caller that end a wait: data, the state of the connection  *)
(* or the PIT end each of them.                                            *)
Caller == Connected \/ ConnectFails \/ Sent \/ Recv \/ RecvEof \/ RecvTimeout \/ CloseDone

Next == NetPoll \/ Connect \/ Caller \/ Abandon

Spec == Init /\ [][Next]_vars

(* The loops are bounded by pit_ticks, and the timer interrupt is on.      *)
FairSpec == Spec /\ WF_vars(Caller)

-----------------------------------------------------------------------------
(* Properties *)

Delivered == app.got \o tcp.ring

(* However segments are lost, repeated, reordered or left over from an     *)
(* earlier connection, the caller gets units of this connection only, each *)
(* at most once and in the order of the stream (the port, rcv_nxt and      *)
(* memset of net.c).                                                       *)
OnceInOrder ==
  app.pc # "idle" =>
    /\ \A i \in 1 .. Len(Delivered) : Delivered[i].port = tcp.port
    /\ \A i, j \in 1 .. Len(Delivered) : i < j => Delivered[i].k < Delivered[j].k

(* Until more has arrived in all than the ring holds, read or not, and as  *)
(* long as no FIN was taken, there is no gap: what is acknowledged is      *)
(* exactly what the caller gets.                                           *)
NoGap ==
  (tcp.rcv <= RingSize /\ tcp.st = "established") =>
    /\ Len(Delivered) = tcp.rcv - 1
    /\ \A i \in 1 .. Len(Delivered) : Delivered[i].k = i

(* What the client has sent on a connection: the SYN, the byte that stands *)
(* for the request, and the FIN.                                           *)
Used == IF app.pc = "connect" THEN 1 ELSE IF app.pc = "close" THEN 3 ELSE 2

(* A connection that is up is the one the peer answered, whichever of its  *)
(* segments come late: snd_nxt, which SYN-ACK sets unchecked, counts what  *)
(* was sent on it; and until a FIN is taken, which counts each time it     *)
(* comes, rcv_nxt lies within the peer's stream.                           *)
Synchronized ==
  /\ tcp.st \in {"established", "closed_by_peer"} => tcp.snd = out[tcp.port].iss + Used
  /\ tcp.st = "established" => tcp.rcv \in 1 .. FinSeq

(* Every call of the client returns, whatever the peer and the network do. *)
CallsReturn == app.pc # "idle" ~> app.pc = "idle"

(* Nor is there a gap when more has arrived.                               *)
RingKeepsAll ==
  tcp.st = "established" => \A i \in 1 .. Len(Delivered) : Delivered[i].k = i

=============================================================================
