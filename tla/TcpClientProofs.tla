-------------------------- MODULE TcpClientProofs --------------------------
(***************************************************************************)
(* What the TCP client promises whatever the network does with the         *)
(* segments: for every length of the peer's stream, every size of the      *)
(* ring, of the window, of a segment and of the caller's buffer, and every *)
(* number of connections.                                                  *)
(*                                                                         *)
(* None of OnceInOrder, NoGap and Synchronized is inductive.  TcpInv adds  *)
(* what the four calls leave behind them (Waits: which states of the       *)
(* connection a wait can meet), and that rcv_nxt is beyond everything      *)
(* delivered (Behind, from which an accepted segment extends the order).   *)
(***************************************************************************)
EXTENDS TcpClient, SequenceTheorems, TLAPS

Up == {"established", "closed_by_peer"}

TcpRec == [st : {"closed", "syn_sent", "established", "closed_by_peer"},
           port : 0 .. MaxConns, snd : Nat, rcv : Nat, ring : Seq(Unit)]

(* The states of the connection each point of the caller can meet.         *)
Waits ==
  /\ app.pc = "idle" => tcp.st = "closed"
  /\ app.pc # "idle" => tcp.port \in Port
  /\ tcp.st = "syn_sent" => app.pc = "connect" /\ tcp.ring = << >>
  /\ app.pc = "connect" => app.got = << >>

(* Everything delivered lies before rcv_nxt.                               *)
Behind ==
  app.pc # "idle" => \A i \in 1 .. Len(Delivered) : Delivered[i].k < tcp.rcv

TcpInv ==
  /\ TypeOK
  /\ Waits
  /\ Behind
  /\ OnceInOrder
  /\ NoGap
  /\ Synchronized

-----------------------------------------------------------------------------
(* The ring and what the caller has of it. *)

LEMMA LeastOf ==
  ASSUME NEW i \in Int, NEW j \in Int
  PROVE  /\ Least(i, j) \in {i, j} /\ Least(i, j) <= i /\ Least(i, j) <= j
         /\ i <= j => Least(i, j) = i
BY DEF Least

LEMMA SeqOfFunction ==
  ASSUME NEW n \in Nat, NEW f \in [1 .. n -> Unit]
  PROVE  f \in Seq(Unit) /\ Len(f) = n
<1>1. f \in Seq(Unit)
  BY SeqDef
<1>2. DOMAIN f = 1 .. n /\ DOMAIN f = 1 .. Len(f) /\ Len(f) \in Nat
  BY <1>1, LenProperties
<1> QED
  BY <1>1, <1>2

LEMMA ConcatUnits ==
  \A a, b, c \in Seq(Unit) : (a \o b) \o c = a \o (b \o c)
<1> SUFFICES ASSUME NEW a \in Seq(Unit), NEW b \in Seq(Unit), NEW c \in Seq(Unit)
             PROVE  (a \o b) \o c = a \o (b \o c)
  OBVIOUS
<1> QED
  BY ConcatAssociative

(* tcp_recv: taking the first n units from the ring changes nothing in the
   order of what is delivered. *)
LEMMA TakeFront ==
  ASSUME NEW g \in Seq(Unit), NEW r \in Seq(Unit), NEW n \in 0 .. Len(r)
  PROVE  /\ SubSeq(r, 1, n) \in Seq(Unit)
         /\ SubSeq(r, n + 1, Len(r)) \in Seq(Unit)
         /\ Len(SubSeq(r, n + 1, Len(r))) = Len(r) - n
         /\ (g \o SubSeq(r, 1, n)) \o SubSeq(r, n + 1, Len(r)) = g \o r
<1>1. /\ Len(r) \in Nat /\ n \in Nat /\ n <= Len(r)
      /\ \A i \in 1 .. Len(r) : r[i] \in Unit
  BY LenProperties, ElementOfSeq
<1>2. SubSeq(r, 1, n) \in Seq(Unit)
  <2>1. \A i \in 1 .. n : r[i] \in Unit
    BY <1>1
  <2> QED
    BY <1>1, <2>1, SubSeqProperties
<1>3. SubSeq(r, n + 1, Len(r)) \in Seq(Unit) /\ Len(SubSeq(r, n + 1, Len(r))) = Len(r) - n
  <2>1. \A i \in n + 1 .. Len(r) : r[i] \in Unit
    BY <1>1
  <2>2. n + 1 \in Int /\ Len(r) \in Int
    BY <1>1
  <2>3. /\ SubSeq(r, n + 1, Len(r)) \in Seq(Unit)
        /\ Len(SubSeq(r, n + 1, Len(r)))
             = IF n + 1 <= Len(r) THEN Len(r) - (n + 1) + 1 ELSE 0
    BY <2>1, <2>2, SubSeqProperties
  <2> QED
    BY <1>1, <2>3
<1>4. SubSeq(r, 1, n) \o SubSeq(r, n + 1, Len(r)) = r
  <2>1. 1 \in 1 .. Len(r) + 1 /\ n \in 1 - 1 .. Len(r) /\ Len(r) \in n .. Len(r)
    BY <1>1
  <2>2. SubSeq(r, 1, n) \o SubSeq(r, n + 1, Len(r)) = SubSeq(r, 1, Len(r))
    BY <2>1, ConcatAdjacentSubSeq
  <2> QED
    BY <2>2, SubSeqFull
<1>5. (g \o SubSeq(r, 1, n)) \o SubSeq(r, n + 1, Len(r)) = g \o r
  <2>1. (g \o SubSeq(r, 1, n)) \o SubSeq(r, n + 1, Len(r))
          = g \o (SubSeq(r, 1, n) \o SubSeq(r, n + 1, Len(r)))
    BY <1>2, <1>3, ConcatUnits
  <2> QED
    BY <2>1, <1>4, Zenon
<1> QED
  BY <1>2, <1>3, <1>5

-----------------------------------------------------------------------------
(* What a segment of the peer carries, and what accepting it does. *)

(* Segments with data lie within the stream, and a SYN-ACK acknowledges the
   SYN the port sent. *)
LEMMA Segments ==
  ASSUME TypeOK, NEW m \in Sendable
  PROVE  /\ m.port \in Port /\ m.seq \in Nat /\ m.ack \in Nat /\ m.len \in Nat
         /\ m.len > 0 => m.seq >= 1 /\ m.seq + m.len <= FinSeq
         /\ "syn" \in m.flags => m.seq = 0 /\ m.ack = out[m.port].iss + 1
<1>1. \A p \in Port : out[p].iss \in Nat /\ out[p].ack \in Nat
  BY DEF TypeOK
<1>2. CASE m \in SynAcks
  BY <1>1, <1>2 DEF SynAcks, Started, Seg
<1>3. CASE m \in Resets
  BY <1>3 DEF Resets, Started, Seg
<1>4. CASE m \in Datas \/ m \in Fins
  <2>1. PICK x \in Slices :
          /\ m = Seg(x[1], {"ack"}, x[2], 0, x[3])
             \/ m = Seg(x[1], {"ack", "fin"}, x[2], 0, x[3])
    BY <1>4 DEF Datas, Fins
  <2>2. /\ x[1] \in Port /\ x[2] \in 1 .. FinSeq /\ x[3] \in 0 .. MaxSeg
        /\ x[2] + x[3] <= Least(FinSeq, out[x[1]].ack + Window)
    BY <2>1 DEF Slices, Started
  <2>3. x[2] + x[3] <= FinSeq
    BY <2>2, <1>1, ConstAssumption, LeastOf DEF FinSeq
  <2>4. "syn" \notin m.flags
    BY <2>1 DEF Seg
  <2> QED
    BY <2>1, <2>2, <2>3, <2>4, ConstAssumption DEF Seg, FinSeq
<1> QED
  BY <1>2, <1>3, <1>4 DEF Sendable

(* tcp_input puts the data behind what the ring holds, as far as it fits. *)
LEMMA Stored ==
  ASSUME NEW c \in TcpRec, Len(c.ring) < RingSize, NEW m,
         m.port \in Port, m.seq \in Nat, m.len \in Nat,
         m.len > 0, m.seq >= 1, m.seq + m.len <= FinSeq
  PROVE  LET room == RingSize - 1 - Len(c.ring)
             s    == Store(c, m)
         IN  /\ s \in TcpRec /\ s.st = c.st /\ s.port = c.port /\ s.snd = c.snd
             /\ s.rcv = c.rcv + m.len
             /\ Len(s.ring) < RingSize
             /\ \E n \in Seq(Unit) :
                  /\ s.ring = c.ring \o n
                  /\ Len(n) = Least(m.len, room)
                  /\ \A i \in 1 .. Len(n) : n[i].port = m.port /\ n[i].k = m.seq + i - 1
<1> DEFINE room == RingSize - 1 - Len(c.ring)
           n    == Least(m.len, room)
           data == [i \in 1 .. n |-> [port |-> m.port, k |-> m.seq + i - 1]]
<1>1. c.ring \in Seq(Unit) /\ Len(c.ring) \in Nat /\ room \in Nat /\ c.rcv \in Nat
  BY ConstAssumption, LenProperties DEF TcpRec
<1>2. n \in Nat /\ n <= m.len /\ n <= room
  BY <1>1, LeastOf
<1>3. data \in [1 .. n -> Unit]
  <2> HIDE DEF n
  <2>1. \A i \in 1 .. n : m.seq + i - 1 \in 1 .. Stream
    <3> SUFFICES ASSUME NEW i \in 1 .. n PROVE m.seq + i - 1 \in 1 .. Stream
      OBVIOUS
    <3>1. i \in Nat /\ i >= 1 /\ i <= m.len
      BY <1>2
    <3> QED
      BY <3>1, ConstAssumption DEF FinSeq
  <2> QED
    BY <2>1 DEF Unit, Units
<1>4. data \in Seq(Unit) /\ Len(data) = n
  BY <1>2, <1>3, SeqOfFunction
<1>5. \A i \in 1 .. Len(data) : data[i].port = m.port /\ data[i].k = m.seq + i - 1
  BY <1>2, <1>4
<1>6. Store(c, m) = [c EXCEPT !.ring = @ \o data, !.rcv = @ + m.len]
  BY DEF Store
<1> HIDE DEF data, n
<1>7. c.ring \o data \in Seq(Unit) /\ Len(c.ring \o data) = Len(c.ring) + Len(data)
  BY <1>1, <1>4, ConcatProperties
<1>8. Len(c.ring \o data) < RingSize
  BY <1>1, <1>2, <1>4, <1>7, ConstAssumption
<1>9. c.rcv + m.len \in Nat
  BY <1>1
<1> QED
  BY <1>4, <1>5, <1>6, <1>7, <1>8, <1>9 DEF TcpRec, n

(* The acknowledgement a segment is sent leaves the first number alone. *)
LEMMA Emitted ==
  ASSUME TypeOK, NEW c, c.rcv \in Nat, Emit(c)
  PROVE  /\ out' \in [Port -> [iss : Nat, ack : Nat]]
         /\ \A p \in Port : out'[p].iss = out[p].iss
<1>1. out \in [Port -> [iss : Nat, ack : Nat]]
  BY DEF TypeOK
<1>2. out' = [out EXCEPT ![c.port].ack = c.rcv]
  BY DEF Emit
<1> QED
  BY <1>1, <1>2

(* A segment in state established or closed_by_peer: either the ring keeps
   what it has, or the segment is the next one and its data is appended. *)
Kept ==
  /\ tcp'.ring = tcp.ring /\ tcp'.rcv \in {tcp.rcv, tcp.rcv + 1}
  /\ tcp'.st = "established" => tcp'.rcv = tcp.rcv

Extended(m) ==
  /\ m.len > 0 /\ m.seq = tcp.rcv
  /\ \E n \in Seq(Unit) :
       /\ tcp'.ring = tcp.ring \o n
       /\ Len(n) = Least(m.len, RingSize - 1 - Len(tcp.ring))
       /\ \A i \in 1 .. Len(n) : n[i].port = m.port /\ n[i].k = m.seq + i - 1
  /\ tcp'.rcv \in {tcp.rcv + m.len, tcp.rcv + m.len + 1}
  /\ tcp'.st = "established" => tcp'.rcv = tcp.rcv + m.len

LEMMA Accepted ==
  ASSUME TypeOK, NEW m \in Sendable, Accept(m)
  PROVE  /\ tcp' \in TcpRec /\ Len(tcp'.ring) < RingSize
         /\ tcp.st \in Up /\ tcp'.st \in Up
         /\ tcp'.st = "established" => tcp.st = "established"
         /\ tcp'.port = tcp.port /\ tcp'.snd = tcp.snd
         /\ out' \in [Port -> [iss : Nat, ack : Nat]]
         /\ \A p \in Port : out'[p].iss = out[p].iss
         /\ Kept \/ Extended(m)
<1> DEFINE fin == "fin" \in m.flags
           c   == IF InOrder(tcp, m) THEN Store(tcp, m) ELSE tcp
<1>1. tcp \in TcpRec /\ Len(tcp.ring) < RingSize /\ tcp.rcv \in Nat /\ tcp.st \in Up
  BY DEF TypeOK, TcpRec, Accept, Up
<1>2. /\ m.port \in Port /\ m.seq \in Nat /\ m.len \in Nat
      /\ m.len > 0 => m.seq >= 1 /\ m.seq + m.len <= FinSeq
  BY Segments
<1>3. /\ c \in TcpRec /\ Len(c.ring) < RingSize /\ c.rcv \in Nat
      /\ c.st = tcp.st /\ c.port = tcp.port /\ c.snd = tcp.snd
      /\ \/ c.ring = tcp.ring /\ c.rcv = tcp.rcv
         \/ /\ m.len > 0 /\ m.seq = tcp.rcv /\ c.rcv = tcp.rcv + m.len
            /\ \E n \in Seq(Unit) :
                 /\ c.ring = tcp.ring \o n
                 /\ Len(n) = Least(m.len, RingSize - 1 - Len(tcp.ring))
                 /\ \A i \in 1 .. Len(n) : n[i].port = m.port /\ n[i].k = m.seq + i - 1
  <2>1. CASE InOrder(tcp, m)
    <3>1. m.len > 0 /\ m.seq = tcp.rcv /\ c = Store(tcp, m)
      BY <2>1 DEF InOrder
    <3>2. m.seq >= 1 /\ m.seq + m.len <= FinSeq
      BY <3>1, <1>2
    <3> HIDE DEF c
    <3>3. tcp.rcv + m.len \in Nat
      BY <1>1, <1>2
    <3> QED
      BY <1>1, <1>2, <3>1, <3>2, <3>3, Stored
  <2>2. CASE ~ InOrder(tcp, m)
    BY <2>2, <1>1
  <2> QED
    BY <2>1, <2>2
<1>4. /\ tcp' = IF fin THEN TakeFin(c) ELSE c
      /\ IF fin \/ InOrder(tcp, m) THEN Emit(tcp') ELSE UNCHANGED out
  BY DEF Accept
<1> HIDE DEF c, fin
<1>5. /\ tcp' \in TcpRec /\ tcp'.ring = c.ring /\ tcp'.port = c.port /\ tcp'.snd = c.snd
      /\ tcp'.rcv = (IF fin THEN c.rcv + 1 ELSE c.rcv)
      /\ tcp'.st = (IF fin THEN "closed_by_peer" ELSE c.st)
      /\ tcp'.rcv \in Nat
  <2>1. CASE fin
    <3>1. tcp' = [c EXCEPT !.rcv = @ + 1, !.st = "closed_by_peer"]
      BY <2>1, <1>4 DEF TakeFin
    <3>2. c.rcv + 1 \in Nat
      BY <1>3
    <3> QED
      BY <2>1, <3>1, <3>2, <1>3 DEF TcpRec
  <2>2. CASE ~ fin
    BY <2>2, <1>3, <1>4
  <2> QED
    BY <2>1, <2>2
<1>6. /\ out' \in [Port -> [iss : Nat, ack : Nat]]
      /\ \A p \in Port : out'[p].iss = out[p].iss
  <2>1. CASE Emit(tcp')
    <3>1. PICK d : d = tcp'
      OBVIOUS
    <3>2. d.rcv \in Nat /\ Emit(d)
      BY <3>1, <2>1, <1>5
    <3> QED
      BY <3>2, Emitted
  <2>2. CASE UNCHANGED out
    BY <2>2 DEF TypeOK
  <2> QED
    BY <2>1, <2>2, <1>4
<1>7. Kept \/ Extended(m)
  <2>1. CASE c.ring = tcp.ring /\ c.rcv = tcp.rcv
    BY <2>1, <1>1, <1>5 DEF Kept
  <2>2. CASE /\ m.len > 0 /\ m.seq = tcp.rcv /\ c.rcv = tcp.rcv + m.len
             /\ \E n \in Seq(Unit) :
                  /\ c.ring = tcp.ring \o n
                  /\ Len(n) = Least(m.len, RingSize - 1 - Len(tcp.ring))
                  /\ \A i \in 1 .. Len(n) : n[i].port = m.port /\ n[i].k = m.seq + i - 1
    BY <2>2, <1>5 DEF Extended
  <2> QED
    BY <2>1, <2>2, <1>3
<1> QED
  BY <1>1, <1>3, <1>5, <1>6, <1>7 DEF Up

(* tcp_close: the FIN takes one sequence number, if the connection is up. *)
LEMMA Closing ==
  ASSUME TypeOK, NEW end \in {"none", "eof", "timeout"}, StartClose(end)
  PROVE  /\ app'.pc = "close" /\ app'.got = app.got
         /\ app' \in [pc : {"idle", "connect", "send", "recv", "close"},
                      end : {"none", "eof", "timeout"}, got : Seq(Unit)]
         /\ tcp' \in TcpRec
         /\ tcp'.st = tcp.st /\ tcp'.port = tcp.port /\ tcp'.rcv = tcp.rcv
         /\ tcp'.ring = tcp.ring
         /\ tcp.st \in Up => tcp'.snd = tcp.snd + 1
         /\ out' \in [Port -> [iss : Nat, ack : Nat]]
         /\ \A p \in Port : out'[p].iss = out[p].iss
<1>1. /\ tcp \in TcpRec /\ tcp.rcv \in Nat /\ tcp.snd \in Nat /\ tcp.snd + 1 \in Nat
      /\ app \in [pc : {"idle", "connect", "send", "recv", "close"},
                  end : {"none", "eof", "timeout"}, got : Seq(Unit)]
      /\ out \in [Port -> [iss : Nat, ack : Nat]]
  BY DEF TypeOK, TcpRec
<1>2. app' = [app EXCEPT !.pc = "close", !.end = end]
  BY DEF StartClose
<1>3. /\ app'.pc = "close" /\ app'.got = app.got
      /\ app' \in [pc : {"idle", "connect", "send", "recv", "close"},
                   end : {"none", "eof", "timeout"}, got : Seq(Unit)]
  BY <1>1, <1>2
<1>4. CASE tcp.st \in Up
  <2>1. Emit(tcp) /\ tcp' = [tcp EXCEPT !.snd = @ + 1]
    BY <1>4 DEF StartClose, Up
  <2>2. /\ out' \in [Port -> [iss : Nat, ack : Nat]]
        /\ \A p \in Port : out'[p].iss = out[p].iss
    BY <2>1, <1>1, Emitted
  <2> QED
    BY <2>1, <2>2, <1>1, <1>3 DEF TcpRec
<1>5. CASE tcp.st \notin Up
  <2>1. UNCHANGED <<tcp, out>>
    BY <1>5 DEF StartClose, Up
  <2> QED
    BY <2>1, <1>1, <1>3, <1>5
<1> QED
  BY <1>4, <1>5

-----------------------------------------------------------------------------
(* TypeOK *)

AppRec == [pc : {"idle", "connect", "send", "recv", "close"},
           end : {"none", "eof", "timeout"}, got : Seq(Unit)]

OutRec == [Port -> [iss : Nat, ack : Nat]]

LEMMA Typed ==
  TypeOK <=> tcp \in TcpRec /\ Len(tcp.ring) < RingSize /\ app \in AppRec /\ out \in OutRec
BY DEF TypeOK, TcpRec, AppRec, OutRec

LEMMA Fields ==
  ASSUME TypeOK
  PROVE  /\ tcp.port \in 0 .. MaxConns /\ tcp.snd \in Nat /\ tcp.rcv \in Nat
         /\ tcp.ring \in Seq(Unit) /\ app.got \in Seq(Unit)
         /\ Len(tcp.ring) \in Nat /\ Len(app.got) \in Nat
         /\ Delivered \in Seq(Unit) /\ Len(Delivered) = Len(app.got) + Len(tcp.ring)
         /\ Len(Delivered) \in Nat
         /\ \A i \in 1 .. Len(Delivered) : Delivered[i].k \in Nat
<1>1. /\ tcp.port \in 0 .. MaxConns /\ tcp.snd \in Nat /\ tcp.rcv \in Nat
      /\ tcp.ring \in Seq(Unit) /\ app.got \in Seq(Unit)
  BY DEF TypeOK
<1>2. Len(tcp.ring) \in Nat /\ Len(app.got) \in Nat
  BY <1>1, LenProperties
<1>3. Delivered \in Seq(Unit) /\ Len(Delivered) = Len(app.got) + Len(tcp.ring)
  BY <1>1, ConcatProperties DEF Delivered
<1>4. \A i \in 1 .. Len(Delivered) : Delivered[i] \in Unit
  BY <1>3, ElementOfSeq
<1>5. \A u \in Unit : u.k \in Nat
  BY DEF Unit, Units
<1>6. \A i \in 1 .. Len(Delivered) : Delivered[i].k \in Nat
  BY <1>4, <1>5
<1>7. Len(Delivered) \in Nat
  BY <1>3, LenProperties
<1> QED
  BY <1>1, <1>2, <1>3, <1>6, <1>7

LEMMA InitTypeOK == Init => TypeOK
<1> SUFFICES ASSUME Init PROVE TypeOK
  OBVIOUS
<1>1. << >> \in Seq(Unit) /\ Len(<< >>) = 0
  BY EmptySeq
<1>2. 0 \in 0 .. MaxConns
  BY ConstAssumption
<1>3. tcp \in TcpRec /\ Len(tcp.ring) < RingSize
  BY <1>1, <1>2, ConstAssumption DEF Init, Closed, TcpRec
<1>4. app \in AppRec
  BY <1>1 DEF Init, AppRec
<1>5. out \in OutRec
  BY DEF Init, NotSent, OutRec
<1> QED
  BY <1>3, <1>4, <1>5, Typed

(* tcp_connect: the connection starts empty, on the next port. *)
LEMMA Connecting ==
  ASSUME TypeOK, Connect
  PROVE  /\ TypeOK'
         /\ app'.pc = "connect" /\ app'.got = << >>
         /\ tcp'.st = "syn_sent" /\ tcp'.ring = << >>
         /\ tcp'.port \in Port
<1> DEFINE c == Fresh(tcp.port + 1)
<1>1. /\ tcp.port + 1 \in Port /\ Port \subseteq 0 .. MaxConns
      /\ Iss(tcp.port + 1) \in Nat
  BY ConstAssumption, SMTT(30) DEF TypeOK, Connect, Port, Iss
<1>2. << >> \in Seq(Unit) /\ Len(<< >>) = 0
  BY EmptySeq
<1>3. /\ c \in TcpRec /\ c.st = "syn_sent" /\ c.port = tcp.port + 1 /\ c.ring = << >>
      /\ c.snd \in Nat
  BY <1>1, <1>2 DEF Fresh, TcpRec
<1>4. tcp' = [c EXCEPT !.snd = @ + 1] /\ EmitSyn(c)
  BY DEF Connect
<1> HIDE DEF c
<1>5. /\ tcp' \in TcpRec /\ tcp'.st = "syn_sent" /\ tcp'.port = tcp.port + 1
      /\ tcp'.ring = << >>
  <2>1. c.snd + 1 \in Nat
    BY <1>3
  <2> QED
    BY <2>1, <1>3, <1>4 DEF TcpRec
<1>6. out' \in OutRec
  <2>1. out \in OutRec
    BY Typed
  <2>2. out' = [out EXCEPT ![c.port] = [iss |-> c.snd, ack |-> 0]]
    BY <1>4 DEF EmitSyn
  <2> QED
    BY <2>1, <2>2, <1>3 DEF OutRec
<1>7. app' \in AppRec /\ app'.pc = "connect" /\ app'.got = << >>
  BY <1>2 DEF Connect, AppRec
<1>8. Len(tcp'.ring) < RingSize
  BY <1>5, <1>2, ConstAssumption
<1>9. TypeOK'
  BY <1>5, <1>6, <1>7, <1>8 DEF TypeOK, TcpRec, AppRec, OutRec
<1> QED
  BY <1>1, <1>5, <1>7, <1>9

(* The SYN-ACK sets both sequence numbers, unchecked. *)
LEMMA SynAcked ==
  ASSUME TypeOK, NEW m \in Sendable, SynAck(m)
  PROVE  /\ tcp' \in TcpRec /\ tcp'.st = "established"
         /\ tcp'.ring = tcp.ring /\ tcp'.port = tcp.port
         /\ tcp'.rcv = 1 /\ tcp'.snd = out[m.port].iss + 1
         /\ out' \in OutRec
         /\ \A p \in Port : out'[p].iss = out[p].iss
<1>1. tcp \in TcpRec /\ out \in OutRec
  BY Typed
<1>2. m.seq = 0 /\ m.ack = out[m.port].iss + 1 /\ m.ack \in Nat
  BY Segments DEF SynAck
<1>3. tcp' = [tcp EXCEPT !.rcv = 1, !.snd = m.ack, !.st = "established"]
  BY <1>2 DEF SynAck
<1>4. /\ tcp' \in TcpRec /\ tcp'.st = "established"
      /\ tcp'.ring = tcp.ring /\ tcp'.port = tcp.port
      /\ tcp'.rcv = 1 /\ tcp'.snd = out[m.port].iss + 1
  BY <1>1, <1>2, <1>3 DEF TcpRec
<1>5. PICK d : d = tcp'
  OBVIOUS
<1>6. d.rcv \in Nat /\ Emit(d)
  BY <1>4, <1>5 DEF SynAck
<1>7. out' \in OutRec /\ \A p \in Port : out'[p].iss = out[p].iss
  BY <1>6, Emitted DEF OutRec
<1> QED
  BY <1>4, <1>7

(* tcp_recv *)
LEMMA Received ==
  ASSUME TypeOK, Recv
  PROVE  /\ tcp' \in TcpRec /\ Len(tcp'.ring) < RingSize /\ app' \in AppRec
         /\ Delivered' = Delivered
         /\ app'.pc = app.pc
         /\ tcp'.st = tcp.st /\ tcp'.port = tcp.port /\ tcp'.snd = tcp.snd
         /\ tcp'.rcv = tcp.rcv
         /\ out' = out
<1> DEFINE n == Least(Chunk, Len(tcp.ring))
<1>1. /\ tcp \in TcpRec /\ app \in AppRec /\ tcp.ring \in Seq(Unit) /\ app.got \in Seq(Unit)
      /\ Len(tcp.ring) \in Nat /\ Len(tcp.ring) < RingSize
  BY Fields, Typed
<1>2. n \in 0 .. Len(tcp.ring)
  BY <1>1, ConstAssumption, LeastOf
<1>3. /\ app' = [app EXCEPT !.got = @ \o SubSeq(tcp.ring, 1, n)]
      /\ tcp' = [tcp EXCEPT !.ring = SubSeq(@, n + 1, Len(@))]
      /\ out' = out
  BY DEF Recv
<1> HIDE DEF n
<1>4. /\ SubSeq(tcp.ring, 1, n) \in Seq(Unit)
      /\ SubSeq(tcp.ring, n + 1, Len(tcp.ring)) \in Seq(Unit)
      /\ Len(SubSeq(tcp.ring, n + 1, Len(tcp.ring))) = Len(tcp.ring) - n
      /\ (app.got \o SubSeq(tcp.ring, 1, n)) \o SubSeq(tcp.ring, n + 1, Len(tcp.ring))
           = app.got \o tcp.ring
  BY <1>1, <1>2, TakeFront
<1>5. app.got \o SubSeq(tcp.ring, 1, n) \in Seq(Unit)
  BY <1>1, <1>4, ConcatProperties
<1>6. /\ app' \in AppRec /\ app'.pc = app.pc /\ app'.got = app.got \o SubSeq(tcp.ring, 1, n)
  BY <1>1, <1>3, <1>5 DEF AppRec
<1>7. /\ tcp' \in TcpRec /\ tcp'.st = tcp.st /\ tcp'.port = tcp.port
      /\ tcp'.snd = tcp.snd /\ tcp'.rcv = tcp.rcv
      /\ tcp'.ring = SubSeq(tcp.ring, n + 1, Len(tcp.ring))
  BY <1>1, <1>3, <1>4 DEF TcpRec
<1>8. Len(tcp'.ring) < RingSize
  BY <1>1, <1>2, <1>4, <1>7, ConstAssumption
<1>9. Delivered' = Delivered
  BY <1>4, <1>6, <1>7, Zenon DEF Delivered
<1> QED
  BY <1>3, <1>6, <1>7, <1>8, <1>9

LEMMA NextTypeOK == TypeOK /\ [Next]_vars => TypeOK'
<1> SUFFICES ASSUME TypeOK, [Next]_vars PROVE TypeOK'
  OBVIOUS
<1> USE DEF OutRec
<1>1. /\ tcp \in TcpRec /\ Len(tcp.ring) < RingSize /\ app \in AppRec /\ out \in OutRec
      /\ tcp.rcv \in Nat /\ tcp.snd \in Nat
  BY Fields, Typed
<1>2. ASSUME tcp' \in TcpRec, Len(tcp'.ring) < RingSize, app' \in AppRec, out' \in OutRec
      PROVE  TypeOK'
  BY <1>2 DEF TypeOK, TcpRec, AppRec
<1>3. CASE NetPoll
  <2>1. PICK m \in Sendable : Mine(m) /\ (Reset(m) \/ SynAck(m) \/ Accept(m))
    BY <1>3 DEF NetPoll
  <2>2. app' \in AppRec
    BY <1>1, <1>3 DEF NetPoll
  <2>3. CASE Reset(m)
    <3>1. tcp' \in TcpRec /\ tcp'.ring = tcp.ring /\ out' = out
      BY <2>3, <1>1 DEF Reset, TcpRec
    <3> QED
      BY <3>1, <2>2, <1>1, <1>2
  <2>4. CASE SynAck(m)
    <3>1. tcp' \in TcpRec /\ tcp'.ring = tcp.ring /\ out' \in OutRec
      BY <2>4, SynAcked
    <3> QED
      BY <3>1, <2>2, <1>1, <1>2
  <2>5. CASE Accept(m)
    BY <2>5, <2>2, <1>2, Accepted
  <2> QED
    BY <2>1, <2>3, <2>4, <2>5
<1>4. CASE Connect
  BY <1>4, Connecting
<1>5. CASE Connected
  <2>1. tcp' = [tcp EXCEPT !.snd = @ + 1] /\ app' = [app EXCEPT !.pc = "send"] /\ Emit(tcp)
    BY <1>5 DEF Connected
  <2>2. out' \in OutRec
    BY <2>1, <1>1, Emitted
  <2>3. tcp.snd + 1 \in Nat
    BY <1>1
  <2>4. tcp' \in TcpRec /\ tcp'.ring = tcp.ring /\ app' \in AppRec
    BY <2>1, <2>3, <1>1 DEF TcpRec, AppRec
  <2> QED
    BY <2>2, <2>4, <1>1, <1>2
<1>6. CASE ConnectFails \/ CloseDone
  <2>1. tcp' = [tcp EXCEPT !.st = "closed"] /\ app' = [app EXCEPT !.pc = "idle"] /\ out' = out
    BY <1>6 DEF ConnectFails, CloseDone
  <2>2. tcp' \in TcpRec /\ tcp'.ring = tcp.ring /\ app' \in AppRec
    BY <2>1, <1>1 DEF TcpRec, AppRec
  <2> QED
    BY <2>1, <2>2, <1>1, <1>2
<1>7. CASE Sent
  <2>1. app' \in AppRec /\ tcp' = tcp /\ out' = out
    BY <1>7, <1>1 DEF Sent, AppRec
  <2> QED
    BY <2>1, <1>1, <1>2
<1>8. CASE Recv
  BY <1>8, <1>1, <1>2, Received
<1>9. CASE RecvEof \/ RecvTimeout \/ Abandon
  <2>1. PICK end \in {"none", "eof", "timeout"} : StartClose(end)
    BY <1>9 DEF RecvEof, RecvTimeout, Abandon
  <2>2. /\ app' \in AppRec /\ tcp' \in TcpRec /\ tcp'.ring = tcp.ring /\ out' \in OutRec
    BY <2>1, Closing DEF AppRec
  <2> QED
    BY <2>2, <1>1, <1>2
<1>10. CASE UNCHANGED vars
  BY <1>10, <1>1, <1>2 DEF vars
<1> QED
  BY <1>3, <1>4, <1>5, <1>6, <1>7, <1>8, <1>9, <1>10 DEF Next, Caller

(* tcp_conn, the caller and the numbers on the wire keep their types, and  *)
(* the ring one free place, whatever arrives and in whatever order.        *)
THEOREM TcpTypes == Spec => []TypeOK
BY InitTypeOK, NextTypeOK, PTL DEF Spec

-----------------------------------------------------------------------------
(* OnceInOrder, NoGap and Synchronized *)

Order == Behind /\ OnceInOrder /\ NoGap

(* A step that delivers nothing, and moves rcv_nxt only when the connection
   leaves established. *)
LEMMA NothingNew ==
  ASSUME TcpInv, Delivered' = Delivered,
         app'.pc # "idle" => app.pc # "idle",
         tcp'.port = tcp.port, tcp'.rcv \in Nat, tcp'.rcv >= tcp.rcv,
         tcp'.st = "established" => tcp.st = "established" /\ tcp'.rcv = tcp.rcv
  PROVE  Order'
<1> DEFINE D == Delivered
<1>1. tcp.rcv \in Nat /\ Len(D) \in Nat /\ \A i \in 1 .. Len(D) : D[i].k \in Nat
  <2>1. TypeOK
    BY DEF TcpInv
  <2>2. tcp.rcv \in Nat /\ Len(D) \in Nat
    BY <2>1, Fields
  <2>3. \A i \in 1 .. Len(D) : D[i].k \in Nat
    BY <2>1, Fields, Zenon
  <2> QED
    BY <2>2, <2>3
<1>2. /\ app.pc # "idle" => \A i \in 1 .. Len(D) : D[i].k < tcp.rcv
      /\ app.pc # "idle" =>
           /\ \A i \in 1 .. Len(D) : D[i].port = tcp.port
           /\ \A i, j \in 1 .. Len(D) : i < j => D[i].k < D[j].k
      /\ (tcp.rcv <= RingSize /\ tcp.st = "established") =>
           Len(D) = tcp.rcv - 1 /\ \A i \in 1 .. Len(D) : D[i].k = i
  BY DEF TcpInv, Behind, OnceInOrder, NoGap
<1> HIDE DEF D
<1>3. Delivered' = D
  BY DEF D
<1>4. Behind'
  BY <1>1, <1>2, <1>3 DEF Behind
<1>5. OnceInOrder'
  BY <1>2, <1>3 DEF OnceInOrder
<1>6. NoGap'
  BY <1>2, <1>3 DEF NoGap
<1> QED
  BY <1>4, <1>5, <1>6 DEF Order

(* Nothing is delivered yet. *)
LEMMA NothingYet ==
  ASSUME app'.got = << >>, tcp'.ring = << >>,
         tcp'.st = "established" => tcp'.rcv = 1
  PROVE  Order'
<1>1. << >> \in Seq(Unit) /\ Len(<< >>) = 0
  BY EmptySeq
<1>2. Delivered' = << >>
  BY <1>1, ConcatEmptySeq DEF Delivered
<1>3. Len(Delivered') = 0 /\ 1 .. 0 = {}
  BY <1>1, <1>2
<1> QED
  BY <1>3 DEF Order, Behind, OnceInOrder, NoGap

(* The segment continues what was delivered: its first number is rcv_nxt,
   beyond everything before it. *)
LEMMA NextUnits ==
  ASSUME TcpInv, TypeOK', NEW m \in Sendable, Mine(m), Extended(m),
         app.pc # "idle", UNCHANGED app, tcp'.port = tcp.port,
         tcp'.st = "established" => tcp.st = "established"
  PROVE  Order'
<1> DEFINE room == RingSize - 1 - Len(tcp.ring)
           D    == Delivered
<1>1. PICK n \in Seq(Unit) :
        /\ tcp'.ring = tcp.ring \o n
        /\ Len(n) = Least(m.len, room)
        /\ \A i \in 1 .. Len(n) : n[i].port = m.port /\ n[i].k = m.seq + i - 1
  BY DEF Extended
<1>2. /\ m.len > 0 /\ m.seq = tcp.rcv /\ m.port = tcp.port
      /\ tcp'.rcv \in {tcp.rcv + m.len, tcp.rcv + m.len + 1}
      /\ tcp'.st = "established" => tcp'.rcv = tcp.rcv + m.len
  BY DEF Extended, Mine
<1>3. TypeOK
  BY DEF TcpInv
<1>4. /\ tcp.rcv \in Nat /\ tcp.ring \in Seq(Unit) /\ app.got \in Seq(Unit)
      /\ Len(tcp.ring) \in Nat /\ Len(tcp.ring) < RingSize /\ Len(app.got) \in Nat
      /\ D \in Seq(Unit) /\ Len(D) = Len(app.got) + Len(tcp.ring) /\ Len(D) \in Nat
      /\ \A i \in 1 .. Len(D) : D[i].k \in Nat
  BY <1>3, Fields DEF TypeOK
<1>5. m.len \in Nat /\ Len(n) \in Nat /\ Len(n) <= m.len /\ (m.len <= room => Len(n) = m.len)
  <2>1. m.len \in Nat
    BY <1>3, Segments
  <2>2. room \in Int /\ Len(n) \in Nat
    BY <1>4, ConstAssumption, LenProperties
  <2> QED
    BY <1>1, <2>1, <2>2, LeastOf
<1>6. Delivered' = D \o n
  <2> HIDE DEF room
  <2>1. app' = app /\ app.got \in Seq(Unit) /\ tcp.ring \in Seq(Unit)
    BY <1>4
  <2>2. Delivered' = app.got \o (tcp.ring \o n)
    BY <1>1, <2>1 DEF Delivered
  <2>3. (app.got \o tcp.ring) \o n = app.got \o (tcp.ring \o n)
    BY <2>1, ConcatUnits
  <2> QED
    BY <2>2, <2>3 DEF Delivered
<1>7. /\ \A i \in 1 .. Len(D) : D[i].k < tcp.rcv /\ D[i].port = tcp.port
      /\ \A i, j \in 1 .. Len(D) : i < j => D[i].k < D[j].k
      /\ (tcp.rcv <= RingSize /\ tcp.st = "established") =>
           Len(D) = tcp.rcv - 1 /\ \A i \in 1 .. Len(D) : D[i].k = i
  BY DEF TcpInv, Behind, OnceInOrder, NoGap
<1> DEFINE E == D \o n
<1> HIDE DEF D
<1>8. /\ Len(E) = Len(D) + Len(n)
      /\ \A i \in 1 .. Len(D) + Len(n) : E[i] = IF i <= Len(D) THEN D[i] ELSE n[i - Len(D)]
  <2>1. D \in Seq(Unit) /\ n \in Seq(Unit)
    BY <1>4
  <2> QED
    BY <2>1, ConcatProperties, Zenon
<1> HIDE DEF E
<1>9. /\ Len(E) = Len(D) + Len(n) /\ Len(D) \in Nat
      /\ \A i \in 1 .. Len(D) : E[i] = D[i]
      /\ \A i \in Len(D) + 1 .. Len(E) :
           E[i].port = tcp.port /\ E[i].k = tcp.rcv + (i - Len(D)) - 1
  <2>1. Len(D) \in Nat
    BY <1>4
  <2>2. \A i \in 1 .. Len(D) : E[i] = D[i]
    BY <1>8, <1>5, <2>1
  <2>3. ASSUME NEW i \in Len(D) + 1 .. Len(E)
        PROVE  E[i].port = tcp.port /\ E[i].k = tcp.rcv + (i - Len(D)) - 1
    <3>1. i - Len(D) \in 1 .. Len(n) /\ i \in 1 .. Len(D) + Len(n) /\ ~ (i <= Len(D))
      BY <2>1, <2>3, <1>5, <1>8
    <3>2. E[i] = n[i - Len(D)]
      BY <3>1, <1>8
    <3> QED
      BY <3>1, <3>2, <1>1, <1>2
  <2> QED
    BY <1>8, <2>1, <2>2, <2>3
<1>10. /\ tcp'.rcv \in Nat /\ tcp.rcv + Len(n) <= tcp'.rcv /\ tcp.rcv \in Nat
  BY <1>2, <1>4, <1>5
<1>11. \A i \in 1 .. Len(E) : E[i].k \in Int /\ E[i].k < tcp'.rcv /\ E[i].port = tcp.port
  <2> SUFFICES ASSUME NEW i \in 1 .. Len(E)
               PROVE  E[i].k \in Int /\ E[i].k < tcp'.rcv /\ E[i].port = tcp.port
    OBVIOUS
  <2>1. CASE i <= Len(D)
    <3>1. i \in 1 .. Len(D)
      BY <2>1, <1>9, <1>5
    <3>2. E[i].k \in Nat /\ E[i].k < tcp.rcv /\ E[i].port = tcp.port
      BY <3>1, <1>4, <1>7, <1>9
    <3> QED
      BY <3>2, <1>5, <1>10
  <2>2. CASE i > Len(D)
    <3>1. i \in Len(D) + 1 .. Len(E) /\ i - Len(D) <= Len(n)
      BY <2>2, <1>9, <1>5
    <3>2. E[i].port = tcp.port /\ E[i].k = tcp.rcv + (i - Len(D)) - 1
      BY <3>1, <1>9
    <3> QED
      BY <3>1, <3>2, <1>5, <1>9, <1>10
  <2> QED
    BY <2>1, <2>2, <1>9, <1>5
<1>12. \A i, j \in 1 .. Len(E) : i < j => E[i].k < E[j].k
  <2> SUFFICES ASSUME NEW i \in 1 .. Len(E), NEW j \in 1 .. Len(E), i < j
               PROVE  E[i].k < E[j].k
    OBVIOUS
  <2>1. CASE j <= Len(D)
    <3>1. i \in 1 .. Len(D) /\ j \in 1 .. Len(D)
      BY <2>1, <1>9, <1>5
    <3> QED
      BY <3>1, <1>7, <1>9
  <2>2. CASE i <= Len(D) /\ j > Len(D)
    <3>1. i \in 1 .. Len(D) /\ j \in Len(D) + 1 .. Len(E)
      BY <2>2, <1>9, <1>5
    <3>2. E[i] = D[i] /\ D[i].k < tcp.rcv /\ D[i].k \in Nat
      BY <3>1, <1>4, <1>7, <1>9
    <3>3. E[j].k = tcp.rcv + (j - Len(D)) - 1
      BY <3>1, <1>9
    <3> QED
      BY <3>1, <3>2, <3>3, <1>9, <1>10
  <2>3. CASE i > Len(D)
    <3>1. i \in Len(D) + 1 .. Len(E) /\ j \in Len(D) + 1 .. Len(E)
      BY <2>3, <1>9, <1>5
    <3>2. E[i].k = tcp.rcv + (i - Len(D)) - 1 /\ E[j].k = tcp.rcv + (j - Len(D)) - 1
      BY <3>1, <1>9
    <3> QED
      BY <3>2, <1>9, <1>10
  <2> QED
    BY <2>1, <2>2, <2>3, <1>9, <1>5
<1>13. ASSUME tcp'.rcv <= RingSize, tcp'.st = "established"
       PROVE  Len(E) = tcp'.rcv - 1 /\ \A i \in 1 .. Len(E) : E[i].k = i
  <2>1. tcp.st = "established" /\ tcp'.rcv = tcp.rcv + m.len /\ tcp.rcv <= RingSize
    BY <1>13, <1>2, <1>4, <1>5, ConstAssumption
  <2>2. Len(D) = tcp.rcv - 1 /\ \A i \in 1 .. Len(D) : D[i].k = i
    BY <2>1, <1>7
  <2>3. m.len <= room
    <3> DEFINE g == Len(app.got)
               r == Len(tcp.ring)
    <3>1. g \in Nat /\ r \in Nat /\ g + r = tcp.rcv - 1
      BY <2>2, <1>4
    <3>2. room = RingSize - 1 - r
      OBVIOUS
    <3> HIDE DEF g, r, room
    <3>3. tcp.rcv + m.len <= RingSize
      BY <1>13, <2>1
    <3> QED
      BY <3>1, <3>2, <3>3, <1>4, <1>5, ConstAssumption
  <2>4. Len(n) = m.len
    BY <2>3, <1>5
  <2>5. ASSUME NEW i \in 1 .. Len(E) PROVE E[i].k = i
    <3>1. CASE i <= Len(D)
      <4>1. i \in 1 .. Len(D)
        BY <3>1, <1>9, <1>5
      <4> QED
        BY <4>1, <2>2, <1>9
    <3>2. CASE i > Len(D)
      <4>1. i \in Len(D) + 1 .. Len(E)
        BY <3>2, <1>9, <1>5
      <4>2. E[i].k = tcp.rcv + (i - Len(D)) - 1
        BY <4>1, <1>9
      <4> QED
        BY <4>1, <4>2, <2>2, <1>9, <1>10
    <3> QED
      BY <3>1, <3>2, <1>9, <1>5
  <2> QED
    BY <2>1, <2>2, <2>4, <2>5, <1>9, <1>10, <1>5
<1>14. Delivered' = E
  BY <1>6 DEF E
<1> QED
  BY <1>11, <1>12, <1>13, <1>14 DEF Order, Behind, OnceInOrder, NoGap

LEMMA InitTcpInv == Init => TcpInv
<1> SUFFICES ASSUME Init PROVE TcpInv
  OBVIOUS
<1>1. TypeOK
  BY InitTypeOK
<1>2. app.pc = "idle" /\ tcp.st = "closed"
  BY DEF Init, Closed
<1> QED
  BY <1>1, <1>2 DEF TcpInv, Waits, Behind, OnceInOrder, NoGap, Synchronized, Up

LEMMA PollTcpInv ==
  ASSUME TcpInv, TypeOK', NetPoll
  PROVE  TcpInv'
<1>1. PICK m \in Sendable : Mine(m) /\ (Reset(m) \/ SynAck(m) \/ Accept(m))
  BY DEF NetPoll
<1>2. /\ TypeOK /\ app' = app /\ app.pc # "idle" /\ m.port = tcp.port /\ tcp.port \in Port
      /\ tcp \in TcpRec /\ tcp.rcv \in Nat /\ tcp.snd \in Nat
      /\ tcp.st = "syn_sent" => app.pc = "connect" /\ tcp.ring = << >>
      /\ app.pc = "connect" => app.got = << >>
      /\ tcp.st \in Up => tcp.snd = out[tcp.port].iss + Used
  <2>1. TypeOK
    BY DEF TcpInv
  <2> QED
    BY <2>1, <1>1, Fields, Typed DEF TcpInv, Waits, Synchronized, NetPoll, Mine, Up
<1>3. CASE Reset(m)
  <2>1. /\ tcp'.st = "closed" /\ tcp'.port = tcp.port /\ tcp'.ring = tcp.ring
        /\ tcp'.rcv = tcp.rcv
    BY <1>2, <1>3 DEF Reset, TcpRec
  <2>2. Delivered' = Delivered
    BY <1>2, <2>1 DEF Delivered
  <2>3. Order'
    BY <1>2, <2>1, <2>2, NothingNew
  <2>4. Waits' /\ Synchronized'
    BY <1>2, <2>1 DEF Waits, Synchronized, Up
  <2> QED
    BY <2>3, <2>4 DEF TcpInv, Order
<1>4. CASE SynAck(m)
  <2>1. /\ tcp'.st = "established" /\ tcp'.ring = << >> /\ tcp'.port = tcp.port
        /\ tcp'.rcv = 1 /\ tcp'.snd = out'[tcp.port].iss + 1
        /\ app.pc = "connect" /\ app.got = << >>
    BY <1>2, <1>4, SynAcked DEF SynAck
  <2>2. Order'
    BY <1>2, <2>1, NothingYet
  <2>3. 1 \in 1 .. FinSeq
    BY ConstAssumption DEF FinSeq
  <2>4. Waits' /\ Synchronized'
    BY <1>2, <2>1, <2>3 DEF Waits, Synchronized, Used, Up
  <2> QED
    BY <2>2, <2>4 DEF TcpInv, Order
<1>5. CASE Accept(m)
  <2>1. /\ tcp.st \in Up /\ tcp'.st \in Up
        /\ tcp'.st = "established" => tcp.st = "established"
        /\ tcp'.port = tcp.port /\ tcp'.snd = tcp.snd
        /\ \A p \in Port : out'[p].iss = out[p].iss
        /\ Kept \/ Extended(m)
    BY <1>2, <1>5, Accepted
  <2>2. Order'
    <3>1. CASE Kept
      <4>1. Delivered' = Delivered
        BY <1>2, <3>1 DEF Delivered, Kept
      <4>2. tcp'.rcv \in Nat /\ tcp'.rcv >= tcp.rcv
        BY <1>2, <3>1 DEF Kept
      <4> QED
        BY <1>2, <2>1, <3>1, <4>1, <4>2, NothingNew DEF Kept
    <3>2. CASE Extended(m)
      BY <1>1, <1>2, <2>1, <3>2, NextUnits
    <3> QED
      BY <2>1, <3>1, <3>2
  <2>3. tcp'.st = "established" => tcp'.rcv \in 1 .. FinSeq
    <3> SUFFICES ASSUME tcp'.st = "established" PROVE tcp'.rcv \in 1 .. FinSeq
      OBVIOUS
    <3>1. tcp.rcv \in 1 .. FinSeq
      BY <2>1 DEF TcpInv, Synchronized
    <3>2. CASE Kept
      BY <3>1, <3>2 DEF Kept
    <3>3. CASE Extended(m)
      <4>1. tcp'.rcv = m.seq + m.len /\ m.len > 0
        BY <3>3 DEF Extended
      <4>2. m.seq \in Nat /\ m.len \in Nat /\ m.seq + m.len <= FinSeq
        BY <1>2, <4>1, Segments
      <4> QED
        BY <4>1, <4>2, ConstAssumption DEF FinSeq
    <3> QED
      BY <2>1, <3>2, <3>3
  <2>4. Waits' /\ Synchronized'
    BY <1>2, <2>1, <2>3 DEF Waits, Synchronized, Used, Up
  <2> QED
    BY <2>2, <2>4 DEF TcpInv, Order
<1> QED
  BY <1>1, <1>3, <1>4, <1>5

(* The steps of the caller: none of them delivers anything, and a call ends
   or sends with the numbers Synchronized gives. *)
LEMMA CallTcpInv ==
  ASSUME TcpInv, TypeOK',
         NEW up \in BOOLEAN, up <=> tcp.st \in Up,
         app.pc # "idle", app'.pc # "connect",
         app'.pc = "idle" => tcp'.st = "closed",
         tcp'.st \in {tcp.st, "closed"}, tcp'.st # "syn_sent",
         tcp'.port = tcp.port, tcp'.rcv = tcp.rcv,
         Delivered' = Delivered,
         \A p \in Port : out'[p].iss = out[p].iss,
         tcp'.st \in Up => tcp'.snd - Used' = tcp.snd - Used
  PROVE  TcpInv'
<1>1. /\ TypeOK /\ tcp.port \in Port /\ tcp.rcv \in Nat
  <2>1. TypeOK
    BY DEF TcpInv
  <2> QED
    BY <2>1, Fields DEF TcpInv, Waits
<1>2. Order'
  <2>1. tcp'.rcv \in Nat /\ tcp'.rcv >= tcp.rcv
    BY <1>1
  <2>2. tcp'.st = "established" => tcp.st = "established" /\ tcp'.rcv = tcp.rcv
    OBVIOUS
  <2> QED
    BY <2>1, <2>2, NothingNew
<1>3. Waits'
  BY <1>1 DEF Waits
<1>4. Synchronized'
  <2>0. tcp'.st = "established" => tcp'.rcv \in 1 .. FinSeq
    BY DEF TcpInv, Synchronized
  <2> SUFFICES ASSUME tcp'.st \in Up PROVE tcp'.snd = out'[tcp'.port].iss + Used'
    BY <2>0 DEF Synchronized, Up
  <2>1. tcp.st \in Up
    BY DEF Up
  <2>2. tcp.snd = out[tcp.port].iss + Used
    BY <2>1 DEF TcpInv, Synchronized, Up
  <2>3. /\ tcp.snd \in Nat /\ tcp'.snd \in Nat /\ out[tcp.port].iss \in Nat
        /\ Used \in Nat /\ Used' \in Nat
    BY <1>1 DEF TypeOK, Used
  <2>4. out'[tcp'.port].iss = out[tcp.port].iss
    BY <1>1
  <2>5. tcp'.snd - Used' = tcp.snd - Used
    OBVIOUS
  <2> QED
    BY <2>2, <2>3, <2>4, <2>5
<1> QED
  BY <1>2, <1>3, <1>4 DEF TcpInv, Order

LEMMA NextTcpInv == TcpInv /\ [Next]_vars => TcpInv'
<1> SUFFICES ASSUME TcpInv, [Next]_vars PROVE TcpInv'
  OBVIOUS
<1>1. TypeOK /\ TypeOK'
  BY NextTypeOK DEF TcpInv
<1>2. /\ tcp \in TcpRec /\ app \in AppRec /\ out \in OutRec
      /\ tcp.rcv \in Nat /\ tcp.snd \in Nat
  BY <1>1, Fields, Typed
<1>3. /\ app.pc = "idle" => tcp.st = "closed"
      /\ tcp.st = "syn_sent" => app.pc = "connect"
  BY DEF TcpInv, Waits
<1>4. (tcp.st \in Up) \in BOOLEAN
  BY DEF Up
<1>5. CASE NetPoll
  BY <1>1, <1>5, PollTcpInv
<1>6. CASE Connect
  <2>1. /\ app'.pc = "connect" /\ app'.got = << >>
        /\ tcp'.st = "syn_sent" /\ tcp'.ring = << >> /\ tcp'.port \in Port
    BY <1>1, <1>6, Connecting
  <2>2. Order'
    BY <2>1, NothingYet
  <2>3. Waits' /\ Synchronized'
    BY <2>1 DEF Waits, Synchronized, Up
  <2> QED
    BY <1>1, <2>2, <2>3 DEF TcpInv, Order
<1>7. CASE Connected
  <2>1. /\ tcp' = [tcp EXCEPT !.snd = @ + 1] /\ app' = [app EXCEPT !.pc = "send"]
        /\ app.pc = "connect" /\ tcp.st = "established" /\ Emit(tcp)
    BY <1>7 DEF Connected
  <2>2. /\ app'.pc = "send" /\ app'.got = app.got
        /\ tcp'.st = tcp.st /\ tcp'.port = tcp.port /\ tcp'.rcv = tcp.rcv
        /\ tcp'.ring = tcp.ring /\ tcp'.snd = tcp.snd + 1
    BY <1>2, <2>1 DEF TcpRec, AppRec
  <2>3. \A p \in Port : out'[p].iss = out[p].iss
    BY <1>1, <1>2, <2>1, Emitted
  <2>4. Delivered' = Delivered
    BY <2>2 DEF Delivered
  <2>5. Used = 1 /\ Used' = 2
    BY <2>1, <2>2 DEF Used
  <2>6. tcp'.snd - Used' = tcp.snd - Used
    BY <1>2, <2>2, <2>5
  <2> QED
    BY <1>1, <1>4, <2>1, <2>2, <2>3, <2>4, <2>6, CallTcpInv
<1>8. CASE ConnectFails \/ CloseDone
  <2>1. /\ tcp' = [tcp EXCEPT !.st = "closed"] /\ app' = [app EXCEPT !.pc = "idle"]
        /\ out' = out /\ app.pc # "idle"
    BY <1>8 DEF ConnectFails, CloseDone
  <2>2. /\ app'.pc = "idle" /\ app'.got = app.got
        /\ tcp'.st = "closed" /\ tcp'.port = tcp.port /\ tcp'.rcv = tcp.rcv
        /\ tcp'.ring = tcp.ring
    BY <1>2, <2>1 DEF TcpRec, AppRec
  <2>3. Delivered' = Delivered
    BY <2>2 DEF Delivered
  <2>4. tcp'.st \notin Up
    BY <2>2 DEF Up
  <2> QED
    BY <1>1, <1>4, <2>1, <2>2, <2>3, <2>4, CallTcpInv
<1>9. CASE Sent
  <2>1. /\ app.pc = "send" /\ app'.pc = "recv" /\ app'.got = app.got
        /\ tcp' = tcp /\ out' = out
    BY <1>2, <1>9 DEF Sent, AppRec
  <2>2. Delivered' = Delivered
    BY <2>1 DEF Delivered
  <2>3. Used' = Used
    BY <2>1 DEF Used
  <2>4. tcp.st # "syn_sent"
    BY <1>3, <2>1
  <2> QED
    BY <1>1, <1>4, <2>1, <2>2, <2>3, <2>4, CallTcpInv
<1>10. CASE Recv
  <2>1. /\ Delivered' = Delivered /\ app'.pc = app.pc /\ app.pc = "recv"
        /\ tcp'.st = tcp.st /\ tcp'.port = tcp.port /\ tcp'.snd = tcp.snd
        /\ tcp'.rcv = tcp.rcv /\ out' = out
    BY <1>1, <1>10, Received DEF Recv
  <2>2. Used' = Used
    BY <2>1 DEF Used
  <2>3. tcp.st # "syn_sent"
    BY <1>3, <2>1
  <2> QED
    BY <1>1, <1>4, <2>1, <2>2, <2>3, CallTcpInv
<1>11. CASE RecvEof \/ RecvTimeout \/ Abandon
  <2>1. PICK end \in {"none", "eof", "timeout"} : StartClose(end)
    BY <1>11 DEF RecvEof, RecvTimeout, Abandon
  <2>2. app.pc \in {"send", "recv"}
    BY <1>11 DEF RecvEof, RecvTimeout, Abandon
  <2>3. /\ app'.pc = "close" /\ app'.got = app.got
        /\ tcp'.st = tcp.st /\ tcp'.port = tcp.port /\ tcp'.rcv = tcp.rcv
        /\ tcp'.ring = tcp.ring
        /\ tcp.st \in Up => tcp'.snd = tcp.snd + 1
        /\ \A p \in Port : out'[p].iss = out[p].iss
    BY <1>1, <2>1, Closing
  <2>4. Delivered' = Delivered
    BY <2>3 DEF Delivered
  <2>5. Used = 2 /\ Used' = 3
    BY <2>2, <2>3 DEF Used
  <2>6. tcp'.st \in Up => tcp'.snd - Used' = tcp.snd - Used
    BY <1>2, <2>3, <2>5
  <2>7. tcp.st # "syn_sent"
    BY <1>3, <2>2
  <2> QED
    BY <1>1, <1>4, <2>2, <2>3, <2>4, <2>6, <2>7, CallTcpInv
<1>12. CASE UNCHANGED vars
  BY <1>12 DEF vars, TcpInv, TypeOK, Waits, Behind, OnceInOrder, NoGap, Synchronized, Used, Delivered
<1> QED
  BY <1>5, <1>6, <1>7, <1>8, <1>9, <1>10, <1>11, <1>12 DEF Next, Caller

LEMMA TcpInvariant == Spec => []TcpInv
BY InitTcpInv, NextTcpInv, PTL DEF Spec

(* However segments are lost, repeated, reordered or left over from an     *)
(* earlier connection, tcp_recv gives the caller units of this connection  *)
(* only, each at most once and in the order of the stream.                 *)
THEOREM TcpOnceInOrder == Spec => []OnceInOrder
<1>1. TcpInv => OnceInOrder
  BY DEF TcpInv
<1> QED
  BY <1>1, TcpInvariant, PTL

(* As long as no more has arrived in all than the ring holds, read or not, *)
(* and no FIN was taken, what tcp_input acknowledges is exactly what the caller gets.     *)
THEOREM TcpNoGap == Spec => []NoGap
<1>1. TcpInv => NoGap
  BY DEF TcpInv
<1> QED
  BY <1>1, TcpInvariant, PTL

(* Of a connection that is up snd_nxt counts exactly what the client has   *)
(* sent behind the SYN the peer answered, although tcp_input sets it       *)
(* unchecked; and until a FIN is taken rcv_nxt lies within the peer's      *)
(* stream.                                                                 *)
THEOREM TcpSynchronized == Spec => []Synchronized
<1>1. TcpInv => Synchronized
  BY DEF TcpInv
<1> QED
  BY <1>1, TcpInvariant, PTL

=============================================================================
