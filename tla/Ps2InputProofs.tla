--------------------------- MODULE Ps2InputProofs ---------------------------
(***************************************************************************)
(* Keyboard and mouse for every number of keys and packets and every size  *)
(* of the ring: the types on every kind of machine; and on a machine whose *)
(* CPU takes a latched IRQ1 before it looks at the controller, or that has *)
(* no IRQ1 at all, that keys and packets come through whole and in order.  *)
(*                                                                         *)
(* The properties speak of what has arrived; the invariant PsInv also says *)
(* what is still on its way: which byte may follow which in the queue of a *)
(* device, in the output byte and in the local of a polled on_irq1.        *)
(***************************************************************************)
EXTENDS Ps2Input, SequenceTheorems, TLAPS

-----------------------------------------------------------------------------
(* Types. *)

Places == {"check", "status", "inb", "decode", "store", "advance", "take", "gohlt", "hlt"}

LEMMA ByteFacts ==
  /\ \A b \in KeyByte : /\ b.src = "kbd" /\ b \in Byte /\ b # NoByte /\ b.k \in 1 .. MaxKeys
                        /\ b.part \in {"plain", "E0", "second"}
  /\ \A b \in MouseByte : /\ b.src = "mouse" /\ b \in Byte /\ b # NoByte /\ b.bit3 \in BOOLEAN
                          /\ b.part \in {"b1", "b2", "b3"}
  /\ NoByte \in Byte /\ NoByte.src = "none"
  /\ \A b \in Byte : /\ b.src = "mouse" => b \in MouseByte
                     /\ b.src = "kbd" => b \in KeyByte
                     /\ b # NoByte => b \in KeyByte \/ b \in MouseByte
  /\ \A k \in 1 .. MaxKeys, p \in {"plain", "E0", "second"} : Key(k, p) \in KeyByte
<1>1. \A b \in KeyByte : b.src = "kbd" /\ b.k \in 1 .. MaxKeys /\ b.part \in {"plain", "E0", "second"}
  BY DEF KeyByte
<1>2. \A b \in MouseByte : b.src = "mouse" /\ b.bit3 \in BOOLEAN /\ b.part \in {"b1", "b2", "b3"}
  BY DEF MouseByte
<1>3. NoByte.src = "none"
  BY DEF NoByte
<1>4. \A k \in 1 .. MaxKeys, p \in {"plain", "E0", "second"} : Key(k, p) \in KeyByte
  BY DEF Key, KeyByte
<1>5. Byte = KeyByte \cup MouseByte \cup {NoByte}
  BY DEF Byte
<1>6. QED BY <1>1, <1>2, <1>3, <1>4, <1>5

LEMMA RingFacts ==
  /\ BufSize \in Nat /\ BufSize >= 2 /\ 0 \in Index /\ Index \subseteq Nat
  /\ \A i \in Index : Succ(i) \in Index /\ Succ(i) = IF i = BufSize - 1 THEN 0 ELSE i + 1
<1> DEFINE N == BufSize
<1>1. N \in Nat /\ N >= 2
  BY ConstAssumption
<1> HIDE DEF N
<1>2. \A i \in 0 .. N - 1 : (i + 1) % N = IF i = N - 1 THEN 0 ELSE i + 1
  BY <1>1
<1>3. \A i \in 0 .. N - 1 : (IF i = N - 1 THEN 0 ELSE i + 1) \in 0 .. N - 1
  BY <1>1
<1>4. QED BY <1>1, <1>2, <1>3 DEF N, Index, Succ

LEMMA CharFacts ==
  /\ NoChar \in Char
  /\ \A b \in Byte : Decode(b).char \in Char /\ Decode(b).ext \in BOOLEAN
<1>1. NoChar \in Char
  BY ConstAssumption DEF NoChar, Char
<1>2. ASSUME NEW b \in Byte
      PROVE  Decode(b).char \in Char /\ Decode(b).ext \in BOOLEAN
  <2>1. Decode(b).ext = (b.part = "E0")
    BY DEF Decode
  <2>2. CASE b.src = "mouse"
    BY <1>1, <2>1, <2>2 DEF Decode
  <2>3. CASE b.src # "mouse"
    <3>1. b.k \in 0 .. MaxKeys
      <4>1. CASE b = NoByte
        BY <4>1, ConstAssumption DEF NoByte
      <4>2. CASE b \in KeyByte
        BY <4>2, ConstAssumption DEF KeyByte
      <4> QED BY <2>3, <4>1, <4>2, ByteFacts
    <3>2. Decode(b).char = [k |-> b.k, right |-> ext <=> b.part = "second"]
      BY <2>3 DEF Decode
    <3>3. (ext <=> b.part = "second") \in BOOLEAN
      OBVIOUS
    <3> QED BY <2>1, <3>1, <3>2, <3>3 DEF Char
  <2> QED BY <2>2, <2>3
<1>3. QED BY <1>1, <1>2

LEMMA TypeInit == Init => TypeOK
<1> SUFFICES ASSUME Init PROVE TypeOK
  OBVIOUS
<1>1. /\ kbdQ \in Seq(KeyByte) /\ mouseQ \in Seq(MouseByte) /\ pkt \in Seq(MouseByte)
      /\ Len(pkt) < 3 /\ packets \in Seq([1 .. 3 -> MouseByte]) /\ read \in Seq(Char)
  BY DEF Init
<1>2. /\ buf \in [Index -> Char] /\ head \in Index /\ tail \in Index
      /\ slot \in [at : Index, char : Char]
  BY CharFacts, RingFacts DEF Init
<1>3. QED BY <1>1, <1>2, ByteFacts, ConstAssumption DEF Init, TypeOK

LEMMA TypeDevices ==
  ASSUME TypeOK, Type \/ Move \/ Fill
  PROVE  TypeOK'
<1>1. CASE Type
  <2>1. typed' \in 1 .. MaxKeys /\ typed' \in 0 .. MaxKeys
    BY <1>1, ConstAssumption DEF Type, TypeOK
  <2>2. Key(typed', "plain") \in KeyByte /\ Key(typed', "E0") \in KeyByte /\ Key(typed', "second") \in KeyByte
    BY <2>1, ByteFacts
  <2>3. kbdQ' \in Seq(KeyByte)
    <3>1. PICK x, y, z : /\ x = Key(typed', "plain") /\ y = Key(typed', "E0")
                         /\ z = Key(typed', "second")
      OBVIOUS
    <3>2. kbdQ' = Append(kbdQ, x) \/ kbdQ' = kbdQ \o <<y, z>>
      BY <1>1, <3>1, Zenon DEF Type
    <3>3. x \in KeyByte /\ y \in KeyByte /\ z \in KeyByte /\ kbdQ \in Seq(KeyByte)
      BY <2>2, <3>1 DEF TypeOK
    <3>4. <<y, z>> \in Seq(KeyByte)
      BY <3>3
    <3>5. Append(kbdQ, x) \in Seq(KeyByte)
      BY <3>3
    <3>6. kbdQ \o <<y, z>> \in Seq(KeyByte)
      <4> DEFINE t == <<y, z>>
      <4> HIDE DEF t
      <4>1. kbdQ \o t \in Seq(KeyByte)
        BY <3>3, <3>4, ConcatProperties DEF t
      <4> QED BY <4>1 DEF t
    <3> QED BY <3>2, <3>5, <3>6
  <2> QED BY <1>1, <2>1, <2>3 DEF Type, TypeOK, ring, mouse, main
<1>2. CASE Move
  <2>1. moved' \in 1 .. MaxPackets /\ moved' \in 0 .. MaxPackets
    BY <1>2, ConstAssumption DEF Move, TypeOK
  <2>2. \A x \in {"b1", "b2", "b3"}, y \in BOOLEAN :
          [src |-> "mouse", k |-> moved', part |-> x, bit3 |-> y] \in MouseByte
    BY <2>1 DEF MouseByte
  <2>3. PICK b2 \in BOOLEAN, b3 \in BOOLEAN :
          mouseQ' = mouseQ \o <<[src |-> "mouse", k |-> moved', part |-> "b1", bit3 |-> TRUE],
                                [src |-> "mouse", k |-> moved', part |-> "b2", bit3 |-> b2],
                                [src |-> "mouse", k |-> moved', part |-> "b3", bit3 |-> b3]>>
    BY <1>2 DEF Move
  <2>4. mouseQ' \in Seq(MouseByte)
    <3>1. PICK x, y, z : /\ x \in MouseByte /\ y \in MouseByte /\ z \in MouseByte
                         /\ mouseQ' = mouseQ \o <<x, y, z>>
      BY <2>2, <2>3
    <3> QED BY <3>1 DEF TypeOK
  <2> QED BY <1>2, <2>1, <2>4 DEF Move, TypeOK, ring, mouse, main
<1>3. CASE Fill
  <2>1. obf' \in Byte /\ kbdQ' \in Seq(KeyByte) /\ mouseQ' \in Seq(MouseByte)
    <3>1. kbdQ \in Seq(KeyByte) /\ mouseQ \in Seq(MouseByte)
      BY DEF TypeOK
    <3>2. kbdQ # << >> => Head(kbdQ) \in KeyByte /\ Tail(kbdQ) \in Seq(KeyByte)
      BY <3>1, HeadTailProperties
    <3>3. mouseQ # << >> => Head(mouseQ) \in MouseByte /\ Tail(mouseQ) \in Seq(MouseByte)
      BY <3>1, HeadTailProperties
    <3>4. KeyByte \subseteq Byte /\ MouseByte \subseteq Byte
      BY ByteFacts
    <3> QED BY <1>3, <3>1, <3>2, <3>3, <3>4 DEF Fill
  <2>2. irq' \subseteq {1, 12}
    BY <1>3 DEF Fill, TypeOK
  <2> QED BY <1>3, <2>1, <2>2 DEF Fill, TypeOK, ring, mouse, main
<1>4. QED BY <1>1, <1>2, <1>3

LEMMA TypeReadPort ==
  ASSUME TypeOK, ReadPort
  PROVE  /\ Data \in Byte /\ obf' \in Byte /\ last' \in Byte
         /\ UNCHANGED <<machine, kbdQ, mouseQ, typed, moved>>
BY ByteFacts DEF ReadPort, Data, TypeOK

LEMMA TypeHandlers ==
  ASSUME TypeOK, Irq1 \/ Irq12 \/ Tick
  PROVE  TypeOK'
<1>1. Wake \in Places
  BY DEF Wake, TypeOK, Places
<1>2. CASE Irq1
  <2>1. /\ Data \in Byte /\ obf' \in Byte /\ last' \in Byte
        /\ UNCHANGED <<machine, kbdQ, mouseQ, typed, moved>>
    BY <1>2, TypeReadPort DEF Irq1
  <2>2. Decode(Data).char \in Char /\ Decode(Data).ext \in BOOLEAN
    BY <2>1, CharFacts
  <2>3. buf' \in [Index -> Char] /\ head' \in Index
    BY <1>2, <2>2, RingFacts DEF Irq1, TypeOK
  <2>4. irq' \subseteq {1, 12}
    BY <1>2 DEF Irq1, TypeOK
  <2> QED BY <1>1, <1>2, <2>1, <2>2, <2>3, <2>4 DEF Irq1, TypeOK, mouse, Places
<1>3. CASE Irq12Enter
  BY <1>3 DEF Irq12Enter, TypeOK, controller, ring, mouse, main
<1>4. CASE Irq12Byte
  <2>1. /\ obf' \in Byte /\ last' \in Byte
        /\ UNCHANGED <<machine, kbdQ, mouseQ, typed, moved>>
    BY <1>4, TypeReadPort DEF Irq12Byte
  <2>2. obf \in MouseByte
    BY <1>4, ByteFacts DEF Irq12Byte, Ours, TypeOK
  <2> DEFINE p == IF pkt = << >> /\ ~ obf.bit3 THEN pkt ELSE Append(pkt, obf)
  <2>3. IF Len(p) = 3 THEN packets' = Append(packets, p) /\ pkt' = << >>
        ELSE pkt' = p /\ UNCHANGED packets
    BY <1>4, Zenon DEF Irq12Byte
  <2>4. p \in Seq(MouseByte) /\ Len(p) <= 3 /\ Len(p) \in Nat
    <3>1. pkt \in Seq(MouseByte) /\ Len(pkt) \in Nat /\ Len(pkt) < 3
      BY LenProperties DEF TypeOK
    <3>2. Append(pkt, obf) \in Seq(MouseByte) /\ Len(Append(pkt, obf)) = Len(pkt) + 1
      BY <2>2, <3>1
    <3> QED BY <3>1, <3>2
  <2> HIDE DEF p
  <2>5. CASE Len(p) = 3
    <3>1. p \in [1 .. 3 -> MouseByte]
      BY <2>4, <2>5, LenProperties
    <3>2. packets' \in Seq([1 .. 3 -> MouseByte]) /\ pkt' \in Seq(MouseByte) /\ Len(pkt') < 3
      <4>1. PICK S : S = [1 .. 3 -> MouseByte]
        OBVIOUS
      <4>2. packets \in Seq(S) /\ p \in S
        BY <3>1, <4>1 DEF TypeOK
      <4>3. Append(packets, p) \in Seq(S)
        BY <4>2
      <4>4. << >> \in Seq(MouseByte) /\ Len(<< >>) < 3
        BY EmptySeq
      <4>5. packets' = Append(packets, p) /\ pkt' = << >>
        BY <2>3, <2>5
      <4> QED BY <4>1, <4>3, <4>4, <4>5, Zenon
    <3> QED BY <1>4, <2>1, <3>2 DEF Irq12Byte, TypeOK, ring, main
  <2>6. CASE Len(p) # 3
    <3>1. packets' = packets /\ pkt' = p
      BY <2>3, <2>6
    <3>2. Len(p) < 3
      <4> DEFINE n == Len(p)
      <4>1. n <= 3 /\ n \in Nat /\ n # 3
        BY <2>4, <2>6
      <4> HIDE DEF n
      <4>2. n < 3
        BY <4>1
      <4> QED BY <4>2 DEF n
    <3> QED BY <1>4, <2>1, <2>4, <3>1, <3>2 DEF Irq12Byte, TypeOK, ring, main
  <2> QED BY <2>5, <2>6
<1>5. CASE Irq12Leave
  BY <1>1, <1>5 DEF Irq12Leave, TypeOK, controller, ring, mouse, Places
<1>6. CASE Tick
  BY <1>1, <1>6 DEF Tick, TypeOK, controller, ring, mouse, Places
<1>7. QED BY <1>2, <1>3, <1>4, <1>5, <1>6 DEF Irq12

LEMMA TypeMain ==
  ASSUME TypeOK, Main
  PROVE  TypeOK'
<1>1. CASE Check \/ Status \/ Nothing \/ Halt
  BY <1>1 DEF Check, Status, Nothing, Halt, GoTo, TypeOK, controller, ring, mouse
<1>2. CASE PollRead
  <2>1. /\ Data \in Byte /\ obf' \in Byte /\ last' \in Byte
        /\ UNCHANGED <<machine, kbdQ, mouseQ, typed, moved>>
    BY <1>2, TypeReadPort DEF PollRead
  <2> QED BY <1>2, <2>1 DEF PollRead, TypeOK, ring, mouse
<1>3. CASE PollDecode
  <2>1. Decode(sc).char \in Char /\ Decode(sc).ext \in BOOLEAN
    BY CharFacts DEF TypeOK
  <2>2. slot' \in [at : Index, char : Char]
    BY <1>3, <2>1 DEF PollDecode, TypeOK
  <2> QED BY <1>3, <2>1, <2>2 DEF PollDecode, GoTo, TypeOK, controller, mouse
<1>4. CASE PollStore \/ PollAdvance
  <2>1. slot.at \in Index /\ slot.char \in Char
    BY DEF TypeOK
  <2>2. buf' \in [Index -> Char] /\ head' \in Index
    BY <1>4, <2>1, RingFacts DEF PollStore, PollAdvance, TypeOK
  <2> QED BY <1>4, <2>2 DEF PollStore, PollAdvance, GoTo, TypeOK, controller, mouse
<1>5. CASE Take
  <2>1. buf[tail] \in Char /\ Succ(tail) \in Index
    BY RingFacts DEF TypeOK
  <2>2. read' \in Seq(Char) /\ tail' \in Index
    BY <1>5, <2>1 DEF Take, TypeOK
  <2> QED BY <1>5, <2>2 DEF Take, TypeOK, controller, mouse
<1>6. QED BY <1>1, <1>2, <1>3, <1>4, <1>5 DEF Main

LEMMA TypeNext == TypeOK /\ [Next]_vars => TypeOK'
<1>1. CASE UNCHANGED vars
  BY <1>1 DEF vars, TypeOK, controller, ring, mouse, main
<1>2. QED BY <1>1, TypeDevices, TypeHandlers, TypeMain DEF Next

(* The indexes of the ring stay within it, a packet in the making has at   *)
(* most two bytes and a stored character is a key or the byte taken for    *)
(* one, whichever way the interrupts fall between the steps of kb_getc.    *)
THEOREM Ps2Types == Spec => []TypeOK
BY TypeInit, TypeNext, PTL DEF Spec

-----------------------------------------------------------------------------
(* The ring: the characters from tail up to head. *)

Wait(b, h, t) == [i \in 1 .. (h - t) % BufSize |-> b[(t + i - 1) % BufSize]]

Dist(h, t) == IF h >= t THEN h - t ELSE h - t + BufSize
Place(t, i) == IF t + i - 1 < BufSize THEN t + i - 1 ELSE t + i - 1 - BufSize

LEMMA RingPlaces ==
  \A h, t \in Index :
    /\ (h - t) % BufSize = Dist(h, t) /\ Dist(h, t) \in 0 .. BufSize - 1
    /\ \A i \in 1 .. BufSize : (t + i - 1) % BufSize = Place(t, i) /\ Place(t, i) \in Index
<1> DEFINE N == BufSize
<1>1. N \in Nat /\ N >= 2
  BY ConstAssumption
<1> HIDE DEF N
<1>2. \A h, t \in 0 .. N - 1 : (h - t) % N = IF h >= t THEN h - t ELSE h - t + N
  <2> TAKE h, t \in 0 .. N - 1
  <2>1. CASE h >= t
    <3>1. \A x \in 0 .. N - 1 : x % N = x
      BY <1>1
    <3>2. h - t \in 0 .. N - 1
      BY <1>1, <2>1
    <3> QED BY <2>1, <3>1, <3>2
  <2>2. CASE ~ (h >= t)
    <3>1. \A x \in 1 .. N - 1 : (-x) % N = N - x
      BY <1>1
    <3>2. PICK x \in 1 .. N - 1 : x = t - h
      BY <1>1, <2>2
    <3>3. (-x) % N = N - x
      BY <3>1
    <3>4. h - t = -x /\ N - x = h - t + N
      BY <1>1, <3>2
    <3> QED BY <2>2, <3>3, <3>4
  <2> QED BY <2>1, <2>2
<1>3. \A h, t \in 0 .. N - 1 : (IF h >= t THEN h - t ELSE h - t + N) \in 0 .. N - 1
  BY <1>1
<1>4. \A t \in 0 .. N - 1, i \in 1 .. N :
        LET p == IF t + i - 1 < N THEN t + i - 1 ELSE t + i - 1 - N
        IN  (t + i - 1) % N = p /\ p \in 0 .. N - 1
  <2> TAKE t \in 0 .. N - 1, i \in 1 .. N
  <2>1. \A x \in 0 .. N - 1 : x % N = x /\ (x + N) % N = x
    BY <1>1
  <2>2. CASE t + i - 1 < N
    <3>1. t + i - 1 \in 0 .. N - 1
      BY <1>1, <2>2
    <3> QED BY <2>1, <2>2, <3>1
  <2>3. CASE ~ (t + i - 1 < N)
    <3>1. t + i - 1 - N \in 0 .. N - 1 /\ t + i - 1 = (t + i - 1 - N) + N
      BY <1>1, <2>3
    <3>2. ((t + i - 1 - N) + N) % N = t + i - 1 - N
      BY <2>1, <3>1
    <3> QED BY <2>3, <3>1, <3>2
  <2> QED BY <2>2, <2>3
<1>5. QED BY <1>2, <1>3, <1>4 DEF N, Index, Dist, Place

LEMMA WaitFacts ==
  ASSUME NEW b \in [Index -> Char], NEW h \in Index, NEW t \in Index
  PROVE  /\ Wait(b, h, t) \in Seq(Char) /\ Len(Wait(b, h, t)) = Dist(h, t)
         /\ \A i \in 1 .. Dist(h, t) : Wait(b, h, t)[i] = b[Place(t, i)]
<1> DEFINE n == Dist(h, t)
<1>1. (h - t) % BufSize = n /\ n \in Nat /\ n <= BufSize /\ n \in 0 .. BufSize - 1
  BY RingPlaces, RingFacts
<1> HIDE DEF n
<1>2. \A i \in 1 .. n : (t + i - 1) % BufSize = Place(t, i) /\ b[Place(t, i)] \in Char
  <2> TAKE i \in 1 .. n
  <2>1. i \in 1 .. BufSize
    BY <1>1, RingFacts
  <2>2. (t + i - 1) % BufSize = Place(t, i) /\ Place(t, i) \in Index
    BY <2>1, RingPlaces
  <2> QED BY <2>2
<1>3. Wait(b, h, t) = [i \in 1 .. n |-> b[Place(t, i)]]
  BY <1>1, <1>2 DEF Wait
<1>4. Wait(b, h, t) \in [1 .. n -> Char]
  BY <1>2, <1>3
<1>5. Wait(b, h, t) \in Seq(Char)
  BY <1>1, <1>4, SeqDef
<1>6. Len(Wait(b, h, t)) = n
  <2>1. DOMAIN Wait(b, h, t) = 1 .. n /\ DOMAIN Wait(b, h, t) = 1 .. Len(Wait(b, h, t))
        /\ Len(Wait(b, h, t)) \in Nat
    BY <1>4, <1>5, LenProperties
  <2> QED BY <1>1, <2>1
<1>7. QED BY <1>3, <1>5, <1>6 DEF n

(* enqueue with room, a store to the free place, and a read. *)
LEMMA WaitSteps ==
  ASSUME NEW b \in [Index -> Char], NEW h \in Index, NEW t \in Index, NEW x \in Char
  PROVE  /\ Succ(h) # t =>
              Wait([b EXCEPT ![h] = x], Succ(h), t) = Append(Wait(b, h, t), x)
         /\ Wait([b EXCEPT ![h] = x], h, t) = Wait(b, h, t)
         /\ h # t => Wait(b, h, t) = <<b[t]>> \o Wait(b, h, Succ(t))
         /\ Succ(h) = t => Len(Wait(b, h, t)) = BufSize - 1
<1> DEFINE c == [b EXCEPT ![h] = x]
           n == Dist(h, t)
<1>1. c \in [Index -> Char] /\ c[h] = x /\ \A i \in Index : i # h => c[i] = b[i]
  OBVIOUS
<1>2. /\ Succ(h) \in Index /\ Succ(t) \in Index /\ BufSize \in Nat /\ BufSize >= 2
      /\ Succ(h) = (IF h = BufSize - 1 THEN 0 ELSE h + 1)
      /\ Succ(t) = (IF t = BufSize - 1 THEN 0 ELSE t + 1)
      /\ h \in 0 .. BufSize - 1 /\ t \in 0 .. BufSize - 1
  BY RingFacts DEF Index
<1>3. n \in 0 .. BufSize - 1
  BY RingPlaces
<1>4. /\ Wait(b, h, t) \in Seq(Char) /\ Len(Wait(b, h, t)) = n
      /\ \A i \in 1 .. n : Wait(b, h, t)[i] = b[Place(t, i)]
  BY WaitFacts
<1> HIDE DEF c
<1>5. \A i \in 1 .. n : Place(t, i) \in Index /\ Place(t, i) # h
  BY <1>2, <1>3 DEF Place, Dist, Index
<1>6. ASSUME Succ(h) # t
      PROVE  Wait(c, Succ(h), t) = Append(Wait(b, h, t), x)
  <2>1. Dist(Succ(h), t) = n + 1 /\ Place(t, n + 1) = h
    BY <1>2, <1>3, <1>6 DEF Dist, Place
  <2>2. /\ Wait(c, Succ(h), t) \in Seq(Char) /\ Len(Wait(c, Succ(h), t)) = n + 1
        /\ \A i \in 1 .. n + 1 : Wait(c, Succ(h), t)[i] = c[Place(t, i)]
    <3> DEFINE k == Succ(h)
    <3>1. k \in Index /\ Dist(k, t) = n + 1
      BY <1>2, <2>1
    <3> HIDE DEF k
    <3>2. /\ Wait(c, k, t) \in Seq(Char) /\ Len(Wait(c, k, t)) = Dist(k, t)
          /\ \A i \in 1 .. Dist(k, t) : Wait(c, k, t)[i] = c[Place(t, i)]
      BY <1>1, <3>1, WaitFacts
    <3> QED BY <3>1, <3>2 DEF k
  <2> DEFINE u == Wait(b, h, t)
             v == Wait(c, Succ(h), t)
  <2>3. /\ Append(u, x) \in Seq(Char) /\ Len(Append(u, x)) = n + 1
        /\ \A i \in 1 .. n + 1 : Append(u, x)[i] = IF i = n + 1 THEN x ELSE u[i]
    BY <1>3, <1>4
  <2>4. \A i \in 1 .. n + 1 : v[i] = Append(u, x)[i]
    <3> TAKE i \in 1 .. n + 1
    <3>1. CASE i = n + 1
      BY <1>1, <1>3, <2>1, <2>2, <2>3, <3>1
    <3>2. CASE i # n + 1
      <4>1. i \in 1 .. n
        BY <1>3, <3>2
      <4> QED BY <1>1, <1>4, <1>5, <2>2, <2>3, <3>2, <4>1
    <3> QED BY <3>1, <3>2
  <2> HIDE DEF u, v
  <2>5. v = Append(u, x)
    <3> DEFINE w == Append(u, x)
    <3>1. w \in Seq(Char) /\ v \in Seq(Char) /\ Len(v) = Len(w) /\ Len(v) = n + 1
      BY <2>2, <2>3 DEF v
    <3>2. \A i \in 1 .. Len(v) : v[i] = w[i]
      BY <2>4, <3>1
    <3> HIDE DEF w
    <3> QED BY <3>1, <3>2, SeqEqual DEF w
  <2> QED BY <2>5 DEF u, v
<1>7. Wait(c, h, t) = Wait(b, h, t)
  <2>1. /\ Wait(c, h, t) \in Seq(Char) /\ Len(Wait(c, h, t)) = n
        /\ \A i \in 1 .. n : Wait(c, h, t)[i] = c[Place(t, i)]
    BY <1>1, WaitFacts
  <2>2. \A i \in 1 .. n : Wait(c, h, t)[i] = Wait(b, h, t)[i]
    BY <1>1, <1>4, <1>5, <2>1
  <2> QED BY <1>4, <2>1, <2>2, SeqEqual
<1>8. ASSUME h # t
      PROVE  Wait(b, h, t) = <<b[t]>> \o Wait(b, h, Succ(t))
  <2>1. Dist(h, Succ(t)) = n - 1 /\ n >= 1
    BY <1>2, <1>8 DEF Dist
  <2>2. /\ Wait(b, h, Succ(t)) \in Seq(Char) /\ Len(Wait(b, h, Succ(t))) = n - 1
        /\ \A i \in 1 .. n - 1 : Wait(b, h, Succ(t))[i] = b[Place(Succ(t), i)]
    <3>1. Succ(t) \in Index
      BY <1>2
    <3>2. PICK k : k = Succ(t)
      OBVIOUS
    <3>3. /\ Wait(b, h, k) \in Seq(Char) /\ Len(Wait(b, h, k)) = Dist(h, k)
          /\ \A i \in 1 .. Dist(h, k) : Wait(b, h, k)[i] = b[Place(k, i)]
      BY <3>1, <3>2, WaitFacts
    <3> QED BY <2>1, <3>2, <3>3
  <2>3. Place(t, 1) = t /\ \A i \in 2 .. n : Place(Succ(t), i - 1) = Place(t, i)
    BY <1>2, <1>3 DEF Place
  <2> DEFINE u == <<b[t]>>
             v == Wait(b, h, Succ(t))
             w == Wait(b, h, t)
  <2>4. u \in Seq(Char) /\ Len(u) = 1 /\ u[1] = b[t]
    OBVIOUS
  <2> HIDE DEF u, v, w
  <2>5. /\ u \o v \in Seq(Char) /\ Len(u \o v) = n
        /\ \A i \in 1 .. n : (u \o v)[i] = IF i <= 1 THEN u[i] ELSE v[i - 1]
    <3>1. /\ u \o v \in Seq(Char) /\ Len(u \o v) = Len(u) + Len(v)
          /\ \A i \in 1 .. Len(u) + Len(v) :
               (u \o v)[i] = IF i <= Len(u) THEN u[i] ELSE v[i - Len(u)]
      BY <2>2, <2>4, ConcatProperties DEF v
    <3>2. Len(u) = 1 /\ Len(v) = n - 1 /\ 1 + (n - 1) = n
      BY <1>3, <2>2, <2>4 DEF v
    <3> QED BY <3>1, <3>2
  <2>6. \A i \in 1 .. n : (u \o v)[i] = w[i]
    <3> TAKE i \in 1 .. n
    <3>1. CASE i = 1
      BY <1>4, <2>3, <2>4, <2>5, <3>1 DEF w
    <3>2. CASE i # 1
      <4>1. i - 1 \in 1 .. n - 1 /\ i \in 2 .. n /\ ~ (i <= 1)
        BY <1>3, <3>2
      <4> QED BY <1>4, <2>2, <2>3, <2>5, <4>1 DEF v, w
    <3> QED BY <3>1, <3>2
  <2>7. u \o v = w
    <3> DEFINE z == u \o v
    <3>1. w \in Seq(Char) /\ z \in Seq(Char) /\ Len(z) = Len(w) /\ Len(z) = n
      BY <1>4, <2>5 DEF w
    <3>2. \A i \in 1 .. Len(z) : z[i] = w[i]
      BY <2>6, <3>1
    <3> HIDE DEF z
    <3> QED BY <3>1, <3>2, SeqEqual DEF z
  <2> QED BY <2>7 DEF u, v, w
<1>9. Succ(h) = t => n = BufSize - 1
  BY <1>2 DEF Dist
<1>10. QED BY <1>4, <1>6, <1>7, <1>8, <1>9 DEF c

LEMMA AppendConcat ==
  ASSUME NEW u \in Seq(Char), NEW v \in Seq(Char), NEW x \in Char
  PROVE  u \o Append(v, x) = Append(u \o v, x)
<1> DEFINE w == <<x>>
<1>1. w \in Seq(Char) /\ Append(v, x) = v \o w
  BY AppendIsConcat
<1>2. u \o v \in Seq(Char)
  BY ConcatProperties
<1>3. Append(u \o v, x) = (u \o v) \o w
  BY <1>2, AppendIsConcat
<1> HIDE DEF w
<1>4. (u \o v) \o w = u \o (v \o w)
  BY <1>1, ConcatAssociative
<1>5. QED BY <1>1, <1>3, <1>4, Zenon

LEMMA GotType ==
  ASSUME TypeOK
  PROVE  /\ Waiting = Wait(buf, head, tail) /\ Waiting \in Seq(Char)
         /\ Got \in Seq(Char) /\ Len(Got) \in Nat /\ read \in Seq(Char)
         /\ Len(Got) >= Len(Waiting)
<1>1. Waiting = Wait(buf, head, tail)
  BY DEF Waiting, Wait
<1>2. Waiting \in Seq(Char) /\ read \in Seq(Char)
  BY <1>1, WaitFacts DEF TypeOK
<1>3. Got \in Seq(Char) /\ Len(Got) = Len(read) + Len(Waiting)
  BY <1>2, ConcatProperties DEF Got
<1>4. Len(Waiting) \in Nat /\ Len(read) \in Nat /\ Len(Got) \in Nat
  BY <1>2, <1>3, LenProperties
<1>5. Len(Got) >= Len(Waiting)
  <2> DEFINE a == Len(Waiting)
             b == Len(read)
  <2>1. a \in Nat /\ b \in Nat /\ Len(Got) = b + a
    BY <1>3, <1>4
  <2> HIDE DEF a, b
  <2>2. b + a >= a
    BY <2>1
  <2> QED BY <2>1, <2>2 DEF a
<1>6. QED BY <1>1, <1>2, <1>3, <1>4, <1>5

(* enqueue adds the character behind what is waiting; a full ring holds    *)
(* BufSize - 1.                                                            *)
LEMMA GotEnqueue ==
  ASSUME TypeOK, NEW x \in Char, ~ Full(head),
         buf' = [buf EXCEPT ![head] = x], head' = Succ(head), UNCHANGED <<tail, read>>
  PROVE  Got' = Append(Got, x)
<1>1. Waiting' = Wait([buf EXCEPT ![head] = x], Succ(head), tail)
  BY DEF Waiting, Wait
<1>2. Waiting' = Append(Wait(buf, head, tail), x)
  <2>1. buf \in [Index -> Char] /\ head \in Index /\ tail \in Index /\ Succ(head) # tail
    BY DEF TypeOK, Full
  <2>2. Wait([buf EXCEPT ![head] = x], Succ(head), tail) = Append(Wait(buf, head, tail), x)
    BY <2>1, WaitSteps
  <2> QED BY <1>1, <2>2, Zenon
<1>3. Waiting' = Append(Waiting, x) /\ Waiting \in Seq(Char) /\ read \in Seq(Char)
  BY <1>2, GotType
<1>4. Got' = read \o Append(Waiting, x)
  BY <1>3, Zenon DEF Got
<1>5. read \o Append(Waiting, x) = Append(read \o Waiting, x)
  BY <1>3, AppendConcat
<1>6. QED BY <1>4, <1>5, Zenon DEF Got

(* kb_trygetc takes the oldest one. *)
LEMMA GotTake ==
  ASSUME TypeOK, head # tail, read' = Append(read, buf[tail]), tail' = Succ(tail),
         UNCHANGED <<buf, head>>
  PROVE  Got' = Got
<1> DEFINE u == <<buf[tail]>>
           v == Wait(buf, head, Succ(tail))
<1>1. buf[tail] \in Char /\ u \in Seq(Char) /\ read' = read \o u /\ read \in Seq(Char)
  BY AppendIsConcat DEF TypeOK
<1>2. Waiting' = v
  BY DEF Waiting, Wait
<1>3. Waiting = u \o v
  BY GotType, WaitSteps, <1>1 DEF TypeOK
<1>4. v \in Seq(Char)
  BY WaitFacts, RingFacts DEF TypeOK
<1> HIDE DEF u, v
<1>5. (read \o u) \o v = read \o (u \o v)
  BY <1>1, <1>4, ConcatAssociative
<1>6. Got' = (read \o u) \o v
  BY <1>1, <1>2, Zenon DEF Got
<1>7. QED BY <1>3, <1>5, <1>6, Zenon DEF Got

(* The store to buf[head] is not visible before head moves. *)
LEMMA GotStore ==
  ASSUME TypeOK, NEW x \in Char, buf' = [buf EXCEPT ![head] = x], UNCHANGED <<head, tail, read>>
  PROVE  Got' = Got
<1>1. Waiting' = Wait([buf EXCEPT ![head] = x], head, tail)
  BY DEF Waiting, Wait
<1>2. Waiting' = Waiting
  <2>1. buf \in [Index -> Char] /\ head \in Index /\ tail \in Index
    BY DEF TypeOK
  <2>2. Wait([buf EXCEPT ![head] = x], head, tail) = Wait(buf, head, tail)
    BY <2>1, WaitSteps, Zenon
  <2>3. Waiting = Wait(buf, head, tail)
    BY GotType
  <2> QED BY <1>1, <2>2, <2>3, Zenon
<1>3. QED BY <1>2 DEF Got

LEMMA GotSame ==
  ASSUME UNCHANGED <<buf, head, tail, read>>
  PROVE  Got' = Got
BY DEF Got, Waiting

(* A key is dropped only when as many are there as the ring holds. *)
LEMMA GotFull ==
  ASSUME TypeOK, Full(head)
  PROVE  Len(Got) >= BufSize - 1 /\ Len(Waiting) = BufSize - 1
<1>1. NoChar \in Char /\ buf \in [Index -> Char] /\ head \in Index /\ tail \in Index
  BY CharFacts DEF TypeOK
<1>2. Len(Waiting) = BufSize - 1
  <2>1. Succ(head) = tail
    BY DEF Full
  <2>2. Len(Wait(buf, head, tail)) = BufSize - 1
    BY <1>1, <2>1, WaitSteps
  <2>3. Waiting = Wait(buf, head, tail)
    BY GotType
  <2> QED BY <2>2, <2>3, Zenon
<1>3. Len(Got) >= Len(Waiting) /\ Len(Got) \in Nat
  BY GotType
<1> DEFINE n == Len(Got)
<1>4. n \in Nat /\ n >= BufSize - 1
  BY <1>2, <1>3
<1>5. QED BY <1>2, <1>4 DEF n

-----------------------------------------------------------------------------
(* Which byte may follow which: the keyboard sends the keys one after the  *)
(* other, a prefix right before its second byte; the mouse sends packets.  *)

KFollows(b, c) ==
  IF b.part = "E0" THEN c.part = "second" /\ c.k = b.k
  ELSE c.part # "second" /\ c.k = b.k + 1

KChain(q, t) ==
  /\ \A i \in 1 .. Len(q) - 1 : KFollows(q[i], q[i + 1])
  /\ q # << >> => q[Len(q)].k = t /\ q[Len(q)].part # "E0"

KNext(q, t, b) == IF q = << >> THEN b.k = t /\ b.part # "E0" ELSE KFollows(b, q[1])

MFollows(b, c) ==
  \/ b.part = "b1" /\ c.part = "b2" /\ c.k = b.k
  \/ b.part = "b2" /\ c.part = "b3" /\ c.k = b.k
  \/ b.part = "b3" /\ c.part = "b1"

Marked(b) == b.part = "b1" => b.bit3

MChain(q) ==
  /\ \A i \in 1 .. Len(q) : Marked(q[i])
  /\ \A i \in 1 .. Len(q) - 1 : MFollows(q[i], q[i + 1])
  /\ q # << >> => q[Len(q)].part = "b3"

MNext(q, b) == IF q = << >> THEN b.part = "b3" ELSE MFollows(b, q[1])

LEMMA QueueFacts ==
  ASSUME NEW S, NEW q \in Seq(S), q # << >>
  PROVE  /\ Len(q) \in Nat /\ Len(q) >= 1 /\ Head(q) = q[1] /\ q[1] \in S /\ q[Len(q)] \in S
         /\ Tail(q) \in Seq(S) /\ Len(Tail(q)) = Len(q) - 1
         /\ \A i \in 1 .. Len(q) - 1 : Tail(q)[i] = q[i + 1]
         /\ Tail(q) = << >> => Len(q) = 1
<1>1. Len(q) \in Nat /\ Len(q) # 0
  BY LenProperties, EmptySeq
<1>2. /\ Head(q) \in S /\ Tail(q) \in Seq(S) /\ Len(Tail(q)) = Len(q) - 1
      /\ \A i \in 1 .. Len(Tail(q)) : Tail(q)[i] = q[i + 1]
  BY HeadTailProperties
<1> DEFINE n == Len(q)
<1>3. n \in Nat /\ n >= 1 /\ 1 \in 1 .. n /\ n \in 1 .. n
  BY <1>1
<1>4. \A i \in 1 .. n : q[i] \in S
  BY ElementOfSeq
<1>5. Head(q) = q[1]
  OBVIOUS
<1>6. Tail(q) = << >> => n = 1
  <2>1. Tail(q) = << >> => Len(Tail(q)) = 0
    BY EmptySeq
  <2>2. Len(Tail(q)) = n - 1
    BY <1>2
  <2> HIDE DEF n
  <2> QED BY <1>3, <2>1, <2>2
<1>7. QED BY <1>2, <1>3, <1>4, <1>5, <1>6

LEMMA AppendFacts ==
  ASSUME NEW S, NEW q \in Seq(S), NEW x \in S
  PROVE  /\ Append(q, x) \in Seq(S) /\ Len(q) \in Nat /\ Len(Append(q, x)) = Len(q) + 1
         /\ Append(q, x) # << >> /\ Append(q, x)[Len(q) + 1] = x
         /\ \A i \in 1 .. Len(q) : Append(q, x)[i] = q[i]
         /\ q = << >> => Len(q) = 0
         /\ q # << >> => Len(q) >= 1
<1>1. Append(q, x) \in Seq(S) /\ Len(Append(q, x)) = Len(q) + 1
  OBVIOUS
<1>2. Len(q) \in Nat /\ (q = << >> <=> Len(q) = 0)
  BY LenProperties, EmptySeq
<1>3. /\ Append(q, x)[Len(q) + 1] = x
      /\ \A i \in 1 .. Len(q) : Append(q, x)[i] = q[i]
  BY AppendProperties
<1> DEFINE n == Len(q)
<1>4. n \in Nat /\ n + 1 # 0 /\ (q # << >> => n # 0)
  BY <1>2
<1>5. Append(q, x) # << >>
  BY <1>1, <1>4, EmptySeq
<1>6. q # << >> => n >= 1
  <2> HIDE DEF n
  <2> QED BY <1>4
<1>7. QED BY <1>1, <1>2, <1>3, <1>5, <1>6 DEF n

(* The controller takes the first byte of a queue. *)
LEMMA KTail ==
  ASSUME NEW q \in Seq(KeyByte), q # << >>, NEW t, KChain(q, t)
  PROVE  KChain(Tail(q), t) /\ KNext(Tail(q), t, q[1])
<1> DEFINE n == Len(q)
           r == Tail(q)
<1>1. /\ n \in Nat /\ n >= 1 /\ r \in Seq(KeyByte) /\ Len(r) = n - 1
      /\ \A i \in 1 .. n - 1 : r[i] = q[i + 1]
      /\ r = << >> => n = 1
      /\ r # << >> => n # 1
  <2>1. /\ n \in Nat /\ n >= 1 /\ r \in Seq(KeyByte) /\ Len(r) = n - 1
        /\ \A i \in 1 .. n - 1 : r[i] = q[i + 1]
        /\ r = << >> => n = 1
    BY QueueFacts
  <2>2. r # << >> => n # 1
    BY <2>1, EmptySeq
  <2> QED BY <2>1, <2>2
<1>2. /\ \A i \in 1 .. n - 1 : KFollows(q[i], q[i + 1])
      /\ q[n].k = t /\ q[n].part # "E0"
  BY DEF KChain
<1> HIDE DEF n, r
<1>3. \A i \in 1 .. Len(r) - 1 : KFollows(r[i], r[i + 1])
  <2> TAKE i \in 1 .. Len(r) - 1
  <2>1. i \in 1 .. n - 1 /\ i + 1 \in 1 .. n - 1
    BY <1>1
  <2> QED BY <1>1, <1>2, <2>1
<1>4. r # << >> => r[Len(r)] = q[n] /\ r[1] = q[2] /\ KFollows(q[1], q[2])
  <2> HAVE r # << >>
  <2>1. n - 1 \in 1 .. n - 1 /\ 1 \in 1 .. n - 1 /\ (n - 1) + 1 = n /\ 1 + 1 = 2
    BY <1>1
  <2>2. r[n - 1] = q[(n - 1) + 1] /\ r[1] = q[1 + 1] /\ KFollows(q[1], q[1 + 1])
    BY <1>1, <1>2, <2>1
  <2> QED BY <1>1, <2>1, <2>2
<1>5. KChain(r, t)
  BY <1>2, <1>3, <1>4 DEF KChain
<1>6. KNext(r, t, q[1])
  BY <1>1, <1>2, <1>4 DEF KNext
<1>7. QED BY <1>5, <1>6 DEF r

(* A key is typed. *)
LEMMA KAppend ==
  ASSUME NEW q \in Seq(KeyByte), NEW t \in Nat, KChain(q, t),
         NEW x \in KeyByte, x.k = t + 1, x.part # "second"
  PROVE  /\ x.part # "E0" => KChain(Append(q, x), t + 1)
         /\ \A i \in 1 .. Len(q) : KFollows(Append(q, x)[i], Append(q, x)[i + 1])
         /\ \A b : KNext(q, t, b) => KNext(Append(q, x), t + 1, b)
         /\ \A y \in KeyByte : x.part = "E0" /\ y.part = "second" /\ y.k = t + 1 =>
              /\ KChain(Append(Append(q, x), y), t + 1)
              /\ \A b : KNext(q, t, b) => KNext(Append(Append(q, x), y), t + 1, b)
<1> DEFINE n == Len(q)
           r == Append(q, x)
<1>1. /\ r \in Seq(KeyByte) /\ n \in Nat /\ Len(r) = n + 1 /\ r # << >> /\ r[n + 1] = x
      /\ \A i \in 1 .. n : r[i] = q[i]
      /\ q = << >> => n = 0
      /\ q # << >> => n >= 1
  BY AppendFacts
<1>2. /\ \A i \in 1 .. n - 1 : KFollows(q[i], q[i + 1])
      /\ q # << >> => q[n].k = t /\ q[n].part # "E0"
  BY DEF KChain
<1> HIDE DEF n, r
<1>3. \A i \in 1 .. n : KFollows(r[i], r[i + 1])
  <2> TAKE i \in 1 .. n
  <2>1. CASE i = n
    <3>1. q # << >> /\ r[i] = q[n] /\ r[i + 1] = x
      BY <1>1, <2>1
    <3> QED BY <1>2, <3>1 DEF KFollows
  <2>2. CASE i # n
    <3>1. i \in 1 .. n - 1 /\ i + 1 \in 1 .. n
      BY <1>1, <2>2
    <3> QED BY <1>1, <1>2, <3>1
  <2> QED BY <2>1, <2>2
<1>4. \A b : KNext(q, t, b) => KNext(r, t + 1, b)
  <2> SUFFICES ASSUME NEW b, KNext(q, t, b) PROVE KFollows(b, r[1])
    BY <1>1 DEF KNext
  <2>1. CASE q = << >>
    <3>1. r[1] = x /\ b.k = t /\ b.part # "E0"
      BY <1>1, <2>1 DEF KNext
    <3> QED BY <3>1 DEF KFollows
  <2>2. CASE q # << >>
    <3>1. 1 \in 1 .. n
      BY <1>1, <2>2
    <3> QED BY <1>1, <2>2, <3>1 DEF KNext
  <2> QED BY <2>1, <2>2
<1>5. x.part # "E0" => KChain(r, t + 1)
  <2> HAVE x.part # "E0"
  <2>1. (n + 1) - 1 = n
    BY <1>1
  <2> QED BY <1>1, <1>3, <2>1 DEF KChain
<1>6. ASSUME NEW y \in KeyByte, x.part = "E0", y.part = "second", y.k = t + 1
      PROVE  /\ KChain(Append(r, y), t + 1)
             /\ \A b : KNext(q, t, b) => KNext(Append(r, y), t + 1, b)
  <2> DEFINE s == Append(r, y)
             m == n + 1
  <2>1. /\ s \in Seq(KeyByte) /\ s # << >> /\ Len(s) = m + 1 /\ s[m + 1] = y
        /\ \A i \in 1 .. m : s[i] = r[i]
    BY <1>1, AppendFacts
  <2>2. m \in Nat /\ m >= 1 /\ Len(r) = m /\ r[m] = x /\ m = n + 1
    BY <1>1
  <2> HIDE DEF s, m
  <2>3. \A i \in 1 .. m : KFollows(s[i], s[i + 1])
    <3> TAKE i \in 1 .. m
    <3>1. CASE i = m
      <4>1. s[i] = x /\ s[i + 1] = y
        BY <2>1, <2>2, <3>1
      <4> QED BY <1>6, <4>1 DEF KFollows
    <3>2. CASE i # m
      <4>1. i \in 1 .. n /\ i + 1 \in 1 .. m /\ i \in 1 .. m
        BY <1>1, <2>2, <3>2
      <4> QED BY <1>3, <2>1, <4>1
    <3> QED BY <3>1, <3>2
  <2>4. KChain(s, t + 1)
    <3>1. (m + 1) - 1 = m
      BY <2>2
    <3> QED BY <1>6, <2>1, <2>3, <3>1 DEF KChain
  <2>5. \A b : KNext(q, t, b) => KNext(s, t + 1, b)
    <3>1. s[1] = r[1]
      BY <2>1, <2>2
    <3> QED BY <1>1, <1>4, <2>1, <3>1 DEF KNext
  <2> QED BY <2>4, <2>5 DEF s
<1>7. QED BY <1>1, <1>3, <1>4, <1>5, <1>6 DEF n, r

LEMMA MTail ==
  ASSUME NEW q \in Seq(MouseByte), q # << >>, MChain(q)
  PROVE  MChain(Tail(q)) /\ MNext(Tail(q), q[1]) /\ Marked(q[1])
<1> DEFINE n == Len(q)
           r == Tail(q)
<1>1. /\ n \in Nat /\ n >= 1 /\ r \in Seq(MouseByte) /\ Len(r) = n - 1
      /\ \A i \in 1 .. n - 1 : r[i] = q[i + 1]
      /\ r = << >> => n = 1
      /\ r # << >> => n # 1
  <2>1. /\ n \in Nat /\ n >= 1 /\ r \in Seq(MouseByte) /\ Len(r) = n - 1
        /\ \A i \in 1 .. n - 1 : r[i] = q[i + 1]
        /\ r = << >> => n = 1
    BY QueueFacts
  <2>2. r # << >> => n # 1
    BY <2>1, EmptySeq
  <2> QED BY <2>1, <2>2
<1>2. /\ \A i \in 1 .. n : Marked(q[i])
      /\ \A i \in 1 .. n - 1 : MFollows(q[i], q[i + 1])
      /\ q[n].part = "b3"
  BY DEF MChain
<1> HIDE DEF n, r
<1>3. \A i \in 1 .. Len(r) - 1 : MFollows(r[i], r[i + 1])
  <2> TAKE i \in 1 .. Len(r) - 1
  <2>1. i \in 1 .. n - 1 /\ i + 1 \in 1 .. n - 1
    BY <1>1
  <2> QED BY <1>1, <1>2, <2>1
<1>4. \A i \in 1 .. Len(r) : Marked(r[i])
  <2> TAKE i \in 1 .. Len(r)
  <2>1. i \in 1 .. n - 1 /\ i + 1 \in 1 .. n
    BY <1>1
  <2> QED BY <1>1, <1>2, <2>1
<1>5. r # << >> => r[Len(r)] = q[n] /\ r[1] = q[2] /\ MFollows(q[1], q[2])
  <2> HAVE r # << >>
  <2>1. n - 1 \in 1 .. n - 1 /\ 1 \in 1 .. n - 1 /\ (n - 1) + 1 = n /\ 1 + 1 = 2
    BY <1>1
  <2>2. r[n - 1] = q[(n - 1) + 1] /\ r[1] = q[1 + 1] /\ MFollows(q[1], q[1 + 1])
    BY <1>1, <1>2, <2>1
  <2> QED BY <1>1, <2>1, <2>2
<1>6. MChain(r)
  BY <1>2, <1>3, <1>4, <1>5 DEF MChain
<1>7. MNext(r, q[1]) /\ Marked(q[1])
  <2>1. 1 \in 1 .. n
    BY <1>1
  <2> QED BY <1>1, <1>2, <1>5, <2>1 DEF MNext
<1>8. QED BY <1>6, <1>7 DEF r

(* A packet is sent. *)
LEMMA MAppend ==
  ASSUME NEW q \in Seq(MouseByte), MChain(q),
         NEW x \in MouseByte, NEW y \in MouseByte, NEW z \in MouseByte,
         x.part = "b1", y.part = "b2", z.part = "b3", x.bit3, x.k = y.k, y.k = z.k
  PROVE  /\ MChain(Append(Append(Append(q, x), y), z))
         /\ \A b : MNext(q, b) => MNext(Append(Append(Append(q, x), y), z), b)
<1> DEFINE n == Len(q)
           q1 == Append(q, x)
           q2 == Append(q1, y)
           r == Append(q2, z)
<1>1. /\ q1 \in Seq(MouseByte) /\ n \in Nat /\ Len(q1) = n + 1 /\ q1[n + 1] = x
      /\ \A i \in 1 .. n : q1[i] = q[i]
      /\ q = << >> => n = 0
      /\ q # << >> => n >= 1
  BY AppendFacts
<1> HIDE DEF q1
<1>2. /\ q2 \in Seq(MouseByte) /\ Len(q2) = Len(q1) + 1 /\ q2[Len(q1) + 1] = y
      /\ \A i \in 1 .. Len(q1) : q2[i] = q1[i]
  BY <1>1, AppendFacts
<1> HIDE DEF q2
<1>3. /\ r \in Seq(MouseByte) /\ Len(r) = Len(q2) + 1 /\ r # << >> /\ r[Len(q2) + 1] = z
      /\ \A i \in 1 .. Len(q2) : r[i] = q2[i]
  BY <1>2, AppendFacts
<1> HIDE DEF r, n
<1>4. /\ Len(r) = n + 3 /\ r[n + 1] = x /\ r[n + 2] = y /\ r[n + 3] = z
      /\ \A i \in 1 .. n : r[i] = q[i]
  <2>1. Len(q1) = n + 1 /\ Len(q2) = n + 2 /\ Len(r) = n + 3
    BY <1>1, <1>2, <1>3
  <2>2. /\ n + 1 \in 1 .. Len(q1) /\ n + 1 \in 1 .. Len(q2) /\ n + 2 \in 1 .. Len(q2)
        /\ \A i \in 1 .. n : i \in 1 .. Len(q1) /\ i \in 1 .. Len(q2)
    BY <1>1, <2>1
  <2>3. r[n + 3] = z /\ q2[n + 2] = y
    <3>1. n + 3 = Len(q2) + 1 /\ n + 2 = Len(q1) + 1
      BY <1>1, <2>1
    <3> QED BY <1>2, <1>3, <3>1
  <2> QED BY <1>1, <1>2, <1>3, <2>1, <2>2, <2>3
<1>5. /\ \A i \in 1 .. n : Marked(q[i])
      /\ \A i \in 1 .. n - 1 : MFollows(q[i], q[i + 1])
      /\ q # << >> => q[n].part = "b3"
  BY DEF MChain, n
<1>6. \A i \in 1 .. n + 2 : MFollows(r[i], r[i + 1])
  <2> TAKE i \in 1 .. n + 2
  <2>1. CASE i = n + 2
    <3>1. r[i] = y /\ r[i + 1] = z
      BY <1>1, <1>4, <2>1
    <3> QED BY <3>1 DEF MFollows
  <2>2. CASE i = n + 1
    <3>1. r[i] = x /\ r[i + 1] = y
      BY <1>1, <1>4, <2>2
    <3> QED BY <3>1 DEF MFollows
  <2>3. CASE i = n
    <3>1. q # << >> /\ r[i] = q[n] /\ r[i + 1] = x
      BY <1>1, <1>4, <2>3
    <3> QED BY <1>5, <3>1 DEF MFollows
  <2>4. CASE i \in 1 .. n - 1
    <3>1. i \in 1 .. n /\ i + 1 \in 1 .. n
      BY <1>1, <2>4
    <3> QED BY <1>4, <1>5, <2>4, <3>1
  <2> QED BY <1>1, <2>1, <2>2, <2>3, <2>4
<1>7. \A i \in 1 .. n + 3 : Marked(r[i])
  <2> TAKE i \in 1 .. n + 3
  <2>1. i \in 1 .. n \/ i = n + 1 \/ i = n + 2 \/ i = n + 3
    BY <1>1
  <2> QED BY <1>4, <1>5, <2>1 DEF Marked
<1>8. MChain(r)
  <2>1. (n + 3) - 1 = n + 2
    BY <1>1
  <2> QED BY <1>3, <1>4, <1>6, <1>7, <2>1 DEF MChain
<1>9. \A b : MNext(q, b) => MNext(r, b)
  <2> SUFFICES ASSUME NEW b, MNext(q, b) PROVE MFollows(b, r[1])
    BY <1>3 DEF MNext
  <2>1. CASE q = << >>
    <3>1. r[1] = x /\ b.part = "b3"
      BY <1>1, <1>4, <2>1 DEF MNext
    <3> QED BY <3>1 DEF MFollows
  <2>2. CASE q # << >>
    <3>1. 1 \in 1 .. n
      BY <1>1, <2>2
    <3> QED BY <1>4, <2>2, <3>1 DEF MNext
  <2> QED BY <2>1, <2>2
<1>10. QED BY <1>8, <1>9 DEF r, q2, q1

-----------------------------------------------------------------------------
(* The invariant.  A key's byte is in the queue, in the output byte, in    *)
(* the sc of a polled on_irq1, or decoded; KD says which may come next.    *)

KQ(b) == KNext(kbdQ, typed, b)
KO(b) == IF KeyboardByte THEN KFollows(b, obf) ELSE KQ(b)
KD(b) == IF pc = "decode" THEN KFollows(b, sc) ELSE KO(b)

KeyBytes ==
  /\ KChain(kbdQ, typed)
  /\ KeyboardByte => KQ(obf)
  /\ pc = "decode" => sc \in KeyByte /\ KO(sc)

(* enqueue of a polled on_irq1 is between its store and the new head. *)
Storing == pc \in {"store", "advance"}

(* The keys up to done have been decoded; until the ring was full once,    *)
(* all of them are there.                                                  *)
Keys(done) ==
  /\ KD(IF ext THEN Key(done + 1, "E0") ELSE Key(done, "plain"))
  /\ \A i \in 1 .. Len(Got) : Got[i].right /\ Got[i].k <= done
  /\ \A i, j \in 1 .. Len(Got) : i < j => Got[i].k < Got[j].k
  /\ Storing =>
       /\ slot.at = head /\ ~ Full(head)
       /\ slot.char.right /\ slot.char.k = done
       /\ \A i \in 1 .. Len(Got) : Got[i].k < done
       /\ pc = "advance" => buf[head] = slot.char
  /\ Len(Got) >= BufSize - 1 \/ Len(Got) + (IF Storing THEN 1 ELSE 0) = done

(* Where IRQ1 is taken at once, kb_getc never finds a byte to poll; where  *)
(* it never comes, the byte kb_getc has seen stays until it reads it.      *)
Lines ==
  /\ machine = "prompt" =>
       pc \notin {"inb", "decode", "store", "advance"} /\ (1 \in irq <=> KeyboardByte)
  /\ machine = "polled" => 1 \notin irq /\ (pc = "inb" => KeyboardByte)

MO(b) == IF Ours THEN MFollows(b, obf) ELSE MNext(mouseQ, b)

MouseBytes ==
  /\ MChain(mouseQ)
  /\ Ours => Marked(obf) /\ MNext(mouseQ, obf)
  /\ MO(IF pkt = << >> THEN [part |-> "b3"] ELSE pkt[Len(pkt)])
  /\ Len(pkt) >= 1 => pkt[1].part = "b1"
  /\ Len(pkt) >= 2 => MFollows(pkt[1], pkt[2])

InOrder == KeyBytes /\ \E done \in 0 .. MaxKeys : Keys(done)

PsInv ==
  /\ TypeOK /\ machine # "late"
  /\ Lines
  /\ MouseBytes /\ PacketsWhole
  /\ InOrder

LEMMA LinesNext ==
  ASSUME TypeOK, machine # "late", Lines, Next
  PROVE  Lines' /\ machine' = machine
<1>1. machine \in {"prompt", "polled"}
  BY ConstAssumption DEF TypeOK
<1>2. CASE Type \/ Move
  BY <1>2 DEF Type, Move, Lines, KeyboardByte, main
<1>3. CASE Fill
  <2>1. /\ kbdQ # << >> => Head(kbdQ).src = "kbd" /\ Head(kbdQ) # NoByte
        /\ mouseQ # << >> => Head(mouseQ).src = "mouse"
    <3>1. kbdQ # << >> => Head(kbdQ) \in KeyByte
      BY HeadTailProperties DEF TypeOK
    <3>2. mouseQ # << >> => Head(mouseQ) \in MouseByte
      BY HeadTailProperties DEF TypeOK
    <3> QED BY <3>1, <3>2, ByteFacts
  <2>2. machine' = machine /\ pc' = pc /\ obf = NoByte
    BY <1>3 DEF Fill, main
  <2>3. CASE kbdQ # << >> /\ obf' = Head(kbdQ) /\ irq' = IF machine = "polled" THEN irq ELSE irq \cup {1}
    BY <1>1, <2>1, <2>2, <2>3 DEF Lines, KeyboardByte
  <2>4. CASE mouseQ # << >> /\ obf' = Head(mouseQ) /\ irq' = irq \cup {12}
    BY <1>1, <2>1, <2>2, <2>4 DEF Lines, KeyboardByte
  <2> QED BY <1>3, <2>3, <2>4 DEF Fill
<1>4. CASE Irq1
  BY <1>1, <1>4 DEF Irq1, ReadPort, Lines, KeyboardByte, Wake
<1>5. CASE Irq12Enter
  BY <1>1, <1>5 DEF Irq12Enter, controller, main, Lines, KeyboardByte
<1>6. CASE Irq12Byte
  <2>1. /\ machine' = machine /\ obf' = NoByte /\ irq' = irq /\ pc' = pc
        /\ obf.src = "mouse"
    BY <1>6 DEF Irq12Byte, ReadPort, main, Ours
  <2> QED BY <1>1, <2>1 DEF Lines, KeyboardByte
<1>7. CASE Irq12Leave \/ Tick
  BY <1>1, <1>7 DEF Irq12Leave, Tick, Wake, controller, Lines, KeyboardByte
<1>8. CASE Main
  <2>1. CASE PollRead
    BY <1>1, <2>1 DEF PollRead, Runs, ReadPort, Lines, KeyboardByte
  <2>2. CASE Check \/ Status \/ PollDecode \/ PollStore \/ PollAdvance \/ Take \/ Nothing \/ Halt
    <3>1. machine' = machine /\ obf' = obf /\ irq' = irq
      BY <2>2 DEF Check, Status, PollDecode, PollStore, PollAdvance, Take, Nothing, Halt,
                  GoTo, controller
    <3>2. CASE Check \/ Nothing \/ Halt \/ Take
      BY <1>1, <3>1, <3>2 DEF Check, Nothing, Halt, Take, GoTo, Lines, KeyboardByte
    <3>3. CASE Status
      BY <1>1, <3>1, <3>3 DEF Status, Runs, GoTo, Lines, KeyboardByte
    <3>4. CASE PollDecode \/ PollStore \/ PollAdvance
      BY <1>1, <3>1, <3>4 DEF PollDecode, PollStore, PollAdvance, Runs, GoTo, Lines, KeyboardByte
    <3> QED BY <2>2, <3>2, <3>3, <3>4
  <2> QED BY <1>8, <2>1, <2>2 DEF Main
<1>9. QED BY <1>2, <1>3, <1>4, <1>5, <1>6, <1>7, <1>8 DEF Next, Irq12

(* A byte of the mouse goes from the queue to the controller and from      *)
(* there to on_irq12; whoever takes a byte of the keyboard leaves the      *)
(* next one of the mouse what it was.                                      *)
LEMMA MouseSame ==
  ASSUME MouseBytes, PacketsWhole, UNCHANGED <<mouseQ, mouse>>,
         Ours' => Ours /\ obf' = obf, Ours => Ours'
  PROVE  MouseBytes' /\ PacketsWhole'
<1>1. UNCHANGED <<mouseQ, pkt, packets>> /\ (Ours' <=> Ours) /\ (Ours => obf' = obf)
  BY DEF mouse
<1>2. PacketsWhole'
  BY <1>1 DEF PacketsWhole
<1>3. \A b : MO(b) => MO(b)'
  BY <1>1 DEF MO
<1>4. MO(IF pkt = << >> THEN [part |-> "b3"] ELSE pkt[Len(pkt)])
  BY DEF MouseBytes
<1>5. MO(IF pkt = << >> THEN [part |-> "b3"] ELSE pkt[Len(pkt)])'
  <2>1. PICK b : b = IF pkt = << >> THEN [part |-> "b3"] ELSE pkt[Len(pkt)]
    OBVIOUS
  <2>2. b = IF pkt' = << >> THEN [part |-> "b3"] ELSE pkt'[Len(pkt')]
    BY <1>1, <2>1
  <2>3. MO(b)'
    BY <1>3, <1>4, <2>1
  <2> QED BY <1>1, <2>2, <2>3 DEF MO
<1>6. QED BY <1>1, <1>2, <1>5 DEF MouseBytes

LEMMA MouseNext ==
  ASSUME TypeOK, machine # "late", Lines, MouseBytes, PacketsWhole, Next
  PROVE  MouseBytes' /\ PacketsWhole'
<1>1. machine \in {"prompt", "polled"}
  BY ConstAssumption DEF TypeOK
<1>2. CASE Move
  <2>1. mouseQ \in Seq(MouseByte) /\ MChain(mouseQ)
    BY DEF TypeOK, MouseBytes
  <2>2. moved' \in 1 .. MaxPackets
    BY <1>2, ConstAssumption DEF Move, TypeOK
  <2>3. \A u \in {"b1", "b2", "b3"}, v \in BOOLEAN :
          [src |-> "mouse", k |-> moved', part |-> u, bit3 |-> v] \in MouseByte
    BY <2>2 DEF MouseByte
  <2>4. PICK b2 \in BOOLEAN, b3 \in BOOLEAN :
          mouseQ' = mouseQ \o <<[src |-> "mouse", k |-> moved', part |-> "b1", bit3 |-> TRUE],
                                [src |-> "mouse", k |-> moved', part |-> "b2", bit3 |-> b2],
                                [src |-> "mouse", k |-> moved', part |-> "b3", bit3 |-> b3]>>
    BY <1>2 DEF Move
  <2>5. PICK x \in MouseByte, y \in MouseByte, z \in MouseByte :
          /\ x.part = "b1" /\ y.part = "b2" /\ z.part = "b3" /\ x.bit3 /\ x.k = y.k /\ y.k = z.k
          /\ mouseQ' = mouseQ \o <<x, y, z>>
    BY <2>3, <2>4
  <2>6. mouseQ' = Append(Append(Append(mouseQ, x), y), z)
    BY <2>1, <2>5
  <2>7. MChain(mouseQ') /\ \A b : MNext(mouseQ, b) => MNext(mouseQ', b)
    BY <2>1, <2>5, <2>6, MAppend
  <2>8. UNCHANGED <<obf, pkt, packets>>
    BY <1>2 DEF Move, mouse
  <2>9. (\A b : MO(b) => MO(b)') /\ (Ours' <=> Ours)
    BY <2>7, <2>8 DEF MO, Ours
  <2>10. MO(IF pkt = << >> THEN [part |-> "b3"] ELSE pkt[Len(pkt)])'
    <3>1. PICK b : b = IF pkt = << >> THEN [part |-> "b3"] ELSE pkt[Len(pkt)]
      OBVIOUS
    <3>2. MO(b)
      BY <3>1 DEF MouseBytes
    <3>3. MO(b)'
      BY <2>9, <3>2
    <3> QED BY <2>8, <3>1, <3>3 DEF MO
  <2> QED BY <2>7, <2>8, <2>9, <2>10 DEF MouseBytes, PacketsWhole
<1>3. CASE Fill
  <2>1. obf = NoByte /\ ~ Ours /\ UNCHANGED <<pkt, packets>>
    BY <1>3 DEF Fill, Ours, mouse
  <2>2. CASE kbdQ # << >> /\ obf' = Head(kbdQ) /\ mouseQ' = mouseQ
    <3>1. Head(kbdQ) \in KeyByte
      BY <2>2, HeadTailProperties DEF TypeOK
    <3>2. ~ Ours'
      BY <2>2, <3>1, ByteFacts DEF Ours
    <3> QED BY <2>1, <2>2, <3>2, MouseSame DEF mouse
  <2>3. CASE mouseQ # << >> /\ obf' = Head(mouseQ) /\ mouseQ' = Tail(mouseQ)
    <3>1. mouseQ \in Seq(MouseByte) /\ MChain(mouseQ)
      BY DEF TypeOK, MouseBytes
    <3>2. Head(mouseQ) = mouseQ[1] /\ Head(mouseQ) \in MouseByte
      BY <2>3, <3>1, QueueFacts
    <3>3. Ours' /\ obf' = mouseQ[1]
      BY <2>3, <3>2, ByteFacts DEF Ours
    <3>4. MChain(mouseQ') /\ MNext(mouseQ', obf') /\ Marked(obf')
      BY <2>3, <3>1, <3>3, MTail
    <3>5. \A b : MO(b) => MO(b)'
      BY <2>1, <2>3, <3>3 DEF MO, MNext
    <3>6. MO(IF pkt = << >> THEN [part |-> "b3"] ELSE pkt[Len(pkt)])'
      <4>1. PICK b : b = IF pkt = << >> THEN [part |-> "b3"] ELSE pkt[Len(pkt)]
        OBVIOUS
      <4>2. MO(b)
        BY <4>1 DEF MouseBytes
      <4>3. MO(b)'
        BY <3>5, <4>2
      <4> QED BY <2>1, <4>1, <4>3 DEF MO
    <3> QED BY <2>1, <3>4, <3>6 DEF MouseBytes, PacketsWhole
  <2> QED BY <1>3, <2>2, <2>3 DEF Fill
<1>4. CASE Irq12Byte
  <2>1. /\ obf \in MouseByte /\ Ours /\ obf' = NoByte /\ mouseQ' = mouseQ
        /\ Marked(obf) /\ MNext(mouseQ, obf) /\ ~ Ours'
    <3>1. Ours /\ obf' = NoByte /\ mouseQ' = mouseQ
      BY <1>4 DEF Irq12Byte, ReadPort
    <3> QED BY <3>1, ByteFacts DEF Ours, MouseBytes, TypeOK
  <2> DEFINE p == IF pkt = << >> /\ ~ obf.bit3 THEN pkt ELSE Append(pkt, obf)
             n == Len(pkt)
  <2>2. IF Len(p) = 3 THEN packets' = Append(packets, p) /\ pkt' = << >>
        ELSE pkt' = p /\ UNCHANGED packets
    BY <1>4, Zenon DEF Irq12Byte
  <2>3. /\ pkt \in Seq(MouseByte) /\ n \in Nat /\ n < 3
        /\ pkt = << >> => n = 0
        /\ pkt # << >> => n >= 1
        /\ Append(pkt, obf) \in Seq(MouseByte) /\ Len(Append(pkt, obf)) = n + 1
        /\ Append(pkt, obf) # << >> /\ Append(pkt, obf)[n + 1] = obf
        /\ \A i \in 1 .. n : Append(pkt, obf)[i] = pkt[i]
    BY <2>1, AppendFacts DEF TypeOK
  <2>4. /\ MFollows(IF pkt = << >> THEN [part |-> "b3"] ELSE pkt[n], obf)
        /\ n >= 1 => pkt[1].part = "b1"
        /\ n >= 2 => MFollows(pkt[1], pkt[2])
    BY <2>1 DEF MouseBytes, MO
  <2>5. p = Append(pkt, obf)
    <3>1. CASE pkt = << >>
      <4>1. obf.part = "b1"
        BY <2>4, <3>1 DEF MFollows
      <4>2. obf.bit3
        BY <2>1, <4>1 DEF Marked
      <4> QED BY <4>2
    <3>2. CASE pkt # << >>
      BY <3>2
    <3> QED BY <3>1, <3>2
  <2>6. /\ p # << >> /\ p[1].part = "b1" /\ p[n + 1] = obf /\ Len(p) = n + 1
        /\ n >= 1 => MFollows(p[1], p[2]) /\ p[2].part = "b2"
        /\ n >= 2 => MFollows(p[2], p[3]) /\ p[3].part = "b3"
    <3>1. p # << >> /\ p[n + 1] = obf /\ Len(p) = n + 1 /\ \A i \in 1 .. n : p[i] = pkt[i]
      BY <2>3, <2>5
    <3> HIDE DEF p, n
    <3>2. CASE n = 0
      <4>1. obf.part = "b1" /\ p[1] = obf
        BY <2>3, <2>4, <3>1, <3>2 DEF MFollows
      <4> QED BY <3>1, <3>2, <4>1
    <3>3. CASE n = 1
      <4>1. p[1] = pkt[1] /\ p[2] = obf /\ pkt # << >>
        BY <2>3, <3>1, <3>3
      <4>2. pkt[1].part = "b1" /\ MFollows(pkt[1], obf)
        BY <2>4, <3>3, <4>1
      <4> QED BY <3>1, <3>3, <4>1, <4>2 DEF MFollows
    <3>4. CASE n = 2
      <4>1. p[1] = pkt[1] /\ p[2] = pkt[2] /\ p[3] = obf /\ pkt # << >>
        BY <2>3, <3>1, <3>4
      <4>2. pkt[1].part = "b1" /\ MFollows(pkt[1], pkt[2]) /\ MFollows(pkt[2], obf)
        BY <2>4, <3>4, <4>1
      <4> QED BY <3>1, <3>4, <4>1, <4>2 DEF MFollows
    <3> QED BY <2>3, <3>2, <3>3, <3>4
  <2>7. MouseBytes /\ \A b : MO(b)' <=> MNext(mouseQ, b)
    BY <2>1 DEF MO
  <2> HIDE DEF p, n
  <2>8. CASE n = 2
    <3>1. packets' = Append(packets, p) /\ pkt' = << >>
      BY <2>2, <2>6, <2>8
    <3>2. p[1].part = "b1" /\ p[2].part = "b2" /\ p[3].part = "b3" /\ p[3] = obf
          /\ p[2].k = p[1].k /\ p[3].k = p[1].k
      BY <2>6, <2>8 DEF MFollows
    <3>3. MNext(mouseQ, [part |-> "b3"])
      BY <2>1, <3>2 DEF MNext, MFollows
    <3>4. Len(pkt') = 0
      BY <3>1, EmptySeq
    <3>5. MO(IF pkt = << >> THEN [part |-> "b3"] ELSE pkt[Len(pkt)])'
      BY <2>1, <3>1, <3>3 DEF MO
    <3>6. MouseBytes'
      <4>1. MChain(mouseQ)
        BY <2>7 DEF MouseBytes
      <4>2. (Len(pkt') >= 1 => pkt'[1].part = "b1") /\ (Len(pkt') >= 2 => MFollows(pkt'[1], pkt'[2]))
        BY <3>4
      <4> QED BY <2>1, <3>5, <4>1, <4>2 DEF MouseBytes
    <3>7. PacketsWhole'
      <4>1. PICK S : S = [1 .. 3 -> MouseByte]
        OBVIOUS
      <4>2. packets \in Seq(S)
        BY <4>1 DEF TypeOK
      <4>3. p \in S
        <5>1. p \in Seq(MouseByte) /\ Len(p) = 3
          BY <2>3, <2>5, <2>6, <2>8
        <5> QED BY <4>1, <5>1, LenProperties
      <4> DEFINE m == Len(packets)
                 r == Append(packets, p)
      <4>4. /\ m \in Nat /\ Len(r) = m + 1 /\ r[m + 1] = p
            /\ \A j \in 1 .. m : r[j] = packets[j]
        BY <4>2, <4>3, AppendFacts
      <4>5. \A j \in 1 .. m : \A i \in 1 .. 3 :
              packets[j][i].part = <<"b1", "b2", "b3">>[i] /\ packets[j][i].k = packets[j][1].k
        BY DEF PacketsWhole
      <4>6. \A i \in 1 .. 3 : p[i].part = <<"b1", "b2", "b3">>[i] /\ p[i].k = p[1].k
        BY <3>2
      <4> HIDE DEF m, r
      <4>7. \A j \in 1 .. m + 1 : r[j] = p \/ (j \in 1 .. m /\ r[j] = packets[j])
        BY <4>4
      <4>8. \A j \in 1 .. Len(r) : \A i \in 1 .. 3 :
              r[j][i].part = <<"b1", "b2", "b3">>[i] /\ r[j][i].k = r[j][1].k
        BY <4>4, <4>5, <4>6, <4>7
      <4>9. packets' = r
        BY <3>1 DEF r
      <4> QED BY <4>8, <4>9 DEF PacketsWhole
    <3> QED BY <3>6, <3>7
  <2>9. CASE n # 2
    <3>1. Len(p) # 3
      BY <2>3, <2>6, <2>9
    <3>2. packets' = packets /\ pkt' = p
      BY <2>2, <3>1
    <3>3. p[Len(p)] = obf
      BY <2>6
    <3>4. MO(IF pkt = << >> THEN [part |-> "b3"] ELSE pkt[Len(pkt)])'
      BY <2>1, <2>6, <3>2, <3>3 DEF MO
    <3>5. pkt'[1].part = "b1" /\ (Len(pkt') >= 2 => MFollows(pkt'[1], pkt'[2]))
      BY <2>3, <2>6, <3>2
    <3>6. MChain(mouseQ)
      BY <2>7 DEF MouseBytes
    <3> QED BY <2>1, <3>2, <3>4, <3>5, <3>6 DEF MouseBytes, PacketsWhole
  <2> QED BY <2>8, <2>9
<1>5. CASE Type \/ Irq12Enter \/ Irq12Leave \/ Tick \/ Check \/ Status \/ PollDecode
           \/ PollStore \/ PollAdvance \/ Take \/ Nothing \/ Halt
  <2>1. UNCHANGED <<mouseQ, mouse, obf>>
    BY <1>5 DEF Type, Irq12Enter, Irq12Leave, Tick, Check, Status, PollDecode, PollStore,
                PollAdvance, Take, Nothing, Halt, GoTo, controller
  <2> QED BY <2>1, MouseSame DEF Ours
<1>6. CASE Irq1 \/ PollRead
  <2>1. KeyboardByte
    BY <1>1, <1>6 DEF Irq1, PollRead, Runs, Lines
  <2>2. obf' = NoByte /\ UNCHANGED <<mouseQ, mouse>>
    BY <1>6 DEF Irq1, PollRead, ReadPort
  <2>3. ~ Ours /\ ~ Ours'
    BY <2>1, <2>2 DEF Ours, KeyboardByte
  <2> QED BY <2>2, <2>3, MouseSame
<1>7. QED BY <1>2, <1>3, <1>4, <1>5, <1>6 DEF Next, Irq12, Main

(* A step that takes no byte of the keyboard leaves the next one what it   *)
(* was; a key that is typed comes behind those on their way.               *)
LEMMA FlowSame ==
  ASSUME KeyBytes, UNCHANGED <<kbdQ, typed, sc>>, KeyboardByte' <=> KeyboardByte,
         KeyboardByte => obf' = obf, pc' = "decode" <=> pc = "decode"
  PROVE  KeyBytes' /\ \A b : KD(b) => KD(b)'
<1>1. \A b : (KQ(b)' <=> KQ(b)) /\ (KO(b)' <=> KO(b)) /\ (KD(b) => KD(b)')
  BY DEF KQ, KO, KD
<1>2. /\ KChain(kbdQ', typed')
      /\ KeyboardByte' => KQ(obf)'
  BY DEF KeyBytes, KQ
<1>3. pc' = "decode" => sc' \in KeyByte /\ KO(sc)'
  <2>1. pc' = "decode" => sc \in KeyByte /\ KO(sc)
    BY DEF KeyBytes
  <2>2. KO(sc) => KO(sc)'
    BY DEF KO, KQ
  <2> QED BY <2>1, <2>2
<1>4. QED BY <1>1, <1>2, <1>3 DEF KeyBytes

LEMMA FlowDevices ==
  ASSUME TypeOK, KeyBytes, Type \/ Fill
  PROVE  KeyBytes' /\ \A b : KD(b) => KD(b)'
<1>1. kbdQ \in Seq(KeyByte) /\ typed \in Nat /\ KChain(kbdQ, typed)
  BY ConstAssumption DEF TypeOK, KeyBytes
<1>2. CASE Type
  <2>1. typed' = typed + 1 /\ typed' \in 1 .. MaxKeys
    BY <1>2, ConstAssumption DEF Type, TypeOK
  <2>2. KChain(kbdQ', typed') /\ \A b : KNext(kbdQ, typed, b) => KNext(kbdQ', typed', b)
    <3>1. CASE kbdQ' = Append(kbdQ, Key(typed', "plain"))
      <4>1. PICK x : x = Key(typed', "plain")
        OBVIOUS
      <4>2. x \in KeyByte /\ x.k = typed + 1 /\ x.part = "plain"
        BY <2>1, <4>1, ByteFacts DEF Key
      <4>3. kbdQ' = Append(kbdQ, x)
        BY <3>1, <4>1
      <4> QED BY <1>1, <2>1, <4>2, <4>3, KAppend
    <3>2. CASE kbdQ' = kbdQ \o <<Key(typed', "E0"), Key(typed', "second")>>
      <4>1. PICK x, y : x = Key(typed', "E0") /\ y = Key(typed', "second")
        OBVIOUS
      <4>2. /\ x \in KeyByte /\ x.k = typed + 1 /\ x.part = "E0"
            /\ y \in KeyByte /\ y.k = typed + 1 /\ y.part = "second"
        BY <2>1, <4>1, ByteFacts DEF Key
      <4>3. kbdQ' = kbdQ \o <<x, y>>
        BY <3>2, <4>1, Zenon
      <4>4. kbdQ' = Append(Append(kbdQ, x), y)
        BY <1>1, <4>2, <4>3
      <4>5. /\ KChain(Append(Append(kbdQ, x), y), typed + 1)
            /\ \A b : KNext(kbdQ, typed, b) => KNext(Append(Append(kbdQ, x), y), typed + 1, b)
        BY <1>1, <4>2, KAppend
      <4> QED BY <2>1, <4>4, <4>5
    <3> QED BY <1>2, <3>1, <3>2, Zenon DEF Type
  <2>3. UNCHANGED <<obf, pc, sc>>
    BY <1>2 DEF Type, main
  <2>4. \A b : (KQ(b) => KQ(b)') /\ (KO(b) => KO(b)') /\ (KD(b) => KD(b)')
    BY <2>2, <2>3 DEF KQ, KO, KD, KeyboardByte
  <2>5. KeyboardByte' => KQ(obf)'
    BY <2>2, <2>3 DEF KeyBytes, KQ, KeyboardByte
  <2>6. pc' = "decode" => sc' \in KeyByte /\ KO(sc)'
    BY <2>2, <2>3 DEF KeyBytes, KO, KQ, KeyboardByte
  <2> QED BY <2>2, <2>4, <2>5, <2>6 DEF KeyBytes
<1>3. CASE Fill
  <2>1. ~ KeyboardByte /\ UNCHANGED <<typed, pc, sc>> /\ obf = NoByte
    BY <1>3 DEF Fill, KeyboardByte, main
  <2>2. CASE kbdQ # << >> /\ obf' = Head(kbdQ) /\ kbdQ' = Tail(kbdQ)
    <3>1. obf' = kbdQ[1] /\ obf' \in KeyByte
      BY <1>1, <2>2, QueueFacts
    <3>2. KeyboardByte'
      BY <3>1, ByteFacts DEF KeyboardByte
    <3>3. KChain(kbdQ', typed') /\ KNext(kbdQ', typed', obf')
      BY <1>1, <2>1, <2>2, <3>1, KTail
    <3>4. \A b : (KO(b) => KO(b)') /\ (KD(b) => KD(b)')
      BY <2>1, <2>2, <3>1, <3>2 DEF KQ, KO, KD, KNext
    <3>5. pc' = "decode" => sc' \in KeyByte /\ KO(sc)'
      BY <2>1, <2>2, <3>1, <3>2 DEF KeyBytes, KQ, KO, KNext
    <3> QED BY <3>3, <3>4, <3>5 DEF KeyBytes, KQ
  <2>3. CASE mouseQ # << >> /\ obf' = Head(mouseQ) /\ kbdQ' = kbdQ
    <3>1. obf' \in MouseByte
      BY <2>3, HeadTailProperties DEF TypeOK
    <3>2. ~ KeyboardByte'
      BY <3>1, ByteFacts DEF KeyboardByte
    <3> QED BY <2>1, <2>3, <3>2, FlowSame
  <2> QED BY <1>3, <2>2, <2>3 DEF Fill
<1>4. QED BY <1>2, <1>3

LEMMA KeysSame ==
  ASSUME NEW done, Keys(done), ext' = ext, Got' = Got, \A b : KD(b) => KD(b)',
         Storing' <=> Storing, Storing => UNCHANGED <<pc, slot, buf, head, tail>>
  PROVE  Keys(done)'
<1>1. KD(IF ext THEN Key(done + 1, "E0") ELSE Key(done, "plain"))'
  <2>1. PICK b : b = IF ext THEN Key(done + 1, "E0") ELSE Key(done, "plain")
    OBVIOUS
  <2>2. KD(b)
    BY <2>1, Zenon DEF Keys
  <2>3. KD(b)'
    BY <2>2
  <2>4. KD(b)' => KD(IF ext THEN Key(done + 1, "E0") ELSE Key(done, "plain"))'
    BY <2>1, Zenon DEF KD, KO, KQ
  <2> QED BY <2>3, <2>4
<1>2. /\ \A i \in 1 .. Len(Got') : Got'[i].right /\ Got'[i].k <= done
      /\ \A i, j \in 1 .. Len(Got') : i < j => Got'[i].k < Got'[j].k
      /\ Len(Got') >= BufSize - 1 \/ Len(Got') + (IF Storing' THEN 1 ELSE 0) = done
  <2>1. /\ \A i \in 1 .. Len(Got) : Got[i].right /\ Got[i].k <= done
        /\ \A i, j \in 1 .. Len(Got) : i < j => Got[i].k < Got[j].k
        /\ Len(Got) >= BufSize - 1 \/ Len(Got) + (IF Storing THEN 1 ELSE 0) = done
    BY DEF Keys
  <2>2. (IF Storing' THEN 1 ELSE 0) = IF Storing THEN 1 ELSE 0
    OBVIOUS
  <2> QED BY <2>1, <2>2
<1>3. Storing' => /\ slot'.at = head' /\ Succ(head') # tail'
                  /\ slot'.char.right /\ slot'.char.k = done
                  /\ \A i \in 1 .. Len(Got') : Got'[i].k < done
                  /\ pc' = "advance" => buf'[head'] = slot'.char
  <2>1. Storing => /\ slot.at = head /\ Succ(head) # tail
                   /\ slot.char.right /\ slot.char.k = done
                   /\ \A i \in 1 .. Len(Got) : Got[i].k < done
                   /\ pc = "advance" => buf[head] = slot.char
    BY DEF Keys, Full
  <2> QED BY <2>1
<1>4. QED BY <1>1, <1>2, <1>3 DEF Keys, Full

(* on_irq1 gets the byte that was expected: a prefix changes the flag, any *)
(* other byte is the next key, decoded as what it is.                      *)
LEMMA Decoding ==
  ASSUME NEW b \in KeyByte, NEW done \in 0 .. MaxKeys, ext \in BOOLEAN,
         KFollows(IF ext THEN Key(done + 1, "E0") ELSE Key(done, "plain"), b)
  PROVE  /\ b.k = done + 1 /\ done + 1 \in 0 .. MaxKeys
         /\ Queues(b) <=> b.part # "E0"
         /\ Decode(b).ext = (b.part = "E0")
         /\ b.part # "E0" => Decode(b).char = [k |-> done + 1, right |-> TRUE]
<1>1. /\ b.src = "kbd" /\ b # NoByte /\ b.k \in 1 .. MaxKeys
      /\ b.part \in {"plain", "E0", "second"}
  BY ByteFacts
<1>2. IF ext THEN b.part = "second" /\ b.k = done + 1 ELSE b.part # "second" /\ b.k = done + 1
  <2>1. CASE ext
    BY <2>1 DEF KFollows, Key
  <2>2. CASE ~ ext
    BY <2>2 DEF KFollows, Key
  <2> QED BY <2>1, <2>2
<1>3. b.k = done + 1 /\ done + 1 \in 0 .. MaxKeys /\ (ext <=> b.part = "second")
  BY <1>1, <1>2, ConstAssumption
<1>4. Decode(b).ext = (b.part = "E0") /\ Decode(b).char = [k |-> b.k, right |-> ext <=> b.part = "second"]
  BY <1>1 DEF Decode
<1>5. (ext <=> b.part = "second") = TRUE
  BY <1>3
<1>6. QED BY <1>1, <1>3, <1>4, <1>5 DEF Queues

(* What comes next depends on a byte only through its key and whether it   *)
(* is a prefix.                                                            *)
LEMMA NextAlike ==
  \A b, c, q, t : b.k = c.k /\ (b.part = "E0" <=> c.part = "E0") /\ KNext(q, t, b) => KNext(q, t, c)
BY DEF KNext, KFollows

LEMMA CharAdded ==
  ASSUME TypeOK, NEW x \in Char, NEW d \in Nat, x.right, x.k = d,
         \A i \in 1 .. Len(Got) : Got[i].right /\ Got[i].k < d,
         \A i, j \in 1 .. Len(Got) : i < j => Got[i].k < Got[j].k,
         Got' = Append(Got, x)
  PROVE  /\ \A i \in 1 .. Len(Got') : Got'[i].right /\ Got'[i].k <= d
         /\ \A i, j \in 1 .. Len(Got') : i < j => Got'[i].k < Got'[j].k
         /\ Len(Got') = Len(Got) + 1
<1> DEFINE n == Len(Got)
           g == Append(Got, x)
<1>1. /\ n \in Nat /\ Len(g) = n + 1 /\ g[n + 1] = x
      /\ \A i \in 1 .. n : g[i] = Got[i]
  BY GotType, AppendFacts
<1>2. /\ \A i \in 1 .. n : Got[i].right /\ Got[i].k < d /\ Got[i].k \in Nat
      /\ \A i, j \in 1 .. n : i < j => Got[i].k < Got[j].k
  <2>1. \A i \in 1 .. n : Got[i] \in Char
    BY GotType, ElementOfSeq
  <2>2. \A c \in Char : c.k \in Nat
    BY ConstAssumption DEF Char
  <2> QED BY <2>1, <2>2
<1> HIDE DEF n, g
<1>3. \A i \in 1 .. n + 1 : g[i].right /\ g[i].k <= d
  <2> TAKE i \in 1 .. n + 1
  <2>1. i = n + 1 \/ i \in 1 .. n
    BY <1>1
  <2> QED BY <1>1, <1>2, <2>1
<1>4. \A i, j \in 1 .. n + 1 : i < j => g[i].k < g[j].k
  <2> TAKE i, j \in 1 .. n + 1
  <2> HAVE i < j
  <2>1. i \in 1 .. n /\ (j = n + 1 \/ j \in 1 .. n)
    BY <1>1
  <2> QED BY <1>1, <1>2, <2>1
<1>5. QED BY <1>1, <1>3, <1>4 DEF g, n

(* The handler takes the byte from the controller. *)
LEMMA FlowIrq1 ==
  ASSUME TypeOK, machine # "late", Lines, KeyBytes, NEW done \in 0 .. MaxKeys, Keys(done), Irq1
  PROVE  KeyBytes' /\ \E d \in 0 .. MaxKeys : Keys(d)'
<1>1. /\ KeyboardByte /\ pc \notin {"decode", "store", "advance"} /\ ~ Storing /\ ~ Storing'
      /\ pc' \notin {"decode", "store", "advance"} /\ obf \in KeyByte
  <2>1. machine \in {"prompt", "polled"}
    BY ConstAssumption DEF TypeOK
  <2> QED BY <2>1, ByteFacts DEF Irq1, Lines, Storing, Wake, KeyboardByte, TypeOK
<1>2. /\ Data = obf /\ ~ KeyboardByte' /\ UNCHANGED <<kbdQ, typed, tail, read, sc>>
      /\ KQ(obf) /\ KChain(kbdQ, typed)
  BY <1>1 DEF Irq1, ReadPort, Data, KeyboardByte, KeyBytes
<1>3. KFollows(IF ext THEN Key(done + 1, "E0") ELSE Key(done, "plain"), obf)
  <2>1. KD(IF ext THEN Key(done + 1, "E0") ELSE Key(done, "plain"))
    BY Zenon DEF Keys
  <2> QED BY <1>1, <2>1, Zenon DEF KD, KO
<1>4. /\ obf.k = done + 1 /\ done + 1 \in 0 .. MaxKeys
      /\ Queues(obf) <=> obf.part # "E0"
      /\ Decode(obf).ext = (obf.part = "E0")
      /\ obf.part # "E0" => Decode(obf).char = [k |-> done + 1, right |-> TRUE]
  BY <1>1, <1>3, Decoding DEF TypeOK
<1>5. ext' = (obf.part = "E0")
  BY <1>2, <1>4 DEF Irq1
<1>6. KeyBytes'
  BY <1>1, <1>2 DEF KeyBytes, KQ
<1>7. \A b : KD(b)' <=> KNext(kbdQ, typed, b)
  BY <1>1, <1>2 DEF KD, KO, KQ
<1>8. CASE obf.part = "E0"
  <2>1. UNCHANGED <<buf, head>> /\ ext' = TRUE
    BY <1>2, <1>4, <1>5, <1>8 DEF Irq1
  <2>2. Got' = Got
    BY <1>2, <2>1, GotSame
  <2>3. KD(IF ext THEN Key(done + 1, "E0") ELSE Key(done, "plain"))'
    <3>1. KNext(kbdQ, typed, Key(done + 1, "E0"))
      <4>1. PICK c : c = Key(done + 1, "E0")
        OBVIOUS
      <4>2. c.k = obf.k /\ c.part = "E0"
        BY <1>4, <4>1 DEF Key
      <4>3. KNext(kbdQ, typed, obf)
        BY <1>2 DEF KQ
      <4> QED BY <1>8, <4>1, <4>2, <4>3, NextAlike
    <3>2. KD(Key(done + 1, "E0"))'
      BY <1>1, <1>2, <3>1 DEF KD, KO, KQ
    <3> QED BY <2>1, <3>2 DEF KD, KO, KQ
  <2>4. Keys(done)'
    <3>1. /\ \A i \in 1 .. Len(Got') : Got'[i].right /\ Got'[i].k <= done
          /\ \A i, j \in 1 .. Len(Got') : i < j => Got'[i].k < Got'[j].k
          /\ Len(Got') >= BufSize - 1 \/ Len(Got') + (IF Storing' THEN 1 ELSE 0) = done
      BY <1>1, <2>2 DEF Keys
    <3> QED BY <1>1, <2>3, <3>1 DEF Keys
  <2> QED BY <1>6, <2>4
<1>9. CASE obf.part # "E0"
  <2> DEFINE d == done + 1
             x == [k |-> d, right |-> TRUE]
  <2>1. d \in 0 .. MaxKeys /\ d \in Nat /\ x \in Char /\ x.k = d /\ x.right
    BY <1>4, ConstAssumption DEF Char
  <2>2. ext' = FALSE /\ (IF ~ Full(head) THEN buf' = [buf EXCEPT ![head] = x] /\ head' = Succ(head)
                         ELSE UNCHANGED <<buf, head>>)
    BY <1>2, <1>4, <1>5, <1>9 DEF Irq1
  <2>3. /\ \A i \in 1 .. Len(Got) : Got[i].right /\ Got[i].k < d
        /\ \A i, j \in 1 .. Len(Got) : i < j => Got[i].k < Got[j].k
        /\ Len(Got) >= BufSize - 1 \/ Len(Got) + 1 = d
    <3>1. \A i \in 1 .. Len(Got) : Got[i].k \in Nat
      <4>1. \A i \in 1 .. Len(Got) : Got[i] \in Char
        BY GotType, ElementOfSeq
      <4>2. \A c \in Char : c.k \in Nat
        BY ConstAssumption DEF Char
      <4> QED BY <4>1, <4>2
    <3>2. /\ \A i \in 1 .. Len(Got) : Got[i].right /\ Got[i].k <= done
          /\ \A i, j \in 1 .. Len(Got) : i < j => Got[i].k < Got[j].k
          /\ Len(Got) >= BufSize - 1 \/ Len(Got) = done
      <4>1. (IF Storing THEN 1 ELSE 0) = 0 /\ Len(Got) \in Nat
        BY <1>1, GotType
      <4>2. Len(Got) + 0 = Len(Got)
        BY <4>1
      <4> QED BY <4>1, <4>2 DEF Keys
    <3> QED BY <3>1, <3>2
  <2> HIDE DEF x, d
  <2>4. KD(Key(d, "plain"))'
    <3>1. KNext(kbdQ, typed, Key(d, "plain"))
      <4>1. PICK c : c = Key(d, "plain")
        OBVIOUS
      <4>2. c.k = obf.k /\ c.part # "E0"
        BY <1>4, <4>1 DEF Key, d
      <4>3. KNext(kbdQ, typed, obf)
        BY <1>2 DEF KQ
      <4> QED BY <1>9, <4>1, <4>2, <4>3, NextAlike
    <3> QED BY <1>1, <1>2, <3>1 DEF KD, KO, KQ
  <2>5. KD(IF ext THEN Key(d + 1, "E0") ELSE Key(d, "plain"))'
    BY <2>2, <2>4 DEF KD, KO, KQ
  <2>6. /\ \A i \in 1 .. Len(Got') : Got'[i].right /\ Got'[i].k <= d
        /\ \A i, j \in 1 .. Len(Got') : i < j => Got'[i].k < Got'[j].k
        /\ Len(Got') >= BufSize - 1 \/ Len(Got') = d
    <3>1. CASE Full(head)
      <4>1. Got' = Got /\ Len(Got) >= BufSize - 1
        BY <1>2, <2>2, <3>1, GotSame, GotFull
      <4>2. \A i \in 1 .. Len(Got) : Got[i].k \in Nat
        <5>1. \A i \in 1 .. Len(Got) : Got[i] \in Char
          BY GotType, ElementOfSeq
        <5>2. \A c \in Char : c.k \in Nat
          BY ConstAssumption DEF Char
        <5> QED BY <5>1, <5>2
      <4> QED BY <2>1, <2>3, <4>1, <4>2
    <3>2. CASE ~ Full(head)
      <4>1. Got' = Append(Got, x)
        BY <1>2, <2>1, <2>2, <3>2, GotEnqueue
      <4>2. /\ \A i \in 1 .. Len(Got') : Got'[i].right /\ Got'[i].k <= d
            /\ \A i, j \in 1 .. Len(Got') : i < j => Got'[i].k < Got'[j].k
            /\ Len(Got') = Len(Got) + 1
        BY <2>1, <2>3, <4>1, CharAdded
      <4>3. Len(Got) \in Nat /\ BufSize \in Nat
        BY GotType, RingFacts
      <4>4. Len(Got') >= BufSize - 1 \/ Len(Got') = d
        <5> DEFINE n == Len(Got)
        <5>1. n \in Nat /\ Len(Got') = n + 1 /\ (n >= BufSize - 1 \/ n + 1 = d)
          BY <2>3, <4>2, <4>3
        <5> HIDE DEF n
        <5>2. n + 1 >= BufSize - 1 \/ n + 1 = d
          BY <4>3, <5>1
        <5> QED BY <5>1, <5>2
      <4> QED BY <4>2, <4>4
    <3> QED BY <3>1, <3>2
  <2>7. Len(Got') >= BufSize - 1 \/ Len(Got') + (IF Storing' THEN 1 ELSE 0) = d
    BY <1>1, <2>1, <2>6
  <2>8. Keys(d)'
    BY <1>1, <2>5, <2>6, <2>7 DEF Keys
  <2> QED BY <1>6, <2>1, <2>8
<1>10. QED BY <1>8, <1>9

(* The same byte on its way through a polled on_irq1. *)
LEMMA FlowPoll ==
  ASSUME TypeOK, machine # "late", Lines, KeyBytes, NEW done \in 0 .. MaxKeys, Keys(done),
         PollRead \/ PollDecode \/ PollStore \/ PollAdvance
  PROVE  KeyBytes' /\ \E d \in 0 .. MaxKeys : Keys(d)'
<1>1. \A i \in 1 .. Len(Got) : Got[i].k \in Nat
  <2>1. \A i \in 1 .. Len(Got) : Got[i] \in Char
    BY GotType, ElementOfSeq
  <2>2. \A c \in Char : c.k \in Nat
    BY ConstAssumption DEF Char
  <2> QED BY <2>1, <2>2
<1>2. CASE PollRead
  <2>1. /\ KeyboardByte /\ pc = "inb" /\ pc' = "decode" /\ obf \in KeyByte
    <3>1. machine \in {"prompt", "polled"}
      BY ConstAssumption DEF TypeOK
    <3> QED BY <1>2, <3>1, ByteFacts DEF PollRead, Runs, Lines, KeyboardByte, TypeOK
  <2>2. /\ sc' = obf /\ ~ KeyboardByte' /\ UNCHANGED <<kbdQ, typed, ext, buf, head, tail, read, slot>>
    BY <1>2, <2>1 DEF PollRead, ReadPort, Data, KeyboardByte, ring
  <2>3. KeyBytes'
    BY <2>1, <2>2 DEF KeyBytes, KQ, KO
  <2>4. \A b : KD(b) => KD(b)'
    BY <2>1, <2>2 DEF KD, KO
  <2>5. Got' = Got /\ ~ Storing /\ ~ Storing'
    BY <2>1, <2>2, GotSame DEF Storing
  <2> QED BY <2>2, <2>3, <2>4, <2>5, KeysSame
<1>3. CASE PollDecode
  <2>1. /\ pc = "decode" /\ sc \in KeyByte /\ KO(sc) /\ ~ Storing
        /\ UNCHANGED <<kbdQ, typed, obf, buf, head, tail, read, sc>>
        /\ pc' \in {"store", "take"} /\ Got' = Got
    <3>1. UNCHANGED <<kbdQ, typed, obf, buf, head, tail, read, sc>>
      BY <1>3 DEF PollDecode, GoTo, controller
    <3> QED BY <1>3, <3>1, GotSame DEF PollDecode, Runs, GoTo, KeyBytes, Storing
  <2>2. KFollows(IF ext THEN Key(done + 1, "E0") ELSE Key(done, "plain"), sc)
    <3>1. KD(IF ext THEN Key(done + 1, "E0") ELSE Key(done, "plain"))
      BY Zenon DEF Keys
    <3> QED BY <2>1, <3>1, Zenon DEF KD
  <2>3. /\ sc.k = done + 1 /\ done + 1 \in 0 .. MaxKeys
        /\ Queues(sc) <=> sc.part # "E0"
        /\ Decode(sc).ext = (sc.part = "E0")
        /\ sc.part # "E0" => Decode(sc).char = [k |-> done + 1, right |-> TRUE]
    BY <2>1, <2>2, Decoding DEF TypeOK
  <2>4. ext' = (sc.part = "E0")
    BY <1>3, <2>3 DEF PollDecode
  <2>5. KeyBytes' /\ \A b : KD(b)' <=> KO(b)
    BY <2>1 DEF KeyBytes, KQ, KO, KD, KeyboardByte
  <2>6. /\ \A i \in 1 .. Len(Got) : Got[i].right /\ Got[i].k <= done
        /\ \A i, j \in 1 .. Len(Got) : i < j => Got[i].k < Got[j].k
        /\ Len(Got) >= BufSize - 1 \/ Len(Got) = done
    <3>1. (IF Storing THEN 1 ELSE 0) = 0 /\ Len(Got) \in Nat
      BY <2>1, GotType
    <3>2. Len(Got) + 0 = Len(Got)
      BY <3>1
    <3> QED BY <3>1, <3>2 DEF Keys
  <2>7. \A c : c.k = sc.k /\ (c.part = "E0" <=> sc.part = "E0") => KO(c)
    BY <2>1, NextAlike DEF KO, KQ, KFollows
  <2>8. CASE sc.part = "E0"
    <3>1. pc' = "take" /\ ext' = TRUE
      BY <1>3, <2>3, <2>4, <2>8 DEF PollDecode, GoTo
    <3>2. KO(Key(done + 1, "E0"))
      <4>1. PICK c : c = Key(done + 1, "E0")
        OBVIOUS
      <4>2. c.k = sc.k /\ c.part = "E0"
        BY <2>3, <4>1 DEF Key
      <4> QED BY <2>7, <2>8, <4>1, <4>2
    <3>3. KD(IF ext THEN Key(done + 1, "E0") ELSE Key(done, "plain"))'
      <4>1. PICK c : c = Key(done + 1, "E0")
        OBVIOUS
      <4>2. KD(c)'
        BY <2>5, <3>2, <4>1
      <4> QED BY <3>1, <4>1, <4>2 DEF KD, KO, KQ
    <3>4. ~ Storing'
      BY <3>1 DEF Storing
    <3>5. /\ \A i \in 1 .. Len(Got') : Got'[i].right /\ Got'[i].k <= done
          /\ \A i, j \in 1 .. Len(Got') : i < j => Got'[i].k < Got'[j].k
          /\ Len(Got') >= BufSize - 1 \/ Len(Got') + (IF Storing' THEN 1 ELSE 0) = done
      BY <2>1, <2>6, <3>4
    <3>6. Keys(done)'
      BY <3>3, <3>4, <3>5 DEF Keys
    <3> QED BY <2>5, <3>6
  <2>9. CASE sc.part # "E0"
    <3> DEFINE d == done + 1
    <3>1. d \in 0 .. MaxKeys /\ d \in Nat /\ ext' = FALSE /\ sc.k = d
      <4>1. d \in 0 .. MaxKeys /\ sc.k = d
        BY <2>3
      <4>2. ext' = FALSE
        BY <2>4, <2>9, Zenon
      <4> HIDE DEF d
      <4> QED BY <4>1, <4>2, ConstAssumption
    <3>2. /\ \A i \in 1 .. Len(Got) : Got[i].right /\ Got[i].k < d /\ Got[i].k <= d
          /\ \A i, j \in 1 .. Len(Got) : i < j => Got[i].k < Got[j].k
          /\ Len(Got) >= BufSize - 1 \/ Len(Got) + 1 = d
      BY <1>1, <2>6
    <3>3. IF ~ Full(head)
          THEN pc' = "store" /\ slot' = [at |-> head, char |-> [k |-> d, right |-> TRUE]]
          ELSE pc' = "take"
      BY <1>3, <2>3, <2>9 DEF PollDecode, GoTo
    <3> HIDE DEF d
    <3>4. KD(IF ext THEN Key(d + 1, "E0") ELSE Key(d, "plain"))'
      <4>1. PICK c : c = Key(d, "plain")
        OBVIOUS
      <4>2. c.k = sc.k /\ c.part # "E0"
        BY <3>1, <4>1 DEF Key
      <4>3. KO(c)
        BY <2>7, <2>9, <4>2
      <4>4. KD(c)'
        BY <2>5, <4>3
      <4> QED BY <3>1, <4>1, <4>4 DEF KD, KO, KQ
    <3>5. /\ \A i \in 1 .. Len(Got') : Got'[i].right /\ Got'[i].k <= d
          /\ \A i, j \in 1 .. Len(Got') : i < j => Got'[i].k < Got'[j].k
      BY <2>1, <3>2
    <3>6. CASE ~ Full(head)
      <4>1. /\ Storing' /\ pc' = "store"
            /\ slot'.at = head /\ slot'.char.right /\ slot'.char.k = d
        BY <3>3, <3>6 DEF Storing
      <4>2. Len(Got') >= BufSize - 1 \/ Len(Got') + (IF Storing' THEN 1 ELSE 0) = d
        BY <2>1, <3>2, <4>1
      <4>3. \A i \in 1 .. Len(Got') : Got'[i].k < d
        BY <2>1, <3>2
      <4>4. slot'.at = head' /\ Succ(head') # tail'
        BY <2>1, <3>6, <4>1 DEF Full
      <4>5. Keys(d)'
        BY <3>4, <3>5, <4>1, <4>2, <4>3, <4>4 DEF Keys, Full
      <4> QED BY <2>5, <3>1, <4>5
    <3>7. CASE Full(head)
      <4>1. ~ Storing' /\ Len(Got') >= BufSize - 1
        BY <2>1, <3>3, <3>7, GotFull DEF Storing
      <4>2. Keys(d)'
        BY <3>4, <3>5, <4>1 DEF Keys
      <4> QED BY <2>5, <3>1, <4>2
    <3> QED BY <3>6, <3>7
  <2> QED BY <2>8, <2>9
<1>4. CASE PollStore
  <2>1. /\ pc = "store" /\ pc' = "advance" /\ Storing /\ Storing'
        /\ UNCHANGED <<kbdQ, typed, obf, sc, head, tail, read, ext, slot>>
        /\ buf' = [buf EXCEPT ![head] = slot.char]
    BY <1>4 DEF PollStore, Runs, GoTo, controller, Storing
  <2>2. slot.char \in Char /\ head \in Index /\ buf \in [Index -> Char]
    BY DEF TypeOK
  <2>3. Got' = Got
    BY <2>1, <2>2, GotStore
  <2>4. KeyBytes' /\ \A b : KD(b) => KD(b)'
    BY <2>1, FlowSame DEF KeyboardByte
  <2>5. /\ slot.at = head /\ Succ(head) # tail /\ slot.char.right /\ slot.char.k = done
        /\ \A i \in 1 .. Len(Got) : Got[i].k < done
        /\ \A i \in 1 .. Len(Got) : Got[i].right /\ Got[i].k <= done
        /\ \A i, j \in 1 .. Len(Got) : i < j => Got[i].k < Got[j].k
        /\ Len(Got) >= BufSize - 1 \/ Len(Got) + (IF Storing THEN 1 ELSE 0) = done
    BY <2>1 DEF Keys, Full
  <2>6. buf'[head'] = slot'.char
    BY <2>1, <2>2
  <2>7. KD(IF ext THEN Key(done + 1, "E0") ELSE Key(done, "plain"))'
    <3>1. PICK b : b = IF ext THEN Key(done + 1, "E0") ELSE Key(done, "plain")
      OBVIOUS
    <3>2. KD(b)
      BY <3>1, Zenon DEF Keys
    <3>3. KD(b)'
      BY <2>4, <3>2
    <3> QED BY <2>1, <3>1, <3>3, Zenon DEF KD, KO, KQ
  <2>8. /\ \A i \in 1 .. Len(Got') : Got'[i].right /\ Got'[i].k <= done
        /\ \A i \in 1 .. Len(Got') : Got'[i].k < done
        /\ \A i, j \in 1 .. Len(Got') : i < j => Got'[i].k < Got'[j].k
        /\ Len(Got') >= BufSize - 1 \/ Len(Got') + (IF Storing' THEN 1 ELSE 0) = done
    BY <2>1, <2>3, <2>5
  <2>9. slot'.at = head' /\ Succ(head') # tail' /\ slot'.char.right /\ slot'.char.k = done
    BY <2>1, <2>5
  <2>10. Keys(done)'
    BY <2>6, <2>7, <2>8, <2>9 DEF Keys, Full
  <2> QED BY <2>4, <2>10
<1>5. CASE PollAdvance
  <2>1. /\ pc = "advance" /\ pc' = "take" /\ Storing /\ ~ Storing'
        /\ UNCHANGED <<kbdQ, typed, obf, sc, buf, tail, read, ext>> /\ head' = Succ(slot.at)
    BY <1>5 DEF PollAdvance, Runs, GoTo, controller, Storing
  <2>2. slot.char \in Char /\ head \in Index /\ buf \in [Index -> Char] /\ done \in Nat
    BY ConstAssumption DEF TypeOK
  <2>3. /\ slot.at = head /\ ~ Full(head) /\ slot.char.right /\ slot.char.k = done
        /\ buf[head] = slot.char
        /\ \A i \in 1 .. Len(Got) : Got[i].right /\ Got[i].k < done
        /\ \A i, j \in 1 .. Len(Got) : i < j => Got[i].k < Got[j].k
        /\ Len(Got) >= BufSize - 1 \/ Len(Got) + 1 = done
    BY <2>1 DEF Keys
  <2>4. buf' = [buf EXCEPT ![head] = slot.char]
    BY <2>1, <2>2, <2>3
  <2>5. head' = Succ(head)
    BY <2>1, <2>3
  <2>6. Got' = Append(Got, slot.char)
    BY <2>1, <2>2, <2>3, <2>4, <2>5, GotEnqueue
  <2>7. /\ \A i \in 1 .. Len(Got') : Got'[i].right /\ Got'[i].k <= done
        /\ \A i, j \in 1 .. Len(Got') : i < j => Got'[i].k < Got'[j].k
        /\ Len(Got') = Len(Got) + 1
    BY <2>2, <2>3, <2>6, CharAdded
  <2>8. Len(Got') >= BufSize - 1 \/ Len(Got') + (IF Storing' THEN 1 ELSE 0) = done
    <3> DEFINE n == Len(Got)
    <3>1. n \in Nat /\ Len(Got') = n + 1 /\ (n >= BufSize - 1 \/ n + 1 = done) /\ BufSize \in Nat
      BY <2>3, <2>7, GotType, RingFacts
    <3> HIDE DEF n
    <3>2. (n + 1 >= BufSize - 1 \/ n + 1 = done) /\ (n + 1) + 0 = n + 1
      BY <3>1
    <3> QED BY <2>1, <3>1, <3>2
  <2>9. KeyBytes' /\ \A b : KD(b) => KD(b)'
    BY <2>1, FlowSame DEF KeyboardByte
  <2>10. KD(IF ext THEN Key(done + 1, "E0") ELSE Key(done, "plain"))'
    <3>1. PICK b : b = IF ext THEN Key(done + 1, "E0") ELSE Key(done, "plain")
      OBVIOUS
    <3>2. KD(b)
      BY <3>1, Zenon DEF Keys
    <3>3. KD(b)'
      BY <2>9, <3>2
    <3> QED BY <2>1, <3>1, <3>3, Zenon DEF KD, KO, KQ
  <2>11. Keys(done)'
    BY <2>1, <2>7, <2>8, <2>10 DEF Keys
  <2> QED BY <2>9, <2>11
<1>6. QED BY <1>2, <1>3, <1>4, <1>5

(* The steps that move no key: the mouse, its handler, the timer, and      *)
(* kb_getc where it does not read the keyboard's byte.                     *)
LEMMA Aside ==
  ASSUME TypeOK, Move \/ Irq12 \/ Tick \/ Check \/ Status \/ Take \/ Nothing \/ Halt
  PROVE  /\ UNCHANGED <<kbdQ, typed, sc, ext>> /\ (KeyboardByte' <=> KeyboardByte)
         /\ KeyboardByte => obf' = obf
         /\ Got' = Got
         /\ pc' = "decode" <=> pc = "decode"
         /\ Storing' <=> Storing
         /\ Storing => UNCHANGED <<pc, slot, buf, head, tail>>
<1>1. /\ UNCHANGED <<kbdQ, typed, sc, ext>> /\ (KeyboardByte' <=> KeyboardByte)
      /\ KeyboardByte => obf' = obf
  <2>1. CASE Irq12Byte
    BY <2>1 DEF Irq12Byte, ReadPort, Ours, KeyboardByte, ring, main
  <2>2. CASE Move \/ Irq12Enter \/ Irq12Leave \/ Tick \/ Check \/ Status \/ Take \/ Nothing \/ Halt
    BY <2>2 DEF Move, Irq12Enter, Irq12Leave, Tick, Check, Status, Take, Nothing, Halt,
                GoTo, controller, ring, main, KeyboardByte
  <2> QED BY <2>1, <2>2 DEF Irq12
<1>2. Got' = Got
  <2>1. CASE Take
    BY <2>1, GotTake DEF Take
  <2>2. CASE Move \/ Irq12 \/ Tick \/ Check \/ Status \/ Nothing \/ Halt
    <3>1. UNCHANGED <<buf, head, tail, read>>
      BY <2>2 DEF Move, Irq12, Irq12Byte, Irq12Enter, Irq12Leave, Tick, Check, Status, Nothing,
                  Halt, GoTo, ring, main
    <3> QED BY <3>1, GotSame
  <2> QED BY <2>1, <2>2
<1>3. /\ pc' = "decode" <=> pc = "decode"
      /\ Storing' <=> Storing
      /\ Storing => UNCHANGED <<pc, slot, buf, head, tail>>
  <2>1. CASE Move \/ Irq12Enter \/ Irq12Byte
    <3>1. UNCHANGED <<pc, slot, buf, head, tail>>
      BY <2>1 DEF Move, Irq12Enter, Irq12Byte, ring, main
    <3> QED BY <3>1 DEF Storing
  <2>2. CASE Irq12Leave \/ Tick
    BY <2>2 DEF Irq12Leave, Tick, Wake, ring, Storing
  <2>3. CASE Check \/ Status \/ Take \/ Nothing \/ Halt
    BY <2>3 DEF Check, Status, Take, Nothing, Halt, Runs, GoTo, Storing
  <2> QED BY <2>1, <2>2, <2>3 DEF Irq12
<1>4. QED BY <1>1, <1>2, <1>3

LEMMA InOrderNext ==
  ASSUME TypeOK, machine # "late", Lines, InOrder, Next
  PROVE  InOrder'
<1>1. PICK done \in 0 .. MaxKeys : Keys(done)
  BY DEF InOrder
<1>2. KeyBytes
  BY DEF InOrder
<1>3. CASE Type \/ Fill
  <2>1. UNCHANGED <<ext, buf, head, tail, read, pc, slot>>
    BY <1>3 DEF Type, Fill, ring, main
  <2>2. Got' = Got /\ (Storing' <=> Storing)
    BY <2>1, GotSame DEF Storing
  <2>3. KeyBytes' /\ \A b : KD(b) => KD(b)'
    BY <1>2, <1>3, FlowDevices
  <2>4. Keys(done)'
    BY <1>1, <2>1, <2>2, <2>3, KeysSame
  <2> QED BY <2>3, <2>4 DEF InOrder
<1>4. CASE Irq1
  <2>1. KeyBytes' /\ \E d \in 0 .. MaxKeys : Keys(d)'
    BY <1>1, <1>2, <1>4, FlowIrq1
  <2> QED BY <2>1 DEF InOrder
<1>5. CASE PollRead \/ PollDecode \/ PollStore \/ PollAdvance
  <2>1. KeyBytes' /\ \E d \in 0 .. MaxKeys : Keys(d)'
    BY <1>1, <1>2, <1>5, FlowPoll
  <2> QED BY <2>1 DEF InOrder
<1>6. CASE Move \/ Irq12 \/ Tick \/ Check \/ Status \/ Take \/ Nothing \/ Halt
  <2>1. /\ UNCHANGED <<kbdQ, typed, sc, ext>> /\ (KeyboardByte' <=> KeyboardByte)
        /\ KeyboardByte => obf' = obf
        /\ Got' = Got
        /\ pc' = "decode" <=> pc = "decode"
        /\ Storing' <=> Storing
        /\ Storing => UNCHANGED <<pc, slot, buf, head, tail>>
    BY <1>6, Aside
  <2>4. KeyBytes' /\ \A b : KD(b) => KD(b)'
    BY <1>2, <2>1, FlowSame
  <2>5. Keys(done)'
    BY <1>1, <2>1, <2>4, KeysSame
  <2> QED BY <2>4, <2>5 DEF InOrder
<1>7. QED BY <1>3, <1>4, <1>5, <1>6 DEF Next, Main

-----------------------------------------------------------------------------
LEMMA PsInit == Init /\ machine # "late" => PsInv
<1> SUFFICES ASSUME Init, machine # "late" PROVE PsInv
  OBVIOUS
<1>1. TypeOK
  BY TypeInit
<1>2. Len(<< >>) = 0
  BY EmptySeq
<1>3. Lines /\ PacketsWhole
  BY <1>2 DEF Init, Lines, PacketsWhole, KeyboardByte
<1>4. MouseBytes
  BY <1>2 DEF Init, MouseBytes, MChain, MNext, MO, Ours
<1>5. KeyBytes
  BY <1>2 DEF Init, KeyBytes, KChain, KeyboardByte
<1>6. Got = << >>
  <2>1. Dist(0, 0) = 0 /\ (0 - 0) % BufSize = Dist(0, 0)
    BY RingPlaces, RingFacts DEF Dist
  <2>2. Len(Waiting) = 0 /\ Waiting \in Seq(Char)
    <3>1. head = 0 /\ tail = 0 /\ buf \in [Index -> Char] /\ 0 \in Index
      BY <1>1, RingFacts DEF Init, TypeOK
    <3>2. Wait(buf, head, tail) \in Seq(Char) /\ Len(Wait(buf, head, tail)) = Dist(head, tail)
      BY <3>1, WaitFacts
    <3> QED BY <1>1, <2>1, <3>1, <3>2, GotType
  <2>3. Waiting = << >> /\ read = << >>
    BY <2>2, EmptySeq DEF Init
  <2> QED BY <2>3 DEF Got
<1>7. Keys(0)
  <2>1. KD(Key(0, "plain"))
    BY DEF Init, KD, KO, KQ, KNext, KeyboardByte, Key
  <2>2. ext = FALSE /\ pc = "check"
    BY DEF Init
  <2>3. KD(IF ext THEN Key(0 + 1, "E0") ELSE Key(0, "plain"))
    BY <2>1, <2>2, Zenon
  <2>4. ~ Storing
    BY <2>2 DEF Storing
  <2>5. /\ \A i \in 1 .. Len(Got) : Got[i].right /\ Got[i].k <= 0
        /\ \A i, j \in 1 .. Len(Got) : i < j => Got[i].k < Got[j].k
        /\ Len(Got) >= BufSize - 1 \/ Len(Got) + (IF Storing THEN 1 ELSE 0) = 0
    BY <1>2, <1>6, <2>4
  <2> QED BY <2>3, <2>4, <2>5 DEF Keys
<1>8. 0 \in 0 .. MaxKeys
  BY ConstAssumption
<1>9. QED BY <1>1, <1>3, <1>4, <1>5, <1>7, <1>8 DEF PsInv, InOrder

LEMMA PsStutter == PsInv /\ UNCHANGED vars => PsInv' /\ Got' = Got
<1> SUFFICES ASSUME PsInv, UNCHANGED vars PROVE PsInv' /\ Got' = Got
  OBVIOUS
<1>1. /\ UNCHANGED <<machine, kbdQ, mouseQ, typed, moved, obf, last, irq, in12>>
      /\ UNCHANGED <<buf, head, tail, ext, pkt, packets, pc, sc, slot, read>>
  BY DEF vars, controller, ring, mouse, main
<1>2. TypeOK'
  BY TypeNext DEF PsInv
<1>3. Lines' /\ machine' # "late"
  BY <1>1 DEF PsInv, Lines, KeyboardByte
<1>4. MouseBytes' /\ PacketsWhole'
  BY <1>1, MouseSame DEF PsInv, Ours, mouse
<1>5. Got' = Got
  BY <1>1, GotSame
<1>6. KeyBytes' /\ \A b : KD(b) => KD(b)'
  BY <1>1, FlowSame DEF PsInv, InOrder, KeyboardByte
<1>7. \A done \in 0 .. MaxKeys : Keys(done) => Keys(done)'
  <2> TAKE done \in 0 .. MaxKeys
  <2> HAVE Keys(done)
  <2> QED BY <1>1, <1>5, <1>6, KeysSame DEF Storing
<1>8. QED BY <1>2, <1>3, <1>4, <1>5, <1>6, <1>7 DEF PsInv, InOrder

LEMMA PsNext == PsInv /\ [Next]_vars => PsInv'
<1> SUFFICES ASSUME PsInv, [Next]_vars PROVE PsInv'
  OBVIOUS
<1>1. CASE UNCHANGED vars
  BY <1>1, PsStutter
<1>2. CASE Next
  <2>1. TypeOK'
    BY TypeNext DEF PsInv
  <2>2. Lines' /\ machine' = machine
    BY <1>2, LinesNext DEF PsInv
  <2>3. MouseBytes' /\ PacketsWhole'
    BY <1>2, MouseNext DEF PsInv
  <2>4. InOrder'
    BY <1>2, InOrderNext DEF PsInv
  <2> QED BY <2>1, <2>2, <2>3, <2>4 DEF PsInv
<1>3. QED BY <1>1, <1>2

(* Where an interrupt is taken before kb_getc goes on, or IRQ1 never comes  *)
(* and the poll does all the work: every byte on its way from a device      *)
(* follows the one before it, whatever part of it on_irq1, on_irq12 or      *)
(* kb_trygetc has already taken.                                            *)
THEOREM PsInvariant == Spec /\ machine # "late" => []PsInv
BY PsInit, PsNext, PTL DEF Spec

(* Whatever the order in which keys are typed, interrupts are taken and    *)
(* kb_getc polls and reads: the characters it returns and the ring holds   *)
(* are keys that were typed, each decoded by on_irq1 as what it is, once,  *)
(* in the order they were typed.                                           *)
THEOREM Ps2KeysInOrder == Spec /\ machine # "late" => []KeysInOrder
<1>1. PsInv => KeysInOrder
  BY DEF PsInv, InOrder, Keys, KeysInOrder
<1>2. QED BY <1>1, PsInvariant, PTL

(* What is waiting and what was read only grows at its end. *)
LEMMA RingGrows ==
  ASSUME PsInv, [Next]_vars
  PROVE  IsPrefix(Got, Got')
<1>1. TypeOK /\ Got \in Seq(Char) /\ Len(Got) \in Nat
  BY GotType DEF PsInv
<1>2. Got' = Got => IsPrefix(Got, Got')
  <2> DEFINE n == Len(Got)
  <2>1. n \in Nat
    BY <1>1
  <2> HIDE DEF n
  <2>2. n <= n
    BY <2>1
  <2> QED BY <2>2 DEF IsPrefix, n
<1>3. \A x \in Char : Got' = Append(Got, x) => IsPrefix(Got, Got')
  <2> TAKE x \in Char
  <2> HAVE Got' = Append(Got, x)
  <2> DEFINE n == Len(Got)
             g == Append(Got, x)
  <2>1. n \in Nat /\ Len(g) = n + 1 /\ \A i \in 1 .. n : g[i] = Got[i]
    BY <1>1, AppendFacts
  <2> HIDE DEF n, g
  <2>2. n <= Len(g)
    BY <2>1
  <2>3. Got' = g
    BY DEF g
  <2> QED BY <2>1, <2>2, <2>3 DEF IsPrefix, n
<1>4. CASE UNCHANGED vars
  BY <1>2, <1>4, PsStutter
<1>5. CASE Irq1
  <2>1. CASE Queues(Data) /\ ~ Full(head)
    <3>1. Data \in Byte
      BY <1>1, <1>5, TypeReadPort DEF Irq1
    <3>2. Decode(Data).char \in Char
      BY <3>1, CharFacts
    <3>3. /\ buf' = [buf EXCEPT ![head] = Decode(Data).char] /\ head' = Succ(head)
          /\ UNCHANGED <<tail, read>>
      BY <1>5, <2>1 DEF Irq1
    <3>4. Got' = Append(Got, Decode(Data).char)
      BY <1>1, <2>1, <3>2, <3>3, GotEnqueue
    <3> QED BY <1>3, <3>2, <3>4
  <2>2. CASE ~ (Queues(Data) /\ ~ Full(head))
    <3>1. UNCHANGED <<buf, head, tail, read>>
      BY <1>5, <2>2 DEF Irq1
    <3> QED BY <1>2, <3>1, GotSame
  <2> QED BY <2>1, <2>2
<1>6. CASE PollStore
  <2>1. buf' = [buf EXCEPT ![head] = slot.char] /\ UNCHANGED <<head, tail, read>>
    BY <1>6 DEF PollStore, GoTo
  <2>2. slot.char \in Char
    BY <1>1 DEF TypeOK
  <2> QED BY <1>1, <1>2, <2>1, <2>2, GotStore
<1>7. CASE PollAdvance
  <2>1. pc = "advance" /\ Storing /\ UNCHANGED <<buf, tail, read>> /\ head' = Succ(slot.at)
    BY <1>7 DEF PollAdvance, Runs, GoTo, Storing
  <2>2. slot.at = head /\ ~ Full(head) /\ buf[head] = slot.char
    BY <2>1 DEF PsInv, InOrder, Keys
  <2>3. slot.char \in Char /\ head \in Index /\ buf \in [Index -> Char]
    BY <1>1 DEF TypeOK
  <2>4. buf' = [buf EXCEPT ![head] = slot.char] /\ head' = Succ(head)
    BY <2>1, <2>2, <2>3
  <2>5. Got' = Append(Got, slot.char)
    BY <1>1, <2>1, <2>2, <2>3, <2>4, GotEnqueue
  <2> QED BY <1>3, <2>3, <2>5
<1>8. CASE Take
  BY <1>1, <1>2, <1>8, GotTake DEF Take
<1>9. CASE Type \/ Move \/ Fill \/ Irq12 \/ Tick \/ Check \/ Status \/ PollRead \/ PollDecode
           \/ Nothing \/ Halt
  <2>1. UNCHANGED <<buf, head, tail, read>>
    BY <1>9 DEF Type, Move, Fill, Irq12, Irq12Byte, Irq12Enter, Irq12Leave, Tick, Check, Status,
                PollRead, PollDecode, Nothing, Halt, GoTo, ring, main
  <2> QED BY <1>2, <2>1, GotSame
<1> QED BY <1>4, <1>5, <1>6, <1>7, <1>8, <1>9 DEF Next, Main

(* A key that was typed is where it was, or in the next place, unless the  *)
(* step finds the ring full.                                               *)
LEMMA KeyStays ==
  ASSUME PsInv, Next, NEW k \in 1 .. MaxKeys, Kept(k)
  PROVE  Kept(k)' \/ RingFull
<1> DEFINE InQ == \E i \in 1 .. Len(kbdQ) : kbdQ[i].k = k
           InGot == \E i \in 1 .. Len(Got) : Got[i].k = k
           AtPort == KeyboardByte /\ obf.k = k
           Read == pc = "decode" /\ sc.k = k
           Stored == Storing /\ slot.char.k = k
<1>1. (InQ \/ AtPort \/ Read \/ Stored \/ InGot) /\ (InQ' \/ AtPort' \/ Read' \/ Stored' \/ InGot' => Kept(k)')
  BY DEF Kept, Storing
<1>2. InGot => InGot'
  <2> SUFFICES ASSUME NEW i \in 1 .. Len(Got), Got[i].k = k PROVE InGot'
    OBVIOUS
  <2>1. IsPrefix(Got, Got')
    BY RingGrows
  <2>2. Len(Got) \in Nat /\ Len(Got') \in Nat
    BY GotType, TypeNext DEF PsInv
  <2>3. i \in 1 .. Len(Got') /\ Got'[i] = Got[i]
    <3> DEFINE n == Len(Got)
               m == Len(Got')
    <3>1. n \in Nat /\ m \in Nat /\ n <= m /\ i \in 1 .. n
      BY <2>1, <2>2 DEF IsPrefix
    <3> HIDE DEF n, m
    <3>2. i \in 1 .. m
      BY <3>1
    <3> QED BY <2>1, <3>2 DEF m, IsPrefix
  <2> QED BY <2>3
<1>3. TypeOK /\ machine # "late" /\ Lines /\ KeyBytes
  BY DEF PsInv, InOrder
<1>4. kbdQ \in Seq(KeyByte)
  BY <1>3 DEF TypeOK
<1>5. ASSUME NEW b, b.part = "E0", b.k = k, KQ(b)
      PROVE  InQ
  <2>1. kbdQ # << >> /\ kbdQ[1].k = k
    BY <1>5 DEF KQ, KNext, KFollows
  <2>2. Len(kbdQ) \in Nat /\ Len(kbdQ) >= 1
    BY <1>4, <2>1, QueueFacts
  <2> DEFINE n == Len(kbdQ)
  <2>3. 1 \in 1 .. n
    BY <2>2
  <2> QED BY <2>1, <2>3
<1>6. ASSUME NEW x \in Char, x.k = k, Got' = Append(Got, x)
      PROVE  InGot'
  <2> DEFINE n == Len(Got)
             g == Append(Got, x)
  <2>1. n \in Nat /\ Len(g) = n + 1 /\ g[n + 1] = x
    BY <1>3, GotType, AppendFacts
  <2>2. Got' = g
    BY <1>6
  <2> HIDE DEF n, g
  <2>3. n + 1 \in 1 .. Len(g)
    BY <2>1
  <2> QED BY <1>6, <2>1, <2>2, <2>3
<1>7. Full(head) => RingFull
  BY <1>3, GotFull DEF RingFull
<1> DEFINE In(q) == \E i \in 1 .. Len(q) : q[i].k = k
<1>8. (InQ <=> In(kbdQ)) /\ (InQ' <=> In(kbdQ'))
  OBVIOUS
<1> HIDE DEF InQ
<1>9. CASE Type
  <2>1. UNCHANGED <<obf, pc, sc, slot>>
    BY <1>9 DEF Type, main
  <2>2. InQ => InQ'
    <3>1. \A q \in Seq(KeyByte), x \in KeyByte : In(q) => In(Append(q, x))
      <4> TAKE q \in Seq(KeyByte), x \in KeyByte
      <4> DEFINE n == Len(q)
                 r == Append(q, x)
      <4>1. n \in Nat /\ Len(r) = n + 1 /\ \A i \in 1 .. n : r[i] = q[i]
        BY AppendFacts
      <4> HIDE DEF n, r
      <4>2. \A i \in 1 .. n : i \in 1 .. Len(r) /\ r[i] = q[i]
        BY <4>1
      <4> QED BY <4>2 DEF n, r
    <3>2. typed' \in 1 .. MaxKeys
      BY <1>3, <1>9, ConstAssumption DEF Type, TypeOK
    <3>3. PICK x, y, z : x = Key(typed', "plain") /\ y = Key(typed', "E0") /\ z = Key(typed', "second")
      OBVIOUS
    <3>4. x \in KeyByte /\ y \in KeyByte /\ z \in KeyByte
      BY <3>2, <3>3, ByteFacts DEF Key
    <3>5. kbdQ' = Append(kbdQ, x) \/ kbdQ' = kbdQ \o <<y, z>>
      BY <1>9, <3>3, Zenon DEF Type
    <3>6. kbdQ \o <<y, z>> = Append(Append(kbdQ, y), z) /\ Append(kbdQ, y) \in Seq(KeyByte)
      BY <1>4, <3>4
    <3> HIDE DEF In
    <3>7. In(kbdQ) => In(Append(kbdQ, x)) /\ In(Append(Append(kbdQ, y), z))
      BY <1>4, <3>1, <3>4, <3>6
    <3> QED BY <1>8, <3>5, <3>6, <3>7
  <2> QED BY <1>1, <1>2, <2>1, <2>2 DEF KeyboardByte, Storing
<1>10. CASE Fill
  <2>1. ~ KeyboardByte /\ UNCHANGED <<pc, sc, slot>>
    BY <1>10 DEF Fill, KeyboardByte, main
  <2>2. InQ => InQ' \/ AtPort'
    <3>1. CASE kbdQ # << >> /\ obf' = Head(kbdQ) /\ kbdQ' = Tail(kbdQ)
      <4> SUFFICES ASSUME NEW i \in 1 .. Len(kbdQ), kbdQ[i].k = k PROVE In(kbdQ') \/ AtPort'
        BY <1>8
      <4> DEFINE n == Len(kbdQ)
                 r == Tail(kbdQ)
      <4>1. /\ n \in Nat /\ obf' = kbdQ[1] /\ obf' \in KeyByte /\ Len(r) = n - 1
            /\ \A j \in 1 .. n - 1 : r[j] = kbdQ[j + 1]
        BY <1>4, <3>1, QueueFacts
      <4>2. KeyboardByte'
        BY <4>1, ByteFacts DEF KeyboardByte
      <4> HIDE DEF r
      <4>3. CASE i = 1
        BY <4>1, <4>2, <4>3
      <4>4. CASE i # 1
        <5>1. i \in 1 .. n
          OBVIOUS
        <5> HIDE DEF n
        <5>2. i - 1 \in 1 .. n - 1 /\ (i - 1) + 1 = i
          BY <4>1, <4>4, <5>1
        <5>3. r[i - 1] = kbdQ[i] /\ i - 1 \in 1 .. Len(r)
          BY <4>1, <5>2
        <5> QED BY <3>1, <5>3 DEF r
      <4> QED BY <4>3, <4>4
    <3>2. CASE kbdQ' = kbdQ
      BY <1>8, <3>2
    <3> QED BY <1>10, <3>1, <3>2 DEF Fill
  <2> QED BY <1>1, <1>2, <2>1, <2>2 DEF Storing
<1>11. CASE Move \/ Irq12 \/ Tick \/ Check \/ Status \/ Take \/ Nothing \/ Halt
  <2>1. /\ UNCHANGED <<kbdQ, sc>> /\ (KeyboardByte' <=> KeyboardByte)
        /\ KeyboardByte => obf' = obf
        /\ pc' = "decode" <=> pc = "decode"
        /\ Storing' <=> Storing
        /\ Storing => slot' = slot
    BY <1>3, <1>11, Aside
  <2> QED BY <1>1, <1>2, <1>8, <2>1
<1>12. CASE Irq1
  <2>1. /\ KeyboardByte /\ pc # "decode" /\ ~ Storing /\ obf \in KeyByte
    <3>1. machine \in {"prompt", "polled"}
      BY <1>3, ConstAssumption DEF TypeOK
    <3> QED BY <1>3, <1>12, <3>1, ByteFacts DEF Irq1, Lines, Storing, KeyboardByte, TypeOK
  <2>2. Data = obf /\ kbdQ' = kbdQ /\ UNCHANGED <<tail, read>> /\ KQ(obf)
    BY <1>3, <1>12, <2>1 DEF Irq1, ReadPort, Data, KeyboardByte, KeyBytes
  <2>3. CASE AtPort /\ obf.part = "E0"
    <3>1. InQ
      BY <1>5, <2>2, <2>3
    <3> QED BY <1>1, <1>8, <2>2, <3>1
  <2>4. CASE AtPort /\ obf.part # "E0"
    <3>1. Queues(obf) /\ Decode(obf).char \in Char /\ Decode(obf).char.k = k
      BY <1>3, <2>1, <2>4, ByteFacts, CharFacts DEF Queues, Decode, Byte
    <3>2. CASE ~ Full(head)
      <4>1. buf' = [buf EXCEPT ![head] = Decode(obf).char] /\ head' = Succ(head)
        BY <1>12, <2>2, <3>1, <3>2 DEF Irq1
      <4>2. Got' = Append(Got, Decode(obf).char)
        BY <1>3, <2>2, <3>1, <3>2, <4>1, GotEnqueue
      <4> QED BY <1>1, <1>6, <3>1, <4>2
    <3> QED BY <1>7, <3>2
  <2> QED BY <1>1, <1>2, <1>8, <2>1, <2>2, <2>3, <2>4
<1>13. CASE PollRead
  <2>1. /\ KeyboardByte /\ pc' = "decode" /\ pc # "decode" /\ ~ Storing /\ sc' = obf /\ kbdQ' = kbdQ
    <3>1. machine \in {"prompt", "polled"}
      BY <1>3, ConstAssumption DEF TypeOK
    <3>2. KeyboardByte
      BY <1>3, <1>13, <3>1 DEF PollRead, Runs, Lines
    <3> QED BY <1>13, <3>2 DEF PollRead, Runs, ReadPort, Data, KeyboardByte, Storing
  <2> QED BY <1>1, <1>2, <1>8, <2>1
<1>14. CASE PollDecode
  <2>1. /\ pc = "decode" /\ sc \in KeyByte /\ KO(sc) /\ ~ Storing
        /\ UNCHANGED <<kbdQ, obf, sc>> /\ (KeyboardByte' <=> KeyboardByte)
    BY <1>3, <1>14 DEF PollDecode, Runs, GoTo, controller, KeyBytes, Storing, KeyboardByte
  <2>2. CASE Read /\ sc.part = "E0"
    <3>1. InQ \/ AtPort
      BY <1>5, <2>1, <2>2 DEF KO, KFollows
    <3> QED BY <1>1, <1>8, <2>1, <3>1
  <2>3. CASE Read /\ sc.part # "E0"
    <3>1. Queues(sc) /\ Decode(sc).char.k = k
      BY <2>1, <2>3, ByteFacts DEF Queues, Decode
    <3>2. CASE ~ Full(head)
      <4>1. pc' = "store" /\ slot'.char = Decode(sc).char
        BY <1>14, <3>1, <3>2 DEF PollDecode, GoTo
      <4> QED BY <1>1, <3>1, <4>1 DEF Storing
    <3> QED BY <1>7, <3>2
  <2> QED BY <1>1, <1>2, <1>8, <2>1, <2>2, <2>3
<1>15. CASE PollStore
  <2>1. /\ UNCHANGED <<kbdQ, obf, sc, slot>> /\ pc = "store" /\ pc' = "advance"
    BY <1>15 DEF PollStore, Runs, GoTo, controller
  <2> QED BY <1>1, <1>2, <1>8, <2>1 DEF KeyboardByte, Storing
<1>16. CASE PollAdvance
  <2>1. /\ pc = "advance" /\ Storing /\ UNCHANGED <<kbdQ, obf, sc, buf, tail, read>> /\ head' = Succ(slot.at)
    BY <1>16 DEF PollAdvance, Runs, GoTo, controller, Storing
  <2>2. slot.at = head /\ ~ Full(head) /\ buf[head] = slot.char
    BY <2>1 DEF PsInv, InOrder, Keys
  <2>3. slot.char \in Char /\ head \in Index /\ buf \in [Index -> Char]
    BY <1>3 DEF TypeOK
  <2>4. buf' = [buf EXCEPT ![head] = slot.char] /\ head' = Succ(head)
    BY <2>1, <2>2, <2>3
  <2>5. Got' = Append(Got, slot.char)
    BY <1>3, <2>1, <2>2, <2>3, <2>4, GotEnqueue
  <2>6. slot.char.k = k => InGot'
    BY <1>6, <2>3, <2>5
  <2>7. (KeyboardByte' <=> KeyboardByte) /\ pc # "decode"
    BY <2>1 DEF KeyboardByte
  <2> QED BY <1>1, <1>2, <1>8, <2>1, <2>6, <2>7
<1>17. QED BY <1>9, <1>10, <1>11, <1>12, <1>13, <1>14, <1>15, <1>16 DEF Next, Main

(* enqueue loses a key only to a full ring: a key on its way from the      *)
(* keyboard to the caller of kb_getc is dropped by no step of on_irq1,     *)
(* kb_trygetc or the devices that does not find BufSize - 1 characters     *)
(* waiting, however often the ring was full before.                        *)
THEOREM Ps2NoKeyLost == Spec /\ machine # "late" => NoKeyLost
<1>1. ASSUME PsInv, [Next]_vars, NEW k \in 1 .. MaxKeys, Kept(k)
      PROVE  Kept(k)' \/ RingFull \/ UNCHANGED vars
  BY <1>1, KeyStays
<1>2. PsInv /\ [Next]_vars => (\A k \in 1 .. MaxKeys : Kept(k) => Kept(k)' \/ RingFull) \/ UNCHANGED vars
  BY <1>1
<1>3. QED BY <1>2, PsInvariant, PTL DEF NoKeyLost, Spec

(* Once the keyboard has nothing more to give.                             *)
Quiet == kbdQ = << >> /\ (obf = NoByte \/ obf.src = "mouse") /\ pc \in {"check", "status", "gohlt", "hlt"}
FirstKeys == Quiet => (Len(Got) >= typed \/ Len(Got) >= BufSize - 1)

(* enqueue and kb_getc: when nothing is on its way from the keyboard any   *)
(* more, every key typed is in the ring or was read, or at least as many   *)
(* as the ring holds.                                                      *)
THEOREM Ps2FirstKeys == Spec /\ machine # "late" => []FirstKeys
<1>1. PsInv => FirstKeys
  <2> SUFFICES ASSUME PsInv, Quiet PROVE Len(Got) >= typed \/ Len(Got) >= BufSize - 1
    BY DEF FirstKeys
  <2>1. PICK done \in 0 .. MaxKeys : Keys(done)
    BY DEF PsInv, InOrder
  <2>2. kbdQ = << >> /\ ~ KeyboardByte /\ pc # "decode" /\ ~ Storing
    BY DEF Quiet, KeyboardByte, Storing
  <2>3. KNext(kbdQ, typed, IF ext THEN Key(done + 1, "E0") ELSE Key(done, "plain"))
    <3>1. KD(IF ext THEN Key(done + 1, "E0") ELSE Key(done, "plain"))
      BY <2>1, Zenon DEF Keys
    <3> QED BY <2>2, <3>1, Zenon DEF KD, KO, KQ
  <2>4. done = typed
    <3>1. CASE ext
      BY <2>2, <2>3, <3>1 DEF KNext, Key
    <3>2. CASE ~ ext
      BY <2>2, <2>3, <3>2 DEF KNext, Key
    <3> QED BY <3>1, <3>2
  <2>5. Len(Got) >= BufSize - 1 \/ Len(Got) = done
    <3>1. Len(Got) \in Nat /\ (IF Storing THEN 1 ELSE 0) = 0
      BY <2>2, GotType DEF PsInv
    <3>2. Len(Got) + 0 = Len(Got)
      BY <3>1
    <3> QED BY <2>1, <3>1, <3>2 DEF Keys
  <2> QED BY <2>4, <2>5
<1>2. QED BY <1>1, PsInvariant, PTL

(* The three bytes on_irq12 puts together to a packet were sent as one:    *)
(* neither on_irq1 nor the polling of kb_getc takes a byte of the mouse.   *)
THEOREM Ps2PacketsWhole == Spec /\ machine # "late" => []PacketsWhole
<1>1. PsInv => PacketsWhole
  BY DEF PsInv
<1>2. QED BY <1>1, PsInvariant, PTL

(* enqueue and kb_trygetc: what is waiting and what was read only grows at *)
(* its end, so no step, interrupted anywhere, overwrites, skips or forgets *)
(* a character that is already in the ring.                                *)
THEOREM Ps2NothingOverwritten == Spec /\ machine # "late" => NothingOverwritten
<1>1. PsInv /\ [Next]_vars => IsPrefix(Got, Got')
  BY RingGrows
<1>2. QED BY <1>1, PsInvariant, PTL DEF NothingOverwritten, Spec

=============================================================================
