----------------------------- MODULE CardsProofs -----------------------------
(* The rings of the E1000 and of the NE2000 implement FrameQueue, whatever   *)
(* their sizes and the numbers of frames: however slow the card or the       *)
(* driver, frames are received whole, once and in order, and sent so until a *)
(* driver's wait runs out on a frame the card is still at.                   *)
EXTENDS Cards, SequenceTheorems, WellFoundedInduction, TLAPS

-----------------------------------------------------------------------------
(* Induction over the numbers, from least elements. *)

LEMMA LeastElement ==
  ASSUME NEW S \in SUBSET Nat, S # {}
  PROVE  \E n \in S : \A m \in S : n <= m
<1> DEFINE R == OpToRel(<, Nat)
<1>1. IsWellFoundedOn(R, Nat)
  BY NatLessThanWellFounded
<1>2. \A a, b \in Nat : a < b => <<a, b>> \in R
  BY Zenon DEF OpToRel
<1> HIDE DEF R
<1>3. PICK n \in S : \A m \in S : <<m, n>> \notin R
  BY <1>1, WFMin
<1>4. \A m \in S : ~ (m < n)
  BY <1>2, <1>3
<1>5. QED BY <1>4, SMT

LEMMA Induction ==
  ASSUME NEW S \in SUBSET Nat, 0 \in S, \A n \in S : n + 1 \in S
  PROVE  \A n \in Nat : n \in S
<1> SUFFICES ASSUME Nat \ S # {} PROVE FALSE
  OBVIOUS
<1>1. PICK n \in Nat \ S : \A m \in Nat \ S : n <= m
  <2>1. Nat \ S \in SUBSET Nat
    OBVIOUS
  <2> QED BY <2>1, LeastElement
<1>2. n # 0 /\ n - 1 \in Nat
  OBVIOUS
<1>3. n - 1 \in S
  BY <1>1, <1>2
<1>4. (n - 1) + 1 = n
  OBVIOUS
<1>5. QED BY <1>1, <1>3, <1>4

(* A function that is defined by recursion on a number exists, and stays in a *)
(* set that its steps do not leave.                                           *)
Iterates(g, a, N, F) == g[0] = a /\ \A k \in 1 .. N : g[k] = F[k][g[k - 1]]

LEMMA RecursionExists ==
  ASSUME NEW S, NEW a, a \in S, NEW N, N \in Nat, NEW F, F \in [1 .. N -> [S -> S]]
  PROVE  \E g : g \in [0 .. N -> S] /\ Iterates(g, a, N, F)
<1> DEFINE Upto(n) == \E g \in [0 .. n -> S] : g[0] = a /\ \A k \in 1 .. n : g[k] = F[k][g[k - 1]]
           T == {n \in Nat : n <= N => Upto(n)}
<1>1. 0 \in T
  <2> DEFINE g == [i \in 0 .. 0 |-> a]
  <2>1. g \in [0 .. 0 -> S] /\ g[0] = a /\ 1 .. 0 = {}
    OBVIOUS
  <2> HIDE DEF g
  <2>2. Upto(0)
    BY <2>1, Zenon
  <2> QED BY <2>2
<1>2. ASSUME NEW n \in T
      PROVE  n + 1 \in T
  <2> SUFFICES ASSUME n + 1 <= N PROVE Upto(n + 1)
    OBVIOUS
  <2>1. n \in Nat /\ n <= N /\ n + 1 \in 1 .. N
    <3> HIDE DEF Upto
    <3> QED OBVIOUS
  <2>2. PICK g \in [0 .. n -> S] : g[0] = a /\ \A k \in 1 .. n : g[k] = F[k][g[k - 1]]
    <3>1. n <= N => Upto(n)
      <4> HIDE DEF Upto
      <4> QED OBVIOUS
    <3> QED BY <2>1, <3>1, Zenon
  <2> DEFINE h == [i \in 0 .. n + 1 |-> IF i = n + 1 THEN F[n + 1][g[n]] ELSE g[i]]
  <2>3. F[n + 1] \in [S -> S] /\ g[n] \in S
    BY <2>1, <2>2
  <2>4. h \in [0 .. n + 1 -> S]
    <3>1. ASSUME NEW i \in 0 .. n + 1
          PROVE  (IF i = n + 1 THEN F[n + 1][g[n]] ELSE g[i]) \in S
      BY <2>1, <2>2, <2>3
    <3> QED BY <3>1
  <2>5. h[0] = a
    BY <2>1, <2>2
  <2>6. ASSUME NEW k \in 1 .. n + 1
        PROVE  h[k] = F[k][h[k - 1]]
    <3>1. CASE k = n + 1
      <4>1. h[k] = F[n + 1][g[n]] /\ h[k - 1] = g[n]
        BY <2>1, <3>1
      <4> QED BY <3>1, <4>1
    <3>2. CASE k # n + 1
      <4>1. k \in 1 .. n /\ k - 1 \in 0 .. n /\ k - 1 # n + 1
        BY <2>1, <3>2
      <4>2. h[k] = g[k] /\ h[k - 1] = g[k - 1]
        BY <2>1, <3>2, <4>1
      <4> QED BY <2>2, <4>1, <4>2
    <3> QED BY <3>1, <3>2
  <2> QED BY <2>4, <2>5, <2>6
<1> HIDE DEF Upto
<1>3. T \in SUBSET Nat
  OBVIOUS
<1> HIDE DEF T
<1>4. N \in T
  BY <1>1, <1>2, <1>3, Induction
<1>5. Upto(N)
  BY <1>4 DEF T
<1>6. QED BY <1>5 DEF Upto, Iterates

LEMMA RecursionStays ==
  ASSUME NEW S, NEW N \in Nat, NEW f, f[0] \in S,
         \A k \in 1 .. N : f[k - 1] \in S => f[k] \in S
  PROVE  f[N] \in S
<1> DEFINE T == {n \in Nat : n <= N => f[n] \in S}
<1>1. 0 \in T
  OBVIOUS
<1>2. ASSUME NEW n \in T
      PROVE  n + 1 \in T
  <2> SUFFICES ASSUME n + 1 <= N PROVE f[n + 1] \in S
    OBVIOUS
  <2>1. n + 1 \in 1 .. N /\ (n + 1) - 1 = n /\ f[n] \in S
    OBVIOUS
  <2> QED BY <2>1
<1>3. T \in SUBSET Nat
  OBVIOUS
<1> HIDE DEF T
<1>4. N \in T
  BY <1>1, <1>2, <1>3, Induction
<1>5. QED BY <1>4 DEF T

-----------------------------------------------------------------------------
(* The E1000. A ring of N descriptors is read from a start a on for n of     *)
(* them; the first lemmas turn the arithmetic modulo N into comparisons and  *)
(* relate the moves of the pointers to the ends of the queue.                *)

Size(N) == N \in Nat \ {0}

LEMMA Around ==
  ASSUME NEW N, Size(N), NEW a \in 0 .. N - 1
  PROVE  /\ a \in Nat /\ N \in Nat /\ N > 0
         /\ (a + 1) % N = IF a = N - 1 THEN 0 ELSE a + 1
         /\ \A j \in 0 .. N - 1 : (a + j) % N = IF a + j < N THEN a + j ELSE a + j - N
         /\ \A b \in 0 .. N - 1 : (b - a) % N = IF a <= b THEN b - a ELSE b - a + N
<1>1. N \in Nat /\ N > 0 /\ a \in Nat /\ a < N
  BY DEF Size
<1>2. (a + 1) % N = IF a = N - 1 THEN 0 ELSE a + 1
  BY <1>1
<1>3. ASSUME NEW j \in 0 .. N - 1
      PROVE  (a + j) % N = IF a + j < N THEN a + j ELSE a + j - N
  BY <1>1
<1>4. ASSUME NEW b \in 0 .. N - 1
      PROVE  (b - a) % N = IF a <= b THEN b - a ELSE b - a + N
  BY <1>1
<1>5. QED BY <1>1, <1>2, <1>3, <1>4

(* The frames waiting while the card is at work on the first of them.      *)
LEMMA AroundFull ==
  ASSUME NEW N, Size(N), NEW a \in 0 .. N - 1, NEW b \in 0 .. N - 1
  PROVE  ((b - a - 1) % N) + 1 = IF a < b THEN b - a ELSE b - a + N
BY DEF Size

-----------------------------------------------------------------------------
(* A ring as a sequence. *)

(* The slot i places after a. *)
Slot(a, i, N) == IF a + i < N THEN a + i ELSE a + i - N

LEMMA RingSeq ==
  ASSUME NEW N, Size(N), NEW a \in 0 .. N - 1, NEW n \in 0 .. N,
         NEW frames \in [0 .. N - 1 -> Nat]
  PROVE  /\ Intel!Ring(frames, a, n, N) \in Seq(Nat)
         /\ Len(Intel!Ring(frames, a, n, N)) = n
         /\ \A i \in 1 .. n : Intel!Ring(frames, a, n, N)[i] = frames[Slot(a, i - 1, N)]
<1>1. \A i \in 1 .. n : /\ i - 1 \in 0 .. N - 1 /\ (a + i - 1) % N = Slot(a, i - 1, N)
                        /\ Slot(a, i - 1, N) \in 0 .. N - 1
  <2> TAKE i \in 1 .. n
  <2>1. i - 1 \in 0 .. N - 1 /\ a + i - 1 = a + (i - 1)
    BY DEF Size
  <2>2. (a + (i - 1)) % N = Slot(a, i - 1, N)
    BY <2>1, Around DEF Slot
  <2> QED BY <2>1, <2>2 DEF Slot, Size
<1>2. Intel!Ring(frames, a, n, N) = [i \in 1 .. n |-> frames[Slot(a, i - 1, N)]]
  BY <1>1 DEF Intel!Ring
<1> DEFINE r == [i \in 1 .. n |-> frames[Slot(a, i - 1, N)]]
<1>3. n \in Nat /\ r \in [1 .. n -> Nat]
  <2>1. n \in Nat
    BY DEF Size
  <2>2. \A i \in 1 .. n : frames[Slot(a, i - 1, N)] \in Nat
    BY <1>1
  <2> QED BY <2>1, <2>2
<1>4. r \in Seq(Nat) /\ DOMAIN r = 1 .. n
  BY <1>3, SeqDef
<1>5. Len(r) = n
  BY <1>3, <1>4, LenProperties
<1>6. QED BY <1>2, <1>4, <1>5

LEMMA RingAppend ==
  ASSUME NEW N, Size(N), NEW a \in 0 .. N - 1, NEW n \in 0 .. N - 1,
         NEW f \in [0 .. N - 1 -> Nat], NEW g \in [0 .. N - 1 -> Nat],
         \A i \in 0 .. n - 1 : g[Slot(a, i, N)] = f[Slot(a, i, N)]
  PROVE  Intel!Ring(g, a, n + 1, N) = Append(Intel!Ring(f, a, n, N), g[Slot(a, n, N)])
<1> DEFINE q == Intel!Ring(f, a, n, N)
           r == Intel!Ring(g, a, n + 1, N)
           v == g[Slot(a, n, N)]
<1>1. n \in Nat /\ n \in 0 .. N /\ n + 1 \in 0 .. N
  BY DEF Size
<1>2. /\ q \in Seq(Nat) /\ Len(q) = n /\ \A i \in 1 .. n : q[i] = f[Slot(a, i - 1, N)]
      /\ r \in Seq(Nat) /\ Len(r) = n + 1 /\ \A i \in 1 .. n + 1 : r[i] = g[Slot(a, i - 1, N)]
  BY <1>1, RingSeq
<1>3. v \in Nat
  BY DEF Slot, Size
<1>4. /\ Append(q, v) \in Seq(Nat) /\ Len(Append(q, v)) = n + 1
      /\ \A i \in 1 .. n : Append(q, v)[i] = q[i]
      /\ Append(q, v)[n + 1] = v
  BY <1>2, <1>3, AppendProperties
<1>5. \A i \in 1 .. n + 1 : r[i] = Append(q, v)[i]
  <2> TAKE i \in 1 .. n + 1
  <2>1. CASE i = n + 1
    <3>1. r[n + 1] = g[Slot(a, (n + 1) - 1, N)] /\ (n + 1) - 1 = n
      BY <1>1, <1>2
    <3> QED BY <2>1, <3>1, <1>4
  <2>2. CASE i # n + 1
    <3>1. i \in 1 .. n /\ i - 1 \in 0 .. n - 1
      BY <2>2, <1>1
    <3> QED BY <3>1, <1>2, <1>4
  <2> QED BY <2>1, <2>2
<1> HIDE DEF q, r, v
<1>6. r = Append(q, v)
  BY <1>2, <1>4, <1>5, SeqEqual
<1>7. QED BY <1>6 DEF q, r, v

LEMMA RingTail ==
  ASSUME NEW N, Size(N), NEW a \in 0 .. N - 1, NEW n \in 1 .. N,
         NEW f \in [0 .. N - 1 -> Nat]
  PROVE  /\ Intel!Ring(f, a, n, N) # << >>
         /\ Head(Intel!Ring(f, a, n, N)) = f[a]
         /\ Tail(Intel!Ring(f, a, n, N)) = Intel!Ring(f, (a + 1) % N, n - 1, N)
<1> DEFINE b == (a + 1) % N
           q == Intel!Ring(f, a, n, N)
           r == Intel!Ring(f, b, n - 1, N)
<1>1. /\ n \in Nat /\ n \in 0 .. N /\ n - 1 \in 0 .. N
      /\ b = (IF a = N - 1 THEN 0 ELSE a + 1) /\ b \in 0 .. N - 1
  <2>1. N \in Nat /\ N > 0
    BY DEF Size
  <2>2. b = IF a = N - 1 THEN 0 ELSE a + 1
    BY Around
  <2> HIDE DEF b
  <2> QED BY <2>1, <2>2
<1> HIDE DEF b
<1>2. \A i \in 1 .. n - 1 : Slot(b, i - 1, N) = Slot(a, (i + 1) - 1, N)
  <2> TAKE i \in 1 .. n - 1
  <2>1. i \in Nat /\ i >= 1 /\ i <= N - 1 /\ N \in Nat /\ (i + 1) - 1 = i
    BY <1>1 DEF Size
  <2>2. CASE a = N - 1
    BY <1>1, <2>1, <2>2 DEF Slot
  <2>3. CASE a # N - 1
    BY <1>1, <2>1, <2>3 DEF Slot
  <2> QED BY <2>2, <2>3
<1>3. /\ q \in Seq(Nat) /\ Len(q) = n /\ \A i \in 1 .. n : q[i] = f[Slot(a, i - 1, N)]
      /\ r \in Seq(Nat) /\ Len(r) = n - 1 /\ \A i \in 1 .. n - 1 : r[i] = f[Slot(b, i - 1, N)]
  BY <1>1, RingSeq
<1>4. Slot(a, 1 - 1, N) = a
  BY DEF Slot, Size
<1> HIDE DEF q, r
<1>5. q # << >>
  BY <1>3, EmptySeq
<1>6. /\ Head(q) = q[1] /\ Tail(q) \in Seq(Nat) /\ Len(Tail(q)) = n - 1
      /\ \A i \in 1 .. n - 1 : Tail(q)[i] = q[i + 1]
  BY <1>3, <1>5, HeadTailProperties
<1>7. Head(q) = f[a]
  BY <1>3, <1>4, <1>6
<1>8. \A i \in 1 .. n - 1 : Tail(q)[i] = r[i]
  <2> TAKE i \in 1 .. n - 1
  <2>1. i + 1 \in 1 .. n
    BY <1>1
  <2> QED BY <2>1, <1>2, <1>3, <1>6
<1>9. Tail(q) = r
  BY <1>3, <1>6, <1>8, SeqEqual
<1>10. QED BY <1>5, <1>7, <1>9 DEF q, r, b


-----------------------------------------------------------------------------
(* What the abstract queue may lose, and its steps. *)

LEMMA KeptAll ==
  ASSUME NEW s \in Seq(Nat), NEW v \in Nat
  PROVE  /\ Intel!RxQueue!Kept(s, s) /\ Intel!RxQueue!Kept(s, Append(s, v))
         /\ Intel!RxQueue!Kept(<< >>, s)
         /\ Intel!TxQueue!Kept(s, s) /\ Intel!TxQueue!Kept(s, Append(s, v))
         /\ Intel!TxQueue!Kept(<< >>, s)
<1> DEFINE n == Len(s)
           f == [i \in 1 .. n |-> i]
           t == Append(s, v)
<1>1. n \in Nat
  BY LenProperties
<1>2. Len(t) = n + 1 /\ \A i \in 1 .. n : t[i] = s[i]
  BY AppendProperties
<1>3. Len(<< >>) = 0
  BY EmptySeq
<1> HIDE DEF n, t
<1>4. /\ f \in [1 .. n -> 1 .. n] /\ f \in [1 .. n -> 1 .. n + 1]
      /\ \A i \in 1 .. n : f[i] = i
  BY <1>1
<1> HIDE DEF f
<1>5. \A i, j \in 1 .. n : i < j => f[i] < f[j]
  BY <1>4
<1>6. \A i \in 1 .. n : s[i] = s[f[i]] /\ s[i] = t[f[i]]
  BY <1>2, <1>4
<1>7. Intel!RxQueue!Kept(s, s) /\ Intel!TxQueue!Kept(s, s)
  BY <1>4, <1>5, <1>6 DEF Intel!RxQueue!Kept, Intel!TxQueue!Kept, n
<1>8. Intel!RxQueue!Kept(s, t) /\ Intel!TxQueue!Kept(s, t)
  <2>1. Len(s) = n /\ Len(t) = n + 1
    BY <1>2 DEF n
  <2> QED BY <2>1, <1>4, <1>5, <1>6 DEF Intel!RxQueue!Kept, Intel!TxQueue!Kept
<1>9. Intel!RxQueue!Kept(<< >>, s) /\ Intel!TxQueue!Kept(<< >>, s)
  <2>1. PICK e : e \in [1 .. 0 -> 1 .. n]
    <3>1. [i \in 1 .. 0 |-> 1] \in [1 .. 0 -> 1 .. n]
      OBVIOUS
    <3> QED BY <3>1
  <2>2. Len(s) = n
    BY DEF n
  <2>3. \A i \in 1 .. 0 : FALSE
    OBVIOUS
  <2> QED BY <1>3, <2>1, <2>2, <2>3 DEF Intel!RxQueue!Kept, Intel!TxQueue!Kept
<1>10. QED BY <1>7, <1>8, <1>9 DEF t

-----------------------------------------------------------------------------
(* Receive. *)

RxFilled == (rdh - rxTail) % NRX
RxRing   == Intel!Ring(rxFrame, rxTail, RxFilled, NRX)

RxTypes ==
  /\ rdh \in Intel!RxSlots /\ rdt \in Intel!RxSlots /\ rxTail \in Intel!RxSlots
  /\ rxFrame \in [Intel!RxSlots -> Nat] /\ rxDone \in [Intel!RxSlots -> BOOLEAN]
  /\ rxLook \in Nat /\ arrived \in Nat /\ received \in Nat

(* RDT is the slot before rx_tail; DD is set only between rx_tail and RDH; *)
(* and the buffer that is being copied does not change.                    *)
RxInv ==
  /\ RxTypes
  /\ rxTail = IF rdt = NRX - 1 THEN 0 ELSE rdt + 1
  /\ \A i \in Intel!RxSlots : rxDone[i] => (i - rxTail) % NRX < RxFilled
  /\ rxLook # 0 => rxDone[rxTail] /\ rxLook = rxFrame[rxTail]

LEMMA RxFacts ==
  ASSUME Size(NRX), RxTypes
  PROVE  /\ NRX \in Nat /\ NRX > 0 /\ Intel!RxSlots = 0 .. NRX - 1
         /\ RxFilled = IF rxTail <= rdh THEN rdh - rxTail ELSE rdh - rxTail + NRX
         /\ RxFilled \in 0 .. NRX - 1
         /\ \A i \in Intel!RxSlots : (i - rxTail) % NRX = IF rxTail <= i THEN i - rxTail ELSE i - rxTail + NRX
         /\ (rdh + 1) % NRX = IF rdh = NRX - 1 THEN 0 ELSE rdh + 1
         /\ (rxTail + 1) % NRX = IF rxTail = NRX - 1 THEN 0 ELSE rxTail + 1
         /\ RxRing \in Seq(Nat)
<1> DEFINE N == NRX
<1>1. N \in Nat /\ N > 0 /\ Intel!RxSlots = 0 .. N - 1
  BY DEF Size, Intel!RxSlots
<1>2. /\ rdh \in 0 .. N - 1 /\ rxTail \in 0 .. N - 1
      /\ \A i \in 0 .. N - 1 : (i - rxTail) % N = IF rxTail <= i THEN i - rxTail ELSE i - rxTail + N
      /\ (rdh + 1) % N = IF rdh = N - 1 THEN 0 ELSE rdh + 1
      /\ (rxTail + 1) % N = IF rxTail = N - 1 THEN 0 ELSE rxTail + 1
  BY <1>1, Around DEF RxTypes
<1>3. RxFilled = IF rxTail <= rdh THEN rdh - rxTail ELSE rdh - rxTail + N
  BY <1>2 DEF RxFilled
<1>4. RxFilled \in 0 .. N - 1
  <2> HIDE DEF N
  <2> QED BY <1>1, <1>2, <1>3
<1>5. RxRing \in Seq(Nat)
  <2>1. RxFilled \in 0 .. N /\ rxFrame \in [0 .. N - 1 -> Nat]
    BY <1>1, <1>4 DEF RxTypes
  <2> QED BY <1>2, <2>1, RingSeq DEF RxRing
<1>6. QED BY <1>1, <1>2, <1>3, <1>4, <1>5

LEMMA RxInit ==
  ASSUME Size(NRX), Intel!Init
  PROVE  RxInv /\ Intel!RxQueue!Init
<1>1. RxTypes
  BY DEF Intel!Init, RxTypes, Size, Intel!RxSlots
<1>2. RxInv
  BY <1>1 DEF Intel!Init, RxInv, Size, Intel!RxSlots
<1>3. RxFilled = 0
  BY <1>1, RxFacts DEF Intel!Init
<1>4. RxRing = << >>
  <2>1. /\ rxTail \in 0 .. NRX - 1 /\ rxFrame \in [0 .. NRX - 1 -> Nat]
        /\ RxFilled \in 0 .. NRX
    <3>1. NRX \in Nat /\ NRX > 0 /\ Intel!RxSlots = 0 .. NRX - 1
      BY <1>1, RxFacts
    <3>2. 0 \in 0 .. NRX
      BY <3>1
    <3> QED BY <1>1, <1>3, <3>1, <3>2 DEF RxTypes
  <2>2. Len(RxRing) = 0 /\ RxRing \in Seq(Nat)
    BY <1>3, <2>1, RingSeq DEF RxRing
  <2> QED BY <2>2, EmptySeq
<1>5. QED BY <1>2, <1>4 DEF Intel!RxQueue!Init, Intel!Init, RxRing, RxFilled


(* A step of the card: the frame goes into the last place of the queue, or *)
(* nowhere, when the card owns no descriptor.                              *)
LEMMA RxCard ==
  ASSUME Size(NRX), RxInv, Intel!CardReceives
  PROVE  RxInv' /\ Intel!RxQueue!Give
<1>1. /\ NRX \in Nat /\ NRX > 0 /\ Intel!RxSlots = 0 .. NRX - 1
      /\ RxFilled = IF rxTail <= rdh THEN rdh - rxTail ELSE rdh - rxTail + NRX
      /\ RxFilled \in 0 .. NRX - 1
      /\ \A i \in Intel!RxSlots : (i - rxTail) % NRX = IF rxTail <= i THEN i - rxTail ELSE i - rxTail + NRX
      /\ (rdh + 1) % NRX = IF rdh = NRX - 1 THEN 0 ELSE rdh + 1
      /\ RxRing \in Seq(Nat)
  BY RxFacts DEF RxInv
<1>2. RxTypes /\ arrived' = arrived + 1 /\ arrived \in Nat /\ arrived + 1 \in Nat
  BY DEF RxInv, RxTypes, Intel!CardReceives
<1>3. RxTypes'
  <2>1. CASE rdh = rdt
    BY <1>2, <2>1 DEF Intel!CardReceives, RxTypes
  <2>2. CASE rdh # rdt
    <3>1. rdh \in 0 .. NRX - 1
      BY <1>1, <1>2 DEF RxTypes
    <3>2. (IF rdh = NRX - 1 THEN 0 ELSE rdh + 1) \in 0 .. NRX - 1
      BY <1>1, <3>1
    <3>3. rdh' \in Intel!RxSlots
      BY <1>1, <2>2, <3>2 DEF Intel!CardReceives
    <3>4. /\ rxFrame' = [rxFrame EXCEPT ![rdh] = arrived'] /\ rxDone' = [rxDone EXCEPT ![rdh] = TRUE]
          /\ UNCHANGED <<rdt, rxTail, rxLook, received>>
      BY <2>2 DEF Intel!CardReceives
    <3> QED BY <1>2, <3>3, <3>4 DEF RxTypes
  <2> QED BY <2>1, <2>2
<1>4. RxFilled' = IF rxTail' <= rdh' THEN rdh' - rxTail' ELSE rdh' - rxTail' + NRX
  <2>1. rxTail' = rxTail /\ rdh' \in Intel!RxSlots
    BY <1>3 DEF Intel!CardReceives, RxTypes
  <2>2. (rdh' - rxTail) % NRX = IF rxTail <= rdh' THEN rdh' - rxTail ELSE rdh' - rxTail + NRX
    BY <1>1, <2>1
  <2> QED BY <2>1, <2>2 DEF RxFilled
<1>5. CASE rdh = rdt
  <2>1. UNCHANGED <<rxFrame, rxDone, rdh, rdt, rxTail, rxLook, received>>
    BY <1>5 DEF Intel!CardReceives
  <2>2. RxInv'
    BY <1>3, <2>1 DEF RxInv, RxFilled
  <2>3. RxRing' = RxRing
    BY <2>1 DEF RxRing, RxFilled
  <2>4. Intel!RxQueue!Kept(RxRing', Append(RxRing, arrived'))
    BY <1>1, <1>2, <2>3, KeptAll
  <2> QED BY <1>2, <2>1, <2>2, <2>4 DEF Intel!RxQueue!Give, RxRing, RxFilled
<1>6. CASE rdh # rdt
  <2>1. /\ rxFrame' = [rxFrame EXCEPT ![rdh] = arrived']
        /\ rxDone' = [rxDone EXCEPT ![rdh] = TRUE]
        /\ rdh' = IF rdh = NRX - 1 THEN 0 ELSE rdh + 1
        /\ UNCHANGED <<rdt, rxTail, rxLook, received>>
    BY <1>1, <1>6 DEF Intel!CardReceives
  <2>2. /\ rdh \in 0 .. NRX - 1 /\ rdt \in 0 .. NRX - 1 /\ rxTail \in 0 .. NRX - 1
        /\ rxTail = IF rdt = NRX - 1 THEN 0 ELSE rdt + 1
    BY <1>1, <1>2 DEF RxTypes, RxInv
  <2>3. RxFilled' = RxFilled + 1 /\ RxFilled < NRX - 1 /\ rdh = Slot(rxTail, RxFilled, NRX)
    BY <1>1, <1>4, <1>6, <2>1, <2>2 DEF Slot
  <2>4. rxLook # 0 => rdh # rxTail
    <3>1. ASSUME rxLook # 0, rdh = rxTail PROVE FALSE
      <4>1. rxDone[rxTail] /\ rxTail \in Intel!RxSlots
        BY <3>1, <1>2 DEF RxInv, RxTypes
      <4>2. (rxTail - rxTail) % NRX < RxFilled
        BY <4>1 DEF RxInv
      <4> QED BY <1>1, <2>2, <3>1, <4>1, <4>2
    <3> QED BY <3>1
  <2>5. \A i \in Intel!RxSlots : rxDone'[i] => (i - rxTail) % NRX < RxFilled'
    <3> TAKE i \in Intel!RxSlots
    <3> HAVE rxDone'[i]
    <3>1. CASE i = rdh
      <4>1. (i - rxTail) % NRX = RxFilled
        BY <3>1 DEF RxFilled
      <4> QED BY <1>1, <2>3, <4>1
    <3>2. CASE i # rdh
      <4>1. rxDone[i]
        BY <1>2, <2>1, <3>2 DEF RxTypes
      <4>2. (i - rxTail) % NRX < RxFilled
        BY <4>1 DEF RxInv
      <4> QED BY <1>1, <2>2, <2>3, <4>2, SMTT(30)
    <3> QED BY <3>1, <3>2
  <2>6. RxInv'
    <3>1. rxLook' # 0 => rxDone'[rxTail'] /\ rxLook' = rxFrame'[rxTail']
      BY <1>2, <2>1, <2>4 DEF RxInv, RxTypes
    <3>2. \A i \in Intel!RxSlots : rxDone'[i] => (i - rxTail') % NRX < RxFilled'
      BY <2>1, <2>5
    <3>3. rxTail' = IF rdt' = NRX - 1 THEN 0 ELSE rdt' + 1
      BY <2>1, <2>2
    <3> QED BY <1>3, <3>1, <3>2, <3>3 DEF RxInv
  <2>7. RxRing' = Append(RxRing, arrived')
    <3> DEFINE n == RxFilled
    <3>1. n \in 0 .. NRX - 1 /\ n < NRX - 1
      BY <1>1, <2>3
    <3>2. rxFrame \in [0 .. NRX - 1 -> Nat] /\ rxFrame' \in [0 .. NRX - 1 -> Nat]
      BY <1>1, <1>2, <1>3 DEF RxTypes
    <3>3. rxFrame'[Slot(rxTail, n, NRX)] = arrived'
      BY <2>1, <2>2, <2>3, <3>2
    <3>4. \A i \in 0 .. n - 1 : rxFrame'[Slot(rxTail, i, NRX)] = rxFrame[Slot(rxTail, i, NRX)]
      <4> HIDE DEF n
      <4> TAKE i \in 0 .. n - 1
      <4>1. Slot(rxTail, i, NRX) \in 0 .. NRX - 1
        BY <1>1, <2>2, <3>1 DEF Slot
      <4>2. Slot(rxTail, i, NRX) # Slot(rxTail, n, NRX)
        BY <1>1, <2>2, <3>1 DEF Slot
      <4>3. rdh = Slot(rxTail, n, NRX)
        BY <2>3 DEF n
      <4> QED BY <2>1, <3>2, <4>1, <4>2, <4>3
    <3>5. Intel!Ring(rxFrame', rxTail, n + 1, NRX) = Append(Intel!Ring(rxFrame, rxTail, n, NRX), rxFrame'[Slot(rxTail, n, NRX)])
      <4> HIDE DEF n
      <4>1. PICK f, g, a : f = rxFrame /\ g = rxFrame' /\ a = rxTail
        OBVIOUS
      <4>2. /\ f \in [0 .. NRX - 1 -> Nat] /\ g \in [0 .. NRX - 1 -> Nat] /\ a \in 0 .. NRX - 1
            /\ n \in 0 .. NRX - 1
            /\ \A i \in 0 .. n - 1 : g[Slot(a, i, NRX)] = f[Slot(a, i, NRX)]
        BY <2>2, <3>1, <3>2, <3>4, <4>1
      <4>3. Intel!Ring(g, a, n + 1, NRX) = Append(Intel!Ring(f, a, n, NRX), g[Slot(a, n, NRX)])
        BY <4>2, RingAppend
      <4> QED BY <4>1, <4>3
    <3> QED BY <2>1, <2>3, <3>3, <3>5 DEF RxRing, n
  <2>8. Intel!RxQueue!Kept(RxRing', Append(RxRing, arrived'))
    <3>1. Append(RxRing, arrived') \in Seq(Nat)
      BY <1>1, <1>2, AppendProperties
    <3> QED BY <1>1, <1>2, <2>7, <3>1, KeptAll
  <2> QED BY <1>2, <2>1, <2>6, <2>8 DEF Intel!RxQueue!Give, RxRing, RxFilled
<1>7. QED BY <1>5, <1>6

(* e1000_poll between its two looks: the queue does not change. *)
LEMMA RxCopy ==
  ASSUME Size(NRX), RxInv, Intel!PollCopy
  PROVE  RxInv' /\ UNCHANGED <<RxRing, arrived, received>>
<1>1. rxFrame[rxTail] \in Nat
  BY DEF RxInv, RxTypes
<1>2. QED BY <1>1 DEF Intel!PollCopy, RxInv, RxTypes, RxRing, RxFilled

(* e1000_poll hands on the oldest frame and gives its descriptor back. *)
LEMMA RxRelease ==
  ASSUME Size(NRX), RxInv, Intel!PollRelease
  PROVE  RxInv' /\ Intel!RxQueue!Take
<1>1. /\ NRX \in Nat /\ NRX > 0 /\ Intel!RxSlots = 0 .. NRX - 1
      /\ RxFilled = IF rxTail <= rdh THEN rdh - rxTail ELSE rdh - rxTail + NRX
      /\ RxFilled \in 0 .. NRX - 1
      /\ \A i \in Intel!RxSlots : (i - rxTail) % NRX = IF rxTail <= i THEN i - rxTail ELSE i - rxTail + NRX
      /\ (rxTail + 1) % NRX = IF rxTail = NRX - 1 THEN 0 ELSE rxTail + 1
      /\ RxRing \in Seq(Nat)
  BY RxFacts DEF RxInv
<1>2. /\ RxTypes /\ rxLook # 0 /\ rxDone[rxTail] /\ rxLook = rxFrame[rxTail]
      /\ received' = rxFrame[rxTail]
      /\ rxDone' = [rxDone EXCEPT ![rxTail] = FALSE]
      /\ rdt' = rxTail /\ rxTail' = (IF rxTail = NRX - 1 THEN 0 ELSE rxTail + 1) /\ rxLook' = 0
      /\ UNCHANGED <<rxFrame, rdh, arrived>>
  BY <1>1 DEF Intel!PollRelease, RxInv
<1>3. rdh \in 0 .. NRX - 1 /\ rdt \in 0 .. NRX - 1 /\ rxTail \in 0 .. NRX - 1
  BY <1>1, <1>2 DEF RxTypes
<1>4. RxTypes'
  <2>1. rxTail' \in Intel!RxSlots
    BY <1>1, <1>2, <1>3
  <2> QED BY <1>2, <2>1 DEF RxTypes
<1>5. RxFilled >= 1
  <2>1. (rxTail - rxTail) % NRX < RxFilled
    BY <1>1, <1>2, <1>3 DEF RxInv
  <2> QED BY <1>1, <1>3, <2>1
<1>6. /\ RxFilled' = IF rxTail' <= rdh THEN rdh - rxTail' ELSE rdh - rxTail' + NRX
      /\ \A i \in Intel!RxSlots : (i - rxTail') % NRX = IF rxTail' <= i THEN i - rxTail' ELSE i - rxTail' + NRX
  <2>1. rxTail' \in 0 .. NRX - 1
    BY <1>1, <1>4 DEF RxTypes
  <2> QED BY <1>1, <1>2, <1>3, <2>1, Around DEF RxFilled
<1>7. RxFilled' = RxFilled - 1
  BY <1>1, <1>2, <1>3, <1>5, <1>6
<1>8. \A i \in Intel!RxSlots : rxDone'[i] => (i - rxTail') % NRX < RxFilled'
  <2> TAKE i \in Intel!RxSlots
  <2> HAVE rxDone'[i]
  <2>1. i # rxTail /\ rxDone[i]
    BY <1>2 DEF RxTypes
  <2>2. (i - rxTail) % NRX < RxFilled
    BY <2>1 DEF RxInv
  <2>3. (IF rxTail <= i THEN i - rxTail ELSE i - rxTail + NRX) < RxFilled
    BY <1>1, <2>2
  <2>4. (IF rxTail' <= i THEN i - rxTail' ELSE i - rxTail' + NRX) < RxFilled'
    BY <1>1, <1>2, <1>3, <1>7, <2>1, <2>3
  <2> QED BY <1>6, <2>4
<1>9. RxInv'
  <2>1. rxTail' = IF rdt' = NRX - 1 THEN 0 ELSE rdt' + 1
    BY <1>2
  <2> QED BY <1>2, <1>4, <1>8, <2>1 DEF RxInv
<1>10. RxRing # << >> /\ Head(RxRing) = received' /\ Tail(RxRing) = RxRing'
  <2>1. rxFrame \in [0 .. NRX - 1 -> Nat] /\ RxFilled \in 1 .. NRX
    BY <1>1, <1>2, <1>5 DEF RxTypes
  <2>2. PICK n \in 1 .. NRX : n = RxFilled
    BY <2>1
  <2>3. /\ RxRing = Intel!Ring(rxFrame, rxTail, n, NRX)
        /\ RxRing' = Intel!Ring(rxFrame, (rxTail + 1) % NRX, n - 1, NRX)
    BY <1>1, <1>2, <1>7, <2>2 DEF RxRing
  <2>4. /\ Intel!Ring(rxFrame, rxTail, n, NRX) # << >>
        /\ Head(Intel!Ring(rxFrame, rxTail, n, NRX)) = rxFrame[rxTail]
        /\ Tail(Intel!Ring(rxFrame, rxTail, n, NRX)) = Intel!Ring(rxFrame, (rxTail + 1) % NRX, n - 1, NRX)
    BY <1>3, <2>1, RingTail
  <2> QED BY <1>2, <2>3, <2>4
<1>11. QED BY <1>2, <1>9, <1>10 DEF Intel!RxQueue!Take, RxRing, RxFilled


-----------------------------------------------------------------------------
(* Transmit. *)

TxRingSeq == Intel!Ring(txFrame, tdh, Intel!TxWaiting, NTX)

TxTypes ==
  /\ tdh \in Intel!TxSlots /\ tdt \in Intel!TxSlots
  /\ txFrame \in [Intel!TxSlots -> Nat]
  /\ txUsed \in [Intel!TxSlots -> BOOLEAN] /\ txDone \in [Intel!TxSlots -> BOOLEAN]
  /\ txLook \in Nat /\ txPc \in {"idle", "spin", "fill", "ring"}
  /\ txAsked \in Nat /\ txWire \in Nat
  /\ txPc # "idle" => txAsked >= 1

(* What waits has RS set and DD clear; the frame being sent does not       *)
(* change; and e1000_tx fills a descriptor only while the card is not at   *)
(* work on that one.                                                       *)
TxInv ==
  /\ TxTypes
  /\ \A i \in Intel!TxSlots : (i - tdh) % NTX < Intel!TxWaiting => txUsed[i] /\ ~ txDone[i]
  /\ txLook # 0 => txLook = txFrame[tdh]
  /\ txPc \in {"fill", "ring"} => ~ (txLook # 0 /\ tdh = tdt)
  /\ txPc = "ring" => txFrame[tdt] = txAsked /\ txUsed[tdt] /\ ~ txDone[tdt]

LEMMA TxFacts ==
  ASSUME Size(NTX), TxTypes
  PROVE  /\ NTX \in Nat /\ NTX > 0 /\ Intel!TxSlots = 0 .. NTX - 1
         /\ tdh \in 0 .. NTX - 1 /\ tdt \in 0 .. NTX - 1
         /\ Intel!TxWaiting = IF tdh < tdt \/ (tdh = tdt /\ txLook = 0) THEN tdt - tdh ELSE tdt - tdh + NTX
         /\ Intel!TxWaiting \in 0 .. NTX
         /\ \A i \in Intel!TxSlots : (i - tdh) % NTX = IF tdh <= i THEN i - tdh ELSE i - tdh + NTX
         /\ (tdh + 1) % NTX = IF tdh = NTX - 1 THEN 0 ELSE tdh + 1
         /\ (tdt + 1) % NTX = IF tdt = NTX - 1 THEN 0 ELSE tdt + 1
         /\ TxRingSeq \in Seq(Nat)
<1> DEFINE N == NTX
<1>1. N \in Nat /\ N > 0 /\ Intel!TxSlots = 0 .. N - 1
  BY DEF Size, Intel!TxSlots
<1>2. /\ tdh \in 0 .. N - 1 /\ tdt \in 0 .. N - 1
      /\ \A i \in 0 .. N - 1 : (i - tdh) % N = IF tdh <= i THEN i - tdh ELSE i - tdh + N
      /\ (tdh + 1) % N = IF tdh = N - 1 THEN 0 ELSE tdh + 1
      /\ (tdt + 1) % N = IF tdt = N - 1 THEN 0 ELSE tdt + 1
  BY <1>1, Around DEF TxTypes
<1>3. ((tdt - tdh - 1) % N) + 1 = IF tdh < tdt THEN tdt - tdh ELSE tdt - tdh + N
  BY <1>2, AroundFull
<1>4. Intel!TxWaiting = IF tdh < tdt \/ (tdh = tdt /\ txLook = 0) THEN tdt - tdh ELSE tdt - tdh + N
  <2>1. CASE txLook = 0
    <3>1. Intel!TxWaiting = (tdt - tdh) % N
      BY <2>1 DEF Intel!TxWaiting
    <3>2. tdh <= tdt <=> (tdh < tdt \/ tdh = tdt)
      BY <1>2
    <3> QED BY <1>2, <2>1, <3>1, <3>2
  <2>2. CASE txLook # 0
    <3>1. Intel!TxWaiting = ((tdt - tdh - 1) % N) + 1
      BY <2>2 DEF Intel!TxWaiting
    <3> QED BY <1>3, <2>2, <3>1
  <2> QED BY <2>1, <2>2
<1>5. Intel!TxWaiting \in 0 .. N
  <2> HIDE DEF N
  <2> QED BY <1>1, <1>2, <1>4
<1>6. TxRingSeq \in Seq(Nat)
  <2>1. txFrame \in [0 .. N - 1 -> Nat]
    BY <1>1 DEF TxTypes
  <2> QED BY <1>2, <1>5, <2>1, RingSeq DEF TxRingSeq
<1>7. QED BY <1>1, <1>2, <1>4, <1>5, <1>6

LEMMA TxInit ==
  ASSUME Size(NTX), Intel!Init
  PROVE  TxInv /\ Intel!TxQueue!Init
<1>1. TxTypes
  BY DEF Intel!Init, TxTypes, Size, Intel!TxSlots
<1>2. Intel!TxWaiting = 0 /\ NTX \in Nat /\ Intel!TxSlots = 0 .. NTX - 1
  BY <1>1, TxFacts DEF Intel!Init
<1>3. \A i \in Intel!TxSlots : (i - tdh) % NTX = i /\ i >= 0
  BY <1>1, TxFacts DEF Intel!Init
<1>4. TxInv
  BY <1>1, <1>2, <1>3 DEF Intel!Init, TxInv
<1>5. TxRingSeq = << >>
  <2>1. /\ tdh \in 0 .. NTX - 1 /\ txFrame \in [0 .. NTX - 1 -> Nat] /\ 0 \in 0 .. NTX
    BY <1>1, <1>2 DEF TxTypes
  <2>2. Len(TxRingSeq) = 0 /\ TxRingSeq \in Seq(Nat)
    BY <1>2, <2>1, RingSeq DEF TxRingSeq
  <2> QED BY <2>2, EmptySeq
<1>6. QED BY <1>4, <1>5 DEF Intel!TxQueue!Init, Intel!Init, TxRingSeq, Intel!TxGiven

(* e1000_tx up to the moment it may fill the descriptor. *)
LEMMA TxWaits ==
  ASSUME Size(NTX), TxInv, Intel!TxCall \/ Intel!TxReady, ~ txLate'
  PROVE  TxInv' /\ UNCHANGED <<TxRingSeq, Intel!TxGiven, txWire>>
<1>1. CASE Intel!TxCall
  <2>1. TxTypes'
    BY <1>1 DEF Intel!TxCall, TxInv, TxTypes
  <2>2. UNCHANGED <<Intel!TxWaiting, TxRingSeq, txWire>>
    BY <1>1 DEF Intel!TxCall, Intel!TxWaiting, TxRingSeq
  <2>3. Intel!TxGiven' = Intel!TxGiven
    BY <1>1 DEF Intel!TxCall, Intel!TxGiven, TxInv, TxTypes
  <2>4. TxInv'
    BY <1>1, <2>1, <2>2 DEF Intel!TxCall, TxInv
  <2> QED BY <2>2, <2>3, <2>4
<1>2. CASE Intel!TxReady
  <2>1. TxTypes'
    BY <1>2 DEF Intel!TxReady, TxInv, TxTypes
  <2>2. UNCHANGED <<Intel!TxWaiting, TxRingSeq, Intel!TxGiven, txWire>>
    BY <1>2 DEF Intel!TxReady, Intel!TxWaiting, TxRingSeq, Intel!TxGiven
  <2>3. ~ (txLook # 0 /\ tdh = tdt)
    <3>1. SUFFICES ASSUME txLook # 0, tdh = tdt PROVE FALSE
      OBVIOUS
    <3>2. /\ NTX \in Nat /\ NTX > 0 /\ tdh \in 0 .. NTX - 1 /\ tdh \in Intel!TxSlots
          /\ Intel!TxWaiting = tdt - tdh + NTX /\ (tdh - tdh) % NTX = tdh - tdh
      BY <3>1, TxFacts DEF TxInv
    <3>3. (tdh - tdh) % NTX < Intel!TxWaiting
      BY <3>1, <3>2
    <3> QED BY <1>2, <3>1, <3>2, <3>3 DEF Intel!TxReady, Intel!Reading, TxInv
  <2>4. TxInv'
    BY <1>2, <2>1, <2>2, <2>3 DEF Intel!TxReady, TxInv
  <2> QED BY <2>2, <2>4
<1>3. QED BY <1>1, <1>2

(* The descriptor at TDT is outside what waits: filling it changes nothing *)
(* there.                                                                  *)
LEMMA TxFills ==
  ASSUME Size(NTX), TxInv, Intel!TxFill
  PROVE  TxInv' /\ UNCHANGED <<TxRingSeq, Intel!TxGiven, txWire>>
<1>1. /\ NTX \in Nat /\ NTX > 0 /\ Intel!TxSlots = 0 .. NTX - 1
      /\ tdh \in 0 .. NTX - 1 /\ tdt \in 0 .. NTX - 1
      /\ Intel!TxWaiting = IF tdh < tdt \/ (tdh = tdt /\ txLook = 0) THEN tdt - tdh ELSE tdt - tdh + NTX
      /\ Intel!TxWaiting \in 0 .. NTX
      /\ \A i \in Intel!TxSlots : (i - tdh) % NTX = IF tdh <= i THEN i - tdh ELSE i - tdh + NTX
  BY TxFacts DEF TxInv
<1>2. /\ TxTypes /\ txPc = "fill" /\ ~ (txLook # 0 /\ tdh = tdt) /\ txPc' = "ring"
      /\ txFrame' = [txFrame EXCEPT ![tdt] = txAsked]
      /\ txUsed' = [txUsed EXCEPT ![tdt] = TRUE]
      /\ txDone' = [txDone EXCEPT ![tdt] = FALSE]
      /\ UNCHANGED <<tdh, tdt, txLook, txAsked, txWire>>
  BY DEF Intel!TxFill, TxInv
<1>3. TxTypes'
  BY <1>1, <1>2 DEF TxTypes
<1>4. Intel!TxWaiting' = Intel!TxWaiting /\ Intel!TxGiven' = Intel!TxGiven
  BY <1>2 DEF Intel!TxWaiting, Intel!TxGiven
<1>5. \A i \in Intel!TxSlots : (i - tdh) % NTX < Intel!TxWaiting => i # tdt
  <2> TAKE i \in Intel!TxSlots
  <2>1. i \in 0 .. NTX - 1 /\ (i - tdh) % NTX = IF tdh <= i THEN i - tdh ELSE i - tdh + NTX
    BY <1>1
  <2> QED BY <1>1, <1>2, <2>1
<1>6. TxInv'
  <2>1. \A i \in Intel!TxSlots : (i - tdh) % NTX < Intel!TxWaiting => txUsed'[i] /\ ~ txDone'[i]
    BY <1>1, <1>2, <1>5 DEF TxInv, TxTypes
  <2>2. txLook # 0 => txLook = txFrame'[tdh]
    BY <1>1, <1>2 DEF TxInv, TxTypes
  <2>3. txFrame'[tdt] = txAsked /\ txUsed'[tdt] /\ ~ txDone'[tdt]
    BY <1>1, <1>2 DEF TxTypes
  <2> QED BY <1>2, <1>3, <1>4, <2>1, <2>2, <2>3 DEF TxInv
<1>7. TxRingSeq' = TxRingSeq
  <2> DEFINE n == Intel!TxWaiting
  <2>1. \A i \in 1 .. n : /\ txFrame[(tdh + i - 1) % NTX] = txFrame'[(tdh + i - 1) % NTX]
    <3> TAKE i \in 1 .. n
    <3>1. i \in Int /\ i >= 1 /\ i <= Intel!TxWaiting /\ i - 1 \in 0 .. NTX - 1 /\ tdh + i - 1 = tdh + (i - 1)
      BY <1>1
    <3>2. (tdh + (i - 1)) % NTX = Slot(tdh, i - 1, NTX)
      <4>1. \A j \in 0 .. NTX - 1 : (tdh + j) % NTX = IF tdh + j < NTX THEN tdh + j ELSE tdh + j - NTX
        BY <1>1, Around, Zenon
      <4>2. i - 1 \in 0 .. NTX - 1
        BY <3>1
      <4> QED BY <4>1, <4>2, Zenon DEF Slot
    <3>3. Slot(tdh, i - 1, NTX) # tdt /\ Slot(tdh, i - 1, NTX) \in 0 .. NTX - 1
      BY <1>1, <1>2, <3>1 DEF Slot
    <3> QED BY <1>1, <1>2, <3>1, <3>2, <3>3 DEF TxTypes
  <2>2. TxRingSeq = [i \in 1 .. n |-> txFrame[(tdh + i - 1) % NTX]]
    BY DEF TxRingSeq, Intel!Ring
  <2>3. TxRingSeq' = [i \in 1 .. n |-> txFrame'[(tdh + i - 1) % NTX]]
    BY <1>2, <1>4 DEF TxRingSeq, Intel!Ring
  <2> HIDE DEF n
  <2> QED BY <2>1, <2>2, <2>3
<1>8. QED BY <1>2, <1>4, <1>6, <1>7


(* TDT moves on: the frame joins the queue; a ring filled to the last      *)
(* descriptor while the card rests looks empty to it, and all are lost.    *)
LEMMA TxRings ==
  ASSUME Size(NTX), TxInv, Intel!TxRing
  PROVE  TxInv' /\ Intel!TxQueue!Give
<1>1. /\ NTX \in Nat /\ NTX > 0 /\ Intel!TxSlots = 0 .. NTX - 1
      /\ tdh \in 0 .. NTX - 1 /\ tdt \in 0 .. NTX - 1
      /\ Intel!TxWaiting = IF tdh < tdt \/ (tdh = tdt /\ txLook = 0) THEN tdt - tdh ELSE tdt - tdh + NTX
      /\ Intel!TxWaiting \in 0 .. NTX
      /\ \A i \in Intel!TxSlots : (i - tdh) % NTX = IF tdh <= i THEN i - tdh ELSE i - tdh + NTX
      /\ (tdt + 1) % NTX = IF tdt = NTX - 1 THEN 0 ELSE tdt + 1
      /\ TxRingSeq \in Seq(Nat)
  BY TxFacts DEF TxInv
<1>2. /\ TxTypes /\ txPc = "ring" /\ ~ (txLook # 0 /\ tdh = tdt) /\ txPc' = "idle"
      /\ txFrame[tdt] = txAsked /\ txUsed[tdt] /\ ~ txDone[tdt]
      /\ tdt' = (IF tdt = NTX - 1 THEN 0 ELSE tdt + 1)
      /\ UNCHANGED <<txFrame, txUsed, txDone, tdh, txLook, txAsked, txWire>>
  BY <1>1 DEF Intel!TxRing, TxInv
<1>3. tdt' \in 0 .. NTX - 1
  BY <1>1, <1>2
<1>4. TxTypes'
  BY <1>1, <1>2, <1>3 DEF TxTypes
<1>5. Intel!TxWaiting' = IF tdh < tdt' \/ (tdh = tdt' /\ txLook = 0) THEN tdt' - tdh ELSE tdt' - tdh + NTX
  <2>1. (TxTypes => Intel!TxWaiting = IF tdh < tdt \/ (tdh = tdt /\ txLook = 0)
                                THEN tdt - tdh ELSE tdt - tdh + NTX)'
    BY TxFacts, PTL
  <2> QED BY <1>2, <1>4, <2>1
<1>6. \/ Intel!TxWaiting' = Intel!TxWaiting + 1 /\ Intel!TxWaiting \in 0 .. NTX - 1 /\ tdt = Slot(tdh, Intel!TxWaiting, NTX)
      \/ Intel!TxWaiting' = 0
  BY <1>1, <1>2, <1>3, <1>5 DEF Slot
<1>7. Intel!TxGiven' = Intel!TxGiven + 1 /\ Intel!TxGiven' = txAsked /\ txAsked \in Nat
  BY <1>2 DEF Intel!TxGiven, TxTypes
<1>8. \A i \in Intel!TxSlots : (i - tdh) % NTX < Intel!TxWaiting' => txUsed[i] /\ ~ txDone[i]
  <2> SUFFICES ASSUME NEW i \in Intel!TxSlots, (i - tdh) % NTX < Intel!TxWaiting'
               PROVE  txUsed[i] /\ ~ txDone[i]
    OBVIOUS
  <2>1. i \in 0 .. NTX - 1 /\ (i - tdh) % NTX = IF tdh <= i THEN i - tdh ELSE i - tdh + NTX
    BY <1>1
  <2>2. (i - tdh) % NTX < Intel!TxWaiting \/ i = tdt
    BY <1>1, <1>6, <2>1 DEF Slot
  <2> QED BY <1>2, <2>2 DEF TxInv
<1>9. TxInv'
  <2>1. txLook # 0 => txLook = txFrame[tdh]
    BY DEF TxInv
  <2> QED BY <1>2, <1>4, <1>8, <2>1 DEF TxInv
<1>10. Intel!TxQueue!Kept(TxRingSeq', Append(TxRingSeq, txAsked))
  <2>1. txFrame \in [0 .. NTX - 1 -> Nat]
    BY <1>1, <1>2 DEF TxTypes
  <2>2. CASE Intel!TxWaiting' = Intel!TxWaiting + 1 /\ Intel!TxWaiting \in 0 .. NTX - 1 /\ tdt = Slot(tdh, Intel!TxWaiting, NTX)
    <3>1. PICK n \in 0 .. NTX - 1 : n = Intel!TxWaiting
      BY <2>2
    <3>2. TxRingSeq = Intel!Ring(txFrame, tdh, n, NTX) /\ TxRingSeq' = Intel!Ring(txFrame, tdh, n + 1, NTX)
      BY <1>2, <2>2, <3>1 DEF TxRingSeq
    <3>3. Intel!Ring(txFrame, tdh, n + 1, NTX) = Append(Intel!Ring(txFrame, tdh, n, NTX), txFrame[Slot(tdh, n, NTX)])
      BY <1>1, <2>1, RingAppend
    <3>4. txFrame[Slot(tdh, n, NTX)] = txAsked
      BY <1>2, <2>2, <3>1
    <3>5. TxRingSeq' = Append(TxRingSeq, txAsked) /\ Append(TxRingSeq, txAsked) \in Seq(Nat)
      BY <1>1, <1>7, <3>2, <3>3, <3>4, AppendProperties
    <3> QED BY <1>7, <3>5, KeptAll
  <2>3. CASE Intel!TxWaiting' = 0
    <3>1. 0 \in 0 .. NTX
      BY <1>1
    <3>2. TxRingSeq' = Intel!Ring(txFrame, tdh, 0, NTX)
      BY <1>2, <2>3 DEF TxRingSeq
    <3>3. Intel!Ring(txFrame, tdh, 0, NTX) \in Seq(Nat) /\ Len(Intel!Ring(txFrame, tdh, 0, NTX)) = 0
      BY <1>1, <2>1, <3>1, RingSeq
    <3>4. TxRingSeq' = << >>
      BY <3>2, <3>3, EmptySeq
    <3>5. Append(TxRingSeq, txAsked) \in Seq(Nat)
      BY <1>1, <1>7, AppendProperties
    <3> QED BY <1>7, <3>4, <3>5, KeptAll
  <2> QED BY <1>6, <2>2, <2>3
<1>11. QED BY <1>2, <1>7, <1>9, <1>10 DEF Intel!TxQueue!Give, TxRingSeq

(* The card begins a frame: the queue does not change. *)
LEMMA TxFetches ==
  ASSUME Size(NTX), TxInv, Intel!CardFetches
  PROVE  TxInv' /\ UNCHANGED <<TxRingSeq, Intel!TxGiven, txWire>>
<1>1. /\ TxTypes /\ txLook = 0 /\ tdh # tdt /\ txLook' = txFrame[tdh]
      /\ UNCHANGED <<txFrame, txUsed, txDone, tdh, tdt, txPc, txAsked, txWire>>
  BY DEF Intel!CardFetches, TxInv
<1>2. TxTypes'
  BY <1>1 DEF TxTypes
<1>3. Intel!TxWaiting' = Intel!TxWaiting
  <2>1. /\ Intel!TxWaiting = IF tdh < tdt \/ (tdh = tdt /\ txLook = 0) THEN tdt - tdh ELSE tdt - tdh + NTX
    BY <1>1, TxFacts
  <2>2. (TxTypes => Intel!TxWaiting = IF tdh < tdt \/ (tdh = tdt /\ txLook = 0)
                                THEN tdt - tdh ELSE tdt - tdh + NTX)'
    BY TxFacts, PTL
  <2> QED BY <1>1, <1>2, <2>1, <2>2
<1>4. TxInv'
  BY <1>1, <1>2, <1>3 DEF TxInv
<1>5. QED BY <1>1, <1>3, <1>4 DEF TxRingSeq, Intel!TxGiven

(* The card has sent the oldest frame. *)
LEMMA TxSends ==
  ASSUME Size(NTX), TxInv, Intel!CardSends
  PROVE  TxInv' /\ Intel!TxQueue!Take
<1>1. /\ NTX \in Nat /\ NTX > 0 /\ Intel!TxSlots = 0 .. NTX - 1
      /\ tdh \in 0 .. NTX - 1 /\ tdt \in 0 .. NTX - 1
      /\ Intel!TxWaiting = IF tdh < tdt \/ (tdh = tdt /\ txLook = 0) THEN tdt - tdh ELSE tdt - tdh + NTX
      /\ Intel!TxWaiting \in 0 .. NTX
      /\ \A i \in Intel!TxSlots : (i - tdh) % NTX = IF tdh <= i THEN i - tdh ELSE i - tdh + NTX
      /\ (tdh + 1) % NTX = IF tdh = NTX - 1 THEN 0 ELSE tdh + 1
  BY TxFacts DEF TxInv
<1>2. /\ TxTypes /\ txLook # 0 /\ txLook = txFrame[tdh]
      /\ txPc \in {"fill", "ring"} => tdh # tdt
      /\ txWire' = txFrame[tdh]
      /\ txDone' = [txDone EXCEPT ![tdh] = TRUE]
      /\ tdh' = (IF tdh = NTX - 1 THEN 0 ELSE tdh + 1) /\ txLook' = 0
      /\ UNCHANGED <<txFrame, txUsed, tdt, txPc, txAsked>>
  BY <1>1 DEF Intel!CardSends, TxInv
<1>3. tdh' \in 0 .. NTX - 1
  BY <1>1, <1>2
<1>4. TxTypes'
  <2>1. txFrame[tdh] \in Nat /\ txDone' \in [Intel!TxSlots -> BOOLEAN]
    BY <1>1, <1>2 DEF TxTypes
  <2> QED BY <1>1, <1>2, <1>3, <2>1 DEF TxTypes
<1>5. Intel!TxWaiting' = IF tdh' < tdt \/ tdh' = tdt THEN tdt - tdh' ELSE tdt - tdh' + NTX
  <2>1. (TxTypes => Intel!TxWaiting = IF tdh < tdt \/ (tdh = tdt /\ txLook = 0)
                                THEN tdt - tdh ELSE tdt - tdh + NTX)'
    BY TxFacts, PTL
  <2> QED BY <1>2, <1>4, <2>1
<1>6. Intel!TxWaiting \in 1 .. NTX /\ Intel!TxWaiting' = Intel!TxWaiting - 1
  BY <1>1, <1>2, <1>3, <1>5
<1>7. \A i \in Intel!TxSlots : (i - tdh') % NTX < Intel!TxWaiting' => txUsed'[i] /\ ~ txDone'[i]
  <2> SUFFICES ASSUME NEW i \in Intel!TxSlots, (i - tdh') % NTX < Intel!TxWaiting'
               PROVE  txUsed'[i] /\ ~ txDone'[i]
    OBVIOUS
  <2>1. i \in 0 .. NTX - 1 /\ (i - tdh) % NTX = IF tdh <= i THEN i - tdh ELSE i - tdh + NTX
    BY <1>1
  <2>2. (i - tdh') % NTX = IF tdh' <= i THEN i - tdh' ELSE i - tdh' + NTX
    BY <1>3, <2>1, Around
  <2>3. (IF tdh' <= i THEN i - tdh' ELSE i - tdh' + NTX) < Intel!TxWaiting'
    BY <2>2
  <2>4. i # tdh /\ (IF tdh <= i THEN i - tdh ELSE i - tdh + NTX) < Intel!TxWaiting
    BY <1>1, <1>2, <1>6, <2>1, <2>3
  <2>5. txUsed[i] /\ ~ txDone[i]
    BY <2>1, <2>4 DEF TxInv
  <2> QED BY <1>2, <2>4, <2>5 DEF TxTypes
<1>8. TxInv'
  <2>1. txPc = "ring" => txFrame[tdt] = txAsked /\ txUsed[tdt] /\ ~ txDone'[tdt]
    BY <1>1, <1>2 DEF TxInv, TxTypes
  <2> QED BY <1>2, <1>4, <1>7, <2>1 DEF TxInv
<1>9. TxRingSeq # << >> /\ Head(TxRingSeq) = txWire' /\ Tail(TxRingSeq) = TxRingSeq'
  <2>1. txFrame \in [0 .. NTX - 1 -> Nat]
    BY <1>1, <1>2 DEF TxTypes
  <2>2. PICK n \in 1 .. NTX : n = Intel!TxWaiting
    BY <1>6
  <2>3. /\ TxRingSeq = Intel!Ring(txFrame, tdh, n, NTX)
        /\ TxRingSeq' = Intel!Ring(txFrame, (tdh + 1) % NTX, n - 1, NTX)
    BY <1>1, <1>2, <1>6, <2>2 DEF TxRingSeq
  <2>4. /\ Intel!Ring(txFrame, tdh, n, NTX) # << >>
        /\ Head(Intel!Ring(txFrame, tdh, n, NTX)) = txFrame[tdh]
        /\ Tail(Intel!Ring(txFrame, tdh, n, NTX)) = Intel!Ring(txFrame, (tdh + 1) % NTX, n - 1, NTX)
    BY <1>1, <2>1, RingTail
  <2> QED BY <1>2, <2>3, <2>4
<1>10. Intel!TxGiven' = Intel!TxGiven
  BY <1>2 DEF Intel!TxGiven
<1>11. QED BY <1>8, <1>9, <1>10 DEF Intel!TxQueue!Take, TxRingSeq

-----------------------------------------------------------------------------
(* The refinement. *)

LEMMA RxRests ==
  ASSUME RxInv, UNCHANGED Intel!rxVars
  PROVE  RxInv' /\ UNCHANGED Intel!RxQueue!vars
BY DEF RxInv, RxTypes, RxFilled, Intel!rxVars, Intel!RxQueue!vars, Intel!Ring

LEMMA TxRests ==
  ASSUME TxInv, UNCHANGED Intel!txVars
  PROVE  TxInv' /\ UNCHANGED Intel!TxQueue!vars
BY DEF TxInv, TxTypes, Intel!TxWaiting, Intel!TxGiven, Intel!txVars, Intel!TxQueue!vars, Intel!Ring

LEMMA RxSteps ==
  ASSUME Size(NRX), RxInv, [Intel!Next]_(Intel!vars)
  PROVE  RxInv' /\ [Intel!RxQueue!Next]_(Intel!RxQueue!vars)
<1>1. CASE Intel!CardReceives
  BY <1>1, RxCard DEF Intel!RxQueue!Next
<1>2. CASE Intel!PollCopy
  BY <1>2, RxCopy DEF Intel!RxQueue!vars, RxRing, RxFilled
<1>3. CASE Intel!PollRelease
  BY <1>3, RxRelease DEF Intel!RxQueue!Next
<1>4. CASE Intel!TxCall \/ Intel!TxReady \/ Intel!TxFill \/ Intel!TxRing \/ Intel!CardFetches \/ Intel!CardSends
  <2>1. UNCHANGED Intel!rxVars
    BY <1>4 DEF Intel!TxCall, Intel!TxReady, Intel!TxFill, Intel!TxRing, Intel!CardFetches, Intel!CardSends
  <2> QED BY <2>1, RxRests
<1>5. CASE UNCHANGED Intel!vars
  BY <1>5, RxRests DEF Intel!vars
<1>6. QED BY <1>1, <1>2, <1>3, <1>4, <1>5 DEF Intel!Next

(* A wait that ran out on a frame being read stays one. *)
LEMMA LateStays ==
  ASSUME txLate \in BOOLEAN, [Intel!Next]_(Intel!vars)
  PROVE  txLate' \in BOOLEAN /\ (~ txLate' => ~ txLate /\ txLate' = txLate)
<1>1. CASE Intel!TxReady
  BY <1>1 DEF Intel!TxReady
<1>2. CASE ~ Intel!TxReady
  BY <1>2 DEF Intel!Next, Intel!CardReceives, Intel!PollCopy, Intel!PollRelease, Intel!TxCall, Intel!TxFill, Intel!TxRing, Intel!CardFetches, Intel!CardSends,
     Intel!vars, Intel!txVars
<1>3. QED BY <1>1, <1>2

LEMMA TxStepsInTime ==
  ASSUME Size(NTX), txLate \in BOOLEAN, TxInv, [Intel!Next]_(Intel!vars), ~ txLate'
  PROVE  TxInv' /\ [Intel!TxQueue!Next]_(Intel!TxQueue!vars)
<1>0. ~ txLate /\ txLate' = txLate
  BY LateStays
<1>1. CASE Intel!TxCall \/ Intel!TxReady
  BY <1>0, <1>1, TxWaits DEF Intel!TxQueue!vars, TxRingSeq
<1>2. CASE Intel!TxFill
  BY <1>0, <1>2, TxFills DEF Intel!TxQueue!vars, TxRingSeq
<1>3. CASE Intel!TxRing
  BY <1>0, <1>3, TxRings DEF Intel!TxQueue!Next
<1>4. CASE Intel!CardFetches
  BY <1>0, <1>4, TxFetches DEF Intel!TxQueue!vars, TxRingSeq
<1>5. CASE Intel!CardSends
  BY <1>0, <1>5, TxSends DEF Intel!TxQueue!Next
<1>6. CASE Intel!CardReceives \/ Intel!PollCopy \/ Intel!PollRelease
  <2>1. UNCHANGED Intel!txVars
    BY <1>6 DEF Intel!CardReceives, Intel!PollCopy, Intel!PollRelease
  <2> QED BY <2>1, TxRests
<1>7. CASE UNCHANGED Intel!vars
  BY <1>7, TxRests DEF Intel!vars
<1>8. QED BY <1>1, <1>2, <1>3, <1>4, <1>5, <1>6, <1>7 DEF Intel!Next

(* Once a wait ran out on a frame being read nothing is promised. *)
TxSafe == txLate \in BOOLEAN /\ (~ txLate => TxInv)

LEMMA TxSteps ==
  ASSUME Size(NTX), TxSafe, [Intel!Next]_(Intel!vars)
  PROVE  TxSafe' /\ [Intel!TxQueue!Next]_(Intel!TxQueue!vars)
<1>0. txLate \in BOOLEAN /\ txLate' \in BOOLEAN
  BY LateStays DEF TxSafe
<1>1. CASE txLate'
  BY <1>0, <1>1 DEF Intel!TxQueue!Next, TxSafe
<1>2. CASE ~ txLate'
  BY <1>0, <1>2, LateStays, TxStepsInTime DEF TxSafe
<1>3. QED BY <1>1, <1>2

(* The frames in the receive buffers are frames that arrived, and only a   *)
(* descriptor that was used is ever done.                                  *)
RangeInv ==
  /\ arrived \in 0 .. MaxRx
  /\ \A i \in Intel!RxSlots : rxFrame[i] \in 0 .. MaxRx
  /\ tdh \in Intel!TxSlots /\ tdt \in Intel!TxSlots
  /\ txUsed \in [Intel!TxSlots -> BOOLEAN] /\ txDone \in [Intel!TxSlots -> BOOLEAN]
  /\ \A i \in Intel!TxSlots : txDone[i] => txUsed[i]
  /\ txLate => \A i \in Intel!TxSlots : txUsed[i]

LEMMA RangeInit ==
  ASSUME MaxRx \in Nat, Size(NTX), Intel!Init
  PROVE  RangeInv
BY DEF Intel!Init, RangeInv, Intel!RxSlots, Intel!TxSlots, Size

LEMMA RangeNext ==
  ASSUME MaxRx \in Nat, Size(NRX), Size(NTX), RxInv, TxSafe, RangeInv, [Intel!Next]_(Intel!vars)
  PROVE  RangeInv'
<1>0. RxTypes /\ NTX \in Nat /\ NTX > 0 /\ Intel!TxSlots = 0 .. NTX - 1
  BY DEF RxInv, Size, Intel!TxSlots
<1>1. /\ (tdt + 1) % NTX \in Intel!TxSlots /\ (tdh + 1) % NTX \in Intel!TxSlots
  BY <1>0 DEF RangeInv
(* A wait runs out only on a ring that is full: each of its descriptors is used. *)
<1>2. ASSUME Intel!TxReady, txLate'
      PROVE  \A i \in Intel!TxSlots : txUsed[i]
  <2>1. CASE txLate
    BY <2>1 DEF RangeInv
  <2>2. CASE ~ txLate
    <3>1. TxInv /\ TxTypes /\ txLook # 0 /\ tdh = tdt
      BY <1>2, <2>2 DEF Intel!TxReady, Intel!Reading, TxInv, TxSafe
    <3>2. /\ Intel!TxWaiting = tdt - tdh + NTX /\ tdh \in 0 .. NTX - 1
          /\ \A i \in Intel!TxSlots : (i - tdh) % NTX = IF tdh <= i THEN i - tdh ELSE i - tdh + NTX
      BY <3>1, TxFacts
    <3>3. \A i \in Intel!TxSlots : (i - tdh) % NTX < Intel!TxWaiting
      BY <1>0, <3>1, <3>2
    <3> QED BY <3>1, <3>3 DEF TxInv
  <2> QED BY <2>1, <2>2
<1>3. CASE Intel!CardReceives
  <2>1. arrived' \in 0 .. MaxRx /\ UNCHANGED Intel!txVars
    BY <1>3 DEF Intel!CardReceives, RangeInv
  <2>2. \A i \in Intel!RxSlots : rxFrame'[i] \in 0 .. MaxRx
    BY <1>0, <1>3, <2>1 DEF Intel!CardReceives, RangeInv, RxTypes
  <2> QED BY <2>1, <2>2 DEF RangeInv, Intel!txVars
<1>4. CASE Intel!PollCopy \/ Intel!PollRelease
  BY <1>4 DEF Intel!PollCopy, Intel!PollRelease, RangeInv, Intel!txVars
<1>5. CASE Intel!TxCall \/ Intel!TxRing \/ Intel!CardFetches
  BY <1>1, <1>5 DEF Intel!TxCall, Intel!TxRing, Intel!CardFetches, RangeInv, Intel!rxVars
<1>6. CASE Intel!TxReady
  BY <1>2, <1>6 DEF Intel!TxReady, RangeInv, Intel!rxVars
<1>7. CASE Intel!TxFill
  BY <1>7 DEF Intel!TxFill, RangeInv, Intel!rxVars
<1>8. CASE Intel!CardSends
  <2>1. txUsed[tdh]
    <3>1. CASE txLate
      BY <3>1 DEF RangeInv
    <3>2. CASE ~ txLate
      <4>1. TxInv /\ TxTypes
        BY <3>2 DEF TxInv, TxSafe
      <4>2. /\ tdh \in 0 .. NTX - 1 /\ tdt \in 0 .. NTX - 1
            /\ Intel!TxWaiting = IF tdh < tdt \/ (tdh = tdt /\ txLook = 0) THEN tdt - tdh ELSE tdt - tdh + NTX
            /\ \A i \in Intel!TxSlots : (i - tdh) % NTX = IF tdh <= i THEN i - tdh ELSE i - tdh + NTX
        BY <4>1, TxFacts
      <4>3. txLook # 0
        BY <1>8 DEF Intel!CardSends
      <4>4. Intel!TxWaiting >= 1
        BY <1>0, <4>2, <4>3
      <4>5. tdh \in Intel!TxSlots /\ (tdh - tdh) % NTX < Intel!TxWaiting
        BY <1>0, <4>2, <4>4
      <4> QED BY <4>1, <4>5 DEF TxInv
    <3> QED BY <3>1, <3>2
  <2>2. /\ UNCHANGED <<txUsed, arrived, rxFrame, tdt, txLate>> /\ txDone' = [txDone EXCEPT ![tdh] = TRUE]
        /\ tdh' = (tdh + 1) % NTX
    BY <1>8 DEF Intel!CardSends, Intel!rxVars
  <2> QED BY <1>1, <2>1, <2>2 DEF RangeInv
<1>9. CASE UNCHANGED Intel!vars
  BY <1>9 DEF Intel!vars, Intel!rxVars, Intel!txVars, RangeInv
<1>10. QED BY <1>3, <1>4, <1>5, <1>6, <1>7, <1>8, <1>9 DEF Intel!Next

LEMMA RangeTypeOK ==
  ASSUME RxInv, RangeInv
  PROVE  Intel!TypeOK
BY DEF RxInv, RxTypes, RangeInv, Intel!TypeOK

IntelInv == RxInv /\ TxSafe /\ RangeInv

LEMMA IntelInitially ==
  ASSUME IntelSizes, Intel!Init
  PROVE  IntelInv /\ Intel!RxQueue!Init /\ Intel!TxQueue!Init
<1>1. Size(NRX) /\ Size(NTX)
  BY DEF Size, IntelSizes
<1>2. txLate = FALSE
  BY DEF Intel!Init
<1>3. QED BY <1>1, <1>2, RxInit, TxInit, RangeInit DEF IntelInv, TxSafe, IntelSizes

LEMMA IntelStepKeeps ==
  ASSUME IntelSizes, IntelInv, [Intel!Next]_(Intel!vars)
  PROVE  /\ IntelInv'
         /\ Intel!RxQueue!Next \/ UNCHANGED Intel!RxQueue!vars
         /\ Intel!TxQueue!Next \/ UNCHANGED Intel!TxQueue!vars
<1>1. Size(NRX) /\ Size(NTX)
  BY DEF Size, IntelSizes
<1>2. QED BY <1>1, RxSteps, TxSteps, RangeNext DEF IntelInv, IntelSizes

LEMMA IntelTypeOK == ASSUME IntelInv PROVE Intel!TypeOK
BY RangeTypeOK DEF IntelInv

(* With rings of any sizes, and whatever the pace of card and driver,        *)
(* e1000_poll hands net_poll the frames whole, once and in the order the     *)
(* card saw them, and the wire gets those of e1000_tx the same way until a   *)
(* wait of e1000_tx runs out on the frame the card is reading; all that can  *)
(* happen to a frame otherwise is that it is lost.                           *)
THEOREM E1000Queues ==
  ASSUME NRX \in Nat \ {0}, NTX \in Nat \ {0}
  PROVE  Intel!Spec => Intel!RingsAreQueues
<1>1. Size(NRX) /\ Size(NTX)
  BY DEF Size
<1>2. Intel!Spec => Intel!RxQueue!Spec
  <2>1. Intel!Init => RxInv /\ Intel!RxQueue!Init
    BY <1>1, RxInit
  <2>2. RxInv /\ [Intel!Next]_(Intel!vars) => RxInv' /\ [Intel!RxQueue!Next]_(Intel!RxQueue!vars)
    BY <1>1, RxSteps
  <2> QED BY <2>1, <2>2, PTL DEF Intel!Spec, Intel!RxQueue!Spec
<1>3. Intel!Spec => Intel!TxQueue!Spec
  <2>1. Intel!Init => TxSafe /\ Intel!TxQueue!Init
    BY <1>1, TxInit DEF Intel!Init, TxSafe
  <2>2. TxSafe /\ [Intel!Next]_(Intel!vars) => TxSafe' /\ [Intel!TxQueue!Next]_(Intel!TxQueue!vars)
    BY <1>1, TxSteps
  <2> QED BY <2>1, <2>2, PTL DEF Intel!Spec, Intel!TxQueue!Spec
<1>4. QED BY <1>2, <1>3 DEF Intel!RingsAreQueues

-----------------------------------------------------------------------------
(* The NE2000: the frames between BNRY and CURR, and the one that is sent.   *)

(* The pages modulo the size of the ring, as comparisons.                  *)
LEMMA NeModulo ==
  ASSUME NEW R \in Nat, R >= 2, NEW a \in 0 .. R - 1
  PROVE  /\ (a + 1) % R = IF a = R - 1 THEN 0 ELSE a + 1
         /\ (a + (-1)) % R = IF a = 0 THEN R - 1 ELSE a - 1
         /\ \A j \in 0 .. R : (a + j) % R = IF a + j < R THEN a + j ELSE a + j - R
         /\ \A b \in 0 .. R - 1 : (b - a) % R = IF a <= b THEN b - a ELSE b - a + R
         /\ \A b \in 0 .. R - 1 : (b - a - 1) % R = IF a < b THEN b - a - 1 ELSE b - a - 1 + R
<1>1. (a + 1) % R = IF a = R - 1 THEN 0 ELSE a + 1
  OBVIOUS
<1>2. (a + (-1)) % R = IF a = 0 THEN R - 1 ELSE a - 1
  OBVIOUS
<1>3. ASSUME NEW j \in 0 .. R
      PROVE  (a + j) % R = IF a + j < R THEN a + j ELSE a + j - R
  OBVIOUS
<1>4. ASSUME NEW b \in 0 .. R - 1
      PROVE  (b - a) % R = IF a <= b THEN b - a ELSE b - a + R
  OBVIOUS
<1>5. ASSUME NEW b \in 0 .. R - 1
      PROVE  (b - a - 1) % R = IF a < b THEN b - a - 1 ELSE b - a - 1 + R
  OBVIOUS
<1>6. QED BY <1>1, <1>2, <1>3, <1>4, <1>5

NeTypes == /\ page \in [Novell!RxPage -> 0 .. MaxStored] /\ nextPage \in [Novell!RxPage -> Novell!RxPage]
           /\ curr \in Novell!RxPage /\ bnry \in Novell!RxPage
           /\ came \in 0 .. MaxStored

(* The pages with frames: the first of them, how many there are, and the    *)
(* page d places behind the first.                                          *)
NeFirst == Novell!After(bnry, 1)
NeHeld == (curr - NeFirst) % RxPages
NePlace(d) == IF NeFirst + d < RxPages THEN NeFirst + d ELSE NeFirst + d - RxPages

(* The places where a frame starts, up to the first page that is free.      *)
NeStarts(S) ==
  /\ S \in SUBSET (0 .. NeHeld) /\ 0 \in S /\ NeHeld \in S
  /\ \A d \in S : d # NeHeld => \E e \in S : d < e /\ nextPage[NePlace(d)] = NePlace(e)

NeRxInv ==
  /\ NeTypes
  /\ \E S : NeStarts(S)
  /\ header # <<>> => header = <<NeFirst, nextPage[NeFirst]>> /\ NeFirst # curr

LEMMA NeFacts ==
  ASSUME NovellSizes, NeTypes
  PROVE  /\ Novell!RxPage = 0 .. RxPages - 1
         /\ NeFirst \in Novell!RxPage /\ NeFirst = IF bnry = RxPages - 1 THEN 0 ELSE bnry + 1
         /\ NeHeld \in 0 .. RxPages - 1
         /\ NeHeld = IF NeFirst <= curr THEN curr - NeFirst ELSE curr - NeFirst + RxPages
         /\ (bnry - curr) % RxPages = RxPages - 1 - NeHeld
         /\ \A d \in 0 .. RxPages - 1 : NePlace(d) \in Novell!RxPage
         /\ \A d, e \in 0 .. RxPages - 1 : NePlace(d) = NePlace(e) => d = e
         /\ NePlace(0) = NeFirst /\ NePlace(NeHeld) = curr
<1>1. Novell!RxPage = 0 .. RxPages - 1 /\ bnry \in 0 .. RxPages - 1 /\ curr \in 0 .. RxPages - 1
      /\ RxPages \in Nat /\ RxPages >= 2
  BY DEF NeTypes, Novell!RxPage, NovellSizes
<1>2. NeFirst = IF bnry = RxPages - 1 THEN 0 ELSE bnry + 1
  BY <1>1, NeModulo DEF NeFirst, Novell!After
<1>3. NeFirst \in 0 .. RxPages - 1
  BY <1>1, <1>2
<1>4. NeHeld = IF NeFirst <= curr THEN curr - NeFirst ELSE curr - NeFirst + RxPages
  BY <1>1, <1>3, NeModulo DEF NeHeld
<1>5. (bnry - curr) % RxPages = IF curr <= bnry THEN bnry - curr ELSE bnry - curr + RxPages
  BY <1>1, NeModulo
<1>6. NeHeld \in 0 .. RxPages - 1 /\ RxPages - 1 - NeHeld = IF curr <= bnry THEN bnry - curr ELSE bnry - curr + RxPages
  BY <1>1, <1>2, <1>3, <1>4
<1>7. \A d \in 0 .. RxPages - 1 : NePlace(d) \in 0 .. RxPages - 1
  BY <1>1, <1>3 DEF NePlace
<1>8. \A d, e \in 0 .. RxPages - 1 : NePlace(d) = NePlace(e) => d = e
  BY <1>1, <1>3 DEF NePlace
<1>9. NePlace(0) = NeFirst /\ NePlace(NeHeld) = curr
  BY <1>1, <1>3, <1>4, <1>6 DEF NePlace
<1>10. QED BY <1>1, <1>2, <1>3, <1>4, <1>5, <1>6, <1>7, <1>8, <1>9

(* The pages of a frame are those from its start to the next.               *)
LEMMA NeSpan ==
  ASSUME NovellSizes, NeTypes, NEW d \in 0 .. RxPages - 1, NEW e \in 0 .. RxPages - 1, d < e
  PROVE  \A q \in Novell!Span(NePlace(d), NePlace(e)) : \E x \in d .. e - 1 : q = NePlace(x)
<1>1. RxPages \in Nat /\ RxPages >= 2 /\ NeFirst \in 0 .. RxPages - 1
      /\ NePlace(d) \in 0 .. RxPages - 1 /\ NePlace(e) \in 0 .. RxPages - 1
  BY NeFacts DEF NovellSizes
<1>2. (NePlace(e) - NePlace(d) - 1) % RxPages = e - d - 1
  <2>1. (NePlace(e) - NePlace(d) - 1) % RxPages =
          IF NePlace(d) < NePlace(e) THEN NePlace(e) - NePlace(d) - 1 ELSE NePlace(e) - NePlace(d) - 1 + RxPages
    BY <1>1, NeModulo
  <2> QED BY <1>1, <2>1 DEF NePlace
<1>3. ASSUME NEW i \in 0 .. e - d - 1
      PROVE  Novell!After(NePlace(d), i) = NePlace(d + i) /\ d + i \in d .. e - 1
  <2>1. i \in 0 .. RxPages
    BY <1>1
  <2>2. \A j \in 0 .. RxPages :
          (NePlace(d) + j) % RxPages = IF NePlace(d) + j < RxPages THEN NePlace(d) + j ELSE NePlace(d) + j - RxPages
    BY <1>1, NeModulo
  <2> QED BY <1>1, <2>1, <2>2 DEF NePlace, Novell!After
<1>4. QED BY <1>2, <1>3 DEF Novell!Span

-----------------------------------------------------------------------------
(* The frames in the pages. *)


NeFrame(p) == Novell!Copied(p, nextPage[p])

LEMMA NeFrameType ==
  ASSUME NovellSizes, NeTypes, NEW p \in Novell!RxPage, NEW q
  PROVE  Novell!Copied(p, q) \in Nat
BY DEF NovellSizes, NeTypes, Novell!Copied, Novell!Torn

LEMMA NeSeqs ==
  ASSUME NEW x \in Nat, NEW s \in Seq(Nat), NEW v \in Nat
  PROVE  /\ <<x>> \o s \in Seq(Nat) /\ <<x>> \o s # <<>>
         /\ Head(<<x>> \o s) = x /\ Tail(<<x>> \o s) = s
         /\ Append(<<x>> \o s, v) = <<x>> \o Append(s, v)
         /\ Append(<<>>, v) = <<v>> \o <<>>
  OBVIOUS

(* FramesFrom is defined by recursion: there is such a function.           *)
LEMMA NeFrames ==
  ASSUME NovellSizes, NeTypes
  PROVE  \A n \in 0 .. RxPages, p \in Novell!RxPage :
           /\ Novell!FramesFrom[n][p] \in Seq(Nat)
           /\ Novell!FramesFrom[n][p] = IF n = 0 \/ p = curr THEN <<>>
                                 ELSE <<NeFrame(p)>> \o Novell!FramesFrom[n - 1][nextPage[p]]
<1> DEFINE S == [Novell!RxPage -> Seq(Nat)]
           none == [p \in Novell!RxPage |-> <<>>]
           step(h) == [p \in Novell!RxPage |-> IF p = curr THEN <<>> ELSE <<NeFrame(p)>> \o h[nextPage[p]]]
           F == [k \in 1 .. RxPages |-> [h \in S |-> step(h)]]
           G(f) == [n \in 0 .. RxPages |-> [p \in Novell!RxPage |->
                      IF n = 0 \/ p = curr THEN <<>>
                      ELSE <<Novell!Copied(p, nextPage[p])>> \o f[n - 1][nextPage[p]]]]
<1>1. RxPages \in Nat
  BY DEF NovellSizes
<1>2. none \in S
  OBVIOUS
<1>3. ASSUME NEW h \in S
      PROVE  step(h) \in S
  <2>1. ASSUME NEW p \in Novell!RxPage
        PROVE  (IF p = curr THEN <<>> ELSE <<NeFrame(p)>> \o h[nextPage[p]]) \in Seq(Nat)
    <3>1. NeFrame(p) \in Nat /\ nextPage[p] \in Novell!RxPage
      BY NeFrameType DEF NeFrame, NeTypes
    <3>2. h[nextPage[p]] \in Seq(Nat)
      BY <3>1
    <3> QED BY <3>1, <3>2, NeSeqs
  <2> QED BY <2>1
<1>4. F \in [1 .. RxPages -> [S -> S]]
  BY <1>3
<1>5. PICK g : g \in [0 .. RxPages -> S] /\ Iterates(g, none, RxPages, F)
  <2> HIDE DEF F, S, none
  <2> QED BY <1>1, <1>2, <1>4, RecursionExists
<1>6. g[0] = none /\ \A k \in 1 .. RxPages : g[k] = step(g[k - 1])
  <2>1. g[0] = none /\ \A k \in 1 .. RxPages : g[k] = F[k][g[k - 1]]
    BY <1>5 DEF Iterates
  <2>2. ASSUME NEW k \in 1 .. RxPages
        PROVE  F[k][g[k - 1]] = step(g[k - 1])
    <3>1. g[k - 1] \in S
      BY <1>1, <1>5
    <3> HIDE DEF S, step
    <3> QED BY <3>1
  <2> QED BY <2>1, <2>2, Zenon
<1>7. ASSUME NEW n \in 0 .. RxPages
      PROVE  g[n] = [p \in Novell!RxPage |-> IF n = 0 \/ p = curr THEN <<>>
                                      ELSE <<Novell!Copied(p, nextPage[p])>> \o g[n - 1][nextPage[p]]]
  <2>1. CASE n = 0
    BY <1>6, <2>1
  <2>2. CASE n # 0
    <3>1. n \in 1 .. RxPages
      BY <1>1, <2>2
    <3> QED BY <1>6, <2>2, <3>1 DEF NeFrame
  <2> QED BY <2>1, <2>2
<1>8. g = G(g)
  BY <1>5, <1>7
<1>9. Novell!FramesFrom = G(Novell!FramesFrom)
  <2>1. \E f : f = G(f)
    BY <1>8
  <2>2. Novell!FramesFrom = CHOOSE f : f = G(f)
    BY DEF Novell!FramesFrom
  <2> HIDE DEF G
  <2> QED BY <2>1, <2>2
<1>10. ASSUME NEW n \in 0 .. RxPages
       PROVE  Novell!FramesFrom[n] = [p \in Novell!RxPage |-> IF n = 0 \/ p = curr THEN <<>>
                                ELSE <<Novell!Copied(p, nextPage[p])>> \o Novell!FramesFrom[n - 1][nextPage[p]]]
  BY <1>9, Zenon
<1>11. Novell!FramesFrom[0] \in S /\ \A k \in 1 .. RxPages : Novell!FramesFrom[k] = step(Novell!FramesFrom[k - 1])
  <2>1. 0 \in 0 .. RxPages /\ \A k \in 1 .. RxPages : k \in 0 .. RxPages /\ k # 0
    BY <1>1
  <2>2. Novell!FramesFrom[0] = none
    BY <1>10, <2>1
  <2>3. ASSUME NEW k \in 1 .. RxPages
        PROVE  Novell!FramesFrom[k] = step(Novell!FramesFrom[k - 1])
    BY <1>10, <2>1 DEF NeFrame
  <2> QED BY <1>2, <2>2, <2>3
<1>12. \A n \in 0 .. RxPages : Novell!FramesFrom[n] \in S
  <2> TAKE n \in 0 .. RxPages
  <2>1. \A k \in 1 .. n : Novell!FramesFrom[k - 1] \in S => Novell!FramesFrom[k] \in S
    <3>1. \A k \in 1 .. n : k \in 1 .. RxPages
      BY <1>1
    <3> HIDE DEF S, step
    <3> QED BY <1>3, <1>11, <3>1
  <2>2. n \in Nat /\ Novell!FramesFrom[0] \in S
    BY <1>11
  <2> HIDE DEF S
  <2> QED BY <2>1, <2>2, RecursionStays
<1>13. QED BY <1>10, <1>12 DEF NeFrame

(* How many steps are allowed does not matter once there are enough.       *)
LEMMA NeFuel ==
  ASSUME NovellSizes, NeTypes, NEW S, NeStarts(S)
  PROVE  \A d \in S, m, n \in 0 .. RxPages :
           NeHeld - d <= m /\ NeHeld - d <= n => Novell!FramesFrom[m][NePlace(d)] = Novell!FramesFrom[n][NePlace(d)]
<1> DEFINE Same(m) == \A d \in S, n \in 0 .. RxPages :
             NeHeld - d <= m /\ NeHeld - d <= n => Novell!FramesFrom[m][NePlace(d)] = Novell!FramesFrom[n][NePlace(d)]
           T == {m \in Nat : m <= RxPages => Same(m)}
<1>1. RxPages \in Nat /\ NeHeld \in 0 .. RxPages - 1 /\ S \subseteq 0 .. NeHeld /\ NePlace(NeHeld) = curr
      /\ curr \in Novell!RxPage /\ \A d \in 0 .. RxPages - 1 : NePlace(d) \in Novell!RxPage
  BY NeFacts DEF NovellSizes, NeStarts, NeTypes
<1>2. \A n \in 0 .. RxPages : Novell!FramesFrom[n][curr] = <<>>
  BY <1>1, NeFrames
<1>3. 0 \in T
  <2> SUFFICES ASSUME NEW d \in S, NEW n \in 0 .. RxPages, NeHeld - d <= 0
               PROVE  Novell!FramesFrom[0][NePlace(d)] = Novell!FramesFrom[n][NePlace(d)]
    OBVIOUS
  <2>1. d = NeHeld /\ 0 \in 0 .. RxPages
    BY <1>1
  <2> QED BY <1>1, <1>2, <2>1
<1>4. ASSUME NEW m \in T
      PROVE  m + 1 \in T
  <2> SUFFICES ASSUME m + 1 <= RxPages, NEW d \in S, NEW n \in 0 .. RxPages,
                      NeHeld - d <= m + 1, NeHeld - d <= n
               PROVE  Novell!FramesFrom[m + 1][NePlace(d)] = Novell!FramesFrom[n][NePlace(d)]
    OBVIOUS
  <2>1. m \in Nat /\ m <= RxPages /\ m + 1 \in 0 .. RxPages /\ (m + 1) - 1 = m
    BY <1>1
  <2>2. Same(m)
    <3>1. m <= RxPages => Same(m)
      <4> HIDE DEF Same
      <4> QED OBVIOUS
    <3> QED BY <2>1, <3>1
  <2>3. CASE d = NeHeld
    BY <1>1, <1>2, <2>1, <2>3
  <2>4. CASE d # NeHeld
    <3>1. PICK e \in S : d < e /\ nextPage[NePlace(d)] = NePlace(e)
      BY <2>4 DEF NeStarts
    <3>2. d \in 0 .. RxPages - 1 /\ d < NeHeld /\ e \in 0 .. NeHeld /\ n # 0 /\ m + 1 # 0
          /\ n - 1 \in 0 .. RxPages /\ NeHeld - e <= m /\ NeHeld - e <= n - 1
      BY <1>1, <2>1, <2>4, <3>1
    <3>3. NePlace(d) \in Novell!RxPage /\ NePlace(d) # curr
      BY <1>1, <2>4, <3>2, NeFacts
    <3>4. /\ Novell!FramesFrom[m + 1][NePlace(d)] = <<NeFrame(NePlace(d))>> \o Novell!FramesFrom[m][NePlace(e)]
          /\ Novell!FramesFrom[n][NePlace(d)] = <<NeFrame(NePlace(d))>> \o Novell!FramesFrom[n - 1][NePlace(e)]
      BY <2>1, <3>1, <3>2, <3>3, NeFrames
    <3>5. Novell!FramesFrom[m][NePlace(e)] = Novell!FramesFrom[n - 1][NePlace(e)]
      BY <2>2, <3>2
    <3> QED BY <3>4, <3>5
  <2> QED BY <2>3, <2>4
<1> HIDE DEF Same
<1>5. T \in SUBSET Nat
  OBVIOUS
<1> HIDE DEF T
<1>6. \A m \in Nat : m \in T
  BY <1>3, <1>4, <1>5, Induction
<1>7. \A m \in 0 .. RxPages : Same(m)
  BY <1>1, <1>6 DEF T
<1>8. QED BY <1>7 DEF Same

-----------------------------------------------------------------------------
(* What the card stores is put behind the frames that wait.                *)

LEMMA NeFramesNext ==
  ASSUME NovellSizes
  PROVE  (NeTypes => \A n \in 0 .. RxPages, p \in Novell!RxPage :
           /\ Novell!FramesFrom[n][p] \in Seq(Nat)
           /\ Novell!FramesFrom[n][p] = IF n = 0 \/ p = curr THEN <<>>
                                 ELSE <<NeFrame(p)>> \o Novell!FramesFrom[n - 1][nextPage[p]])'
BY NeFrames, PTL

(* A frame of k pages is stored behind the others.                         *)
NeStoring(k) ==
  /\ k \in 1 .. 2 /\ k <= RxPages - 1 - NeHeld
  /\ came' = came + 1 /\ came' \in 0 .. MaxStored
  /\ page' = [p \in Novell!RxPage |-> IF \E i \in 0 .. k - 1 : p = Novell!After(curr, i) THEN came' ELSE page[p]]
  /\ nextPage' = [nextPage EXCEPT ![curr] = Novell!After(curr, k)]
  /\ curr' = Novell!After(curr, k)
  /\ bnry' = bnry

LEMMA NeStored ==
  ASSUME NovellSizes, NeTypes, NEW k, NeStoring(k)
  PROVE  /\ NeTypes'
         /\ NeFirst' = NeFirst /\ NeHeld' = NeHeld + k /\ NeHeld + k \in 0 .. RxPages - 1
         /\ curr' = NePlace(NeHeld + k) /\ nextPage'[curr] = NePlace(NeHeld + k)
         /\ \A d \in 0 .. RxPages - 1 : NePlace(d)' = NePlace(d)
         /\ \A d \in 0 .. NeHeld - 1 : /\ page'[NePlace(d)] = page[NePlace(d)]
                                       /\ nextPage'[NePlace(d)] = nextPage[NePlace(d)]
         /\ \A d \in NeHeld .. NeHeld + k - 1 : page'[NePlace(d)] = came'
<1>1. /\ RxPages \in Nat /\ RxPages >= 2 /\ Novell!RxPage = 0 .. RxPages - 1
      /\ curr \in 0 .. RxPages - 1 /\ NeFirst \in 0 .. RxPages - 1
      /\ NeHeld \in 0 .. RxPages - 1 /\ NeHeld = IF NeFirst <= curr THEN curr - NeFirst ELSE curr - NeFirst + RxPages
      /\ \A d \in 0 .. RxPages - 1 : NePlace(d) \in Novell!RxPage
      /\ \A d, e \in 0 .. RxPages - 1 : NePlace(d) = NePlace(e) => d = e
      /\ NePlace(NeHeld) = curr
  BY NeFacts DEF NovellSizes, NeTypes
<1>2. k \in 1 .. 2 /\ k <= RxPages - 1 - NeHeld
  BY DEF NeStoring
<1>3. ASSUME NEW i \in 0 .. k
      PROVE  Novell!After(curr, i) = NePlace(NeHeld + i) /\ NeHeld + i \in 0 .. RxPages - 1
  <2>1. i \in 0 .. RxPages /\ NeHeld + i \in 0 .. RxPages - 1
    BY <1>1, <1>2
  <2>2. \A j \in 0 .. RxPages : (curr + j) % RxPages = IF curr + j < RxPages THEN curr + j ELSE curr + j - RxPages
    BY <1>1, NeModulo
  <2> QED BY <1>1, <2>1, <2>2 DEF NePlace, Novell!After
<1>4. Novell!After(curr, k) = NePlace(NeHeld + k) /\ NeHeld + k \in 0 .. RxPages - 1 /\ NePlace(NeHeld + k) \in Novell!RxPage
  <2>1. k \in 0 .. k
    BY <1>2
  <2> QED BY <1>1, <1>3, <2>1
<1>5. NeFirst' = NeFirst
  BY DEF NeFirst, NeStoring
<1>6. curr' = NePlace(NeHeld + k)
  BY <1>4 DEF NeStoring
<1>7. NeHeld' = NeHeld + k
  <2>1. NePlace(NeHeld + k) \in 0 .. RxPages - 1
    BY <1>1, <1>4
  <2>2. NeHeld' = (NePlace(NeHeld + k) - NeFirst) % RxPages
    BY <1>5, <1>6 DEF NeHeld
  <2>3. \A b \in 0 .. RxPages - 1 : (b - NeFirst) % RxPages = IF NeFirst <= b THEN b - NeFirst ELSE b - NeFirst + RxPages
    BY <1>1, NeModulo
  <2>4. NeHeld' = IF NeFirst <= NePlace(NeHeld + k) THEN NePlace(NeHeld + k) - NeFirst ELSE NePlace(NeHeld + k) - NeFirst + RxPages
    BY <2>1, <2>2, <2>3
  <2> QED BY <1>1, <1>4, <2>4 DEF NePlace
<1>8. \A d \in 0 .. RxPages - 1 : NePlace(d)' = NePlace(d)
  BY <1>5 DEF NePlace
<1>9. ASSUME NEW d \in 0 .. NeHeld - 1
      PROVE  page'[NePlace(d)] = page[NePlace(d)] /\ nextPage'[NePlace(d)] = nextPage[NePlace(d)]
  <2>1. d \in 0 .. RxPages - 1 /\ NePlace(d) \in Novell!RxPage /\ NePlace(d) # curr
    BY <1>1
  <2>2. \A i \in 0 .. k - 1 : NePlace(d) # Novell!After(curr, i)
    <3> TAKE i \in 0 .. k - 1
    <3>1. i \in 0 .. k /\ d # NeHeld + i
      BY <1>1, <1>2
    <3> QED BY <1>1, <1>3, <2>1, <3>1
  <2> QED BY <2>1, <2>2 DEF NeStoring, NeTypes
<1>10. ASSUME NEW d \in NeHeld .. NeHeld + k - 1
       PROVE  page'[NePlace(d)] = came'
  <2>1. d - NeHeld \in 0 .. k - 1 /\ d - NeHeld \in 0 .. k /\ NeHeld + (d - NeHeld) = d /\ d \in 0 .. RxPages - 1
    BY <1>1, <1>2
  <2>2. NePlace(d) = Novell!After(curr, d - NeHeld) /\ NePlace(d) \in Novell!RxPage
    BY <1>1, <1>3, <2>1
  <2> QED BY <2>1, <2>2 DEF NeStoring
<1>11. nextPage'[curr] = NePlace(NeHeld + k)
  BY <1>4 DEF NeStoring, NeTypes
<1>12. NeTypes'
  <2>1. page' \in [Novell!RxPage -> 0 .. MaxStored]
    <3>1. \A p \in Novell!RxPage : (IF \E i \in 0 .. k - 1 : p = Novell!After(curr, i) THEN came' ELSE page[p]) \in 0 .. MaxStored
      BY DEF NeStoring, NeTypes
    <3> QED BY <3>1 DEF NeStoring
  <2>2. nextPage' \in [Novell!RxPage -> Novell!RxPage]
    BY <1>4 DEF NeStoring, NeTypes
  <2>3. curr' \in Novell!RxPage /\ bnry' \in Novell!RxPage /\ came' \in 0 .. MaxStored
    BY <1>4, <1>6 DEF NeStoring, NeTypes
  <2> QED BY <2>1, <2>2, <2>3 DEF NeTypes
<1>13. QED BY <1>4, <1>5, <1>6, <1>7, <1>8, <1>9, <1>10, <1>11, <1>12


(* What a copy of the pages from p up to q yields, of these contents.      *)
NeCopyOf(pages, p, q) == IF \A x \in Novell!Span(p, q) : pages[x] = pages[p] THEN pages[p] ELSE Novell!Torn

LEMMA NeAppends ==
  ASSUME NovellSizes, NeTypes, NEW k, NeStoring(k), NEW S, NeStarts(S)
  PROVE  \A d \in S, m \in 0 .. RxPages :
           NeHeld + k - d <= m => Novell!FramesFrom'[m][NePlace(d)] = Append(Novell!FramesFrom[m][NePlace(d)], came')
<1> DEFINE Grown(m) == \A d \in S :
             NeHeld + k - d <= m => Novell!FramesFrom'[m][NePlace(d)] = Append(Novell!FramesFrom[m][NePlace(d)], came')
           T == {m \in Nat : m <= RxPages => Grown(m)}
<1>1. /\ RxPages \in Nat /\ NeHeld \in 0 .. RxPages - 1 /\ S \subseteq 0 .. NeHeld /\ NePlace(NeHeld) = curr
      /\ curr \in Novell!RxPage /\ \A d \in 0 .. RxPages - 1 : NePlace(d) \in Novell!RxPage
      /\ \A d, e \in 0 .. RxPages - 1 : NePlace(d) = NePlace(e) => d = e
  BY NeFacts DEF NovellSizes, NeStarts, NeTypes
<1>2. /\ NeHeld + k \in 0 .. RxPages - 1 /\ curr' = NePlace(NeHeld + k) /\ nextPage'[curr] = NePlace(NeHeld + k)
      /\ \A d \in 0 .. NeHeld - 1 : page'[NePlace(d)] = page[NePlace(d)] /\ nextPage'[NePlace(d)] = nextPage[NePlace(d)]
      /\ \A d \in NeHeld .. NeHeld + k - 1 : page'[NePlace(d)] = came'
      /\ NeTypes' /\ k \in 1 .. 2 /\ came' \in Nat
  <2>1. k \in 1 .. 2 /\ came' \in Nat
    BY DEF NeStoring, NovellSizes
  <2> QED BY <2>1, NeStored
<1>3. \A n \in 0 .. RxPages, p \in Novell!RxPage :
        /\ Novell!FramesFrom[n][p] \in Seq(Nat)
        /\ Novell!FramesFrom[n][p] = IF n = 0 \/ p = curr THEN <<>>
                              ELSE <<Novell!Copied(p, nextPage[p])>> \o Novell!FramesFrom[n - 1][nextPage[p]]
  BY NeFrames DEF NeFrame
<1>4. \A n \in 0 .. RxPages, p \in Novell!RxPage :
        Novell!FramesFrom'[n][p] = IF n = 0 \/ p = curr' THEN <<>>
                            ELSE <<NeCopyOf(page', p, nextPage'[p])>> \o Novell!FramesFrom'[n - 1][nextPage'[p]]
  BY <1>2, NeFramesNext DEF NeFrame, Novell!Copied, NeCopyOf, Novell!RxPage, Novell!Span, Novell!After
<1>5. NePlace(NeHeld + k) \in Novell!RxPage /\ curr # NePlace(NeHeld + k)
  BY <1>1, <1>2
(* The new frame. *)
<1>6. NeCopyOf(page', curr, NePlace(NeHeld + k)) = came'
  <2>1. \A q \in Novell!Span(curr, NePlace(NeHeld + k)) : page'[q] = came'
    <3>1. \A q \in Novell!Span(NePlace(NeHeld), NePlace(NeHeld + k)) : \E x \in NeHeld .. NeHeld + k - 1 : q = NePlace(x)
      BY <1>1, <1>2, NeSpan
    <3> QED BY <1>1, <1>2, <3>1
  <2>2. page'[curr] = came'
    BY <1>1, <1>2
  <2> QED BY <2>1, <2>2 DEF NeCopyOf
<1>7. \A m \in 1 .. RxPages : Novell!FramesFrom'[m][curr] = <<came'>> \o <<>>
  <2> TAKE m \in 1 .. RxPages
  <2>1. m \in 0 .. RxPages /\ m # 0 /\ m - 1 \in 0 .. RxPages
    BY <1>1
  <2>2. Novell!FramesFrom'[m][curr] = <<NeCopyOf(page', curr, NePlace(NeHeld + k))>> \o Novell!FramesFrom'[m - 1][NePlace(NeHeld + k)]
    BY <1>1, <1>2, <1>4, <1>5, <2>1
  <2>3. Novell!FramesFrom'[m - 1][NePlace(NeHeld + k)] = <<>>
    BY <1>2, <1>4, <1>5, <2>1
  <2> QED BY <1>6, <2>2, <2>3
(* A frame that waits. *)
<1>8. ASSUME NEW d \in S, NEW e \in S, d < e
      PROVE  NeCopyOf(page', NePlace(d), NePlace(e)) = Novell!Copied(NePlace(d), NePlace(e))
  <2>1. d \in 0 .. RxPages - 1 /\ e \in 0 .. RxPages - 1 /\ d \in 0 .. NeHeld - 1 /\ d .. e - 1 \subseteq 0 .. NeHeld - 1
    BY <1>1, <1>8
  <2>2. \A q \in Novell!Span(NePlace(d), NePlace(e)) : \E x \in d .. e - 1 : q = NePlace(x)
    BY <1>8, <2>1, NeSpan
  <2>3. \A q \in Novell!Span(NePlace(d), NePlace(e)) : page'[q] = page[q]
    BY <1>2, <2>1, <2>2
  <2>4. page'[NePlace(d)] = page[NePlace(d)]
    BY <1>2, <2>1
  <2> QED BY <2>3, <2>4 DEF Novell!Copied, NeCopyOf
<1>9. 0 \in T
  <2> SUFFICES ASSUME NEW d \in S, NeHeld + k - d <= 0
               PROVE  FALSE
    OBVIOUS
  <2> QED BY <1>1, <1>2
<1>10. ASSUME NEW m \in T
       PROVE  m + 1 \in T
  <2> SUFFICES ASSUME m + 1 <= RxPages, NEW d \in S, NeHeld + k - d <= m + 1
               PROVE  Novell!FramesFrom'[m + 1][NePlace(d)] = Append(Novell!FramesFrom[m + 1][NePlace(d)], came')
    OBVIOUS
  <2>1. m \in Nat /\ m <= RxPages /\ m + 1 \in 0 .. RxPages /\ m \in 0 .. RxPages /\ m + 1 \in 1 .. RxPages
        /\ (m + 1) - 1 = m /\ m + 1 # 0
    BY <1>1
  <2>2. Grown(m)
    <3>1. m <= RxPages => Grown(m)
      <4> HIDE DEF Grown
      <4> QED OBVIOUS
    <3> QED BY <2>1, <3>1
  <2>3. CASE d = NeHeld
    <3>1. Novell!FramesFrom[m + 1][curr] = <<>>
      BY <1>1, <1>3, <2>1
    <3>2. Novell!FramesFrom'[m + 1][curr] = <<came'>> \o <<>>
      BY <1>7, <2>1
    <3>3. PICK v \in Nat : v = came'
      BY <1>2
    <3>4. <<1>> \o <<>> = Append(<<>>, 1) /\ Append(<<>>, v) = <<v>> \o <<>>
      BY NeSeqs, EmptySeq
    <3> QED BY <1>1, <1>2, <2>3, <3>1, <3>2, <3>3, <3>4
  <2>4. CASE d # NeHeld
    <3>1. PICK e \in S : d < e /\ nextPage[NePlace(d)] = NePlace(e)
      BY <2>4 DEF NeStarts
    <3>2. /\ d \in 0 .. RxPages - 1 /\ d \in 0 .. NeHeld - 1 /\ e \in 0 .. RxPages - 1
          /\ NeHeld + k - e <= m
      BY <1>1, <1>2, <2>1, <2>4, <3>1
    <3>3. /\ NePlace(d) \in Novell!RxPage /\ NePlace(e) \in Novell!RxPage /\ NePlace(d) # curr /\ NePlace(d) # curr'
          /\ nextPage'[NePlace(d)] = NePlace(e)
      BY <1>1, <1>2, <2>4, <3>1, <3>2
    <3>4. Novell!FramesFrom[m + 1][NePlace(d)] = <<Novell!Copied(NePlace(d), NePlace(e))>> \o Novell!FramesFrom[m][NePlace(e)]
      BY <1>3, <2>1, <3>1, <3>3
    <3>5. Novell!FramesFrom'[m + 1][NePlace(d)] = <<NeCopyOf(page', NePlace(d), NePlace(e))>> \o Novell!FramesFrom'[m][NePlace(e)]
      BY <1>4, <2>1, <3>3
    <3>6. Novell!FramesFrom'[m][NePlace(e)] = Append(Novell!FramesFrom[m][NePlace(e)], came')
      BY <2>2, <3>2
    <3>7. Novell!FramesFrom[m][NePlace(e)] \in Seq(Nat) /\ Novell!Copied(NePlace(d), NePlace(e)) \in Nat
      BY <1>3, <2>1, <3>3, NeFrameType
    <3>8. NeCopyOf(page', NePlace(d), NePlace(e)) = Novell!Copied(NePlace(d), NePlace(e))
      BY <1>8, <3>1
    <3>9. PICK x \in Nat, s \in Seq(Nat), v \in Nat :
             x = Novell!Copied(NePlace(d), NePlace(e)) /\ s = Novell!FramesFrom[m][NePlace(e)] /\ v = came'
      BY <1>2, <3>7
    <3>10. Append(<<x>> \o s, v) = <<x>> \o Append(s, v)
      BY NeSeqs
    <3> QED BY <3>4, <3>5, <3>6, <3>8, <3>9, <3>10
  <2> QED BY <2>3, <2>4
<1> HIDE DEF Grown
<1>11. T \in SUBSET Nat
  OBVIOUS
<1> HIDE DEF T
<1>12. \A m \in Nat : m \in T
  BY <1>9, <1>10, <1>11, Induction
<1>13. \A m \in 0 .. RxPages : Grown(m)
  BY <1>1, <1>12 DEF T
<1>14. QED BY <1>13 DEF Grown

LEMMA NeKept ==
  ASSUME NEW s \in Seq(Nat), NEW v \in Nat
  PROVE  /\ Novell!RxQueue!Kept(s, s) /\ Novell!RxQueue!Kept(s, Append(s, v))
         /\ Novell!RxQueue!Kept(<< >>, s)
         /\ Novell!TxQueue!Kept(s, s) /\ Novell!TxQueue!Kept(s, Append(s, v))
         /\ Novell!TxQueue!Kept(<< >>, s)
<1> DEFINE n == Len(s)
           f == [i \in 1 .. n |-> i]
           t == Append(s, v)
<1>1. n \in Nat
  BY LenProperties
<1>2. Len(t) = n + 1 /\ \A i \in 1 .. n : t[i] = s[i]
  BY AppendProperties
<1>3. Len(<< >>) = 0
  BY EmptySeq
<1> HIDE DEF n, t
<1>4. /\ f \in [1 .. n -> 1 .. n] /\ f \in [1 .. n -> 1 .. n + 1]
      /\ \A i \in 1 .. n : f[i] = i
  BY <1>1
<1> HIDE DEF f
<1>5. \A i, j \in 1 .. n : i < j => f[i] < f[j]
  BY <1>4
<1>6. \A i \in 1 .. n : s[i] = s[f[i]] /\ s[i] = t[f[i]]
  BY <1>2, <1>4
<1>7. Novell!RxQueue!Kept(s, s) /\ Novell!TxQueue!Kept(s, s)
  BY <1>4, <1>5, <1>6 DEF Novell!RxQueue!Kept, Novell!TxQueue!Kept, n
<1>8. Novell!RxQueue!Kept(s, t) /\ Novell!TxQueue!Kept(s, t)
  <2>1. Len(s) = n /\ Len(t) = n + 1
    BY <1>2 DEF n
  <2> QED BY <2>1, <1>4, <1>5, <1>6 DEF Novell!RxQueue!Kept, Novell!TxQueue!Kept
<1>9. Novell!RxQueue!Kept(<< >>, s) /\ Novell!TxQueue!Kept(<< >>, s)
  <2>1. PICK e : e \in [1 .. 0 -> 1 .. n]
    <3>1. [i \in 1 .. 0 |-> 1] \in [1 .. 0 -> 1 .. n]
      OBVIOUS
    <3> QED BY <3>1
  <2>2. Len(s) = n
    BY DEF n
  <2>3. \A i \in 1 .. 0 : FALSE
    OBVIOUS
  <2> QED BY <1>3, <2>1, <2>2, <2>3 DEF Novell!RxQueue!Kept, Novell!TxQueue!Kept
<1>10. QED BY <1>7, <1>8, <1>9 DEF t

-----------------------------------------------------------------------------
(* Receive: each step is one of the queue's. *)

NeWaiting == Novell!FramesFrom[RxPages][NeFirst]

LEMMA NeInitial ==
  ASSUME NovellSizes, Novell!Init
  PROVE  NeRxInv /\ Novell!RxQueue!Init
<1>1. /\ RxPages \in Nat /\ RxPages >= 2 /\ Novell!RxPage = 0 .. RxPages - 1
      /\ bnry = 0 /\ curr = 1 /\ header = <<>> /\ came = 0 /\ polled = 0
      /\ page = [p \in Novell!RxPage |-> 0] /\ nextPage = [p \in Novell!RxPage |-> 0]
  BY DEF NovellSizes, Novell!Init, Novell!RxPage
<1>2. NeTypes
  BY <1>1 DEF NovellSizes, NeTypes
<1>3. NeFirst = 1 /\ NeHeld = 0
  BY <1>1, <1>2, NeFacts
<1>4. NeStarts({0})
  BY <1>3 DEF NeStarts
<1>5. NeWaiting = <<>>
  <2>1. RxPages \in 0 .. RxPages /\ NeFirst \in Novell!RxPage /\ NeFirst = curr
    BY <1>1, <1>3
  <2> QED BY <1>2, <2>1, NeFrames DEF NeWaiting
<1>6. NeRxInv
  BY <1>1, <1>2, <1>4 DEF NeRxInv
<1>7. QED BY <1>1, <1>5, <1>6 DEF Novell!RxQueue!Init, NeWaiting, NeFirst

(* The frames stay the same when no page is written.                       *)
LEMMA NeFramesSame ==
  ASSUME UNCHANGED <<page, nextPage, curr>>
  PROVE  Novell!FramesFrom' = Novell!FramesFrom
BY DEF Novell!FramesFrom, Novell!Copied, Novell!Span, Novell!After, Novell!RxPage

LEMMA NeWaitingType ==
  ASSUME NovellSizes, NeTypes
  PROVE  NeWaiting \in Seq(Nat)
<1>1. RxPages \in 0 .. RxPages
  BY DEF NovellSizes
<1>2. QED BY <1>1, NeFacts, NeFrames DEF NeWaiting

LEMMA NeFactsNext ==
  ASSUME NovellSizes
  PROVE  (NeTypes =>
            /\ NeFirst = IF bnry = RxPages - 1 THEN 0 ELSE bnry + 1
            /\ NeHeld = IF NeFirst <= curr THEN curr - NeFirst ELSE curr - NeFirst + RxPages)'
<1>1. NeTypes =>
            /\ NeFirst = IF bnry = RxPages - 1 THEN 0 ELSE bnry + 1
            /\ NeHeld = IF NeFirst <= curr THEN curr - NeFirst ELSE curr - NeFirst + RxPages
  BY NeFacts
<1>2. QED BY <1>1, PTL

LEMMA NeDrops ==
  ASSUME NovellSizes, NeRxInv, came < MaxStored, came' = came + 1,
         UNCHANGED <<page, nextPage, curr, bnry, header, polled>>
  PROVE  NeRxInv' /\ Novell!RxQueue!Give
<1>1. NeTypes'
  BY DEF NeTypes, NeRxInv, NovellSizes
<1>2. NeFirst' = NeFirst /\ NeHeld' = NeHeld /\ \A d : NePlace(d)' = NePlace(d)
  BY DEF NeFirst, NeHeld, NePlace
<1>3. \A S : NeStarts(S) => NeStarts(S)'
  BY <1>2 DEF NeStarts
<1>4. NeRxInv'
  BY <1>1, <1>2, <1>3 DEF NeRxInv
<1>5. NeWaiting' = NeWaiting
  BY <1>2, NeFramesSame DEF NeWaiting
<1>6. NeWaiting \in Seq(Nat) /\ came' \in Nat
  BY <1>1, NeWaitingType DEF NeRxInv, NeTypes
<1>7. Novell!RxQueue!Kept(NeWaiting', Append(NeWaiting, came'))
  BY <1>5, <1>6, NeKept
<1>8. QED BY <1>4, <1>7 DEF Novell!RxQueue!Give, NeWaiting, NeFirst

LEMMA NeStores ==
  ASSUME NovellSizes, NeRxInv, NEW k, NeStoring(k), UNCHANGED <<header, polled>>
  PROVE  NeRxInv' /\ Novell!RxQueue!Give
<1>1. PICK S : NeStarts(S)
  BY DEF NeRxInv
<1>2. NeTypes
  BY DEF NeRxInv
<1>3. /\ NeTypes'
      /\ NeFirst' = NeFirst /\ NeHeld' = NeHeld + k /\ NeHeld + k \in 0 .. RxPages - 1
      /\ curr' = NePlace(NeHeld + k) /\ nextPage'[curr] = NePlace(NeHeld + k)
      /\ \A d \in 0 .. RxPages - 1 : NePlace(d)' = NePlace(d)
      /\ \A d \in 0 .. NeHeld - 1 : nextPage'[NePlace(d)] = nextPage[NePlace(d)]
  BY <1>2, NeStored
<1>4. /\ RxPages \in Nat /\ NeHeld \in 0 .. RxPages - 1 /\ S \subseteq 0 .. NeHeld /\ k \in 1 .. 2
      /\ NePlace(NeHeld) = curr /\ NePlace(0) = NeFirst
      /\ \A d, e \in 0 .. RxPages - 1 : NePlace(d) = NePlace(e) => d = e
  BY <1>1, <1>2, NeFacts DEF NeStarts, NeStoring, NovellSizes
<1>5. PICK U : U = S \cup {NeHeld + k}
  OBVIOUS
<1>6. NeStarts(U)'
  <2>1. U \in SUBSET (0 .. NeHeld') /\ 0 \in U /\ NeHeld' \in U
    <3>1. 0 \in S /\ 0 .. NeHeld \subseteq 0 .. NeHeld + k /\ NeHeld + k \in 0 .. NeHeld + k
      BY <1>1, <1>4 DEF NeStarts
    <3> QED BY <1>3, <1>4, <1>5, <3>1
  <2>2. ASSUME NEW d \in U, d # NeHeld'
        PROVE  \E e \in U : d < e /\ nextPage'[NePlace(d)'] = NePlace(e)'
    <3>1. d \in S /\ d \in 0 .. RxPages - 1 /\ NeHeld' \in U /\ NeHeld' = NeHeld + k
      BY <1>3, <1>4, <1>5, <2>2
    <3>2. CASE d = NeHeld
      <4>1. d < NeHeld' /\ nextPage'[NePlace(d)] = NePlace(NeHeld + k)
        BY <1>3, <1>4, <3>1, <3>2
      <4>2. \A e \in U : e = NeHeld + k => nextPage'[NePlace(d)'] = NePlace(e)'
        BY <1>3, <3>1, <4>1
      <4> QED BY <3>1, <4>1, <4>2
    <3>3. CASE d # NeHeld
      <4>1. PICK e \in S : d < e /\ nextPage[NePlace(d)] = NePlace(e)
        BY <1>1, <3>1, <3>3 DEF NeStarts
      <4>2. d \in 0 .. NeHeld - 1 /\ e \in 0 .. RxPages - 1 /\ e \in U
        BY <1>4, <1>5, <3>1, <3>3
      <4>3. nextPage'[NePlace(d)'] = NePlace(e)'
        BY <1>3, <3>1, <4>1, <4>2
      <4> QED BY <4>1, <4>2, <4>3
    <3> QED BY <3>2, <3>3
  <2> QED BY <2>1, <2>2 DEF NeStarts
<1>7. header' # <<>> => header' = <<NeFirst', nextPage'[NeFirst']>> /\ NeFirst' # curr'
  <2> SUFFICES ASSUME header' # <<>>
               PROVE  header' = <<NeFirst', nextPage'[NeFirst']>> /\ NeFirst' # curr'
    OBVIOUS
  <2>1. header' = header /\ header = <<NeFirst, nextPage[NeFirst]>> /\ NeFirst # curr
    BY DEF NeRxInv
  <2>2. 0 \in 0 .. NeHeld - 1 /\ 0 \in 0 .. RxPages - 1 /\ 0 # NeHeld + k
    BY <1>4, <2>1
  <2> QED BY <1>3, <1>4, <2>1, <2>2
<1>8. NeRxInv'
  BY <1>3, <1>6, <1>7 DEF NeRxInv
<1>9. NeWaiting' = Append(NeWaiting, came')
  <2>1. 0 \in S /\ RxPages \in 0 .. RxPages /\ NeHeld + k - 0 <= RxPages
    BY <1>1, <1>3, <1>4 DEF NeStarts
  <2>2. Novell!FramesFrom'[RxPages][NePlace(0)] = Append(Novell!FramesFrom[RxPages][NePlace(0)], came')
    BY <1>1, <1>2, <2>1, NeAppends
  <2> QED BY <1>3, <1>4, <2>2 DEF NeWaiting
<1>10. Append(NeWaiting, came') \in Seq(Nat) /\ came' \in Nat
  <2>1. NeWaiting \in Seq(Nat) /\ came' \in Nat
    BY <1>2, <1>3, NeWaitingType DEF NeTypes
  <2> QED BY <2>1, AppendProperties
<1>11. Novell!RxQueue!Kept(NeWaiting', Append(NeWaiting, came'))
  BY <1>9, <1>10, NeKept
<1>12. came' = came + 1 /\ polled' = polled
  BY DEF NeStoring
<1>13. QED BY <1>8, <1>11, <1>12 DEF Novell!RxQueue!Give, NeWaiting, NeFirst

LEMMA NeCard ==
  ASSUME NovellSizes, NeRxInv, Novell!CardStores
  PROVE  NeRxInv' /\ Novell!RxQueue!Give
<1>1. PICK n \in 1 .. 2 :
        IF n > (bnry - curr) % RxPages
        THEN UNCHANGED <<page, nextPage, curr>>
        ELSE /\ page' = [p \in Novell!RxPage |->
                            IF \E i \in 0 .. n - 1 : p = Novell!After(curr, i) THEN came' ELSE page[p]]
             /\ nextPage' = [nextPage EXCEPT ![curr] = Novell!After(curr, n)]
             /\ curr' = Novell!After(curr, n)
  BY DEF Novell!CardStores
<1>2. came < MaxStored /\ came' = came + 1 /\ UNCHANGED <<bnry, header, polled>>
  BY DEF Novell!CardStores
<1>3. CASE n > (bnry - curr) % RxPages
  BY <1>1, <1>2, <1>3, NeDrops
<1>4. CASE ~ (n > (bnry - curr) % RxPages)
  <2>1. (bnry - curr) % RxPages = RxPages - 1 - NeHeld /\ NeHeld \in 0 .. RxPages - 1
        /\ RxPages \in Nat /\ came \in 0 .. MaxStored /\ MaxStored \in Nat
    BY NeFacts DEF NeRxInv, NeTypes, NovellSizes
  <2>2. n <= RxPages - 1 - NeHeld /\ came' \in 0 .. MaxStored
    BY <1>2, <1>4, <2>1
  <2>3. NeStoring(n)
    BY <1>1, <1>2, <1>4, <2>2 DEF NeStoring
  <2> QED BY <1>2, <2>3, NeStores
<1>5. QED BY <1>3, <1>4

LEMMA NePollHeader ==
  ASSUME NovellSizes, NeRxInv, Novell!PollHeader
  PROVE  NeRxInv' /\ UNCHANGED Novell!RxQueue!vars
<1>1. /\ NeFirst # curr /\ header' = <<NeFirst, nextPage[NeFirst]>>
      /\ UNCHANGED <<page, nextPage, curr, bnry, came, polled>>
  BY DEF Novell!PollHeader, NeFirst
<1>2. NeTypes' /\ NeFirst' = NeFirst /\ NeHeld' = NeHeld /\ \A d : NePlace(d)' = NePlace(d)
  BY <1>1 DEF NeRxInv, NeTypes, NeFirst, NeHeld, NePlace
<1>3. \A S : NeStarts(S) => NeStarts(S)'
  BY <1>1, <1>2 DEF NeStarts
<1>4. NeRxInv'
  BY <1>1, <1>2, <1>3 DEF NeRxInv
<1>5. NeWaiting' = NeWaiting
  BY <1>1, <1>2, NeFramesSame DEF NeWaiting
<1>6. QED BY <1>1, <1>4, <1>5 DEF Novell!RxQueue!vars, NeWaiting, NeFirst

(* The oldest frame is taken, and the pages are counted from the next one. *)
LEMMA NePollData ==
  ASSUME NovellSizes, NeRxInv, Novell!PollData
  PROVE  NeRxInv' /\ Novell!RxQueue!Take
<1>1. PICK S : NeStarts(S)
  BY DEF NeRxInv
<1>2. /\ NeTypes /\ NeFirst # curr /\ header = <<NeFirst, nextPage[NeFirst]>>
      /\ polled' = Novell!Copied(NeFirst, nextPage[NeFirst])
      /\ bnry' = Novell!After(nextPage[NeFirst], -1) /\ header' = <<>>
      /\ UNCHANGED <<page, nextPage, curr, came>>
  BY DEF NeRxInv, Novell!PollData
<1>3. /\ RxPages \in Nat /\ RxPages >= 2 /\ Novell!RxPage = 0 .. RxPages - 1
      /\ NeFirst \in 0 .. RxPages - 1 /\ curr \in 0 .. RxPages - 1
      /\ NeHeld \in 0 .. RxPages - 1 /\ NeHeld = IF NeFirst <= curr THEN curr - NeFirst ELSE curr - NeFirst + RxPages
      /\ NePlace(NeHeld) = curr /\ NePlace(0) = NeFirst
      /\ 0 \in S /\ S \subseteq 0 .. NeHeld /\ NeHeld \in S
      /\ \A d \in 0 .. RxPages - 1 : NePlace(d) \in Novell!RxPage
  BY <1>1, <1>2, NeFacts DEF NovellSizes, NeStarts, NeTypes
<1>4. PICK e \in S : 0 < e /\ nextPage[NeFirst] = NePlace(e)
  BY <1>1, <1>2, <1>3 DEF NeStarts
<1>5. e \in 0 .. RxPages - 1 /\ e \in 0 .. NeHeld /\ NePlace(e) \in 0 .. RxPages - 1
  BY <1>3, <1>4
<1>6. bnry' = IF NePlace(e) = 0 THEN RxPages - 1 ELSE NePlace(e) - 1
  <2>1. \A a \in 0 .. RxPages - 1 : (a + (-1)) % RxPages = IF a = 0 THEN RxPages - 1 ELSE a - 1
    BY <1>3, NeModulo
  <2> QED BY <1>2, <1>4, <1>5, <2>1 DEF Novell!After
<1>7. NeTypes'
  <2>1. bnry' \in Novell!RxPage
    BY <1>3, <1>5, <1>6
  <2> QED BY <1>2, <2>1 DEF NeTypes
<1>8. NeFirst' = NePlace(e)
  <2>1. (NeFirst = IF bnry = RxPages - 1 THEN 0 ELSE bnry + 1)'
    BY <1>7, NeFactsNext
  <2> QED BY <1>3, <1>5, <1>6, <2>1
<1>9. NeHeld' = NeHeld - e
  <2>1. NeHeld' = IF NePlace(e) <= curr THEN curr - NePlace(e) ELSE curr - NePlace(e) + RxPages
    BY <1>2, <1>7, <1>8, NeFactsNext
  <2> QED BY <1>3, <1>5, <2>1 DEF NePlace
<1>10. \A d \in 0 .. NeHeld - e : NePlace(d)' = NePlace(e + d)
  BY <1>3, <1>5, <1>8 DEF NePlace
<1>11. PICK U : U = {d \in 0 .. NeHeld - e : e + d \in S}
  OBVIOUS
<1>12. NeStarts(U)'
  <2>1. U \in SUBSET (0 .. NeHeld') /\ 0 \in U /\ NeHeld' \in U
    BY <1>3, <1>4, <1>5, <1>9, <1>11
  <2>2. ASSUME NEW d \in U, d # NeHeld'
        PROVE  \E a \in U : d < a /\ nextPage'[NePlace(d)'] = NePlace(a)'
    <3>1. d \in 0 .. NeHeld - e /\ e + d \in S /\ e + d # NeHeld
      BY <1>3, <1>5, <1>9, <1>11, <2>2
    <3>2. PICK b \in S : e + d < b /\ nextPage[NePlace(e + d)] = NePlace(b)
      BY <1>1, <3>1 DEF NeStarts
    <3>3. PICK a \in 0 .. NeHeld - e : e + a = b
      <4>1. b - e \in 0 .. NeHeld - e /\ e + (b - e) = b
        BY <1>3, <1>5, <3>1, <3>2
      <4> QED BY <4>1
    <3>4. a \in U /\ d < a
      BY <1>5, <1>11, <3>1, <3>2, <3>3
    <3>5. nextPage'[NePlace(d)'] = NePlace(a)'
      BY <1>2, <1>10, <3>1, <3>2, <3>3
    <3> QED BY <3>4, <3>5
  <2> QED BY <2>1, <2>2 DEF NeStarts
<1>13. NeRxInv'
  BY <1>2, <1>7, <1>12 DEF NeRxInv
<1>14. NeWaiting = <<NeFrame(NeFirst)>> \o Novell!FramesFrom[RxPages - 1][NePlace(e)]
  <2>1. RxPages \in 0 .. RxPages /\ RxPages # 0 /\ NeFirst \in Novell!RxPage
    BY <1>3
  <2> QED BY <1>2, <1>4, <2>1, NeFrames DEF NeWaiting
<1>15. NeWaiting' = Novell!FramesFrom[RxPages - 1][NePlace(e)]
  <2>1. RxPages - 1 \in 0 .. RxPages /\ RxPages \in 0 .. RxPages /\ NeHeld - e <= RxPages - 1 /\ NeHeld - e <= RxPages
    BY <1>3, <1>5
  <2>2. Novell!FramesFrom[RxPages - 1][NePlace(e)] = Novell!FramesFrom[RxPages][NePlace(e)]
    BY <1>1, <1>2, <2>1, NeFuel
  <2>3. Novell!FramesFrom' = Novell!FramesFrom
    BY <1>2, NeFramesSame
  <2> QED BY <1>8, <2>2, <2>3 DEF NeWaiting
<1>16. NeWaiting # <<>> /\ Head(NeWaiting) = polled' /\ Tail(NeWaiting) = NeWaiting'
  <2>1. NeFrame(NeFirst) \in Nat /\ Novell!FramesFrom[RxPages - 1][NePlace(e)] \in Seq(Nat)
    <3>1. RxPages - 1 \in 0 .. RxPages /\ NeFirst \in Novell!RxPage /\ NePlace(e) \in Novell!RxPage
      BY <1>3, <1>5
    <3> QED BY <1>2, <3>1, NeFrameType, NeFrames DEF NeFrame
  <2>2. PICK x \in Nat, s \in Seq(Nat) : x = NeFrame(NeFirst) /\ s = Novell!FramesFrom[RxPages - 1][NePlace(e)]
    BY <2>1
  <2>3. <<x>> \o s # <<>> /\ Head(<<x>> \o s) = x /\ Tail(<<x>> \o s) = s
    <3>1. 0 \in Nat
      OBVIOUS
    <3> QED BY <3>1, NeSeqs
  <2>4. polled' = NeFrame(NeFirst)
    BY <1>2 DEF NeFrame
  <2> QED BY <1>14, <1>15, <2>2, <2>3, <2>4
<1>17. QED BY <1>2, <1>13, <1>16 DEF Novell!RxQueue!Take, NeWaiting, NeFirst

-----------------------------------------------------------------------------
(* Transmit: until a wait runs out on a frame the card has, the frame in the *)
(* pages is the last one handed over; the card has it only while             *)
(* send_pkt_raw waits, and PTX says it has ended.                            *)
NeTxInv ==
  /\ passed \in 0 .. MaxOut /\ txPage = passed /\ sent \in 0 .. passed
  /\ sendPc \in {"idle", "wait"} /\ ptx \in BOOLEAN /\ txp \in BOOLEAN
  /\ txp => sendPc = "wait" /\ ~ ptx
  /\ sending # 0 => txp /\ sending = txPage
  /\ ptx => sendPc = "wait"

NeTxSafe ==
  /\ sendLate \in BOOLEAN /\ passed \in 0 .. MaxOut
  /\ ~ sendLate => NeTxInv

NeLeaving == IF txp THEN <<txPage>> ELSE <<>>

LEMMA NeTxInitial ==
  ASSUME NovellSizes, Novell!Init
  PROVE  NeTxSafe /\ Novell!TxQueue!Init
<1>1. MaxOut \in Nat
  BY DEF NovellSizes
<1>2. /\ txPage = 0 /\ txp = FALSE /\ sending = 0 /\ ptx = FALSE /\ sendPc = "idle"
      /\ passed = 0 /\ sent = 0 /\ sendLate = FALSE
  BY DEF Novell!Init
<1>3. NeTxSafe
  <2>1. 0 \in 0 .. MaxOut /\ 0 \in 0 .. 0
    BY <1>1
  <2>2. FALSE \in BOOLEAN /\ "idle" \in {"idle", "wait"}
    OBVIOUS
  <2> QED BY <1>2, <2>1, <2>2, Zenon DEF NeTxSafe, NeTxInv
<1>4. NeLeaving = <<>>
  BY <1>2 DEF NeLeaving
<1>5. QED BY <1>2, <1>3, <1>4 DEF Novell!TxQueue!Init, NeLeaving

LEMMA NeOutgoing ==
  ASSUME NovellSizes, NeTxInv
  PROVE  NeLeaving \in Seq(Nat)
<1>1. txPage \in Nat
  BY DEF NeTxInv, NovellSizes
<1>2. QED BY <1>1 DEF NeLeaving

LEMMA NeSends ==
  ASSUME NovellSizes, NeTxInv, Novell!SendRaw
  PROVE  NeTxInv' /\ Novell!TxQueue!Give
<1>1. /\ sendPc = "idle" /\ passed < MaxOut /\ passed' = passed + 1 /\ txPage' = passed'
      /\ txp' = TRUE /\ sendPc' = "wait" /\ UNCHANGED <<sending, ptx, sent>>
      /\ MaxOut \in Nat /\ passed \in 0 .. MaxOut /\ sent \in 0 .. passed
      /\ ~ ptx /\ ptx \in BOOLEAN /\ ~ txp /\ sending = 0
  BY DEF Novell!SendRaw, NeTxInv, NovellSizes
<1>2. passed' \in 0 .. MaxOut /\ passed' \in Nat /\ sent \in 0 .. passed'
  BY <1>1
<1>3. NeTxInv'
  BY <1>1, <1>2 DEF NeTxInv
<1>4. NeLeaving = <<>> /\ NeLeaving' = <<passed'>>
  BY <1>1, <1>2 DEF NeLeaving
<1>5. PICK v \in Nat : v = passed'
  BY <1>2
<1>6. Append(<<>>, v) = <<v>> /\ <<v>> \in Seq(Nat)
  OBVIOUS
<1>7. Novell!TxQueue!Kept(<<v>>, <<v>>)
  BY <1>6, NeKept
<1>8. QED BY <1>1, <1>3, <1>4, <1>5, <1>6, <1>7 DEF Novell!TxQueue!Give, NeLeaving

LEMMA NeEnds ==
  ASSUME NovellSizes, NeTxInv, Novell!CardEnds
  PROVE  NeTxInv' /\ Novell!TxQueue!Take
<1>1. /\ txp /\ sending = txPage /\ sendPc = "wait" /\ passed \in 0 .. MaxOut /\ txPage = passed
      /\ sent' = txPage /\ ptx' = TRUE /\ txp' = FALSE /\ sending' = 0
      /\ UNCHANGED <<txPage, sendPc, passed>> /\ MaxOut \in Nat
  BY DEF Novell!CardEnds, NeTxInv, NovellSizes
<1>2. NeTxInv'
  <2>1. passed' \in 0 .. MaxOut /\ txPage' = passed' /\ sent' \in 0 .. passed'
    BY <1>1
  <2>2. ptx' = TRUE /\ txp' = FALSE /\ sendPc' = "wait" /\ sending' = 0
    BY <1>1
  <2> QED BY <2>1, <2>2 DEF NeTxInv
<1>3. NeLeaving = <<txPage>> /\ NeLeaving' = <<>>
  BY <1>1 DEF NeLeaving
<1>4. PICK v \in Nat : v = txPage
  BY <1>1
<1>5. <<v>> # <<>> /\ Head(<<v>>) = v /\ Tail(<<v>>) = <<>>
  OBVIOUS
<1>6. QED BY <1>1, <1>2, <1>3, <1>4, <1>5 DEF Novell!TxQueue!Take, NeLeaving

LEMMA NeGivesUp ==
  ASSUME NovellSizes, NeTxInv, Novell!CardGivesUp
  PROVE  NeTxInv' /\ Novell!TxQueue!Lose
<1>1. NeTxInv' /\ UNCHANGED <<passed, sent>> /\ NeLeaving' = <<>>
  BY DEF Novell!CardGivesUp, NeTxInv, NeLeaving
<1>2. Novell!TxQueue!Kept(<<>>, NeLeaving)
  <2>1. 0 \in Nat
    OBVIOUS
  <2> QED BY <2>1, NeOutgoing, NeKept
<1>3. QED BY <1>1, <1>2 DEF Novell!TxQueue!Lose, NeLeaving

LEMMA NeBegins ==
  ASSUME NovellSizes, NeTxInv, Novell!CardBegins \/ Novell!SendWaited \/ (Novell!WaitRunsOut /\ ~ txp)
  PROVE  NeTxInv' /\ UNCHANGED <<NeLeaving, passed, sent>>
<1>1. CASE Novell!CardBegins
  BY <1>1 DEF Novell!CardBegins, NeTxInv, NeLeaving
<1>2. CASE Novell!SendWaited
  BY <1>2 DEF Novell!SendWaited, NeTxInv, NeLeaving
<1>3. CASE Novell!WaitRunsOut /\ ~ txp
  BY <1>3 DEF Novell!WaitRunsOut, NeTxInv, NeLeaving
<1>4. QED BY <1>1, <1>2, <1>3

LEMMA NeRxRests ==
  ASSUME NeRxInv, UNCHANGED Novell!neRx
  PROVE  NeRxInv' /\ UNCHANGED Novell!RxQueue!vars
<1>1. UNCHANGED <<page, nextPage, curr, bnry, header, came, polled>>
  BY DEF Novell!neRx
<1>2. NeTypes' /\ NeFirst' = NeFirst /\ NeHeld' = NeHeld /\ \A d : NePlace(d)' = NePlace(d)
  BY <1>1 DEF NeRxInv, NeTypes, NeFirst, NeHeld, NePlace
<1>3. \A S : NeStarts(S) => NeStarts(S)'
  BY <1>1, <1>2 DEF NeStarts
<1>4. NeRxInv'
  BY <1>1, <1>2, <1>3 DEF NeRxInv
<1>5. NeWaiting' = NeWaiting
  BY <1>1, <1>2, NeFramesSame DEF NeWaiting
<1>6. QED BY <1>1, <1>4, <1>5 DEF Novell!RxQueue!vars, NeWaiting, NeFirst

LEMMA NeTxRests ==
  ASSUME NeTxInv, UNCHANGED Novell!neTx
  PROVE  NeTxInv' /\ UNCHANGED Novell!TxQueue!vars
BY DEF NeTxInv, Novell!neTx, Novell!TxQueue!vars

LEMMA NeRxSteps ==
  ASSUME NovellSizes, NeRxInv, [Novell!Next]_(Novell!neVars)
  PROVE  NeRxInv' /\ (Novell!RxQueue!Next \/ UNCHANGED Novell!RxQueue!vars)
<1>1. CASE Novell!CardStores \/ Novell!PollHeader \/ Novell!PollData
  BY <1>1, NeCard, NePollHeader, NePollData DEF Novell!RxQueue!Next
<1>2. CASE UNCHANGED Novell!neRx
  BY <1>2, NeRxRests
<1>3. QED
  BY <1>1, <1>2 DEF Novell!Next, Novell!SendRaw, Novell!CardBegins, Novell!CardEnds, Novell!CardGivesUp, Novell!SendWaited, Novell!WaitRunsOut, Novell!neVars

(* A wait that ran out on a frame the card had stays one.                   *)
LEMMA NeLateStays ==
  ASSUME NeTxSafe, NovellSizes, [Novell!Next]_(Novell!neVars)
  PROVE  /\ sendLate' \in BOOLEAN /\ passed' \in 0 .. MaxOut
         /\ ~ sendLate' => ~ sendLate /\ sendLate' = sendLate
<1>1. CASE Novell!WaitRunsOut
  <2>1. sendLate' = (sendLate \/ txp) /\ passed' = passed
    BY <1>1 DEF Novell!WaitRunsOut
  <2> QED BY <2>1 DEF NeTxSafe
<1>2. CASE Novell!SendRaw
  <2>1. passed' = passed + 1 /\ passed < MaxOut /\ sendLate' = sendLate
    BY <1>2 DEF Novell!SendRaw
  <2> QED BY <2>1 DEF NeTxSafe, NovellSizes
<1>3. CASE UNCHANGED <<passed, sendLate>>
  BY <1>3 DEF NeTxSafe
<1>4. QED
  BY <1>1, <1>2, <1>3 DEF Novell!Next, Novell!CardStores, Novell!PollHeader, Novell!PollData, Novell!CardBegins, Novell!CardEnds, Novell!CardGivesUp,
     Novell!SendWaited, Novell!neVars, Novell!neTx

LEMMA NeTxInTime ==
  ASSUME NovellSizes, NeTxSafe, [Novell!Next]_(Novell!neVars), ~ sendLate'
  PROVE  NeTxInv' /\ (Novell!TxQueue!Next \/ UNCHANGED Novell!TxQueue!vars)
<1>1. ~ sendLate /\ sendLate' = sendLate /\ NeTxInv
  BY NeLateStays DEF NeTxSafe
<1>2. CASE Novell!SendRaw
  BY <1>1, <1>2, NeSends DEF Novell!TxQueue!Next
<1>3. CASE Novell!CardEnds
  BY <1>1, <1>3, NeEnds DEF Novell!TxQueue!Next
<1>4. CASE Novell!CardGivesUp
  BY <1>1, <1>4, NeGivesUp DEF Novell!TxQueue!Next
<1>5. CASE Novell!CardBegins \/ Novell!SendWaited \/ Novell!WaitRunsOut
  <2>1. Novell!WaitRunsOut => ~ txp
    BY <1>1 DEF Novell!WaitRunsOut
  <2>2. NeTxInv' /\ UNCHANGED <<NeLeaving, passed, sent>>
    BY <1>1, <1>5, <2>1, NeBegins
  <2> QED BY <1>1, <2>2 DEF Novell!TxQueue!vars, NeLeaving
<1>6. CASE UNCHANGED Novell!neTx
  BY <1>1, <1>6, NeTxRests
<1>7. QED
  BY <1>2, <1>3, <1>4, <1>5, <1>6 DEF Novell!Next, Novell!CardStores, Novell!PollHeader, Novell!PollData, Novell!neVars

NeInv == NeRxInv /\ NeTxSafe

(* Every step of ne2000.c or the card is a step of both queues, or none.    *)
LEMMA NeStepKeeps ==
  ASSUME NovellSizes, NeInv, [Novell!Next]_(Novell!neVars)
  PROVE  /\ NeInv'
         /\ Novell!RxQueue!Next \/ UNCHANGED Novell!RxQueue!vars
         /\ Novell!TxQueue!Next \/ UNCHANGED Novell!TxQueue!vars
<1>1. NeRxInv' /\ (Novell!RxQueue!Next \/ UNCHANGED Novell!RxQueue!vars)
  BY NeRxSteps DEF NeInv
<1>2. sendLate' \in BOOLEAN /\ passed' \in 0 .. MaxOut
  BY NeLateStays DEF NeInv
<1>3. CASE sendLate'
  BY <1>1, <1>2, <1>3 DEF NeInv, NeTxSafe, Novell!TxQueue!Next
<1>4. CASE ~ sendLate'
  BY <1>1, <1>2, <1>4, NeTxInTime DEF NeInv, NeTxSafe
<1>5. QED BY <1>3, <1>4

LEMMA NeInitially ==
  ASSUME NovellSizes, Novell!Init
  PROVE  NeInv /\ Novell!RxQueue!Init /\ Novell!TxQueue!Init
BY NeInitial, NeTxInitial DEF NeInv

LEMMA NeTypeOK == ASSUME NeInv PROVE Novell!TypeOK
BY DEF NeInv, NeRxInv, NeTypes, NeTxSafe, Novell!TypeOK

(* Both directions of the NE2000 are lossy queues of whole frames (receive  *)
(* always, transmit until a wait of send_pkt_raw runs out on a frame the    *)
(* card still has).                                                         *)
THEOREM Ne2000Queues == ASSUME NovellSizes PROVE Novell!Spec => Novell!PagesAreQueues
<1>1. Novell!Init => NeInv /\ Novell!RxQueue!Init /\ Novell!TxQueue!Init
  BY NeInitially
<1>2. NeInv /\ [Novell!Next]_(Novell!neVars) =>
        NeInv' /\ [Novell!RxQueue!Next]_(Novell!RxQueue!vars) /\ [Novell!TxQueue!Next]_(Novell!TxQueue!vars)
  BY NeStepKeeps
<1>3. QED BY <1>1, <1>2, PTL DEF Novell!Spec, Novell!PagesAreQueues, Novell!RxQueue!Spec, Novell!TxQueue!Spec
=============================================================================
