------------------------------ MODULE Ps2Input ------------------------------
(***************************************************************************)
(* Keyboard and mouse on the i8042: the interrupt handlers on_irq1         *)
(* (kernel/keyboard.c) and on_irq12 (kernel/drv/mouse.c), the ring of      *)
(* characters, and kb_getc, which reads the ring, polls the controller     *)
(* when the ring is empty, and halts until the next interrupt.             *)
(*                                                                         *)
(* A handler runs with interrupts off.  kb_getc runs with interrupts on    *)
(* and calls on_irq1 itself, so on_irq1 is two actions: Irq1, whole, and   *)
(* the steps PollRead, PollDecode, PollStore and PollAdvance, between      *)
(* which interrupts are taken.                                             *)
(*                                                                         *)
(* The keyboard sends keys of one byte and keys with an E0 prefix; shift,  *)
(* control and caps are flags of the same kind as ext_flag and left out.   *)
(* The controller has one output byte for both devices and raises IRQ1 or  *)
(* IRQ12 when it fills it; the PIC latches the request.                    *)
(*                                                                         *)
(* Three kinds of machine: the CPU takes a request before the next step of *)
(* the interrupted code ("prompt"); later, after it has looked at the      *)
(* controller ("late"); or IRQ1 never arrives ("polled"), which is what    *)
(* the polling in kb_trygetc is for.                                       *)
(***************************************************************************)
EXTENDS Integers, Sequences

CONSTANTS
  BufSize,     \* BUF_SIZE of the ring
  MaxKeys,     \* bound on the keys typed
  MaxPackets,  \* bound on the packets the mouse sends
  Machines     \* the kinds of machine to look at

ASSUME ConstAssumption ==
  /\ BufSize \in Nat /\ BufSize >= 2
  /\ MaxKeys \in Nat /\ MaxPackets \in Nat
  /\ Machines \subseteq {"prompt", "polled", "late"} /\ Machines # {}

VARIABLES
  machine,       \* its kind
  kbdQ, mouseQ,  \* bytes the devices have still to send
  typed,         \* keys typed so far
  moved,         \* packets sent so far
  obf,           \* the output byte of the i8042, NoByte when empty
  last,          \* what port 0x60 reads when the buffer is empty
  irq,           \* requests latched in the PIC
  in12,          \* the CPU is in on_irq12
  buf, head, tail, ext,   \* of keyboard.c
  pkt,           \* ms_pkt and ms_phase: the bytes of the packet so far
  packets,       \* the packets on_irq12 has put together
  pc, sc, slot,  \* kb_getc: its place, the byte it polled, where enqueue stores
  read           \* the characters kb_getc has returned

controller == <<machine, kbdQ, mouseQ, typed, moved, obf, last>>
ring == <<buf, head, tail, ext>>
mouse == <<pkt, packets>>
main == <<pc, sc, slot, read>>
vars == <<controller, irq, in12, ring, mouse, main>>

Index == 0 .. BufSize - 1

(* The bytes: of key k alone, the prefix or the second of two; byte i of a *)
(* mouse packet, bit 3 set in the first and, as it happens, in others.     *)
KeyByte == [src : {"kbd"}, k : 1 .. MaxKeys, part : {"plain", "E0", "second"},
            bit3 : {FALSE}]
MouseByte == [src : {"mouse"}, k : 1 .. MaxPackets, part : {"b1", "b2", "b3"}, bit3 : BOOLEAN]
NoByte == [src |-> "none", k |-> 0, part |-> "none", bit3 |-> FALSE]
Byte == KeyByte \cup MouseByte \cup {NoByte}

(* A character: key k decoded as what it is, or a byte taken for a key.    *)
Char == [k : 0 .. MaxKeys, right : BOOLEAN]
NoChar == [k |-> 0, right |-> FALSE]

TypeOK ==
  /\ machine \in Machines
  /\ kbdQ \in Seq(KeyByte) /\ mouseQ \in Seq(MouseByte)
  /\ typed \in 0 .. MaxKeys /\ moved \in 0 .. MaxPackets
  /\ obf \in Byte /\ last \in Byte /\ sc \in Byte
  /\ irq \subseteq {1, 12} /\ in12 \in BOOLEAN
  /\ buf \in [Index -> Char] /\ head \in Index /\ tail \in Index /\ ext \in BOOLEAN
  /\ pkt \in Seq(MouseByte) /\ Len(pkt) < 3 /\ packets \in Seq([1 .. 3 -> MouseByte])
  /\ pc \in {"check", "status", "inb", "decode", "store", "advance", "take", "gohlt", "hlt"}
  /\ slot \in [at : Index, char : Char]
  /\ read \in Seq(Char)

Init ==
  /\ machine \in Machines
  /\ kbdQ = << >> /\ mouseQ = << >> /\ typed = 0 /\ moved = 0
  /\ obf = NoByte /\ last = NoByte /\ sc = NoByte
  /\ irq = {} /\ in12 = FALSE
  /\ buf = [i \in Index |-> NoChar] /\ head = 0 /\ tail = 0 /\ ext = FALSE
  /\ pkt = << >> /\ packets = << >>
  /\ pc = "check" /\ slot = [at |-> 0, char |-> NoChar] /\ read = << >>

-----------------------------------------------------------------------------
(* The devices and the controller.                                         *)

Key(k, part) == [src |-> "kbd", k |-> k, part |-> part, bit3 |-> FALSE]

Type ==
  /\ typed < MaxKeys
  /\ typed' = typed + 1
  /\ \/ kbdQ' = Append(kbdQ, Key(typed', "plain"))
     \/ kbdQ' = kbdQ \o <<Key(typed', "E0"), Key(typed', "second")>>
  /\ UNCHANGED <<machine, mouseQ, moved, obf, last, irq, in12, ring, mouse, main>>

Move ==
  /\ moved < MaxPackets
  /\ moved' = moved + 1
  /\ \E b2, b3 \in BOOLEAN :
       LET byte(part, bit) == [src |-> "mouse", k |-> moved', part |-> part, bit3 |-> bit]
       IN  mouseQ' = mouseQ \o <<byte("b1", TRUE), byte("b2", b2), byte("b3", b3)>>
  /\ UNCHANGED <<machine, kbdQ, typed, obf, last, irq, in12, ring, mouse, main>>

Fill ==
  /\ obf = NoByte
  /\ \/ /\ kbdQ # << >>
        /\ obf' = Head(kbdQ) /\ kbdQ' = Tail(kbdQ)
        /\ irq' = IF machine = "polled" THEN irq ELSE irq \cup {1}
        /\ UNCHANGED mouseQ
     \/ /\ mouseQ # << >>
        /\ obf' = Head(mouseQ) /\ mouseQ' = Tail(mouseQ)
        /\ irq' = irq \cup {12}
        /\ UNCHANGED kbdQ
  /\ UNCHANGED <<machine, typed, moved, last, in12, ring, mouse, main>>

(* inb(0x60): the byte, or the last one again.                             *)
Data == IF obf = NoByte THEN last ELSE obf
ReadPort ==
  /\ obf' = NoByte /\ last' = Data
  /\ UNCHANGED <<machine, kbdQ, mouseQ, typed, moved>>

-----------------------------------------------------------------------------
(* on_irq1, as a function of the byte: the flag, and the character queued. *)

(* Mutant of Decode: ext_flag is not cleared.                              *)
DecodeSticky(b) ==
  [ext  |-> b.part = "E0" \/ ext,
   char |-> [k |-> b.k, right |-> ext <=> b.part = "second"]]

Decode(b) ==
  [ext  |-> b.part = "E0",
   char |-> IF b.src = "mouse" THEN NoChar
            ELSE [k |-> b.k, right |-> ext <=> b.part = "second"]]

Queues(b) == b # NoByte /\ b.part # "E0"

(* Mutant of Succ: the index does not wrap.                                *)
SuccNoWrap(i) == i + 1

Succ(i) == (i + 1) % BufSize

(* Mutants of Full: it is not looked at; it comes one place too early.     *)
FullNever(h) == FALSE
FullEarly(h) == Succ(Succ(h)) = tail

Full(h) == Succ(h) = tail

(* Interrupts wake the CPU from hlt.                                       *)
Wake == IF pc = "hlt" THEN "check" ELSE pc

Irq1 ==
  /\ 1 \in irq /\ ~ in12
  /\ irq' = irq \ {1}
  /\ ReadPort
  /\ ext' = Decode(Data).ext
  /\ IF Queues(Data) /\ ~ Full(head)
     THEN buf' = [buf EXCEPT ![head] = Decode(Data).char] /\ head' = Succ(head)
     ELSE UNCHANGED <<buf, head>>
  /\ pc' = Wake
  /\ UNCHANGED <<in12, tail, mouse, sc, slot, read>>

-----------------------------------------------------------------------------
(* on_irq12 reads mouse bytes until the buffer is empty or holds a byte of *)
(* the keyboard.                                                           *)

(* Mutant of Ours: the source of the byte is not looked at.                *)
OursAny == obf # NoByte

Ours == obf # NoByte /\ obf.src = "mouse"

Irq12Enter ==
  /\ 12 \in irq /\ ~ in12 /\ 1 \notin irq
  /\ irq' = irq \ {12} /\ in12' = TRUE
  /\ UNCHANGED <<controller, ring, mouse, main>>

Irq12Byte ==
  /\ in12 /\ Ours
  /\ ReadPort
  /\ LET p == IF pkt = << >> /\ ~ obf.bit3 THEN pkt ELSE Append(pkt, obf)
     IN  IF Len(p) = 3 THEN packets' = Append(packets, p) /\ pkt' = << >>
         ELSE pkt' = p /\ UNCHANGED packets
  /\ UNCHANGED <<irq, in12, ring, main>>

Irq12Leave ==
  /\ in12 /\ ~ Ours
  /\ in12' = FALSE /\ pc' = Wake
  /\ UNCHANGED <<controller, irq, ring, mouse, sc, slot, read>>

(* Mutant of Tick: the timer does not wake the CPU.                        *)
TickSleeps == ~ in12 /\ UNCHANGED vars

(* The timer interrupt wakes the CPU, too.                                 *)
Tick ==
  /\ ~ in12
  /\ pc' = Wake
  /\ UNCHANGED <<controller, irq, in12, ring, mouse, sc, slot, read>>

-----------------------------------------------------------------------------
(* kb_getc.  On a "prompt" machine a latched request is served before the  *)
(* next step of the interrupted code; on the others it may take longer.    *)
Runs(place) == pc = place /\ ~ in12 /\ (machine # "prompt" \/ irq = {})

GoTo(place) == pc' = place /\ UNCHANGED <<controller, irq, in12, mouse, read>>

Check == /\ Runs("check")
         /\ GoTo(IF head = tail THEN "status" ELSE "take")
         /\ UNCHANGED <<ring, sc, slot>>

(* A byte is there, and it is the keyboard's: on_irq1 is called.           *)
KeyboardByte == obf # NoByte /\ obf.src = "kbd"

Status == /\ Runs("status")
          /\ GoTo(IF KeyboardByte THEN "inb" ELSE "take")
          /\ UNCHANGED <<ring, sc, slot>>

PollRead ==
  /\ Runs("inb")
  /\ ReadPort
  /\ sc' = Data /\ pc' = "decode"
  /\ UNCHANGED <<irq, in12, ring, mouse, slot, read>>

PollDecode ==
  /\ Runs("decode")
  /\ ext' = Decode(sc).ext
  /\ IF Queues(sc) /\ ~ Full(head)
     THEN GoTo("store") /\ slot' = [at |-> head, char |-> Decode(sc).char]
     ELSE GoTo("take") /\ UNCHANGED slot
  /\ UNCHANGED <<buf, head, tail, sc>>

(* enqueue: head is volatile, so buf[head] reads it again; next is kept.   *)
PollStore ==
  /\ Runs("store")
  /\ buf' = [buf EXCEPT ![head] = slot.char]
  /\ GoTo("advance")
  /\ UNCHANGED <<head, tail, ext, sc, slot>>

PollAdvance ==
  /\ Runs("advance")
  /\ head' = Succ(slot.at)
  /\ GoTo("take")
  /\ UNCHANGED <<buf, tail, ext, sc, slot>>

(* The character is returned, and the caller calls again.                  *)
Take ==
  /\ Runs("take") /\ head # tail
  /\ read' = Append(read, buf[tail]) /\ tail' = Succ(tail)
  /\ pc' = "check"
  /\ UNCHANGED <<controller, irq, in12, mouse, buf, head, ext, sc, slot>>

Nothing == Runs("take") /\ head = tail /\ GoTo("gohlt") /\ UNCHANGED <<ring, sc, slot>>
Halt == Runs("gohlt") /\ GoTo("hlt") /\ UNCHANGED <<ring, sc, slot>>

Main ==
  \/ Check \/ Status \/ PollRead \/ PollDecode \/ PollStore \/ PollAdvance
  \/ Take \/ Nothing \/ Halt

Irq12 == Irq12Enter \/ Irq12Byte \/ Irq12Leave

Next == Type \/ Move \/ Fill \/ Irq1 \/ Irq12 \/ Tick \/ Main

Spec == Init /\ [][Next]_vars

(* The CPU runs, takes interrupts, and the timer ticks; the controller     *)
(* passes on what the devices send.                                        *)
FairSpec ==
  /\ Spec
  /\ WF_vars(Main) /\ WF_vars(Irq1) /\ WF_vars(Irq12) /\ WF_vars(Tick) /\ WF_vars(Fill)

-----------------------------------------------------------------------------
(* Properties *)

Waiting == [i \in 1 .. (head - tail) % BufSize |-> buf[(tail + i - 1) % BufSize]]
Got == read \o Waiting

(* What kb_getc returns and the ring holds are keys that were typed, each  *)
(* decoded as what it is, once, in the order they were typed.              *)
KeysInOrder ==
  /\ \A i \in 1 .. Len(Got) : Got[i].right
  /\ \A i, j \in 1 .. Len(Got) : i < j => Got[i].k < Got[j].k

(* No key is lost to a ring with room: from the keyboard to the caller of  *)
(* kb_getc a key that was typed is in one place or the next, and only a    *)
(* step that finds BufSize - 1 characters waiting may drop it, be it the   *)
(* first time the ring is full or a later one.                             *)
Kept(k) ==
  \/ \E i \in 1 .. Len(kbdQ) : kbdQ[i].k = k
  \/ KeyboardByte /\ obf.k = k
  \/ pc = "decode" /\ sc.k = k
  \/ pc \in {"store", "advance"} /\ slot.char.k = k
  \/ \E i \in 1 .. Len(Got) : Got[i].k = k
RingFull == Len(Waiting) = BufSize - 1
NoKeyLost == [][\A k \in 1 .. MaxKeys : Kept(k) => Kept(k)' \/ RingFull]_vars

(* A full ring drops the new key: nothing that is waiting is overwritten,  *)
(* skipped or forgotten, in whatever order keys come and are read.         *)
IsPrefix(s, t) == Len(s) <= Len(t) /\ \A i \in 1 .. Len(s) : s[i] = t[i]
NothingOverwritten == [][IsPrefix(Got, Got')]_vars

(* The three bytes of a packet on_irq12 puts together were sent as one:    *)
(* neither kb_getc nor on_irq1 takes a byte of the mouse.                  *)
PacketsWhole ==
  \A n \in 1 .. Len(packets) : \A i \in 1 .. 3 :
    packets[n][i].part = <<"b1", "b2", "b3">>[i] /\ packets[n][i].k = packets[n][1].k

(* A byte of the mouse is never read as a scancode: an ESC that ends a     *)
(* full-screen program came from the keyboard (kb_trygetc).                *)
NoMouseAsKey == \A i \in 1 .. Len(Got) : Got[i].k # 0

(* Every key that was typed is read: the CPU does not sleep on a character *)
(* in the ring, though the interrupt may come just before the hlt, nor on  *)
(* one in the controller, though its interrupt may not come at all.        *)
Unread == kbdQ # << >> \/ obf # NoByte \/ head # tail
InputRead == Unread ~> ~ Unread

=============================================================================
