------------------------------- MODULE UsbHid -------------------------------
(* kernel/drv/usb.c without storage: the two ports of the UHCI controller,   *)
(* enumeration, the one frame list every transfer shares, and the keyboard   *)
(* and mouse polled through it. A report is the set of keys held; a keyboard *)
(* with too many of them sends Rollover. A device keeps its reports in a     *)
(* queue. Both sides count packets with a data toggle: the controller drops  *)
(* a packet with the wrong toggle and acknowledges it all the same.          *)
EXTENDS Naturals, Sequences, FiniteSets

CONSTANTS Keys, Mapped,  \* usage codes; those hid_to_kbcode or hid_nav know
          UsbBuf,        \* USB_BUF
          MaxPress, MaxMoves,    \* bounds: presses of each key, moves of the mouse
          MaxReports, MaxErrors  \* bounds: queued reports, bus errors

Rollover == {"rollover"}    \* usage 1 in all six places
Usages == Keys \cup Rollover
Devices == {"none", "kbd", "mouse", "stick", "combo"}
HasKbd(d) == d \in {"kbd", "combo"}    \* combo: a stick and a keyboard in one
HasStick(d) == d \in {"stick", "combo"}

VARIABLES
    port,       \* per port: the device, its address, whether it is configured
    boot,       \* "off", the port usb_init probes, "submit", "ehci", "run"
    kbdAddr, kbdFound, mouseFound, stick, \* g_kbd_addr, g_*_found, an msc in use
    list,       \* the queue heads the frame list leads to
    kbdTd, mouseTd,    \* "idle", "active", "done", "error"
    hostTog, devTog,   \* toggles of the kbd and mouse pipes at either end
    held, reports,     \* keys down, reports the keyboard has not sent
    report, prev,      \* g_kbd_report, g_prev_report
    usbRing,           \* g_usb_buf from tail to head
    moves, mouseReport, \* unsent mouse reports, g_mouse_report
    seen        \* history: what was pressed, typed, moved...

hidVars == <<port, boot, kbdAddr, kbdFound, mouseFound, stick, list, kbdTd, mouseTd,
          hostTog, devTog, held, reports, report, prev, usbRing, moves, mouseReport, seen>>
buses == <<port, boot, kbdAddr, kbdFound, mouseFound, stick>>
kbd == <<held, reports, report, prev, usbRing>>
mouse == <<moves, mouseReport>>

Init ==
    /\ port = [p \in 0 .. 1 |-> [dev |-> "none", addr |-> 0, conf |-> FALSE]]
    /\ boot = "off" /\ kbdAddr = 0 /\ kbdFound = FALSE /\ mouseFound = FALSE /\ stick = FALSE
    /\ list = <<>> /\ kbdTd = "idle" /\ mouseTd = "idle"
    /\ hostTog = [kbd |-> 0, mouse |-> 0] /\ devTog = [kbd |-> 0, mouse |-> 0]
    /\ held = {} /\ reports = <<>> /\ report = {} /\ prev = {} /\ usbRing = <<>>
    /\ moves = 0 /\ mouseReport = 0
    /\ seen = [presses |-> [k \in Keys |-> 0], typed |-> [k \in Keys |-> 0], moved |-> 0,
               taken |-> 0, rolled |-> FALSE, full |-> FALSE, faults |-> 0]

-----------------------------------------------------------------------------
(* usb_init, uhci_init_controller: reset, then one port after the other.     *)

UsbInit ==
    /\ boot = "off" /\ boot' = "port0"
    /\ \E d0, d1 \in Devices :
         port' = [p \in 0 .. 1 |->
                    [dev |-> IF p = 0 THEN d0 ELSE d1, addr |-> 0, conf |-> FALSE]]
    /\ UNCHANGED <<kbdAddr, kbdFound, mouseFound, stick, list, kbdTd, mouseTd,
                   hostTog, devTog, kbd, mouse, seen>>

Number == IF boot = "port0" THEN 0 ELSE 1
NextBoot == IF boot = "port0" THEN "port1" ELSE "submit"

(* Nothing on the port, or a transfer to address 0 fails: enumeration ends   *)
(* before SET_ADDRESS.                                                       *)
ProbeNothing ==
    /\ boot \in {"port0", "port1"} /\ boot' = NextBoot
    /\ UNCHANGED <<port, kbdAddr, kbdFound, mouseFound, stick, list, kbdTd, mouseTd,
                   hostTog, devTog, kbd, mouse, seen>>

(* SET_ADDRESS(1) has moved the device and a later transfer fails.           *)
ProbeFails ==
    /\ boot \in {"port0", "port1"} /\ port[Number].dev # "none"
    /\ boot' = NextBoot
    /\ port' = [port EXCEPT ![Number].addr = 1]
    /\ UNCHANGED <<kbdAddr, kbdFound, mouseFound, stick, list, kbdTd, mouseTd,
                   hostTog, devTog, kbd, mouse, seen>>

(* Who answers at address 1: when both ports hold a device there, the first. *)
Answers == CHOOSE p \in 0 .. Number :
             (p = Number \/ port[p].addr = 1) /\ \A q \in 0 .. p - 1 : port[q].addr # 1

(* enumerate_device to its end: storage is attached on the way, a keyboard   *)
(* wins over a mouse, and the pipes start at DATA0.                          *)
ProbeWorks ==
    /\ boot \in {"port0", "port1"} /\ port[Number].dev # "none"
    /\ boot' = NextBoot
    /\ LET d == port[Answers].dev IN
         /\ port' = [port EXCEPT ![Number].addr = 1, ![Answers] =
                       [dev |-> d, addr |-> 1, conf |-> TRUE]]
         /\ stick' = (stick \/ HasStick(d))
         /\ kbdAddr' = IF HasKbd(d) THEN 1 ELSE kbdAddr
         /\ mouseFound' = (mouseFound \/ d = "mouse")
    /\ UNCHANGED <<kbdFound, list, kbdTd, mouseTd, hostTog, devTog, kbd, mouse, seen>>

(* kbd_td_submit: the keyboard's queue head alone in every frame.            *)
KbdSubmit == kbdTd' = "active" /\ list' = <<"kbd">>

(* mouse_td_submit: the mouse's queue head, the keyboard's behind it.        *)
MouseSubmit == mouseTd' = "active" /\ list' = IF kbdFound THEN <<"mouse", "kbd">> ELSE <<"mouse">>

(* The end of usb_init: whatever was found is submitted, the mouse last.     *)
UsbSubmit ==
    /\ boot = "submit" /\ boot' = "ehci"
    /\ kbdFound' = (kbdAddr = 1)
    /\ kbdTd' = IF kbdAddr = 1 THEN "active" ELSE "idle"
    /\ mouseTd' = IF mouseFound THEN "active" ELSE "idle"
    /\ list' = (IF mouseFound THEN <<"mouse">> ELSE <<>>) \o (IF kbdAddr = 1 THEN <<"kbd">> ELSE <<>>)
    /\ UNCHANGED <<port, kbdAddr, mouseFound, stick, hostTog, devTog, kbd, mouse, seen>>

(* ehci_init comes next in kmain. Without the controller nothing happens;    *)
(* with it CONFIGFLAG moves every port to it and back again for a slow       *)
(* device, which has then forgotten its address: usb.c does not ask again.   *)
EhciInit ==
    /\ boot = "ehci" /\ boot' = "run"
    /\ \/ UNCHANGED port
       \/ port' = [p \in 0 .. 1 |-> [port[p] EXCEPT !.addr = 0, !.conf = FALSE]]
    /\ UNCHANGED <<kbdAddr, kbdFound, mouseFound, stick, list, kbdTd, mouseTd,
                   hostTog, devTog, kbd, mouse, seen>>

-----------------------------------------------------------------------------
(* The keyboard.                                                             *)

Live(has(_)) == boot = "run" /\ \E p \in 0 .. 1 : port[p].conf /\ has(port[p].dev)

KeyMoves(keys) ==
    /\ Len(reports) < MaxReports
    /\ held' = keys
    /\ reports' = Append(reports, IF Cardinality(keys) > 2 THEN Rollover ELSE keys)
    /\ UNCHANGED <<buses, list, kbdTd, mouseTd, hostTog, devTog, report, prev, usbRing, mouse>>

Press == \E k \in Keys \ held :
           /\ Live(HasKbd) /\ seen.presses[k] < MaxPress[k]
           /\ KeyMoves(held \cup {k})
           /\ seen' = [seen EXCEPT !.presses[k] = @ + 1,
                                   !.rolled = @ \/ Cardinality(held) > 1]

Release == \E k \in held : KeyMoves(held \ {k}) /\ UNCHANGED seen

(* The controller runs the keyboard's TD, if the frame list leads to it.     *)
KbdAnswers ==
    /\ kbdTd = "active" /\ reports # <<>> /\ \E i \in DOMAIN list : list[i] = "kbd"
    /\ IF hostTog.kbd = devTog.kbd
       THEN report' = Head(reports) /\ kbdTd' = "done"
       ELSE UNCHANGED <<report, kbdTd>>
    /\ reports' = Tail(reports) /\ devTog' = [devTog EXCEPT !.kbd = 1 - @]
    /\ UNCHANGED <<buses, list, mouseTd, hostTog, held, prev, usbRing, mouse, seen>>

(* Three bus errors on one pipe: the TD stops with an error, nothing moved.  *)
BusError ==
    /\ seen.faults < MaxErrors
    /\ \/ kbdTd = "active" /\ kbdTd' = "error" /\ UNCHANGED mouseTd
       \/ mouseTd = "active" /\ mouseTd' = "error" /\ UNCHANGED kbdTd
    /\ seen' = [seen EXCEPT !.faults = @ + 1]
    /\ UNCHANGED <<buses, list, hostTog, devTog, kbd, mouse>>

(* What a report types: keys the last one did not hold. After one of a       *)
(* rollover those are all that are down.                                     *)
Fresh(r, old) == (r \ old) \cap Mapped

(* usb_enqueue for each of them, in the order of the report. *)
Enqueued(new) == CHOOSE s \in UNION {[1 .. n -> new] : n \in 0 .. Cardinality(new)} :
    /\ \A i, j \in DOMAIN s : s[i] = s[j] => i = j
    /\ Len(s) = IF Len(usbRing) + Cardinality(new) > UsbBuf - 1
                THEN UsbBuf - 1 - Len(usbRing) ELSE Cardinality(new)

(* Mutant of TakeReport: the report is not kept for the next comparison. *)
TakeReportMutant ==
    LET new == Enqueued(Fresh(report, prev)) IN
      /\ usbRing' = IF usbRing \o new = <<>> THEN <<>> ELSE Tail(usbRing \o new)
      /\ seen' = [seen EXCEPT
            !.typed = [k \in Keys |-> @[k] + (IF \E i \in DOMAIN new : new[i] = k THEN 1 ELSE 0)],
            !.full = @ \/ Len(new) < Cardinality(Fresh(report, prev))]
      /\ prev' = prev
      /\ hostTog' = [hostTog EXCEPT !.kbd = 1 - @]
      /\ KbdSubmit

(* A TD no longer active, whether it ended well or with an error: the        *)
(* report's new keys are typed, the toggle turned, the TD submitted again,   *)
(* and the oldest key of the ring returned.                                  *)
TakeReport ==
    LET new == Enqueued(Fresh(report, prev)) IN
      /\ usbRing' = IF usbRing \o new = <<>> THEN <<>> ELSE Tail(usbRing \o new)
      /\ seen' = [seen EXCEPT
            !.typed = [k \in Keys |-> @[k] + (IF \E i \in DOMAIN new : new[i] = k THEN 1 ELSE 0)],
            !.full = @ \/ Len(new) < Cardinality(Fresh(report, prev))]
      /\ prev' = report
      /\ hostTog' = [hostTog EXCEPT !.kbd = 1 - @]
      /\ KbdSubmit

(* usb_kbd_trygetc: a report that came is taken, otherwise only a key. *)
TryGetc ==
    /\ kbdFound
    /\ IF kbdTd \in {"done", "error"} THEN TakeReport
       ELSE /\ usbRing # <<>> /\ usbRing' = Tail(usbRing)
            /\ UNCHANGED <<list, kbdTd, hostTog, prev, seen>>
    /\ UNCHANGED <<buses, mouseTd, devTog, held, reports, report, mouse>>

-----------------------------------------------------------------------------
(* The mouse.                                                                *)

IsMouse(d) == d = "mouse"

MouseMoves ==
    /\ Live(IsMouse) /\ seen.moved < MaxMoves
    /\ moves' = moves + 1 /\ seen' = [seen EXCEPT !.moved = @ + 1]
    /\ UNCHANGED <<buses, list, kbdTd, mouseTd, hostTog, devTog, kbd, mouseReport>>

MouseAnswers ==
    /\ mouseTd = "active" /\ moves > 0 /\ \E i \in DOMAIN list : list[i] = "mouse"
    /\ IF hostTog.mouse = devTog.mouse
       THEN mouseReport' = 1 /\ mouseTd' = "done"
       ELSE UNCHANGED <<mouseReport, mouseTd>>
    /\ moves' = moves - 1 /\ devTog' = [devTog EXCEPT !.mouse = 1 - @]
    /\ UNCHANGED <<buses, list, kbdTd, hostTog, kbd, seen>>

(* usb_mouse_poll: a TD that ended adds the report in the buffer, which      *)
(* after an error is the one already added; the caller takes the sum.        *)
MousePoll ==
    /\ mouseFound /\ mouseTd \in {"done", "error"}
    /\ MouseSubmit
    /\ hostTog' = [hostTog EXCEPT !.mouse = 1 - @]
    /\ seen' = [seen EXCEPT !.taken = @ + mouseReport]
    /\ UNCHANGED <<buses, kbdTd, devTog, kbd, moves, mouseReport>>

(* A bulk transfer to the stick takes over every frame and leaves the list   *)
(* empty: reports stay in the devices from then on.                          *)
StickTransfer ==
    /\ boot = "run" /\ stick /\ list # <<>> /\ list' = <<>>
    /\ UNCHANGED <<buses, kbdTd, mouseTd, hostTog, devTog, kbd, mouse, seen>>

Next == \/ UsbInit \/ ProbeNothing \/ ProbeFails \/ ProbeWorks \/ UsbSubmit \/ EhciInit
        \/ Press \/ Release \/ KbdAnswers \/ BusError \/ TryGetc
        \/ MouseMoves \/ MouseAnswers \/ MousePoll \/ StickTransfer

Spec == Init /\ [][Next]_hidVars

-----------------------------------------------------------------------------
TypeOK ==
    /\ \A p \in 0 .. 1 : port[p].dev \in Devices /\ port[p].addr \in 0 .. 1
    /\ boot \in {"off", "port0", "port1", "submit", "ehci", "run"}
    /\ kbdTd \in {"idle", "active", "done", "error"}
    /\ held \subseteq Keys /\ report \subseteq Usages /\ prev \subseteq Usages
    /\ Len(usbRing) < UsbBuf

(* Until a rollover report no key is typed more often than it was pressed,   *)
(* bus errors or not; and until a bus error too, when the keyboard has       *)
(* nothing left to say and the ring never was full, every press has been     *)
(* typed. Until a bus error the mouse's reports are added once each; one     *)
(* that follows an error is added again (usb_kbd_trygetc, usb_mouse_poll).   *)
HidOnce ==
    /\ ~seen.rolled =>
         /\ \A k \in Keys : seen.typed[k] <= seen.presses[k]
         /\ (seen.faults = 0 /\ kbdTd = "active" /\ reports = <<>> /\ ~seen.full) =>
              \A k \in Mapped : seen.typed[k] = seen.presses[k]
    /\ seen.faults = 0 =>
         /\ seen.taken <= seen.moved
         /\ (mouseTd = "active" /\ moves = 0) => seen.taken = seen.moved
=============================================================================
