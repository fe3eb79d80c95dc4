---------------------------------- MODULE Rtc ----------------------------------
(* The clock, kernel/drv/rtc.c, and the shell's time command over it. The     *)
(* chip moves its registers on one after the other, with UIP set from before  *)
(* the first to after the last; the reader may be held up by an interrupt     *)
(* between any two of its steps. Kept of the registers: second, hour and day; *)
(* BCD is a notation and left out, so are month, year and century.            *)
EXTENDS Integers, Sequences

CONSTANTS RtcSeconds,  \* seconds to the hour
          RtcTicks,    \* bound: updates of the clock, fewer than RtcSeconds
          RtcStarts,   \* hours it may be
          RtcHours,    \* hours asked of the time command
          RtcRetries   \* 5

VARIABLES time,   \* what time it is: second, hour and day
          regs,   \* what the registers hold, hours in the form of the mode
          chip,   \* UIP, the registers still to be moved on, 12 hour mode, updates so far
          rtc,    \* rtc_read, and cmd_time or cmd_date that called it: where it is, its locals
          since   \* history: the times it was since the call began

rtcVars == <<time, regs, chip, rtc, since>>

Fields == <<"sec", "hour", "day">>
Zero == [sec |-> 0, hour |-> 0, day |-> 0]

(* The form of an hour in a register: noon is 12 PM and midnight 12 AM.      *)
InMode(h, h12) == IF ~h12 THEN [h |-> h, pm |-> FALSE]
                  ELSE [h |-> IF h % 12 = 0 THEN 12 ELSE h % 12, pm |-> h >= 12]
Held(t, h12) == [sec |-> t.sec, hour |-> InMode(t.hour, h12), day |-> t.day]

(* One second later. *)
Later(t) == LET s == (t.sec + 1) % RtcSeconds
                h == IF s = 0 THEN (t.hour + 1) % 24 ELSE t.hour IN
            [sec |-> s, hour |-> h, day |-> IF s = 0 /\ h = 0 THEN t.day + 1 ELSE t.day]

Init == /\ time \in [sec : 0 .. RtcSeconds - 1, hour : RtcStarts, day : {1}]
        /\ \E h12 \in BOOLEAN : /\ chip = [uip |-> FALSE, todo |-> <<>>, h12 |-> h12, ticks |-> 0]
                                /\ regs = Held(time, h12)
        /\ rtc = [pc |-> "idle", set |-> FALSE, try |-> 0, a |-> <<>>, b |-> <<>>, t |-> Zero]
        /\ since = {}

-----------------------------------------------------------------------------
(* The chip. Bound: RtcTicks. *)
UipSets ==
    /\ ~chip.uip /\ chip.ticks < RtcTicks
    /\ chip' = [chip EXCEPT !.uip = TRUE, !.todo = Fields, !.ticks = @ + 1]
    /\ UNCHANGED <<time, regs, rtc, since>>
RegMoves ==
    /\ chip.todo # <<>>
    /\ regs' = [regs EXCEPT ![Head(chip.todo)] = Held(Later(time), chip.h12)[Head(chip.todo)]]
    /\ chip' = [chip EXCEPT !.todo = Tail(@)]
    /\ UNCHANGED <<time, rtc, since>>
UipClears ==
    /\ chip.uip /\ chip.todo = <<>>
    /\ chip' = [chip EXCEPT !.uip = FALSE]
    /\ time' = Later(time) /\ since' = since \cup {time'}
    /\ UNCHANGED <<regs, rtc>>

-----------------------------------------------------------------------------
(* rtc_read, for whoever shows the time, or for a command that sets it.      *)
RtcRead(set) ==
    /\ rtc.pc \in {"idle", "done"}
    /\ rtc' = [rtc EXCEPT !.pc = "waitA", !.set = set, !.try = 0, !.t = Zero]
    /\ since' = {time}
    /\ UNCHANGED <<time, regs, chip>>

(* The two loops on UIP.                                                     *)
UipSeen ==
    /\ rtc.pc \in {"waitA", "waitB"} /\ ~chip.uip
    /\ rtc' = IF rtc.pc = "waitA" THEN [rtc EXCEPT !.pc = "a", !.a = <<>>] ELSE [rtc EXCEPT !.pc = "b", !.b = <<>>]
    /\ UNCHANGED <<time, regs, chip, since>>

(* The registers are read one at a time, twice.                              *)
ReadReg ==
    /\ \/ /\ rtc.pc = "a"
          /\ rtc' = [rtc EXCEPT !.a = Append(@, regs[Fields[Len(@) + 1]]),
                                !.pc = IF Len(rtc.a) = 2 THEN "waitB" ELSE @]
       \/ /\ rtc.pc = "b"
          /\ rtc' = [rtc EXCEPT !.b = Append(@, regs[Fields[Len(@) + 1]]),
                                !.pc = IF Len(rtc.b) = 2 THEN "compare" ELSE @]
    /\ UNCHANGED <<time, regs, chip, since>>

(* Mutant of Agree: the second reading is not compared.                      *)
AgreeMutant(a, b) == TRUE

(* Two readings alike are the time; else again, and zero at the end.         *)
Agree(a, b) == a = b
Hour(h) == IF chip.h12 /\ h.pm THEN (h.h + 12) % 24 ELSE h.h
Compare ==
    /\ rtc.pc = "compare"
    /\ rtc' = IF Agree(rtc.a, rtc.b)
              THEN [rtc EXCEPT !.pc = IF rtc.set THEN "write" ELSE "done",
                               !.t = [sec |-> rtc.a[1], hour |-> Hour(rtc.a[2]), day |-> rtc.a[3]]]
              ELSE [rtc EXCEPT !.try = @ + 1, !.pc = IF rtc.try + 1 < RtcRetries THEN "waitA"
                                                    ELSE IF rtc.set THEN "write" ELSE "done"]
    /\ UNCHANGED <<time, regs, chip, since>>

(* rtc_write: it stops the clock meanwhile, an update included, and writes   *)
(* the hour as it is in either mode, never the PM flag. In 12 hour mode that *)
(* is an hour of the night or the morning, whatever was meant, and no hour   *)
(* at all if it is 0 or above 12: what a chip makes of one is not specified, *)
(* and the clock ends there, "unset".                                        *)
RtcWrite(t) ==
    /\ rtc.pc = "write"
    /\ time' = [t EXCEPT !.hour = IF chip.h12 THEN @ % 12 ELSE @]
    /\ regs' = [sec |-> t.sec, hour |-> [h |-> t.hour, pm |-> FALSE], day |-> t.day]
    /\ chip' = [chip EXCEPT !.uip = FALSE, !.todo = <<>>]
    /\ rtc' = [rtc EXCEPT !.pc = IF chip.h12 /\ t.hour \notin 1 .. 12 THEN "unset" ELSE "idle"]
    /\ UNCHANGED since

(* cmd_time replaces the time that was read; cmd_date its day, by the first. *)
CmdTime == \E h \in RtcHours : RtcWrite([sec |-> 0, hour |-> h, day |-> rtc.t.day])
CmdDate == RtcWrite([rtc.t EXCEPT !.day = 1])

Next == \/ UipSets \/ RegMoves \/ UipClears
        \/ \E set \in BOOLEAN : RtcRead(set)
        \/ UipSeen \/ ReadReg \/ Compare \/ CmdTime \/ CmdDate
Spec == Init /\ [][Next]_rtcVars

-----------------------------------------------------------------------------
TypeOK == /\ chip.ticks \in 0 .. RtcTicks /\ rtc.try \in 0 .. RtcRetries
          /\ rtc.t.hour \in 0 .. 23 /\ time.hour \in 0 .. 23 /\ chip.uip \in BOOLEAN

(* A time that rtc_read returns is zero throughout, or one it was while the  *)
(* call ran, torn nowhere (rtc_read); only the twelfth hour of a clock in 12 *)
(* hour mode comes out as its opposite. What cmd_time and cmd_date write     *)
(* back next to what they were asked for is of such a time.                  *)
Shown(t) == IF chip.h12 /\ t.hour % 12 = 0 THEN [t EXCEPT !.hour = 12 - @] ELSE t
RtcTrue == rtc.pc \in {"done", "write"} => rtc.t = Zero \/ \E t \in since : rtc.t = Shown(t)
=============================================================================
