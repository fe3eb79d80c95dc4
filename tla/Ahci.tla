--------------------------------- MODULE Ahci ---------------------------------
(* The SATA driver, kernel/drv/ahci.c, against the controller: ahci_init      *)
(* finds the disks one port after the other, ahci_issue puts one command at a *)
(* time into memory and polls for its end, with a bound. The driver keeps its *)
(* command in the structures of the port's number; what the controller reads  *)
(* is the list ahci_init gave the port, that of the disk's slot.              *)
EXTENDS Naturals, Sequences

CONSTANTS SataPorts,    \* the ports are 0 .. SataPorts - 1
          SataSlots,    \* AHCI_SLOT_MAX: disks, and command structures
          SataSectors,  \* bound: sectors of each disk
          SataChunk,    \* sectors of a command (127)
          SataCalls     \* bound: calls of ahci_read and ahci_write

VARIABLES attached, \* ports with a disk (PORT_SSTS)
          sata,     \* port registers: clb, ci, tfes (in IS), err (in TFD), run; gave: a wait was given up
          cmds,     \* g_cmd_list[k][0] with g_cmd_table[k], k < SataSlots
          ioBuf,    \* g_io_buf: whose identity it holds, SataPorts for nobody's
          slots,    \* the disks registered: port and whose size they have
          ahci,     \* the running ahci_init, ahci_read or ahci_write
          platter   \* what the disks hold

ahciVars == <<attached, sata, cmds, ioBuf, slots, ahci, platter>>

SataPort == 0 .. SataPorts - 1
Data(p, s, call) == <<p, s, call>>
Blank == [op |-> "blank", port |-> 0, lba |-> 1, n |-> 0, off |-> 0, call |-> 0]
Nobody == SataPorts

Init == /\ attached \in SUBSET SataPort
        /\ sata = [p \in SataPort |-> [clb |-> 0, ci |-> FALSE, tfes |-> FALSE, err |-> FALSE,
                                       run |-> FALSE, gave |-> FALSE]]
        /\ cmds = [p \in SataPort |-> Blank] /\ ioBuf = Nobody /\ slots = <<>>
        /\ ahci = [pc |-> "probe", op |-> "identify", slot |-> 1, port |-> 0, lba |-> 1,
                   count |-> 0, off |-> 0, call |-> 0, out |-> <<>>]
        /\ platter = [p \in SataPort |-> [s \in 1 .. SataSectors |-> Data(p, s, 0)]]

-----------------------------------------------------------------------------
(* ahci_init goes on until the ports, or the slots for disks, run out: a     *)
(* port without a disk, and one with.                                        *)
NextPort(taken) ==
    IF ahci.port + 1 = SataPorts \/ taken = SataSlots THEN [ahci EXCEPT !.pc = "idle", !.port = 0]
    ELSE [ahci EXCEPT !.pc = "probe", !.port = @ + 1]
SkipPort ==
    /\ ahci.pc = "probe" /\ ahci.port \notin attached /\ ahci' = NextPort(Len(slots))
    /\ UNCHANGED <<attached, sata, cmds, ioBuf, slots, platter>>

SetUpPort ==
    /\ ahci.pc = "probe" /\ ahci.port \in attached
    /\ sata' = [sata EXCEPT ![ahci.port].clb = Len(slots), ![ahci.port].run = TRUE]
    /\ ahci' = [ahci EXCEPT !.pc = "issue"]
    /\ UNCHANGED <<attached, cmds, ioBuf, slots, platter>>

(* The end of ahci_identify: no error gives the sector count found in        *)
(* g_io_buf, and a count of zero no disk.                                    *)
Register ==
    /\ ahci.pc = "check" /\ ahci.op = "identify"
    /\ slots' = IF sata[ahci.port].err \/ ioBuf = Nobody THEN slots
                ELSE Append(slots, [port |-> ahci.port, size |-> ioBuf])
    /\ ahci' = NextPort(Len(slots'))
    /\ UNCHANGED <<attached, sata, cmds, ioBuf, platter>>

-----------------------------------------------------------------------------
(* ahci_read and ahci_write on the disk in a slot. Bound: SataCalls.         *)
Call(op, k, s, n) ==
    /\ ahci.pc \in {"idle", "done", "failed"} /\ ahci.call < SataCalls
    /\ ahci' = [pc |-> "issue", op |-> op, slot |-> k, port |-> slots[k].port, lba |-> s,
                count |-> n, off |-> 0, call |-> ahci.call + 1, out |-> [i \in 1 .. n |-> Data(Nobody, 0, 0)]]
    /\ UNCHANGED <<attached, sata, cmds, ioBuf, slots, platter>>

(* The command goes into the structures of the port's number; for a port of  *)
(* a higher number than there are, into the memory behind them: the driver's *)
(* part of the model ends there.                                             *)
InChunk == IF ahci.count - ahci.off > SataChunk THEN SataChunk ELSE ahci.count - ahci.off
Issue ==
    /\ ahci.pc = "issue" /\ ahci.port < SataSlots
    /\ cmds' = [cmds EXCEPT ![ahci.port] =
                 [op |-> ahci.op, port |-> ahci.port, lba |-> ahci.lba + ahci.off, n |-> InChunk,
                  off |-> ahci.off, call |-> ahci.call]]
    /\ sata' = [sata EXCEPT ![ahci.port].tfes = FALSE, ![ahci.port].ci = TRUE]
    /\ ahci' = [ahci EXCEPT !.pc = "poll"]
    /\ UNCHANGED <<attached, ioBuf, slots, platter>>

IssueBehind ==
    /\ ahci.pc = "issue" /\ ahci.port >= SataSlots
    /\ ahci' = [ahci EXCEPT !.pc = "overrun"]
    /\ UNCHANGED <<attached, sata, cmds, ioBuf, slots, platter>>

(* The poll ends with the command, with a task file error (ahci_identify     *)
(* does not look for one), or with its bound.                                *)
PollEnds ==
    /\ ahci.pc = "poll"
    /\ LET p == sata[ahci.port] IN
       /\ ahci' = [ahci EXCEPT !.pc = IF p.ci /\ p.tfes /\ ahci.op # "identify" THEN "failed" ELSE "check"]
       /\ sata' = IF p.ci /\ (~p.tfes \/ ahci.op = "identify") THEN [sata EXCEPT ![ahci.port].gave = TRUE]
                  ELSE sata
    /\ UNCHANGED <<attached, cmds, ioBuf, slots, platter>>

(* Mutant of Check: with the look at the task file forgotten.                  *)
CheckMutant ==
    /\ ahci.pc = "check" /\ ahci.op # "identify"
    /\ LET off == ahci.off + InChunk IN
       ahci' = [ahci EXCEPT !.off = off, !.pc = IF off < ahci.count THEN "issue" ELSE "done"]
    /\ UNCHANGED <<attached, sata, cmds, ioBuf, slots, platter>>

(* The task file decides; then the next chunk.                               *)
Check ==
    /\ ahci.pc = "check" /\ ahci.op # "identify"
    /\ LET off == ahci.off + InChunk IN
       ahci' = IF sata[ahci.port].err THEN [ahci EXCEPT !.pc = "failed"]
               ELSE [ahci EXCEPT !.off = off, !.pc = IF off < ahci.count THEN "issue" ELSE "done"]
    /\ UNCHANGED <<attached, sata, cmds, ioBuf, slots, platter>>

-----------------------------------------------------------------------------
(* The controller: a port that runs takes the command at the head of its     *)
(* list. One that was never filled moves nothing; a read that comes late     *)
(* lands in the buffer of the call of that time, as callers read into static *)
(* ones.                                                                     *)
Works(p) ==
    /\ sata[p].ci /\ sata[p].run
    /\ sata' = [sata EXCEPT ![p].ci = FALSE]
    /\ LET c == cmds[sata[p].clb]
           its == c.lba .. c.lba + c.n - 1 IN
       /\ ioBuf' = IF c.op = "identify" THEN p ELSE ioBuf
       /\ platter' = IF c.op = "write"
                     THEN [platter EXCEPT ![p] = [s \in 1 .. SataSectors |->
                              IF s \in its THEN Data(c.port, s, c.call) ELSE @[s]]]
                     ELSE platter
       /\ ahci' = IF c.op = "read"
                  THEN [ahci EXCEPT !.out = [i \in 1 .. Len(@) |->
                           IF i \in c.off + 1 .. c.off + c.n THEN platter[p][c.lba + i - c.off - 1] ELSE @[i]]]
                  ELSE ahci
    /\ UNCHANGED <<attached, cmds, slots>>

(* A command that fails stops the port; nothing starts it again.             *)
Breaks(p) ==
    /\ sata[p].ci /\ sata[p].run
    /\ \E ci \in BOOLEAN :
         sata' = [sata EXCEPT ![p].ci = ci, ![p].tfes = TRUE, ![p].err = TRUE, ![p].run = FALSE]
    /\ UNCHANGED <<attached, cmds, ioBuf, slots, ahci, platter>>

Next == \/ SkipPort \/ SetUpPort \/ Register
        \/ \E op \in {"read", "write"}, k \in 1 .. Len(slots), s, n \in 1 .. SataSectors :
              s + n - 1 <= SataSectors /\ Call(op, k, s, n)
        \/ Issue \/ IssueBehind \/ PollEnds \/ Check
        \/ \E p \in SataPort : Works(p) \/ Breaks(p)
Spec == Init /\ [][Next]_ahciVars

-----------------------------------------------------------------------------
TypeOK == /\ attached \subseteq SataPort /\ Len(slots) <= SataPorts
          /\ \A k \in 1 .. Len(slots) : slots[k] \in [port : attached, size : SataPort]
          /\ ahci.pc \in {"probe", "issue", "poll", "check", "idle", "done", "failed", "overrun"}
          /\ ahci.off \in 0 .. SataSectors /\ ahci.call \in 0 .. SataCalls
          /\ \A p \in SataPort : sata[p].clb \in SataPort

(* A disk whose slot has its port's number has its own size, and a call on   *)
(* it that returns 0 has moved its sectors, whatever failed before, as long  *)
(* as no wait was given up: for a write, on its own port. Where all slots    *)
(* are like that, no disk ever gets a write meant for another, whatever was  *)
(* given up and however late the controller answers. A disk in another slot  *)
(* has a list its commands are not in, and nothing is claimed of it          *)
(* (ahci_init, ahci_identify, ahci_issue, ahci_read, ahci_write).            *)
Own(k) == slots[k].port = k - 1
Prompt(ports) == \A p \in ports : ~sata[p].gave
AhciTrue ==
    /\ Prompt(SataPort) => \A k \in 1 .. Len(slots) : Own(k) => slots[k].size = slots[k].port
    /\ ahci.pc = "done" /\ Own(ahci.slot) =>
         \A i \in 1 .. ahci.count :
           LET s == ahci.lba + i - 1 IN
           IF ahci.op = "read" THEN Prompt(SataPort) => ahci.out[i] = platter[ahci.port][s]
           ELSE Prompt({ahci.port}) => platter[ahci.port][s] = Data(ahci.port, s, ahci.call)
    /\ (\A k \in 1 .. Len(slots) : Own(k)) =>
         \A p \in SataPort, s \in 1 .. SataSectors : platter[p][s][1] = p /\ platter[p][s][2] = s
=============================================================================
