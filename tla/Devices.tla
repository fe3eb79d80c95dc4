------------------------------- MODULE Devices -------------------------------
(* The drivers of the disks, of USB sticks, of the USB keyboard and mouse    *)
(* and of the clock, which share no variable with each other here.           *)
EXTENDS Integers, FiniteSets

CONSTANTS Controllers, MaxReq, MaxFaults, TurTries, ChunkSectors, MaxSectors, SectorPackets, TdMax,
          FlSectors, FlMaxCalls, SataPorts, SataSlots, SataSectors, SataChunk, SataCalls,
          IdeDrives, IdeSectors, IdeCalls,
          RtcSeconds, RtcTicks, RtcStarts, RtcHours, RtcRetries,
          Keys, Mapped, UsbBuf, MaxPress, MaxMoves, MaxReports, MaxErrors

VARIABLES ctl, unit, left, req, td, host, dev, last, late,
          flop, irqFired, dmaBuf, dma, fdc, seek, sectors, given,
          attached, sata, cmds, ioBuf, slots, ahci, platter,
          ata, selected, drive, surface, refused,
          time, regs, chip, rtc, since,
          port, boot, kbdAddr, kbdFound, mouseFound, stick, list, kbdTd, mouseTd,
          hostTog, devTog, held, reports, report, prev, usbRing, moves, mouseReport, seen

Storage  == INSTANCE MassStorage
Diskette == INSTANCE Floppy
Sata     == INSTANCE Ahci
Ide      == INSTANCE Ata
Clock    == INSTANCE Rtc
Hid      == INSTANCE UsbHid

(* What the code's own constants guarantee of these values. A sector of a    *)
(* stick takes packets, and a transfer some; there are a port, a slot and an *)
(* IDE drive; a disk has sectors; an hour has more seconds than the clock    *)
(* moves on; "rollover" is no key, and the ring of keys has room.            *)
MsSizes == /\ Controllers \subseteq {"uhci", "ehci"}
           /\ {MaxReq, MaxFaults, TurTries, ChunkSectors, MaxSectors} \subseteq Nat /\ TurTries > 0
           /\ \A c \in Controllers : SectorPackets[c] \in Nat
           /\ TdMax \in Nat \ {0}
FlSizes == FlSectors \in Nat \ {0} /\ FlMaxCalls \in Nat
SataSizes == {SataPorts, SataSlots} \subseteq Nat \ {0} /\ {SataSectors, SataChunk, SataCalls} \subseteq Nat
IdeSizes == IdeDrives # {} /\ IdeSectors \in Nat \ {0} /\ IdeCalls \in Nat
RtcSizes == /\ {RtcSeconds, RtcTicks, RtcRetries} \subseteq Nat /\ RtcTicks < RtcSeconds
            /\ RtcRetries > 0 /\ RtcStarts \cup RtcHours \subseteq 0 .. 23
HidSizes == /\ IsFiniteSet(Keys) /\ "rollover" \notin Keys /\ Mapped \subseteq Keys
            /\ UsbBuf \in Nat \ {0}

ASSUME DevicesSizes == MsSizes /\ FlSizes /\ SataSizes /\ IdeSizes /\ RtcSizes /\ HidSizes

storageVars == <<ctl, unit, left, req, td, host, dev, last, late>>
floppyVars  == <<flop, irqFired, dmaBuf, dma, fdc, seek, sectors, given>>
sataVars    == <<attached, sata, cmds, ioBuf, slots, ahci, platter>>
ideVars     == <<ata, selected, drive, surface, refused>>
clockVars   == <<time, regs, chip, rtc, since>>
hidVars     == <<port, boot, kbdAddr, kbdFound, mouseFound, stick, list, kbdTd, mouseTd,
                 hostTog, devTog, held, reports, report, prev, usbRing, moves, mouseReport, seen>>
=============================================================================
