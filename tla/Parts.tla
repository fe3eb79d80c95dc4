-------------------------------- MODULE Parts --------------------------------
(* Parts of the system that share no state with each other, in one           *)
(* specification: a behaviour picks a part and exercises that one alone, from *)
(* each of its initial states; the others stay in one of theirs.             *)
EXTENDS Devices, Cards

CONSTANTS Hosts, Gateway, Far, ArpN, ArpTries, DnsTries, Names, Ports, MaxCalls, MaxIn, MaxDepth,
          Files, LastCluster, PerSector, MaxLen, MaxFileCalls, MaxFails,
          N, LineMax, UndoMax, Window, Letters, Texts, MaxEdits,
          Slots, Cols, Rows, MinW, MinH, Kinds, Singletons, ReadOnly, Resizable,
          Place, Chips, NoteCap, MaxInputs,
          Statements, MaxLines, Vma, LabelMax, FixupMax, OutMax,
          KeyChars, PromptMax, HistMax, HistCut, HistLines, AliasMax, AliasNames, AliasValues,
          Others \* parts of a module that extends this one

VARIABLES part,
    arp, buf, waits, air, asked, ncall, ncalls, echoed, udp, wire,
    fat1, fat2, disk, root, inRoot, csec, cbuf, cdirty, half, do, dcalls, fails, cut, orphan,
    ed, efile, edits,
    win, order, grip, pressed, chips, running, note, noteFile, inputs, hidden,
    asmSrc, asm, asmPc,
    ln, ghist, galias, hcount, entered, begun, meant

Net      == INSTANCE NetStack
FatOrder == INSTANCE FatDisk
Editor   == INSTANCE Edit
Windows  == INSTANCE Desktop
Assembler   == INSTANCE Zas
Shell    == INSTANCE Prompt

(* What the code's own constants guarantee of these values. A FAT volume has *)
(* a cluster to offer, and a FAT sector holds entries.                       *)
DiskSizes == /\ LastCluster \in Nat /\ LastCluster >= 2
             /\ PerSector \in Nat \ {0}
             /\ MaxLen \in Nat

(* An address is asked for once at least, and the gateway is on the local net. *)
NetSizes == /\ ArpTries \in Nat \ {0} /\ DnsTries \in Nat \ {0}
            /\ MaxDepth \in Nat /\ MaxCalls \in Nat /\ Gateway \in Hosts

(* Every kind of window fits between the menu bar and the taskbar, and one   *)
(* that can be resized has room for the least size where it is opened.       *)
DtSizes ==
    /\ {Slots, Cols, Rows, MinW, MinH, NoteCap} \subseteq Nat
    /\ "welcome" \in Kinds /\ Resizable \subseteq Kinds
    /\ \A k \in Kinds : LET p == Place[k] IN
         /\ {p.r, p.c, p.w, p.h, p.dr, p.dc} \subseteq Int
         /\ MinW <= p.w /\ p.w <= Cols /\ MinH <= p.h /\ p.h <= Rows - 2
    /\ \A k \in Resizable, i \in Windows!Slot : LET a == Windows!At(k, i) IN
         0 <= a.c /\ a.c + MinW <= Cols /\ 1 <= a.r /\ a.r + MinH <= Rows - 1

ASSUME PartsSizes == DiskSizes /\ NetSizes /\ DtSizes

netVars     == <<arp, buf, waits, air, asked, ncall, ncalls, echoed, udp, wire>>
fatVars     == <<fat1, fat2, disk, root, inRoot, csec, cbuf, cdirty, half, do, dcalls, fails, cut, orphan>>
editorVars  == <<ed, efile, edits>>
windowsVars == <<win, order, grip, pressed, chips, running, note, noteFile, inputs, hidden>>
asmVars     == <<asmSrc, asm, asmPc>>
shellVars   == <<ln, ghist, galias, hcount, entered, begun, meant>>

driverVars == <<intelVars, novellVars, hidVars, storageVars, netVars>>
fileVars   == <<fatVars, editorVars, windowsVars, asmVars>>
restVars   == <<floppyVars, sataVars, ideVars, clockVars, shellVars>>
vars == <<part, driverVars, fileVars, restVars>>

PartNames == {"e1000", "ne2000", "hid", "storage", "net", "fat", "edit", "desktop",
              "zas", "floppy", "sata", "ide", "rtc", "prompt"}

Init == /\ part \in PartNames \cup Others
        /\ Intel!Init /\ Novell!Init /\ Hid!Init /\ Storage!Init /\ Net!Init
        /\ FatOrder!Init /\ Editor!Init /\ Windows!Init /\ Assembler!Init
        /\ Diskette!Init /\ Sata!Init /\ Ide!Init /\ Clock!Init /\ Shell!Init
        /\ part # "floppy" => given = 0
        /\ part # "sata" => attached = {}
        /\ part # "ide" => selected = "hda"
        /\ part # "rtc" => time = [sec |-> 0, hour |-> 11, day |-> 1] /\ ~chip.h12

IntelStep ==
    /\ part = "e1000" /\ Intel!Next
    /\ UNCHANGED <<part, fileVars, restVars, novellVars, hidVars, storageVars, netVars>>
NovellStep ==
    /\ part = "ne2000" /\ Novell!Next
    /\ UNCHANGED <<part, fileVars, restVars, intelVars, hidVars, storageVars, netVars>>
HidStep ==
    /\ part = "hid" /\ Hid!Next
    /\ UNCHANGED <<part, fileVars, restVars, intelVars, novellVars, storageVars, netVars>>
StorageStep ==
    /\ part = "storage" /\ Storage!Next
    /\ UNCHANGED <<part, fileVars, restVars, intelVars, novellVars, hidVars, netVars>>
NetStep ==
    /\ part = "net" /\ Net!Next
    /\ UNCHANGED <<part, fileVars, restVars, intelVars, novellVars, hidVars, storageVars>>
FatOrderStep ==
    /\ part = "fat" /\ FatOrder!Next
    /\ UNCHANGED <<part, driverVars, restVars, editorVars, windowsVars, asmVars>>
EditorStep ==
    /\ part = "edit" /\ Editor!Next
    /\ UNCHANGED <<part, driverVars, restVars, fatVars, windowsVars, asmVars>>
WindowsStep ==
    /\ part = "desktop" /\ Windows!Next
    /\ UNCHANGED <<part, driverVars, restVars, fatVars, editorVars, asmVars>>
AssemblerStep ==
    /\ part = "zas" /\ Assembler!Next
    /\ UNCHANGED <<part, driverVars, restVars, fatVars, editorVars, windowsVars>>
DisketteStep ==
    /\ part = "floppy" /\ Diskette!Next
    /\ UNCHANGED <<part, driverVars, fileVars, sataVars, ideVars, clockVars, shellVars>>
SataStep ==
    /\ part = "sata" /\ Sata!Next
    /\ UNCHANGED <<part, driverVars, fileVars, floppyVars, ideVars, clockVars, shellVars>>
IdeStep ==
    /\ part = "ide" /\ Ide!Next
    /\ UNCHANGED <<part, driverVars, fileVars, floppyVars, sataVars, clockVars, shellVars>>
ClockStep ==
    /\ part = "rtc" /\ Clock!Next
    /\ UNCHANGED <<part, driverVars, fileVars, floppyVars, sataVars, ideVars, shellVars>>
ShellStep ==
    /\ part = "prompt" /\ Shell!Next
    /\ UNCHANGED <<part, driverVars, fileVars, floppyVars, sataVars, ideVars, clockVars>>

Next == \/ IntelStep \/ NovellStep \/ HidStep \/ StorageStep
        \/ NetStep \/ FatOrderStep \/ EditorStep \/ WindowsStep
        \/ AssemblerStep \/ DisketteStep \/ SataStep
        \/ IdeStep \/ ClockStep \/ ShellStep

Spec == Init /\ [][Next]_vars

-----------------------------------------------------------------------------
(* Every part keeps its variables in range. Here and below only the part     *)
(* that is exercised is looked at: the others are as they began.             *)
TypeOK == /\ part = "e1000" => Intel!TypeOK
          /\ part = "ne2000" => Novell!TypeOK
          /\ part = "hid" => Hid!TypeOK
          /\ part = "storage" => Storage!TypeOK
          /\ part = "net" => Net!TypeOK
          /\ part = "fat" => FatOrder!TypeOK
          /\ part = "edit" => Editor!TypeOK
          /\ part = "desktop" => Windows!TypeOK
          /\ part = "zas" => Assembler!TypeOK
          /\ part = "floppy" => Diskette!TypeOK
          /\ part = "sata" => Sata!TypeOK
          /\ part = "ide" => Ide!TypeOK
          /\ part = "rtc" => Clock!TypeOK
          /\ part = "prompt" => Shell!TypeOK

(* The rings of either card implement a queue that may lose frames (e1000.c, *)
(* ne2000.c against FrameQueue): frames reach net_poll and the wire whole,   *)
(* once and in order, until a wait of the driver for the transmitter runs    *)
(* out on a frame the card still has: from then on nothing is said of what   *)
(* is sent.                                                                  *)
QueuesKept == Intel!RingsAreQueues /\ Novell!PagesAreQueues

(* A key is typed once for a press of it, and no more often than it was      *)
(* pressed when reports are lost; a mouse report is added once (usb.c). A    *)
(* rollover report ends that for the keys, a bus error for what was lost.    *)
HidOnce == part = "hid" => Hid!HidOnce

(* Driver and stick stay in step, and success of a transfer is true, while   *)
(* no transfer was given up or cut short (usb.c, ehci.c). A call that returns *)
(* 0 moved the sectors asked for: on a diskette unless two waits were given  *)
(* up before it (floppy.c), on a SATA disk unless one was or the slot of the *)
(* disk has not the number of its port (ahci.c), on an IDE disk but for what *)
(* the drive refused (ata.c). The clock is read as a time that it was (rtc.c).*)
DriversTrue == /\ part = "storage" => Storage!StorageInStep
               /\ part = "floppy" => Diskette!FloppyTrue
               /\ part = "sata" => Sata!AhciTrue
               /\ part = "ide" => Ide!AtaTrue
               /\ part = "rtc" => Clock!RtcTrue

(* ARP cache, ip_send and dns_resolve (net.c), but for packets sent while    *)
(* another ip_send waited.                                                   *)
NetTrue == part = "net" => Net!NetTrue

(* The order of writes to the FATs and the directory (fat.c), but for the    *)
(* file in work and for calls in which a transfer failed.                    *)
DiskKeeps == part = "fat" => FatOrder!DiskKeeps

(* Undo of edits of one line, and the dirty flag but for the paths that do   *)
(* not set it (edit.c).                                                      *)
EditorTrue == part = "edit" => Editor!EditorTrue

(* Focus, stacking and places of the windows; the focus is on a shown one,   *)
(* but for one opened again while it was minimized (desktop.c).              *)
WindowsTrue == part = "desktop" => Windows!WindowsTrue

(* Of a source that is assembled the passes and the loader agree, but for    *)
(* labels of data behind code (zas.c).                                       *)
AssembledRight == part = "zas" => Assembler!AssembledRight

(* The prompt recalls what was entered (shell.c, builtins.c).                *)
PromptTrue == part = "prompt" => Shell!PromptTrue
=============================================================================
