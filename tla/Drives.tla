------------------------------- MODULE Drives -------------------------------
(* Disks, partition tables, partition views, drive letters and the setup     *)
(* wizard: kernel/drv/{disk,mbr}.c, kernel/fs/vfs.c, the mount half of       *)
(* kernel/fs/fat.c, the storage commands of shell/builtins.c and             *)
(* shell/install.c.                                                          *)
(*                                                                           *)
(* Space is counted in units of 2048 sectors (the alignment the code uses).  *)
(* A raw disk id doubles as its table slot; view ids follow the raw ones.    *)
(* What the properties tell apart of a FAT volume is whether its boot sector *)
(* parses, whether the root can be read behind it, the files setup cares     *)
(* about and which of them are complete.                                     *)
EXTENDS Integers, FiniteSets

CONSTANTS
    NRaw,        \* raw disks present, ids 0 .. NRaw-1 (DISK_RAW_MAX slots)
    DiskUnits,   \* [0 .. NRaw-1 -> units], struct disk.sectors / 2048
    NSlots,      \* MBR_PART_MAX
    NViews,      \* PART_SLOT_MAX
    NLetters,    \* FS_DRIVE_MAX
    Spans,       \* the <<start, count>> a user types after mkpart
    Media,       \* [locations -> volume], the FAT volumes there when switched on
    Tables,      \* the partition tables disk 0 may carry when switched on
    MaxOps       \* bound: shell commands and wizard keys in one run

Raw     == 0 .. NRaw - 1
Slots   == 1 .. NSlots
Views   == NRaw .. NRaw + NViews - 1
Ids     == Raw \cup Views
Letters == 1 .. NLetters
NoDisk  == -1
NoLoc   == <<NoDisk, 0>>
Files   == {"TAG", "STAGE2", "KERNEL", "SYS"}   \* INSTALL.TAG .. ZENBITE.SYS

VARIABLES
    table,   \* per raw disk, the four entries at 0x1BE of its sector 0
    isMbr,   \* raw disks whose sector 0 is an MBR and not a FAT boot sector
    vol,     \* location <<raw disk, start>> -> the FAT volume written there
    view,    \* g_parts and the view half of disks[]
    drive,   \* vols[]: per letter the mounted disk id, or NoDisk
    half,    \* letters whose mount failed after the kind was set
    current, \* current_drive
    inst,    \* the wizard's locals
    op,      \* the command that ran last
    ops      \* commands so far (MaxOps)

vars == <<table, isMbr, vol, view, drive, half, current, inst, op, ops>>

Free    == [type |-> FALSE, start |-> 0, count |-> 0, boot |-> FALSE]
NoView  == [parent |-> NoDisk, idx |-> 0, start |-> 0, count |-> 0]
NoVol   == [kind |-> "none", files |-> {}, whole |-> {}, stage1 |-> FALSE]
NewVol  == [NoVol EXCEPT !.kind = "fat"]
Idle    == [pc |-> "idle", target |-> NoDisk, letter |-> 1, try |-> 0,
            fails |-> FALSE, bootrc |-> TRUE]

(* Where the wizard is. *)
Places == {"idle", "pick", "format", "copy", "stage1", "STAGE2", "KERNEL", "marker", "active",
           "verify", "failed", "success"}

Locs == UNION {{d} \X (0 .. DiskUnits[d] - 1) : d \in Raw}

Entry  == [type : BOOLEAN, start : Nat, count : Nat, boot : BOOLEAN]
Volume == [kind : {"none", "fat", "torn"}, files : SUBSET Files, whole : SUBSET Files, stage1 : BOOLEAN]

ASSUME DrivesAssumption ==
    /\ {NRaw, NSlots, NViews, NLetters, MaxOps} \subseteq Nat \ {0}
    /\ DiskUnits \in [Raw -> Nat \ {0}]
    /\ Spans \subseteq Nat \X Nat
    /\ \A t \in Tables : t \in [Slots -> Entry]
    /\ \A l \in DOMAIN Media : Media[l] \in Volume /\ Media[l].whole \subseteq Media[l].files

-----------------------------------------------------------------------------
(* kernel/drv/mbr.c and kernel/drv/disk.c.                                   *)

(* mbr_read succeeds only with at least one plausible entry. *)
HasTable(im, t, d) ==
    d \in im /\ \E i \in Slots : t[d][i].type /\ t[d][i].count > 0 /\ t[d][i].start >= 1

Used(t, d) == {i \in Slots : t[d][i].type /\ t[d][i].count > 0}

(* mbr_largest_free sorts the spans that are taken, the first unit and every *)
(* partition, by their start.                                                *)
Taken(t, d) == {<<0, 1>>} \cup {<<t[d][i].start, t[d][i].start + t[d][i].count>> : i \in Used(t, d)}

Before(r, s) == r[1] < s[1] \/ (r[1] = s[1] /\ r[2] < s[2])

(* Mutant of Gap: the cursor follows the last span, not the furthest. *)
GapMutant(S, to) ==
    {[start |-> r[2], count |-> to - r[2]] : r \in {r \in S : r[2] < to /\ \A q \in S \ {r} : Before(q, r)}}

(* The gap between the spans S and what follows at to: it begins where the   *)
(* furthest of them ends, the cursor of the walk.                            *)
Gap(S, to) ==
    {[start |-> r[2], count |-> to - r[2]] : r \in {r \in S : r[2] < to /\ \A q \in S : q[2] <= r[2]}}

(* One gap before each span and one at the end of the disk; the end bounds   *)
(* no other: before a partition that begins behind it the walk goes too far. *)
Gaps(t, d) ==
    (UNION {Gap({r \in Taken(t, d) : Before(r, s)}, s[1]) : s \in Taken(t, d)})
    \cup Gap(Taken(t, d), DiskUnits[d])

(* mbr_largest_free: the first of the longest. *)
LargestFree(im, t, d) ==
    IF ~HasTable(im, t, d)
    THEN [start |-> 1, count |-> IF DiskUnits[d] > 1 THEN DiskUnits[d] - 1 ELSE 0]
    ELSE IF Gaps(t, d) = {} THEN [start |-> 0, count |-> 0]
    ELSE CHOOSE g \in Gaps(t, d) :
           \A h \in Gaps(t, d) : h.count < g.count \/ (h.count = g.count /\ g.start <= h.start)

(* Mutant of Register: the end of the partition is not compared with the disk. *)
RegisterMutant(vw, d, i, e) ==
    LET free == {v \in Views : vw[v] = NoView}
    IN  IF free = {} \/ e.start = 0 \/ e.start >= DiskUnits[d] \/ e.count = 0
        THEN vw
        ELSE [vw EXCEPT ![CHOOSE v \in free : \A w \in free : v <= w] =
                [parent |-> d, idx |-> i, start |-> e.start, count |-> e.count]]

(* register_view: the first free view slot, plausible geometry only. *)
Register(vw, d, i, e) ==
    LET free == {v \in Views : vw[v] = NoView}
    IN  IF \/ free = {} \/ e.start = 0 \/ e.start >= DiskUnits[d]
           \/ e.count = 0 \/ e.start + e.count > DiskUnits[d]
        THEN vw
        ELSE [vw EXCEPT ![CHOOSE v \in free : \A w \in free : v <= w] =
                [parent |-> d, idx |-> i, start |-> e.start, count |-> e.count]]

(* mbr_scan_all: clear every view, then register disk by disk, slot by slot. *)
ScanDisk(vw, im, t, d) ==
    LET walk[i \in 0 .. NSlots] ==
          IF i = 0 THEN vw
          ELSE IF t[d][i].type THEN Register(walk[i - 1], d, i, t[d][i]) ELSE walk[i - 1]
    IN  IF HasTable(im, t, d) THEN walk[NSlots] ELSE vw

ScanTables(im, t) ==
    LET walk[k \in 0 .. NRaw] ==
          IF k = 0 THEN [v \in Views |-> NoView] ELSE ScanDisk(walk[k - 1], im, t, k - 1)
    IN  walk[NRaw]

ViewFor(vw, d, i) == {v \in Views : vw[v].parent = d /\ vw[v].idx = i}

Present(vw, id) == id \in Raw \/ (id \in Views /\ vw[id] # NoView)

(* Where a transfer to disk id ends up now: part_read / part_write. *)
Where(vw, id) == IF ~Present(vw, id) THEN NoLoc
                 ELSE IF id \in Raw THEN <<id, 0>> ELSE <<vw[id].parent, vw[id].start>>

(* The boot sector a mount reads at a location. *)
VolAt(im, vo, loc) == IF loc = NoLoc \/ (loc[2] = 0 /\ loc[1] \in im) THEN NoVol ELSE vo[loc]

(* Mutant of Created: the other entries keep their boot flag. *)
CreatedMutant(im, t, d, i, span, active) ==
    [(IF HasTable(im, t, d) THEN t[d] ELSE [j \in Slots |-> Free]) EXCEPT ![i] =
        [type |-> TRUE, start |-> span.start, count |-> span.count, boot |-> active]]

(* mbr_create_partition on the table mbr_read returns (empty when it fails). *)
Created(im, t, d, i, span, active) ==
    LET base == IF HasTable(im, t, d) THEN t[d] ELSE [j \in Slots |-> Free]
    IN  [j \in Slots |->
           IF j = i THEN [type |-> TRUE, start |-> span.start, count |-> span.count, boot |-> active]
           ELSE IF active THEN [base[j] EXCEPT !.boot = FALSE] ELSE base[j]]

(* mbr_set_active. *)
Activated(t, d, i) == [t EXCEPT ![d] = [j \in Slots |-> [@[j] EXCEPT !.boot = (j = i)]]]

-----------------------------------------------------------------------------
(* fs_mount, fs_unmount and do_mount_all over m = [drive, half, current].    *)

(* fs_mount: the letter's old volume is forgotten first; a boot sector that  *)
(* does not parse leaves the letter free, a root that cannot be read leaves  *)
(* the kind set although the mount fails.                                    *)
Mount(m, L, v, id) ==
    [drive   |-> [m.drive EXCEPT ![L] = IF v.kind = "none" THEN NoDisk ELSE id],
     half    |-> IF v.kind = "torn" THEN m.half \cup {L} ELSE m.half \ {L},
     current |-> IF v.kind = "fat" /\ m.current = 0 THEN L ELSE m.current,
     ok      |-> v.kind = "fat"]

Mounted == [drive |-> drive, half |-> half, current |-> current, ok |-> FALSE]

NothingMounted == [drive |-> [L \in Letters |-> NoDisk], half |-> {}, current |-> 0, ok |-> FALSE]

SetMounted(m) == drive' = m.drive /\ half' = m.half /\ current' = m.current

(* fs_unmount, of the letters Ls. *)
Unmount(m, Ls) ==
    [drive   |-> [L \in Letters |-> IF L \in Ls THEN NoDisk ELSE m.drive[L]],
     half    |-> m.half \ Ls, current |-> m.current, ok |-> FALSE]

UnmountAll(m, S) == Unmount(m, {L \in Letters : m.drive[L] \in S})

(* do_mount_all: n letters are behind us; "already there" compares only with *)
(* the letter the walk has reached.                                          *)
MountNext(acc, id, im, t, vw, vo) ==
    LET m == acc.m
        here == acc.n + 1
        free == {L \in here .. NLetters : m.drive[L] = NoDisk}
        L0 == CHOOSE L \in free : \A K \in free : L <= K
        m1 == Mount(m, L0, VolAt(im, vo, Where(vw, id)), id)
    IN  IF \/ acc.n >= NLetters \/ ~Present(vw, id) \/ m.drive[here] = id
           \/ (id \in Raw /\ HasTable(im, t, id))
        THEN acc
        ELSE IF free = {} THEN [acc EXCEPT !.n = NLetters]
        ELSE [m |-> m1, n |-> IF m1.ok THEN L0 ELSE L0 - 1]

MountAll(m0, im, t, vw, vo) ==
    LET walk[k \in 0 .. NRaw + NViews] ==
          IF k = 0 THEN [m |-> m0, n |-> 0] ELSE MountNext(walk[k - 1], k - 1, im, t, vw, vo)
    IN  walk[NRaw + NViews].m

(* fs_rescan with the tables and volumes as they are after the command. *)
Rescan(m, im, t, vo) ==
    /\ view' = ScanTables(im, t)
    /\ SetMounted(MountAll(m, im, t, view', vo))

-----------------------------------------------------------------------------
(* Boot (fs_init) and the storage commands of the shell.                     *)

(* fs_init: the tables are scanned, then every volume found gets a letter. *)
Init ==
    /\ \E t \in Tables : table = [d \in Raw |-> IF d = 0 THEN t ELSE [i \in Slots |-> Free]]
    /\ isMbr = {d \in Raw : Used(table, d) # {}}
    /\ vol = [l \in Locs |-> IF l \in DOMAIN Media THEN Media[l] ELSE NoVol]
    /\ view = ScanTables(isMbr, table)
    /\ LET m == MountAll(NothingMounted, isMbr, table, view, vol)
       IN  drive = m.drive /\ half = m.half /\ current = m.current
    /\ inst = Idle /\ op = "boot" /\ ops = 0

Ready(name) == inst.pc = "idle" /\ ops < MaxOps /\ ops' = ops + 1 /\ op' = name

(* cmd_scan, and F5 in the disk manager. *)
Scan == /\ Ready("scan")
        /\ Rescan(Mounted, isMbr, table, vol)
        /\ UNCHANGED <<table, isMbr, vol, inst>>

(* cmd_reboot, a power cut at the prompt, or the restart at the end of setup: *)
(* only what is on the disks stays.                                          *)
Reboot == /\ op' = "boot" /\ inst.pc \in {"idle", "success"} /\ ops < MaxOps /\ ops' = ops + 1
          /\ Rescan(NothingMounted, isMbr, table, vol)
          /\ inst' = Idle
          /\ UNCHANGED <<table, isMbr, vol>>

(* cmd_mount with a letter: nothing asks whether the disk or the letter is   *)
(* in use.                                                                   *)
MountCmd(L, id) ==
    /\ Ready("mount") /\ Present(view, id)
    /\ SetMounted(Mount(Mounted, L, VolAt(isMbr, vol, Where(view, id)), id))
    /\ UNCHANGED <<table, isMbr, vol, view, inst>>

(* cmd_umount: the FAT and the root were flushed by the last operation. *)
Umount(L) ==
    /\ Ready("umount") /\ drive[L] # NoDisk
    /\ SetMounted(Unmount(Mounted, {L}))
    /\ UNCHANGED <<table, isMbr, vol, view, inst>>

(* fs_format: the boot sector goes first; a FAT or root that cannot be       *)
(* written leaves a volume that parses, reported only for the first sectors. *)
FormatOutcomes == {[kind |-> "fat", ok |-> TRUE], [kind |-> "torn", ok |-> TRUE],
                   [kind |-> "torn", ok |-> FALSE], [kind |-> "same", ok |-> FALSE]}

Formatted(vo, loc, o) ==
    IF o.kind = "same" THEN vo ELSE [vo EXCEPT ![loc] = [NewVol EXCEPT !.kind = o.kind]]

(* cmd_format: refused on a disk with a table; drives on the device are      *)
(* unmounted and the first free letter gets the new volume.                  *)
Format(id) ==
    /\ Ready("format") /\ Present(view, id)
    /\ ~(id \in Raw /\ HasTable(isMbr, table, id))
    /\ \E o \in FormatOutcomes :
         LET loc  == Where(view, id)
             m    == UnmountAll(Mounted, {id})
             free == {L \in Letters : m.drive[L] = NoDisk}
             L0   == CHOOSE L \in free : \A K \in free : L <= K
         IN  /\ vol' = Formatted(vol, loc, o)
             /\ isMbr' = IF id \in Raw /\ o.kind # "same" THEN isMbr \ {id} ELSE isMbr
             /\ SetMounted(IF o.ok /\ free # {} THEN Mount(m, L0, vol'[loc], id) ELSE m)
    /\ UNCHANGED <<table, view, inst>>

(* cmd_flash of an image that carries a FAT volume, from a file on another    *)
(* disk: the views of a raw target and the drives on them stay as they are.  *)
Flash(id) ==
    /\ Ready("flash") /\ Present(view, id)
    /\ \E L \in Letters : drive[L] \notin {NoDisk, id}
    /\ vol' = [vol EXCEPT ![Where(view, id)] = [NewVol EXCEPT !.files = {"TAG"}]]
    /\ isMbr' = isMbr \ (IF id \in Raw THEN {id} ELSE {})
    /\ SetMounted(UnmountAll(Mounted, {id}))
    /\ UNCHANGED <<table, view, inst>>

(* mbr_init_disk: the chainloader over sector 0 with an empty table; the     *)
(* rest of the disk is left alone.                                           *)
InitTable(t, d) == IF HasTable(isMbr, t, d) THEN t ELSE [t EXCEPT ![d] = [i \in Slots |-> Free]]

(* cmd_mkpart and P in the wizard (always active there): the span typed, or  *)
(* the largest free one; nothing compares a typed span with the others.      *)
AddPart(d, span, always, m) ==
    LET t0   == InitTable(table, d)
        im   == isMbr \cup {d}
        free == {i \in Slots : ~t0[d][i].type}
        slot == CHOOSE i \in free : \A j \in free : i <= j
        active == always \/ \A i \in Slots : ~t0[d][i].boot
    IN  /\ isMbr' = im
        /\ IF span.count < 1 \/ free = {}
           THEN /\ table' = t0 /\ UNCHANGED <<view, drive, half, current>>
           ELSE /\ table' = [t0 EXCEPT ![d] = Created(im, t0, d, slot, span, active)]
                /\ Rescan(m, im, table', vol)
        /\ UNCHANGED vol

MkPartAuto(d) == /\ Ready("mkpart")
                 /\ AddPart(d, LargestFree(isMbr, table, d), FALSE, Mounted)
                 /\ UNCHANGED inst

MkPartSpan(d, s) == /\ Ready("mkpart_span")
                    /\ AddPart(d, [start |-> s[1], count |-> s[2]], FALSE, Mounted)
                    /\ UNCHANGED inst

(* cmd_delpart. *)
DelPart(d, i) ==
    /\ Ready("delpart") /\ HasTable(isMbr, table, d)
    /\ table' = [table EXCEPT ![d][i] = Free]
    /\ Rescan(UnmountAll(Mounted, ViewFor(view, d, i)), isMbr, table', vol)
    /\ UNCHANGED <<isMbr, vol, inst>>

(* cmd_setactive: no rescan. *)
SetActive(d, i) ==
    /\ Ready("setactive") /\ HasTable(isMbr, table, d) /\ table[d][i].type
    /\ table' = Activated(table, d, i)
    /\ UNCHANGED <<isMbr, vol, view, drive, half, current, inst>>

(* cmd_mkmbr and M in the wizard. *)
WipeTable(d) ==
    /\ isMbr' = isMbr \cup {d}
    /\ table' = [table EXCEPT ![d] = [i \in Slots |-> Free]]
    /\ Rescan(UnmountAll(Mounted, {v \in Views : view[v].parent = d}), isMbr', table', vol)
    /\ UNCHANGED vol

MkMbr(d) == Ready("mkmbr") /\ WipeTable(d) /\ UNCHANGED inst

-----------------------------------------------------------------------------
(* The setup wizard, install_main.                                           *)

Disks == <<table, isMbr, vol, view>>
Vols  == <<drive, half, current>>

HasFile(L, f) == /\ drive[L] # NoDisk
                 /\ f \in VolAt(isMbr, vol, Where(view, drive[L])).files

InstallStart == Ready("install") /\ inst' = [Idle EXCEPT !.pc = "pick"]
                /\ UNCHANGED <<Disks, Vols>>

Key(name) == inst.pc = "pick" /\ ops < MaxOps /\ ops' = ops + 1 /\ op' = name

PickRescan == Key("scan") /\ Rescan(Mounted, isMbr, table, vol)
              /\ UNCHANGED <<table, isMbr, vol, inst>>
PickMkPart(d) == Key("mkpart") /\ AddPart(d, LargestFree(isMbr, table, d), TRUE, Mounted)
                 /\ UNCHANGED inst
PickMkMbr(d) == Key("mkmbr") /\ WipeTable(d) /\ UNCHANGED inst

(* ENTER on a row, the refusals of install_main, the confirmation, and the   *)
(* letter: the one the target has, or the first that is free, or A.          *)
Pick(id) ==
    /\ inst.pc = "pick" /\ Present(view, id) /\ op' = "pick"
    /\ ~(id \in Raw /\ HasTable(isMbr, table, id))
    /\ LET hit == {L \in Letters : drive[L] \in {id, NoDisk}}
           L0  == IF hit = {} THEN 1 ELSE CHOOSE L \in hit : \A K \in hit : L <= K
       IN  inst' = IF \E L \in Letters : drive[L] = id /\ HasFile(L, "TAG")
                   THEN Idle
                   ELSE [inst EXCEPT !.pc = "format", !.target = id, !.letter = L0]
    /\ UNCHANGED <<Disks, Vols, ops>>

Abort == inst.pc = "pick" /\ op' = "abort" /\ inst' = Idle /\ UNCHANGED <<Disks, Vols, ops>>

Go(name) == op' = name /\ UNCHANGED ops

(* Mutant of NextAttempt: the attempts are not counted. *)
NextAttemptMutant(i) == i

(* The format loop of install_main goes round again. *)
NextAttempt(i) == [i EXCEPT !.try = @ + 1]

(* One attempt: unmount the letter, format, mount; three attempts at most,   *)
(* each further one after a question. The home directory made next is not    *)
(* told apart from an empty volume.                                          *)
TryFormat ==
    /\ inst.pc = "format" /\ Go("format")
    /\ IF inst.try = 3
       THEN inst' = Idle /\ UNCHANGED <<Disks, Vols>>
       ELSE \E o \in FormatOutcomes :
              LET loc == Where(view, inst.target)
                  m0  == Unmount(Mounted, {inst.letter})
                  m1  == IF o.ok THEN Mount(m0, inst.letter, vol'[loc], inst.target) ELSE m0
              IN  /\ vol' = Formatted(vol, loc, o)
                  /\ isMbr' = IF inst.target \in Raw /\ o.kind # "same"
                              THEN isMbr \ {inst.target} ELSE isMbr
                  /\ SetMounted(IF m1.ok THEN [m1 EXCEPT !.current = inst.letter] ELSE m1)
                  /\ \E again \in BOOLEAN :
                       inst' = IF m1.ok THEN [inst EXCEPT !.pc = "copy"]
                               ELSE IF again THEN NextAttempt(inst) ELSE Idle
                  /\ UNCHANGED <<table, view>>

Target == Where(view, drive[inst.letter])

(* write_file and copy_file: removed, created, written; the result tells a   *)
(* whole file from none or part of one.                                      *)
Wrote(f, how) ==
    [vol EXCEPT ![Target].files = IF how = "none" THEN @ \ {f} ELSE @ \cup {f},
                ![Target].whole = IF how = "whole" THEN @ \cup {f} ELSE @ \ {f}]

(* The trees SYSTEM, BOOT and SAMPLES from any other drive that has them;    *)
(* every failed file is counted.                                             *)
CopyTrees ==
    /\ inst.pc = "copy" /\ Go("copy")
    /\ \/ /\ \E L \in Letters \ {inst.letter} : HasFile(L, "SYS") \/ HasFile(L, "TAG")
          /\ \E how \in {"none", "part", "whole"} :
               /\ vol' = Wrote("SYS", how)
               /\ inst' = [inst EXCEPT !.pc = "stage1", !.fails = (how # "whole")]
       \/ UNCHANGED vol /\ inst' = [inst EXCEPT !.pc = "stage1"]
    /\ UNCHANGED <<table, isMbr, view, Vols>>

(* install_bootloader: sector 0, then the two files stage 1 and 2 look for;  *)
(* the first failure ends it.                                                *)
WriteStage1 ==
    /\ inst.pc = "stage1" /\ Go("stage1")
    /\ \E ok \in BOOLEAN :
         /\ vol' = IF ok THEN [vol EXCEPT ![Where(view, inst.target)].stage1 = TRUE] ELSE vol
         /\ inst' = IF ok THEN [inst EXCEPT !.pc = "STAGE2"]
                    ELSE [inst EXCEPT !.pc = "verify", !.bootrc = FALSE]
    /\ UNCHANGED <<table, isMbr, view, Vols>>

WriteBootFile(f, next) ==
    /\ inst.pc = f /\ Go(f)
    /\ \E how \in {"none", "part", "whole"} :
         /\ vol' = Wrote(f, how)
         /\ inst' = IF how = "whole" THEN [inst EXCEPT !.pc = next]
                    ELSE [inst EXCEPT !.pc = "verify", !.bootrc = FALSE]
    /\ UNCHANGED <<table, isMbr, view, Vols>>

(* The marker and the other copies under SYSTEM and BOOT: results ignored. *)
WriteMarker ==
    /\ inst.pc = "marker" /\ Go("marker")
    /\ \E how \in {"none", "part", "whole"} : vol' = Wrote("SYS", how)
    /\ inst' = [inst EXCEPT !.pc = "active"]
    /\ UNCHANGED <<table, isMbr, view, Vols>>

(* The boot flag of the partition installed to; a failure is only logged. *)
MarkActive ==
    /\ inst.pc = "active" /\ Go("active")
    /\ LET v == view[inst.target]
       IN  IF inst.target \in Views /\ v # NoView /\ HasTable(isMbr, table, v.parent)
           THEN table' \in {table, Activated(table, v.parent, v.idx)}
           ELSE UNCHANGED table
    /\ inst' = [inst EXCEPT !.pc = "verify"]
    /\ UNCHANGED <<isMbr, vol, view, Vols>>

(* Mutant of Verify: the boot loader's result does not count. *)
VerifyMutant ==
    /\ inst.pc = "verify" /\ Go("verify")
    /\ LET missing == \E f \in {"STAGE2", "KERNEL", "SYS"} : ~HasFile(inst.letter, f)
       IN  inst' = [inst EXCEPT !.pc = IF inst.fails \/ missing THEN "failed" ELSE "success"]
    /\ UNCHANGED <<Disks, Vols>>

(* The three required files must exist, no copy may have failed and the      *)
(* boot loader must have been written for the wizard to report success.      *)
Verify ==
    /\ inst.pc = "verify" /\ Go("verify")
    /\ LET missing == \E f \in {"STAGE2", "KERNEL", "SYS"} : ~HasFile(inst.letter, f)
       IN  inst' = [inst EXCEPT !.pc = IF inst.fails \/ ~inst.bootrc \/ missing
                                       THEN "failed" ELSE "success"]
    /\ UNCHANGED <<Disks, Vols>>

Leave == inst.pc \in {"failed", "success"} /\ Go("leave") /\ inst' = Idle
         /\ UNCHANGED <<Disks, Vols>>

-----------------------------------------------------------------------------
Wizard == \/ TryFormat \/ CopyTrees \/ WriteStage1
          \/ WriteBootFile("STAGE2", "KERNEL") \/ WriteBootFile("KERNEL", "marker")
          \/ WriteMarker \/ MarkActive \/ Verify \/ Leave

Next == \/ Scan \/ Reboot \/ InstallStart \/ PickRescan \/ Abort \/ Wizard
        \/ \E L \in Letters, id \in Ids : MountCmd(L, id)
        \/ \E L \in Letters : Umount(L)
        \/ \E id \in Ids : Format(id) \/ Flash(id) \/ Pick(id)
        \/ \E d \in Raw, s \in Spans : MkPartSpan(d, s)
        \/ \E d \in Raw : MkPartAuto(d) \/ MkMbr(d) \/ PickMkPart(d) \/ PickMkMbr(d)
        \/ \E d \in Raw, i \in Slots : DelPart(d, i) \/ SetActive(d, i)

(* Once a target is confirmed the wizard runs on its own: it waits for       *)
(* nothing but the keys that answer its questions.                           *)
Spec == Init /\ [][Next]_vars /\ WF_vars(Wizard)

-----------------------------------------------------------------------------
(* Properties.                                                               *)

(* Every table, view, letter and wizard field holds a value of its kind. *)
TypeOK ==
    /\ table \in [Raw -> [Slots -> Entry]] /\ isMbr \subseteq Raw
    /\ vol \in [Locs -> Volume] /\ \A l \in Locs : vol[l].whole \subseteq vol[l].files
    /\ view \in [Views -> {NoView} \cup [parent : Raw, idx : Slots, start : Nat, count : Nat]]
    /\ \A v \in Views : view[v] # NoView =>
          /\ view[v].start >= 1 /\ view[v].count >= 1
          /\ view[v].start + view[v].count <= DiskUnits[view[v].parent]
    /\ drive \in [Letters -> Ids \cup {NoDisk}]
    /\ half \subseteq Letters /\ \A L \in half : drive[L] # NoDisk
    /\ current \in 0 .. NLetters
    /\ inst \in [pc : Places, target : Ids \cup {NoDisk}, letter : Letters, try : 0 .. 3,
                 fails : BOOLEAN, bootrc : BOOLEAN]
    /\ ops \in 0 .. MaxOps

(* mkpart without a span, and P in the wizard, never place a partition over  *)
(* another one or over the reserved first unit, whatever spans the user      *)
(* typed before; nor past the end of the disk, unless one of those begins    *)
(* there (mbr_largest_free takes its start for the end of a gap).            *)
AutoPartFree == [][
    op' = "mkpart" => \A d \in Raw, i \in Slots :
      LET e == table'[d][i] IN
      e.type /\ ~table[d][i].type =>
        /\ e.start >= 1
        /\ (\A j \in Used(table, d) : table[d][j].start <= DiskUnits[d]) =>
              e.start + e.count <= DiskUnits[d]
        /\ \A j \in Used(table', d) \ {i} :
             \/ table'[d][j].start + table'[d][j].count <= e.start
             \/ e.start + e.count <= table'[d][j].start ]_vars

(* Two partitions of one table are never both marked bootable, whichever     *)
(* order of mkpart, delpart, setactive and setup made the table.             *)
OneActive == \A d \in Raw : Cardinality({i \in Slots : table[d][i].boot}) <= 1

(* When setup reports success, the volume it was asked to install on has the *)
(* boot sector, complete copies of the two files the boot loader reads, and  *)
(* the marker the next boot looks for: neither the count of failed copies    *)
(* nor the check that the files exist is enough alone.                       *)
InstallHonest ==
    inst.pc = "success" =>
      LET c == vol[Where(view, inst.target)]
      IN  c.stage1 /\ {"STAGE2", "KERNEL"} \subseteq c.whole /\ "SYS" \in c.files

(* Once a target is confirmed setup ends, whatever fails: the format is      *)
(* tried three times and no more.                                            *)
InstallEnds == (inst.pc = "format") ~> (inst.pc = "idle")

(* vfs.c:26 "already there": a scan mounts no disk that a letter has. *)
ScanMountsOnce == [][
    op' = "scan" => \A L \in Letters :
      drive[L] = NoDisk /\ drive'[L] # NoDisk => \A K \in Letters \ {L} : drive'[K] # drive'[L] ]_vars
=============================================================================
