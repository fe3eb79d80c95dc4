------------------------------- MODULE FatDisk -------------------------------
(* kernel/fs/fat.c below the file calls: the one-sector FAT cache, the two   *)
(* FATs, the directory, and the order in which a call writes them. Transfers *)
(* may fail, and the power may go between any two of them. FatVolume has the *)
(* calls themselves; here a call appends a cluster to a file, creates one or *)
(* removes one, in a FAT16 or FAT32 volume. A directory is written in one    *)
(* piece: the fixed root from the copy in memory, a subdirectory from the    *)
(* disk it was just read from.                                               *)
EXTENDS Naturals, FiniteSets

CONSTANTS Files,
          LastCluster, PerSector, \* clusters 2 .. LastCluster, FAT entries in a sector
          MaxLen, MaxFileCalls,   \* bounds: clusters of a file, calls
          MaxFails                \* bound: transfers that fail

Clusters == 2 .. LastCluster
Eof == LastCluster + 1
Sector(c) == c \div PerSector
NoSector == Sector(LastCluster) + 1
NoEntry == [is |-> FALSE, first |-> 0, size |-> 0]

VARIABLES
    fat1, fat2,   \* the FATs on the disk
    disk, root,   \* the directory on the disk, and v->root
    inRoot,       \* whether the files are in the fixed root
    csec, cbuf, cdirty, \* the cached FAT sector
    half,         \* fat_cache_flush has written the first FAT only
    do,           \* the call: what, file, pc, cluster, the one before it, steps left, grown
    dcalls, fails, \* calls begun, transfers failed
    cut,          \* the power has gone
    orphan        \* a removal freed the chain and left the entry

fdVars == <<fat1, fat2, disk, root, inRoot, csec, cbuf, cdirty, half, do, dcalls, fails, cut, orphan>>
cache == <<csec, cbuf, cdirty, half>>
store == <<fat1, fat2, disk, root>>
rest == <<inRoot, dcalls, cut, orphan>>

NoCall == [what |-> "none", f |-> CHOOSE f \in Files : TRUE, pc |-> "idle", c |-> 0, before |-> 0, left |-> 0, grown |-> FALSE]

Init ==
    /\ fat1 = [c \in Clusters |-> 0] /\ fat2 = fat1
    /\ disk = [f \in Files |-> NoEntry] /\ root = disk /\ inRoot = TRUE
    /\ csec = NoSector /\ cbuf = fat1 /\ cdirty = FALSE /\ half = FALSE
    /\ do = [NoCall EXCEPT !.pc = "off"] /\ dcalls = 0 /\ fails = 0 /\ cut = FALSE /\ orphan = FALSE

(* The volume is mounted; the files of the model are in one directory of it. *)
Mounted == /\ do.pc = "off" /\ do' = NoCall /\ inRoot' \in BOOLEAN
           /\ UNCHANGED <<store, cache, dcalls, fails, cut, orphan>>

(* What load_dir shows: v->root, or the disk. *)
Dir == IF inRoot THEN root ELSE disk

-----------------------------------------------------------------------------
(* The FAT cache.                                                            *)

(* The sector the call needs next, if it needs one.                          *)
Needs == IF do.pc \in {"walk", "scan", "mark", "free", "clear"} THEN Sector(do.c)
         ELSE IF do.pc = "link" THEN Sector(do.before) ELSE NoSector
Flushing == cdirty /\ (do.pc = "flush" \/ (Needs # NoSector /\ Needs # csec))

(* The sector is there, or could not be loaded: fat_get yields the end of    *)
(* the chain then, and fat_set does nothing.                                 *)
Loaded == Needs # NoSector /\ csec = Needs /\ ~half

MayFail == fails < MaxFails /\ fails' = fails + 1

(* fat_cache_flush: the first FAT, *)
Flush1 == /\ Flushing /\ ~half
          /\ fat1' = [c \in Clusters |-> IF Sector(c) = csec THEN cbuf[c] ELSE fat1[c]]
          /\ half' = TRUE
          /\ UNCHANGED <<fat2, disk, root, csec, cbuf, cdirty, do, fails, rest>>

(* then the second, whether that works or not. *)
Flush2 == /\ half /\ half' = FALSE /\ cdirty' = FALSE
          /\ \/ /\ fat2' = [c \in Clusters |-> IF Sector(c) = csec THEN cbuf[c] ELSE fat2[c]]
                /\ UNCHANGED fails
             \/ MayFail /\ UNCHANGED fat2
          /\ UNCHANGED <<fat1, disk, root, csec, cbuf, do, rest>>

(* fat_cache_load: the clean cache takes another sector. *)
Load == /\ Needs # NoSector /\ csec # Needs /\ ~cdirty
        /\ csec' = Needs /\ cbuf' = fat1
        /\ UNCHANGED <<store, cdirty, half, do, fails, rest>>

-----------------------------------------------------------------------------
(* The calls, access by access.                                              *)

(* A call begins; MaxFileCalls of them, and none after an orphan.            *)
Call(what, f, pc, c) ==
    /\ do.pc = "idle" /\ ~orphan /\ dcalls < MaxFileCalls /\ dcalls' = dcalls + 1
    /\ do' = [what |-> what, f |-> f, pc |-> pc, c |-> c, before |-> 0, left |-> Dir[f].size, grown |-> FALSE]
    /\ UNCHANGED <<store, cache, inRoot, fails, cut, orphan>>

FsCreate == \E f \in Files : ~Dir[f].is /\ Call("create", f, "dir", 0)

(* fs_write at the end of the file: along the chain, then a new cluster.     *)
FsWrite == \E f \in Files :
    /\ Dir[f].is /\ Dir[f].size < MaxLen
    /\ IF Dir[f].first = 0 THEN Call("write", f, "scan", 2)
       ELSE IF Dir[f].size = 0 THEN Call("write", f, "data", Dir[f].first)
       ELSE Call("write", f, "walk", Dir[f].first)

FsUnlink == \E f \in Files :
    Dir[f].is /\ Call("unlink", f, IF Dir[f].first = 0 THEN "dir" ELSE "free", Dir[f].first)

Go(d) == do' = d /\ UNCHANGED <<store, cache, fails, rest>>
Set(c, val, d) == /\ cbuf' = [cbuf EXCEPT ![c] = val] /\ cdirty' = TRUE /\ do' = d
                  /\ UNCHANGED <<store, csec, half, fails, rest>>

(* Along the chain: the next cluster, or alloc_cluster from 2 on at its end.  *)
Stepped(c) == [do EXCEPT !.c = c, !.left = @ - 1, !.pc = IF do.left = 1 THEN "data" ELSE "walk"]
WalkFrom(next) == IF next = Eof THEN [do EXCEPT !.pc = "scan", !.c = 2, !.before = do.c]
                  ELSE Stepped(next)
Walk == Loaded /\ do.pc = "walk" /\ Go(WalkFrom(cbuf[do.c]))

(* alloc_cluster: the first free cluster is marked as an end; a full FAT     *)
(* ends the loop with the data there are. *)
ScanOn == IF do.c = LastCluster THEN [do EXCEPT !.pc = IF do.before = 0 THEN "done" ELSE "dir"]
          ELSE [do EXCEPT !.c = @ + 1]
Scan == /\ Loaded /\ do.pc = "scan"
        /\ IF cbuf[do.c] = 0
           THEN Set(do.c, Eof, [do EXCEPT !.pc = IF do.before = 0 THEN "data" ELSE "link"])
           ELSE Go(ScanOn)

(* The old end is linked to the new one, which is marked as the end again.   *)
Link == Loaded /\ do.pc = "link" /\ Set(do.before, do.c, [do EXCEPT !.pc = "mark"])
Mark == Loaded /\ do.pc = "mark" /\ Set(do.c, Eof, Stepped(do.c))

(* free_chain: the next cluster is read before this one is cleared; "clear"  *)
(* is a cluster whose entry could not be read, the last one it clears.       *)
FreeOn(next) == IF next \in Clusters THEN [do EXCEPT !.c = next] ELSE [do EXCEPT !.pc = "dir"]
Free == Loaded /\ do.pc = "free" /\ Set(do.c, 0, FreeOn(cbuf[do.c]))
Clear == Loaded /\ do.pc = "clear" /\ Set(do.c, 0, FreeOn(Eof))

(* A transfer of the FAT fails: of the flush (the sector stays dirty), or of *)
(* the read (the cache is empty). The access goes on as an end of chain.     *)
AccessFails ==
    /\ MayFail
    /\ \/ Flushing /\ ~half /\ UNCHANGED cache
       \/ /\ Needs # NoSector /\ csec # Needs /\ ~cdirty
          /\ csec' = NoSector /\ UNCHANGED <<cbuf, cdirty, half>>
    /\ do' = CASE do.pc = "walk" -> WalkFrom(Eof)
               [] do.pc = "scan" -> ScanOn
               [] do.pc = "link" -> [do EXCEPT !.pc = "mark"]
               [] do.pc = "mark" -> Stepped(do.c)
               [] do.pc = "free" -> [do EXCEPT !.pc = "clear"]
               [] do.pc = "clear" -> FreeOn(Eof)
               [] do.pc = "flush" -> [do EXCEPT !.pc = "done"]
    /\ UNCHANGED <<store, rest>>

(* The data cluster is read, filled and written. *)
Data == /\ do.pc = "data"
        /\ \/ do' = [do EXCEPT !.pc = "dir", !.grown = TRUE] /\ UNCHANGED fails
           \/ do' = [do EXCEPT !.pc = "dir"] /\ MayFail
        /\ UNCHANGED <<store, cache, rest>>

(* The entry as the call leaves it. *)
Entry == CASE do.what = "create" -> [is |-> TRUE, first |-> 0, size |-> 0]
           [] do.what = "unlink" -> NoEntry
           [] OTHER -> LET old == Dir[do.f] IN
                [is |-> TRUE, first |-> IF old.first = 0 /\ do.before = 0 THEN do.c ELSE old.first,
                 size |-> old.size + (IF do.grown THEN 1 ELSE 0)]

(* Mutant of DirUpdate: fs_write flushes nothing afterwards. *)
DirUpdateMutant ==
    /\ do.pc = "dir"
    /\ LET new == [Dir EXCEPT ![do.f] = Entry] IN
         root' = (IF inRoot THEN new ELSE root) /\ disk' = new
    /\ do' = [do EXCEPT !.pc = "done"]
    /\ UNCHANGED <<fat1, fat2, cache, fails, rest>>

(* load_dir, the entry, store_dir; then the FAT is flushed. *)
DirUpdate ==
    /\ do.pc = "dir"
    /\ LET new == [Dir EXCEPT ![do.f] = Entry] IN
         root' = (IF inRoot THEN new ELSE root) /\ disk' = new
    /\ do' = [do EXCEPT !.pc = IF do.what = "create" THEN "done" ELSE "flush"]
    /\ UNCHANGED <<fat1, fat2, cache, fails, rest>>

(* One of the two transfers fails. The copy of the root has the entry and is *)
(* written by a later call; in a subdirectory the entry stays as it was, and *)
(* the chain of a file to be removed is free already. A directory that could *)
(* not be read ends fs_unlink without a flush.                               *)
DirFails ==
    /\ do.pc = "dir" /\ MayFail
    /\ root' = IF inRoot THEN [root EXCEPT ![do.f] = Entry] ELSE root
    /\ orphan' = (orphan \/ (~inRoot /\ do.what = "unlink" /\ Dir[do.f].first # 0))
    /\ \/ do' = [do EXCEPT !.pc = IF do.what = "create" THEN "done" ELSE "flush"]
       \/ ~inRoot /\ do.what = "unlink" /\ do' = [do EXCEPT !.pc = "done"]
    /\ UNCHANGED <<fat1, fat2, disk, cache, inRoot, dcalls, cut>>

Return == /\ do.pc = "done" \/ (do.pc = "flush" /\ ~cdirty)
          /\ do' = NoCall
          /\ UNCHANGED <<store, cache, fails, rest>>

(* The power goes: what was in memory is gone. *)
PowerCut == /\ ~cut /\ do.pc # "off" /\ cut' = TRUE
            /\ UNCHANGED <<store, cache, do, dcalls, fails, inRoot, orphan>>

Next == \/ Mounted
        \/ ~cut /\ (\/ Flush1 \/ Flush2 \/ Load \/ AccessFails
                    \/ FsCreate \/ FsWrite \/ FsUnlink
                    \/ Walk \/ Scan \/ Link \/ Mark \/ Free \/ Clear \/ Data \/ DirUpdate \/ DirFails \/ Return)
        \/ PowerCut

Spec == Init /\ [][Next]_fdVars

-----------------------------------------------------------------------------
TypeOK ==
    /\ \A c \in Clusters : {fat1[c], fat2[c], cbuf[c]} \subseteq Clusters \cup {0, Eof}
    /\ csec \in {Sector(c) : c \in Clusters} \cup {NoSector}
    /\ cdirty => csec # NoSector
    /\ \A f \in Files : Dir[f].size <= MaxLen

(* The FAT as fat_get shows it. *)
Fat == [c \in Clusters |-> IF Sector(c) = csec THEN cbuf[c] ELSE fat1[c]]


(* The clusters of the chain from c, and where it ends.                      *)
Steps(fat, c) ==
    LET at[n \in 0 .. LastCluster] ==
            IF n = 0 THEN c
            ELSE IF at[n - 1] \in Clusters THEN fat[at[n - 1]] ELSE at[n - 1]
    IN at
Chain(fat, c) == {Steps(fat, c)[n] : n \in 0 .. LastCluster} \cap Clusters
Whole(fat, e) == /\ Cardinality(Chain(fat, e.first)) = e.size
                 /\ Steps(fat, e.first)[LastCluster] \in {0, Eof}
                 /\ (e.first # 0 => Steps(fat, e.first)[LastCluster] = Eof)
Apart(fat, dir, f, g) == f = g \/ Chain(fat, dir[f].first) \cap Chain(fat, dir[g].first) = {}

(* After a call without a failed transfer, disk and memory say the same, the *)
(* chains are whole and apart, and every other cluster is free.              *)
CallsComplete ==
    (do.pc = "idle" /\ fails = 0 /\ ~cut) =>
        /\ ~cdirty /\ fat1 = fat2 /\ (inRoot => disk = root)
        /\ \A f \in Files : Whole(fat1, disk[f])
        /\ \A f, g \in Files : Apart(fat1, disk, f, g)
        /\ {c \in Clusters : fat1[c] # 0} = UNION {Chain(fat1, disk[f].first) : f \in Files}

(* If the power goes, at most the file of the call in progress is damaged.   *)
CutHurtsOne ==
    (cut /\ fails = 0) =>
        \A f \in Files : (do.pc = "idle" \/ f # do.f) =>
            /\ Whole(fat1, disk[f])
            /\ \A g \in Files : Apart(fat1, disk, f, g)

(* Whatever transfers fail, two files never share a cluster, unless a        *)
(* removal that failed has left an entry whose chain is free.                *)
NeverShared == (~cut /\ ~orphan) => \A f, g \in Files : Apart(Fat, Dir, f, g)

(* fat_cache_flush, fat_cache_load and the order of writes in fs_write and   *)
(* fs_unlink: calls complete, a power cut costs one file, chains stay apart. *)
DiskKeeps == CallsComplete /\ CutHurtsOne /\ NeverShared
=============================================================================
