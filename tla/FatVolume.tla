------------------------------ MODULE FatVolume ------------------------------
(***************************************************************************)
(* One mounted FAT volume and the file API of include/fs.h on it, as       *)
(* kernel/fs/fat.c implements them: the allocation table, directory        *)
(* tables, current directory, open handles, and every operation that       *)
(* changes one of them.                                                    *)
(*                                                                         *)
(* The kernel runs one thread, so a call runs to its end before the next   *)
(* one starts.  fs_write is a loop and is several steps here (enter, hop,  *)
(* chunk, leave), so that each allocation of its loop is visible; every    *)
(* other call is one step.                                                 *)
(*                                                                         *)
(* File contents are left out; lengths are in units of which a cluster     *)
(* holds ClusterUnits.  A call whose path leads through a removed          *)
(* directory that a file has since been written over takes the file's      *)
(* bytes for directory entries: what it does then is the bytes' choice,    *)
(* and the history of the model ends with it (Stray).  Disk transfers      *)
(* inside the data area succeed; past its end they fail.                   *)
(***************************************************************************)
EXTENDS Integers, FiniteSets

CONSTANTS
  Names,         \* upper-cased 8.3 names a caller may use
  LastData,      \* number of the last cluster inside the data area
  LastEntry,     \* last index alloc_cluster scans, max_cluster() - 1
  NumSlots,      \* entries of a directory, the dot entries not counted
  NumHandles,    \* MAX_HANDLES
  ClusterUnits,  \* file units per cluster
  MaxUnits,      \* bound on the length of one read or write call
  MaxSize,       \* bound on the size a file is grown to
  Paths          \* the paths given to the calls

Dot    == "."
DotDot == ".."
Blank  == ""                      \* no component: leaf83 is eleven spaces

Cluster == 2 .. LastEntry
Data    == 2 .. LastData
Slots   == 1 .. NumSlots
Handle  == 0 .. NumHandles - 1

Root    == 0                      \* dir_cluster == 0 is the root directory
DirIds  == {Root} \cup Cluster
FreeCl  == 0                      \* FAT value of a free cluster
Eof     == LastEntry + 1          \* any FAT value at or above fat_eof()
NoDir   == -1                     \* a walk that failed; a missing ".." entry

Leaf == Names \cup {Dot, DotDot, Blank}

PathType == [base : {"abs", "rel"}, via : Leaf, leaf : Leaf]

ASSUME ConstAssumption ==
  /\ LastData \in Nat /\ LastEntry \in Nat
  /\ 2 <= LastData /\ LastData <= LastEntry
  /\ NumSlots \in Nat \ {0} /\ NumHandles \in Nat \ {0}
  /\ ClusterUnits \in Nat \ {0}
  /\ MaxUnits \in Nat \ {0} /\ MaxSize \in Nat
  /\ Dot \notin Names /\ DotDot \notin Names /\ Blank \notin Names
  /\ Paths \subseteq PathType

VARIABLES
  fat,      \* the FAT, one value per cluster
  table,    \* each directory (or cluster read as one): its entries
  up,       \* the ".." entry of a cluster, NoDir when it has none
  cwd,      \* cwd_cluster, Root when cwd_is_root
  handles,  \* the handle table
  call,     \* the fs_write in progress
  astray    \* history: a call has taken a file's bytes for entries

vars == <<fat, table, up, cwd, handles, call, astray>>

Dirent == [st : {"end", "del", "used"}, name : Leaf, dir : BOOLEAN,
           head : DirIds, size : Nat]

EndEntry == [st |-> "end", name |-> Blank, dir |-> FALSE, head |-> 0, size |-> 0]
EmptyTable == [s \in Slots |-> EndEntry]

HandleRec == [open : BOOLEAN, parent : DirIds, off : Slots,
              head : DirIds, size : Nat, pos : Nat]

ClosedHandle ==
  [open |-> FALSE, parent |-> Root, off |-> 1, head |-> 0, size |-> 0, pos |-> 0]

CallRec == [pc : {"idle", "loop", "done"}, h : Handle, left : Nat,
            total : Nat, at : DirIds, hop : Nat]

Idle == [pc |-> "idle", h |-> 0, left |-> 0, total |-> 0, at |-> 0, hop |-> 0]

TypesOK ==
  /\ fat \in [Cluster -> {FreeCl, Eof} \cup Cluster]
  /\ table \in [DirIds -> [Slots -> Dirent]]
  /\ up \in [Cluster -> {NoDir} \cup DirIds]
  /\ cwd \in DirIds
  /\ handles \in [Handle -> HandleRec]
  /\ call \in CallRec
TypeOK == TypesOK /\ astray \in BOOLEAN

Init ==
  /\ fat = [c \in Cluster |-> FreeCl]
  /\ table = [d \in DirIds |-> EmptyTable]
  /\ up = [c \in Cluster |-> NoDir]
  /\ cwd = Root
  /\ handles = [h \in Handle |-> ClosedHandle]
  /\ call = Idle
  /\ astray = FALSE

-----------------------------------------------------------------------------
(* Lookup.  find_in_dir stops at the first end mark and skips the deleted. *)

Used(d, s) == table[d][s].st = "used"

Hits(d, n) ==
  {s \in Slots : /\ Used(d, s) /\ table[d][s].name = n
                 /\ \A t \in 1 .. s - 1 : /\ table[d][t].st # "end"
                                          /\ ~ (Used(d, t) /\ table[d][t].name = n)}

Found(d, n) == Hits(d, n) # {}
SlotOf(d, n) == CHOOSE s \in Hits(d, n) : TRUE
EntryOf(d, n) == table[d][SlotOf(d, n)]

(* ".." is the first entry of that name, the one mkdir made.               *)
Above(d) == IF d = Root THEN Root ELSE up[d]

(* One component of walk_path: "." stays, a name must be a directory.      *)
Step(d, comp) ==
  CASE comp \in {Dot, Blank} -> d
    [] comp = DotDot         -> Above(d)
    [] OTHER -> IF Found(d, comp) /\ EntryOf(d, comp).dir
                THEN EntryOf(d, comp).head ELSE NoDir

Start(p) == IF p.base = "abs" THEN Root ELSE cwd

(* parent_cluster of the walk result: a final ".." is resolved here.       *)
Parent(p) ==
  LET d == Step(Start(p), p.via)
  IN  IF d # NoDir /\ p.leaf = DotDot THEN Above(d) ELSE d

IsName(p) == p.leaf \in Names
LeafFound(p) == IsName(p) /\ Parent(p) # NoDir /\ Found(Parent(p), p.leaf)
LeafEntry(p) == EntryOf(Parent(p), p.leaf)
LeafSlot(p)  == SlotOf(Parent(p), p.leaf)

(* walk_path succeeds with allow_missing_leaf = 0.                         *)
Walks(p) == Parent(p) # NoDir /\ (IsName(p) => LeafFound(p))

(* The directories find_in_dir reads on the way, and whether none of them  *)
(* is a cluster that was last written by fs_write.                         *)
Looked(p) ==
  {d \in {Start(p)} : p.via \notin {Dot, Blank}}
    \cup {d \in {Step(Start(p), p.via)} : p.leaf \notin {Dot, Blank}}
Foreign(d) == d \in Cluster /\ up[d] = NoDir
Clear(p) == \A d \in Looked(p) : ~ Foreign(d)

-----------------------------------------------------------------------------
(* The allocation table.                                                   *)

(* alloc_cluster takes the first free entry of the whole FAT, past the end *)
(* of the data area included.                                              *)
AllocChoice ==
  {c \in Cluster : fat[c] = FreeCl /\ \A d \in Cluster : d < c => fat[d] # FreeCl}

(* The clusters free_chain visits from first: the least set that holds it  *)
(* and is closed under the links.                                          *)
Closed(S) == \A c \in S : fat[c] \in Cluster => fat[c] \in S
ChainOf(first) ==
  {c \in Cluster : \A S \in SUBSET Cluster : (first \in S /\ Closed(S)) => c \in S}

(* Mutants of FreeChain: one cluster too many; none at all.                *)
FreeChainOneMore(first) ==
  fat' = [c \in Cluster |->
            IF c \in ChainOf(first) \/ c - 1 \in ChainOf(first) THEN FreeCl ELSE fat[c]]
FreeChainNone(first) == fat' = fat

FreeChain(first) ==
  fat' = [c \in Cluster |-> IF c \in ChainOf(first) THEN FreeCl ELSE fat[c]]

(* read_cluster and write_cluster fail past the end of the data area.      *)
Readable(c) == c \in Data

-----------------------------------------------------------------------------
(* Directory entries.                                                      *)

(* dir_add_entry takes the first end mark or deleted entry.                *)
AddSlots(d, entries) ==
  {s \in Slots : /\ d = Root \/ Readable(d)
                 /\ entries[s].st # "used"
                 /\ \A t \in 1 .. s - 1 : entries[t].st = "used"}

NewEntry(n, isDir, first) ==
  [st |-> "used", name |-> n, dir |-> isDir, head |-> first, size |-> 0]

(* The rest of a deleted entry stays on the disk and is never looked at.   *)
DeletedEntry == [EndEntry EXCEPT !.st = "del"]

(* Mutant of MarkDeleted: the entry is not stored.                         *)
MarkDeletedForgotten(d, s) == table' = table

MarkDeleted(d, s) == table' = [table EXCEPT ![d][s] = DeletedEntry]

(* The last parameter r of an action is what the call returns.             *)
Fails(r) == r = -1 /\ UNCHANGED vars

-----------------------------------------------------------------------------
(* fs_chdir *)
CanChdir(p) == Walks(p) /\ (LeafFound(p) => LeafEntry(p).dir)

Chdir(p, r) ==
  \/ /\ r = 0
     /\ CanChdir(p)
     /\ cwd' = IF LeafFound(p) THEN LeafEntry(p).head ELSE Parent(p)
     /\ UNCHANGED <<fat, table, up, handles, call>>
  \/ ~ CanChdir(p) /\ Fails(r)

(* fs_create *)

(* Mutant of CanCreate: leaf_found is not looked at.                       *)
CanCreateAgain(p) == Parent(p) # NoDir /\ IsName(p)

CanCreate(p) == Parent(p) # NoDir /\ IsName(p) /\ ~ LeafFound(p)

CreateSlots(p) == IF CanCreate(p) THEN AddSlots(Parent(p), table[Parent(p)]) ELSE {}

Create(p, r) ==
  \/ /\ r = 0
     /\ \E s \in CreateSlots(p) :
          table' = [table EXCEPT ![Parent(p)][s] = NewEntry(p.leaf, FALSE, 0)]
     /\ UNCHANGED <<fat, up, cwd, handles, call>>
  \/ CreateSlots(p) = {} /\ Fails(r)

(* fs_unlink: the chain is freed, then the entry is marked.                *)
IsFile(p) == LeafFound(p) /\ ~ LeafEntry(p).dir

Unlink(p, r) ==
  \/ /\ r = 0
     /\ IsFile(p)
     /\ IF LeafEntry(p).head # 0 THEN FreeChain(LeafEntry(p).head) ELSE UNCHANGED fat
     /\ MarkDeleted(Parent(p), LeafSlot(p))
     /\ UNCHANGED <<up, cwd, handles, call>>
  \/ ~ IsFile(p) /\ Fails(r)

(* fs_rename: the same directory only; the new leaf may be ".", ".." or    *)
(* empty, which fs_create and fs_mkdir refuse and fs_rename does not.      *)
CanRename(p, q) == LeafFound(p) /\ Parent(q) = Parent(p) /\ ~ LeafFound(q)

Rename(p, q, r) ==
  \/ /\ r = 0
     /\ CanRename(p, q)
     /\ table' = [table EXCEPT ![Parent(p)][LeafSlot(p)].name = q.leaf]
     /\ UNCHANGED <<fat, up, cwd, handles, call>>
  \/ ~ CanRename(p, q) /\ Fails(r)

(* Mutant of NewUp: ".." of a new directory is the current directory.      *)
NewUpCwd(p) == cwd

(* The ".." entry of a new directory: the directory it is made in.         *)
NewUp(p) == Parent(p)

(* fs_mkdir: the cluster is taken and written first.  If that write fails, *)
(* or the parent is full, the call returns -1 and the cluster stays taken. *)
(* The parent may be that very cluster, when it is a removed directory     *)
(* that is still the current one.                                          *)
MkdirInto(p, c, r) ==
  LET fresh == [table EXCEPT ![c] = EmptyTable]
      slots == AddSlots(Parent(p), fresh[Parent(p)])
  IN  /\ up' = [up EXCEPT ![c] = NewUp(p)]
      /\ \/ /\ r = 0
            /\ \E s \in slots :
                 table' = [fresh EXCEPT ![Parent(p)][s] = NewEntry(p.leaf, TRUE, c)]
         \/ /\ r = -1
            /\ slots = {}
            /\ table' = fresh

Mkdir(p, r) ==
  \/ /\ CanCreate(p)
     /\ \E c \in AllocChoice :
          /\ fat' = [fat EXCEPT ![c] = Eof]
          /\ \/ Readable(c) /\ MkdirInto(p, c, r)
             \/ r = -1 /\ ~ Readable(c) /\ UNCHANGED <<table, up>>
     /\ UNCHANGED <<cwd, handles, call>>
  \/ ~ (CanCreate(p) /\ AllocChoice # {}) /\ Fails(r)

(* fs_rmdir: nothing but deleted entries before the first end mark.  The   *)
(* current directory is not looked at.                                     *)
IsEmptyDir(c) ==
  /\ Readable(c)
  /\ \A s \in Slots : Used(c, s) => \E t \in 1 .. s - 1 : table[c][t].st = "end"

CanRmdir(p) == LeafFound(p) /\ LeafEntry(p).dir /\ IsEmptyDir(LeafEntry(p).head)

Rmdir(p, r) ==
  \/ /\ r = 0
     /\ CanRmdir(p)
     /\ FreeChain(LeafEntry(p).head)
     /\ MarkDeleted(Parent(p), LeafSlot(p))
     /\ UNCHANGED <<up, cwd, handles, call>>
  \/ ~ CanRmdir(p) /\ Fails(r)

-----------------------------------------------------------------------------
(* fs_open: the first free handle.                                         *)
FreeHandles ==
  {h \in Handle : ~ handles[h].open /\ \A g \in Handle : g < h => handles[g].open}

(* Mutant of NewHandle: the current directory instead of the file's.       *)
NewHandleCwd(p) ==
  [open |-> TRUE, parent |-> cwd, off |-> LeafSlot(p),
   head |-> LeafEntry(p).head, size |-> LeafEntry(p).size, pos |-> 0]

NewHandle(p) ==
  [open |-> TRUE, parent |-> Parent(p), off |-> LeafSlot(p),
   head |-> LeafEntry(p).head, size |-> LeafEntry(p).size, pos |-> 0]

Open(p, r) ==
  \/ /\ r \in FreeHandles /\ IsFile(p)
     /\ handles' = [handles EXCEPT ![r] = NewHandle(p)]
     /\ UNCHANGED <<fat, table, up, cwd, call>>
  \/ ~ (IsFile(p) /\ FreeHandles # {}) /\ Fails(r)

(* fs_close *)
Close(h, r) ==
  /\ r = 0 /\ handles[h].open
  /\ handles' = [handles EXCEPT ![h] = ClosedHandle]
  /\ UNCHANGED <<fat, table, up, cwd, call>>

(* cluster_after: the i-th cluster of the chain of c.                      *)
After(c, n) ==
  LET nth[i \in 0 .. n] ==
        IF i = 0 THEN c
        ELSE IF nth[i - 1] \in Cluster THEN fat[nth[i - 1]] ELSE nth[i - 1]
  IN  nth[n]

(* fs_read: as far as the size, the request and readable clusters allow.   *)
ReadsTo(h, k) ==
  \A i \in handles[h].pos .. handles[h].pos + k - 1 :
    Readable(After(handles[h].head, i \div ClusterUnits))

CanRead(h, k) == handles[h].pos + k <= handles[h].size /\ ReadsTo(h, k)

Read(h, n, r) ==
  /\ handles[h].open
  /\ r \in 0 .. n /\ CanRead(h, r) /\ \A k \in r + 1 .. n : ~ CanRead(h, k)
  /\ handles' = [handles EXCEPT ![h].pos = @ + r]
  /\ UNCHANGED <<fat, table, up, cwd, call>>

-----------------------------------------------------------------------------
(* fs_write.  Entry: a file without a first cluster gets one, and without  *)
(* any free cluster the call returns at once; otherwise it has not         *)
(* returned yet, and r says nothing.                                       *)
StartWrite(h, n, first) ==
  call' = [pc |-> "loop", h |-> h, left |-> n, total |-> 0, at |-> first, hop |-> 0]

WriteEnter(h, n, r) ==
  /\ handles[h].open
  /\ \/ /\ r = 0 /\ handles[h].head # 0
        /\ StartWrite(h, n, handles[h].head)
        /\ UNCHANGED <<fat, handles>>
     \/ /\ r = 0 /\ handles[h].head = 0
        /\ \E c \in AllocChoice :
             /\ fat' = [fat EXCEPT ![c] = Eof]
             /\ handles' = [handles EXCEPT ![h].head = c]
             /\ StartWrite(h, n, c)
     \/ /\ r = -1 /\ handles[h].head = 0 /\ AllocChoice = {}
        /\ UNCHANGED <<fat, handles, call>>
  /\ UNCHANGED <<table, up, cwd>>

ClusterIdx == handles[call.h].pos \div ClusterUnits
InCluster  == handles[call.h].pos % ClusterUnits

(* The inner for loop: follow a link, or append a cluster at the end of    *)
(* the chain; a full FAT leaves the loop.                                  *)
FollowLink ==
  /\ call' = [call EXCEPT !.at = fat[call.at], !.hop = @ + 1]
  /\ UNCHANGED fat

(* Mutant of WriteHop: the end of the chain is followed like a link.       *)
WriteHopPastEnd ==
  /\ call.pc = "loop" /\ call.left > 0 /\ call.hop < ClusterIdx
  /\ FollowLink
  /\ UNCHANGED <<table, up, cwd, handles>>

WriteHop ==
  /\ call.pc = "loop" /\ call.left > 0 /\ call.hop < ClusterIdx
  /\ \/ /\ fat[call.at] # Eof
        /\ FollowLink
     \/ /\ fat[call.at] = Eof
        /\ \E c \in AllocChoice :
             /\ fat' = [fat EXCEPT ![call.at] = c, ![c] = Eof]
             /\ call' = [call EXCEPT !.at = c, !.hop = @ + 1]
     \/ /\ fat[call.at] = Eof /\ AllocChoice = {}
        /\ call' = [call EXCEPT !.pc = "done"]
        /\ UNCHANGED fat
  /\ UNCHANGED <<table, up, cwd, handles>>

(* Mutant of Readable: the result of read_cluster is not looked at.        *)
TransferAlways(c) == c \in Cluster

(* One turn of the outer loop: the cluster is read, overlaid and written.  *)
(* read_cluster and write_cluster fail together, past the data area.  A    *)
(* cluster that was written is no directory any more: it has no "..", and  *)
(* its table, empty here, stands for nothing (Foreign).                    *)
Transfer(c) == Readable(c)

WriteChunk ==
  /\ call.pc = "loop" /\ call.left > 0 /\ call.hop = ClusterIdx
  /\ \/ /\ ~ Transfer(call.at)
        /\ call' = [call EXCEPT !.pc = "done"]
        /\ UNCHANGED <<table, up, handles>>
     \/ /\ Transfer(call.at)
        /\ LET room  == ClusterUnits - InCluster
               chunk == IF room > call.left THEN call.left ELSE room
           IN  /\ handles' = [handles EXCEPT ![call.h].pos = @ + chunk]
               /\ call' = [call EXCEPT !.left = @ - chunk, !.total = @ + chunk,
                                       !.at = handles[call.h].head, !.hop = 0]
        /\ table' = [table EXCEPT ![call.at] = EmptyTable]
        /\ up' = [up EXCEPT ![call.at] = NoDir]
  /\ UNCHANGED <<fat, cwd>>

(* The size an entry and a handle have after the call.                     *)
NewSize(f) == IF f.pos > f.size THEN f.pos ELSE f.size

(* The done label: the size grows to pos, first cluster and size go to the *)
(* entry the handle was opened on.                                         *)
WriteLeave(r) ==
  /\ call.pc = "done" \/ (call.pc = "loop" /\ call.left = 0)
  /\ LET f == handles[call.h]
     IN  /\ handles' = [handles EXCEPT ![call.h].size = NewSize(f)]
         /\ table' = [table EXCEPT ![f.parent][f.off].head = f.head,
                                   ![f.parent][f.off].size = NewSize(f)]
  /\ r = call.total
  /\ call' = Idle
  /\ UNCHANGED <<fat, up, cwd>>

-----------------------------------------------------------------------------
(* The callers.  Every caller in shell/, kernel/net and kernel/fs/elf.c    *)
(* closes its handles before it returns, opens a file once, and does not   *)
(* unlink a file it holds open; directories change only between commands.  *)
NoneOpen == \A h \in Handle : ~ handles[h].open
OpenOn(p) ==
  /\ IsFile(p)
  /\ \E h \in Handle : /\ handles[h].open /\ handles[h].parent = Parent(p)
                       /\ handles[h].off = LeafSlot(p)

DirCall(p, r) ==
  /\ NoneOpen
  /\ \/ Chdir(p, r) \/ Mkdir(p, r) \/ Rmdir(p, r)
     \/ \E q \in Paths : Clear(q) /\ Rename(p, q, r)

FileCall(p, r) ==
  \/ Create(p, r)
  \/ ~ OpenOn(p) /\ (Unlink(p, r) \/ Open(p, r))

HandleCall(h, r) ==
  \/ Close(h, r)
  \/ \E n \in 1 .. MaxUnits :
       Read(h, n, r) \/ (handles[h].pos + n <= MaxSize /\ WriteEnter(h, n, r))

Results == -1 .. MaxSize + NumHandles

Calls ==
  /\ ~ astray /\ UNCHANGED astray
  /\ \/ WriteHop \/ WriteChunk
     \/ \E r \in Results :
          \/ WriteLeave(r)
          \/ call.pc = "idle" /\ \E p \in Paths : Clear(p) /\ (DirCall(p, r) \/ FileCall(p, r))
          \/ call.pc = "idle" /\ \E h \in Handle : HandleCall(h, r)

(* The bytes of a file are taken for entries.  The call may fail, or find  *)
(* any entry in them: fs_unlink frees whatever chain it names, whoever the *)
(* chain belongs to.  Nothing is said of what comes after.                 *)
Stray(p) ==
  /\ ~ astray /\ astray' = TRUE
  /\ call.pc = "idle" /\ ~ Clear(p)
  /\ UNCHANGED fat \/ \E c \in Cluster : FreeChain(c)
  /\ UNCHANGED <<table, up, cwd, handles, call>>

Ended == astray /\ UNCHANGED vars

Next == Calls \/ (\E p \in Paths : Stray(p)) \/ Ended

Spec == Init /\ [][Next]_vars

-----------------------------------------------------------------------------
(* Properties.  Each is about a history in which no call has taken the     *)
(* bytes of a file for directory entries: none is true of a later one.     *)

(* FAT links form disjoint chains of allocated clusters: no cluster has two *)
(* predecessors and no link leads to a free cluster (alloc_cluster,        *)
(* free_chain, the append in fs_write).                                    *)
ChainsOK ==
  \A c \in Cluster : fat[c] \in Cluster =>
    /\ fat[fat[c]] # FreeCl
    /\ \A d \in Cluster : fat[d] = fat[c] => d = c

(* A first cluster is allocated and starts its chain.                      *)
IsHead(c) == c \in Cluster /\ fat[c] # FreeCl /\ \A d \in Cluster : fat[d] # c

(* No two live directory entries, files or directories, lead to the same   *)
(* chain, and none leads to a free cluster or into the middle of a chain:  *)
(* what fs_create, fs_mkdir, fs_write, fs_unlink, fs_rmdir and fs_rename   *)
(* must keep for one file never to overwrite another.                      *)
EntriesOK ==
  \A d \in DirIds : \A s \in Slots : (Used(d, s) /\ table[d][s].head # 0) =>
    /\ IsHead(table[d][s].head)
    /\ \A e \in DirIds : \A t \in Slots :
         (Used(e, t) /\ table[e][t].head = table[d][s].head) => (e = d /\ t = s)

(* An open handle owns its chain: it starts one, shares it with no other   *)
(* open handle, and with no entry but the one it was opened on.            *)
HandlesOK ==
  \A h \in Handle : (handles[h].open /\ handles[h].head # 0) =>
    /\ IsHead(handles[h].head)
    /\ \A g \in Handle : (handles[g].open /\ handles[g].head = handles[h].head) => g = h
    /\ \A d \in DirIds : \A s \in Slots :
         (Used(d, s) /\ table[d][s].head = handles[h].head) =>
           (d = handles[h].parent /\ s = handles[h].off)

(* An fs_write in progress belongs to an open handle with a chain and      *)
(* stands on an allocated cluster.                                         *)
WriteOK ==
  call.pc # "idle" =>
    /\ handles[call.h].open /\ handles[call.h].head # 0
    /\ call.at \in Cluster /\ fat[call.at] # FreeCl

Apart == ChainsOK /\ EntriesOK /\ HandlesOK /\ WriteOK
NoCrossLinks == ~ astray => Apart

(* In a directory no name appears twice, and nothing is used behind the    *)
(* end mark where find_in_dir and fs_rmdir would not see it: dir_add_entry *)
(* and the leaf_found checks keep this in every order of calls.            *)
Orderly ==
  \A d \in DirIds : \A s, t \in Slots : s < t =>
    /\ table[d][s].st = "end" => table[d][t].st = "end"
    /\ (Used(d, s) /\ Used(d, t) /\ table[d][s].name \in Names) =>
         table[d][s].name # table[d][t].name
TablesOK == ~ astray => Orderly

(* Every byte below the size in an entry or a handle lies in a cluster of  *)
(* the chain that can be read: the size fs_write stores never runs ahead   *)
(* of what it allocated and wrote, on a full FAT or past the data area.    *)
Backed(first, size) ==
  \A i \in 0 .. (size - 1) \div ClusterUnits : size > 0 => Readable(After(first, i))

AllBacked ==
  /\ \A d \in DirIds : \A s \in Slots :
       Used(d, s) => Backed(table[d][s].head, table[d][s].size)
  /\ \A h \in Handle : handles[h].open => Backed(handles[h].head, handles[h].size)
SizeBacked == ~ astray => AllBacked

(* The directories a path can lead to from the root.                       *)
DirHeads(d) == {table[d][s].head : s \in {t \in Slots : Used(d, t) /\ table[d][t].dir}}
Tree ==
  LET reach[n \in 0 .. LastEntry] ==
        IF n = 0 THEN {Root}
        ELSE reach[n - 1] \cup UNION {DirHeads(d) : d \in reach[n - 1]}
  IN  reach[LastEntry]

(* Each directory of the tree is a readable cluster and its ".." leads to  *)
(* the directory that holds it: what fs_mkdir wrote stays true through     *)
(* renames, removals, reuse of clusters and writes.                        *)
UpsTrue ==
  \A d \in Tree : \A s \in Slots : (Used(d, s) /\ table[d][s].dir) =>
    /\ Readable(table[d][s].head)
    /\ up[table[d][s].head] = d
DotDotOK == ~ astray => UpsTrue

(* Between calls an open handle and the entry it was opened on agree on    *)
(* first cluster and size, for a file whose directory is in the tree: the  *)
(* entry fs_write stores by offset is still the entry of that file.        *)
Coherent ==
  \A h \in Handle :
    (call = Idle /\ handles[h].open /\ handles[h].parent \in Tree) =>
      LET e == table[handles[h].parent][handles[h].off]
      IN  /\ e.st = "used" /\ ~ e.dir
          /\ e.head = handles[h].head \/ (e.size = 0 /\ e.head = 0)
          /\ e.size = handles[h].size
HandleCoherent == ~ astray => Coherent

(* Clusters that are taken and that nothing in the tree or open leads to.  *)
HeadsHeld ==
  {table[x[1]][x[2]].head : x \in {y \in Tree \X Slots : Used(y[1], y[2])}}
    \cup {handles[h].head : h \in {g \in Handle : handles[g].open}}
Held   == UNION {ChainOf(c) : c \in HeadsHeld \ {0}}
Leaked == {c \in Cluster : fat[c] # FreeCl} \ Held

(* Nobody works outside the tree: no removed directory is current, holds   *)
(* entries, or holds the entry of an open file.                            *)
InTree ==
  /\ cwd \in Tree
  /\ \A d \in DirIds \ Tree : \A s \in Slots : ~ Used(d, s)
  /\ \A h \in Handle : handles[h].open => handles[h].parent \in Tree

(* A step loses a cluster only when fs_mkdir fails after alloc_cluster, as *)
(* long as nobody works in a removed directory.                            *)
LeaksOnlyOnFailedMkdir ==
  [][InTree /\ ~ astray' => \A c \in Leaked' \ Leaked :
       /\ fat[c] = FreeCl /\ fat'[c] = Eof
       /\ call = Idle /\ call' = Idle
       /\ \A d \in DirIds : \A s \in Slots : Used(d, s)' => Used(d, s)]_vars

(* A call changes the chain of no file but its own: the clusters of a file *)
(* or directory of the tree that stays in use, and that no open handle was *)
(* opened on, are the same after the step, whatever other files were       *)
(* written, grown, created or deleted in it.                               *)
OpenedOn(d, s) ==
  \E h \in Handle : handles[h].open /\ handles[h].parent = d /\ handles[h].off = s
OtherFilesKept ==
  [][~ astray' => \A d \in Tree : \A s \in Slots :
       (Used(d, s) /\ Used(d, s)' /\ table[d][s].head # 0 /\ ~ OpenedOn(d, s)) =>
         /\ table'[d][s].head = table[d][s].head
         /\ ChainOf(table[d][s].head)' = ChainOf(table[d][s].head)]_vars

=============================================================================
