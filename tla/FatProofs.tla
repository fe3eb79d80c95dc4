------------------------------ MODULE FatProofs ------------------------------
(***************************************************************************)
(* For every volume size, number of handles and set of names: the type     *)
(* invariant, Apart and Orderly hold in every reachable state of FatVolume *)
(* that has not gone astray; what lies behind a size is there (AllBacked,  *)
(* Coherent), the directories form a tree whose .. entries lead back       *)
(* (UpsTrue), a call leaves the other files of that tree alone             *)
(* (OtherFilesKept), and only a failed fs_mkdir loses a cluster            *)
(* (LeaksOnlyOnFailedMkdir).  The walk along a chain and the tree are      *)
(* recursive functions, so these need induction: every non-empty set of    *)
(* naturals has a least element.                                           *)
(*                                                                         *)
(* The second part is the shell: its file commands use the file calls the  *)
(* way FatVolume!Next assumes of its callers: for every volume, set of     *)
(* paths and buffer size ShSpec implements Spec; CmdSound, AllClosed,      *)
(* CopyWhole and SavedWhole hold, as long as nothing has gone astray.      *)
(***************************************************************************)
EXTENDS FatShell, FiniteSetTheorems, WellFoundedInduction, TLAPS

(* The sets of clusters and FAT values, as the provers need them. *)
LEMMA ClusterFacts ==
  /\ 0 \notin Cluster /\ NoDir \notin DirIds /\ Root \in DirIds
  /\ Data \subseteq Cluster /\ Cluster \subseteq DirIds
  /\ Eof \notin Cluster /\ Eof # FreeCl /\ FreeCl \notin Cluster
  /\ DirIds \subseteq Nat /\ Eof \in Nat
  /\ 1 \in Slots /\ 0 \in Handle /\ Slots \subseteq Nat
  /\ \A c \in DirIds : c # 0 => c \in Cluster
BY ConstAssumption
DEF Cluster, DirIds, Data, Slots, Handle, Root, NoDir, Eof, FreeCl

LEMMA LeafFacts == Names \subseteq Leaf /\ Blank \in Leaf
BY DEF Leaf

LEMMA RecordTypes ==
  /\ EndEntry \in Dirent /\ DeletedEntry \in Dirent
  /\ EmptyTable \in [Slots -> Dirent]
  /\ ClosedHandle \in HandleRec
  /\ Idle \in CallRec
  /\ \A n \in Leaf, b \in BOOLEAN, c \in DirIds : NewEntry(n, b, c) \in Dirent
<1>1. EndEntry \in Dirent /\ DeletedEntry \in Dirent
  BY ClusterFacts, LeafFacts DEF EndEntry, DeletedEntry, Dirent, Root
<1>2. EmptyTable \in [Slots -> Dirent]
  BY <1>1 DEF EmptyTable
<1>3. ClosedHandle \in HandleRec
  BY ClusterFacts DEF ClosedHandle, HandleRec, Root
<1>4. Idle \in CallRec
  BY ClusterFacts DEF Idle, CallRec, Root
<1>5. \A n \in Leaf, b \in BOOLEAN, c \in DirIds : NewEntry(n, b, c) \in Dirent
  BY DEF NewEntry, Dirent
<1>6. QED BY <1>1, <1>2, <1>3, <1>4, <1>5

-----------------------------------------------------------------------------
(* Lookup. *)

(* What find_in_dir returns is a used entry of that name. *)
LEMMA FoundFacts ==
  ASSUME NEW d, NEW n, Found(d, n)
  PROVE  /\ SlotOf(d, n) \in Slots
         /\ Used(d, SlotOf(d, n))
         /\ table[d][SlotOf(d, n)].name = n
<1>1. SlotOf(d, n) \in Hits(d, n)
  BY DEF Found, SlotOf
<1>2. QED BY <1>1 DEF Hits

LEMMA EntryType ==
  ASSUME TypesOK, NEW d \in DirIds, NEW s \in Slots
  PROVE  /\ table[d][s] \in Dirent
         /\ table[d][s].head \in DirIds
         /\ table[d][s].size \in Nat
BY DEF TypesOK, Dirent

LEMMA AboveType ==
  ASSUME TypesOK, NEW d \in DirIds
  PROVE  Above(d) \in DirIds \cup {NoDir}
BY ClusterFacts DEF Above, TypesOK, Root, DirIds

LEMMA StepType ==
  ASSUME TypesOK, NEW d \in DirIds, NEW comp
  PROVE  Step(d, comp) \in DirIds \cup {NoDir}
<1>1. CASE Found(d, comp)
  BY <1>1, FoundFacts, EntryType, AboveType DEF Step, EntryOf
<1>2. CASE ~ Found(d, comp)
  BY <1>2, AboveType DEF Step
<1>3. QED BY <1>1, <1>2

LEMMA ParentType ==
  ASSUME TypesOK, NEW p
  PROVE  Parent(p) \in DirIds \cup {NoDir}
<1>1. Start(p) \in DirIds
  BY ClusterFacts DEF Start, TypesOK
<1>2. Step(Start(p), p.via) \in DirIds \cup {NoDir}
  BY <1>1, StepType
<1>3. QED BY <1>2, AboveType DEF Parent

(* A leaf that was found: its directory, its slot and its entry. *)
LEMMA LeafFoundFacts ==
  ASSUME TypesOK, NEW p, LeafFound(p)
  PROVE  /\ Parent(p) \in DirIds
         /\ LeafSlot(p) \in Slots
         /\ Used(Parent(p), LeafSlot(p))
         /\ LeafEntry(p) = table[Parent(p)][LeafSlot(p)]
         /\ LeafEntry(p).head \in DirIds
         /\ LeafEntry(p).size \in Nat
<1>1. Parent(p) \in DirIds /\ Found(Parent(p), p.leaf)
  BY ParentType DEF LeafFound
<1>2. QED BY <1>1, FoundFacts, EntryType DEF LeafSlot, LeafEntry, EntryOf

-----------------------------------------------------------------------------
(* The type invariant. *)

LEMMA TypeInit == Init => TypesOK
<1> SUFFICES ASSUME Init PROVE TypesOK
  OBVIOUS
<1>1. fat \in [Cluster -> {FreeCl, Eof} \cup Cluster]
  BY DEF Init
<1>2. table \in [DirIds -> [Slots -> Dirent]]
  BY RecordTypes DEF Init
<1>3. up \in [Cluster -> {NoDir} \cup DirIds] /\ cwd \in DirIds
  BY ClusterFacts DEF Init
<1>4. handles \in [Handle -> HandleRec] /\ call \in CallRec
  BY RecordTypes DEF Init
<1>5. QED BY <1>1, <1>2, <1>3, <1>4 DEF TypesOK

LEMMA TypeFails ==
  ASSUME TypesOK, NEW r, Fails(r)
  PROVE  TypesOK'
BY DEF Fails, vars, TypesOK

LEMMA TypeFreeChain ==
  ASSUME TypesOK, NEW first, FreeChain(first)
  PROVE  fat' \in [Cluster -> {FreeCl, Eof} \cup Cluster]
BY DEF TypesOK, FreeChain

LEMMA TypeMarkDeleted ==
  ASSUME TypesOK, NEW d \in DirIds, NEW s \in Slots, MarkDeleted(d, s)
  PROVE  table' \in [DirIds -> [Slots -> Dirent]]
BY RecordTypes DEF TypesOK, MarkDeleted

LEMMA TypeChdir ==
  ASSUME TypesOK, NEW p \in Paths, NEW r, Chdir(p, r)
  PROVE  TypesOK'
<1>1. CASE CanChdir(p) /\ cwd' = (IF LeafFound(p) THEN LeafEntry(p).head ELSE Parent(p))
           /\ UNCHANGED <<fat, table, up, handles, call>>
  <2>1. cwd' \in DirIds
    BY <1>1, LeafFoundFacts, ParentType DEF CanChdir, Walks
  <2>2. QED BY <1>1, <2>1 DEF TypesOK
<1>2. CASE Fails(r)
  BY <1>2, TypeFails
<1>3. QED BY <1>1, <1>2 DEF Chdir

LEMMA TypeCreate ==
  ASSUME TypesOK, NEW p \in Paths, NEW r, Create(p, r)
  PROVE  TypesOK'
<1>1. ASSUME NEW s \in CreateSlots(p),
             table' = [table EXCEPT ![Parent(p)][s] = NewEntry(p.leaf, FALSE, 0)],
             UNCHANGED <<fat, up, cwd, handles, call>>
      PROVE  TypesOK'
  <2>1. CanCreate(p) /\ s \in Slots
    BY <1>1 DEF CreateSlots, AddSlots
  <2>2. Parent(p) \in DirIds /\ p.leaf \in Leaf
    BY <2>1, ParentType, LeafFacts DEF CanCreate, IsName
  <2>3. NewEntry(p.leaf, FALSE, 0) \in Dirent
    BY <2>2, RecordTypes, ClusterFacts DEF Root
  <2>4. table' \in [DirIds -> [Slots -> Dirent]]
    BY <1>1, <2>1, <2>2, <2>3 DEF TypesOK
  <2>5. QED BY <1>1, <2>4 DEF TypesOK
<1>2. CASE Fails(r)
  BY <1>2, TypeFails
<1>3. QED BY <1>1, <1>2 DEF Create

LEMMA TypeUnlink ==
  ASSUME TypesOK, NEW p \in Paths, NEW r, Unlink(p, r)
  PROVE  TypesOK'
<1>1. CASE /\ LeafFound(p)
           /\ IF LeafEntry(p).head # 0 THEN FreeChain(LeafEntry(p).head) ELSE UNCHANGED fat
           /\ MarkDeleted(Parent(p), LeafSlot(p))
           /\ UNCHANGED <<up, cwd, handles, call>>
  <2>1. fat' \in [Cluster -> {FreeCl, Eof} \cup Cluster]
    BY <1>1, TypeFreeChain DEF TypesOK
  <2>2. table' \in [DirIds -> [Slots -> Dirent]]
    BY <1>1, LeafFoundFacts, TypeMarkDeleted
  <2>3. QED BY <1>1, <2>1, <2>2 DEF TypesOK
<1>2. CASE Fails(r)
  BY <1>2, TypeFails
<1>3. QED BY <1>1, <1>2 DEF Unlink, IsFile

LEMMA TypeRmdir ==
  ASSUME TypesOK, NEW p \in Paths, NEW r, Rmdir(p, r)
  PROVE  TypesOK'
<1>1. CASE /\ LeafFound(p)
           /\ FreeChain(LeafEntry(p).head)
           /\ MarkDeleted(Parent(p), LeafSlot(p))
           /\ UNCHANGED <<up, cwd, handles, call>>
  <2>1. fat' \in [Cluster -> {FreeCl, Eof} \cup Cluster]
    BY <1>1, TypeFreeChain
  <2>2. table' \in [DirIds -> [Slots -> Dirent]]
    BY <1>1, LeafFoundFacts, TypeMarkDeleted
  <2>3. QED BY <1>1, <2>1, <2>2 DEF TypesOK
<1>2. CASE Fails(r)
  BY <1>2, TypeFails
<1>3. QED BY <1>1, <1>2 DEF Rmdir, CanRmdir

LEMMA TypeRename ==
  ASSUME TypesOK, NEW p \in Paths, NEW q \in Paths, NEW r, Rename(p, q, r)
  PROVE  TypesOK'
<1>1. CASE /\ LeafFound(p)
           /\ table' = [table EXCEPT ![Parent(p)][LeafSlot(p)].name = q.leaf]
           /\ UNCHANGED <<fat, up, cwd, handles, call>>
  <2>1. Parent(p) \in DirIds /\ LeafSlot(p) \in Slots
    BY <1>1, LeafFoundFacts
  <2>2. q.leaf \in Leaf
    BY ConstAssumption DEF PathType
  <2>3. [table[Parent(p)][LeafSlot(p)] EXCEPT !.name = q.leaf] \in Dirent
    BY <2>1, <2>2, EntryType DEF Dirent
  <2>4. table' \in [DirIds -> [Slots -> Dirent]]
    BY <1>1, <2>1, <2>3 DEF TypesOK
  <2>5. QED BY <1>1, <2>4 DEF TypesOK
<1>2. CASE Fails(r)
  BY <1>2, TypeFails
<1>3. QED BY <1>1, <1>2 DEF Rename, CanRename

LEMMA TypeMkdir ==
  ASSUME TypesOK, NEW p \in Paths, NEW r, Mkdir(p, r)
  PROVE  TypesOK'
<1>1. ASSUME CanCreate(p), NEW c \in AllocChoice,
             fat' = [fat EXCEPT ![c] = Eof],
             \/ Readable(c) /\ MkdirInto(p, c, r)
             \/ UNCHANGED <<table, up>>,
             UNCHANGED <<cwd, handles, call>>
      PROVE  TypesOK'
  <2>1. c \in Cluster /\ c \in DirIds
    BY <1>1, ClusterFacts DEF AllocChoice
  <2>2. fat' \in [Cluster -> {FreeCl, Eof} \cup Cluster]
    BY <1>1, <2>1 DEF TypesOK
  <2>3. Parent(p) \in DirIds /\ p.leaf \in Leaf
    BY <1>1, ParentType, LeafFacts DEF CanCreate, IsName
  <2>4. ASSUME MkdirInto(p, c, r)
        PROVE  /\ table' \in [DirIds -> [Slots -> Dirent]]
               /\ up' \in [Cluster -> {NoDir} \cup DirIds]
    <3> DEFINE fresh == [table EXCEPT ![c] = EmptyTable]
    <3>1. fresh \in [DirIds -> [Slots -> Dirent]]
      BY <2>1, RecordTypes DEF TypesOK
    <3>2. up' \in [Cluster -> {NoDir} \cup DirIds]
      BY <2>1, <2>3, <2>4 DEF MkdirInto, NewUp, TypesOK
    <3>3. \/ table' = fresh
          \/ \E s \in Slots : table' = [fresh EXCEPT ![Parent(p)][s] = NewEntry(p.leaf, TRUE, c)]
      BY <2>4 DEF MkdirInto, AddSlots
    <3>4. NewEntry(p.leaf, TRUE, c) \in Dirent
      BY <2>1, <2>3, RecordTypes
    <3> HIDE DEF fresh
    <3>5. ASSUME NEW s \in Slots, table' = [fresh EXCEPT ![Parent(p)][s] = NewEntry(p.leaf, TRUE, c)]
          PROVE  table' \in [DirIds -> [Slots -> Dirent]]
      BY <3>1, <3>4, <3>5, <2>3
    <3>6. table' \in [DirIds -> [Slots -> Dirent]]
      BY <3>1, <3>3, <3>5
    <3>7. QED BY <3>2, <3>6
  <2>5. QED BY <1>1, <2>2, <2>4 DEF TypesOK
<1>2. CASE Fails(r)
  BY <1>2, TypeFails
<1>3. QED BY <1>1, <1>2 DEF Mkdir

LEMMA TypeOpen ==
  ASSUME TypesOK, NEW p \in Paths, NEW r, Open(p, r)
  PROVE  TypesOK'
<1>1. CASE /\ r \in FreeHandles /\ IsFile(p)
           /\ handles' = [handles EXCEPT ![r] = NewHandle(p)]
           /\ UNCHANGED <<fat, table, up, cwd, call>>
  <2>1. handles' \in [Handle -> HandleRec]
    BY <1>1, LeafFoundFacts DEF TypesOK, HandleRec, FreeHandles, IsFile, NewHandle
  <2>2. QED BY <1>1, <2>1 DEF TypesOK
<1>2. CASE Fails(r)
  BY <1>2, TypeFails
<1>3. QED BY <1>1, <1>2 DEF Open

LEMMA TypeCloseRead ==
  ASSUME TypesOK, NEW h \in Handle, NEW n \in 1 .. MaxUnits, NEW r,
         Close(h, r) \/ Read(h, n, r)
  PROVE  TypesOK'
<1>1. CASE Close(h, r)
  <2>1. handles' \in [Handle -> HandleRec]
    BY <1>1, RecordTypes DEF Close, TypesOK
  <2>2. QED BY <1>1, <2>1 DEF Close, TypesOK
<1>2. CASE Read(h, n, r)
  <2>1. r \in Nat /\ handles' = [handles EXCEPT ![h].pos = @ + r]
    BY <1>2 DEF Read
  <2>2. handles[h].pos + r \in Nat
    BY <2>1 DEF TypesOK, HandleRec
  <2>3. [handles[h] EXCEPT !.pos = @ + r] \in HandleRec
    BY <2>2 DEF TypesOK, HandleRec
  <2>4. handles' \in [Handle -> HandleRec]
    BY <2>1, <2>3 DEF TypesOK
  <2>5. QED BY <1>2, <2>4 DEF Read, TypesOK
<1>3. QED BY <1>1, <1>2

LEMMA TypeWriteEnter ==
  ASSUME TypesOK, NEW h \in Handle, NEW n \in 1 .. MaxUnits, NEW r, WriteEnter(h, n, r)
  PROVE  TypesOK'
<1>1. ASSUME NEW first \in DirIds, StartWrite(h, n, first)
      PROVE  call' \in CallRec
  BY <1>1 DEF StartWrite, CallRec
<1>2. handles[h].head \in DirIds
  BY DEF TypesOK, HandleRec
<1>3. CASE StartWrite(h, n, handles[h].head) /\ UNCHANGED <<fat, handles, table, up, cwd>>
  BY <1>1, <1>2, <1>3 DEF TypesOK
<1>4. ASSUME NEW c \in AllocChoice,
             fat' = [fat EXCEPT ![c] = Eof],
             handles' = [handles EXCEPT ![h].head = c],
             StartWrite(h, n, c),
             UNCHANGED <<table, up, cwd>>
      PROVE  TypesOK'
  <2>1. c \in Cluster /\ c \in DirIds
    BY <1>4, ClusterFacts DEF AllocChoice
  <2>2. fat' \in [Cluster -> {FreeCl, Eof} \cup Cluster]
    BY <1>4, <2>1 DEF TypesOK
  <2>3. handles' \in [Handle -> HandleRec]
    BY <1>4, <2>1 DEF TypesOK, HandleRec
  <2>4. QED BY <1>1, <1>4, <2>1, <2>2, <2>3 DEF TypesOK
<1>5. CASE UNCHANGED <<fat, handles, call, table, up, cwd>>
  BY <1>5 DEF TypesOK
<1>6. QED BY <1>3, <1>4, <1>5 DEF WriteEnter

-----------------------------------------------------------------------------
(* Chains.  ChainOf(first) is the least closed set that holds first.       *)

LEMMA ChainHasHead ==
  ASSUME NEW first \in Cluster
  PROVE  first \in ChainOf(first)
BY DEF ChainOf

LEMMA ChainInCluster ==
  ASSUME NEW first
  PROVE  ChainOf(first) \subseteq Cluster
BY DEF ChainOf

(* Every cluster of a chain but its head has a predecessor in the chain:   *)
(* without one, the chain less that cluster would be a smaller closed set. *)
LEMMA ChainPredecessor ==
  ASSUME NEW first \in Cluster, NEW x \in ChainOf(first), x # first
  PROVE  \E d \in ChainOf(first) : fat[d] = x
<1> SUFFICES ASSUME \A d \in ChainOf(first) : fat[d] # x
             PROVE  FALSE
  OBVIOUS
<1> DEFINE S == ChainOf(first) \ {x}
<1>1. S \in SUBSET Cluster /\ first \in S
  BY ChainHasHead, ChainInCluster
<1>2. ASSUME NEW c \in S, fat[c] \in Cluster
      PROVE  fat[c] \in S
  <2>1. fat[c] # x
    OBVIOUS
  <2>2. ASSUME NEW T \in SUBSET Cluster, first \in T, Closed(T)
        PROVE  fat[c] \in T
    <3>1. c \in T
      BY <2>2 DEF ChainOf
    <3>2. QED BY <3>1, <2>2, <1>2 DEF Closed
  <2>3. fat[c] \in ChainOf(first)
    BY <2>2, <1>2 DEF ChainOf
  <2>4. QED BY <2>1, <2>3
<1>3. Closed(S)
  BY <1>2 DEF Closed
<1>4. x \in S
  BY <1>1, <1>3 DEF ChainOf
<1>5. QED BY <1>4

(* Nothing outside the chain of a head links into it, and no other head is *)
(* in it.                                                                  *)
LEMMA ChainIsolated ==
  ASSUME ChainsOK, NEW first, IsHead(first)
  PROVE  /\ \A c \in Cluster : fat[c] \in ChainOf(first) => c \in ChainOf(first)
         /\ \A g : (IsHead(g) /\ g # first) => g \notin ChainOf(first)
<1>1. first \in Cluster
  BY DEF IsHead
<1>2. ASSUME NEW c \in Cluster, fat[c] \in ChainOf(first)
      PROVE  c \in ChainOf(first)
  <2>1. fat[c] # first
    BY DEF IsHead
  <2>2. PICK d \in ChainOf(first) : fat[d] = fat[c]
    BY <1>1, <1>2, <2>1, ChainPredecessor
  <2>3. d \in Cluster /\ fat[c] \in Cluster
    BY <1>2, ChainInCluster
  <2>4. d = c
    BY <2>2, <2>3 DEF ChainsOK
  <2>5. QED BY <2>4
<1>3. ASSUME NEW g, IsHead(g), g # first, g \in ChainOf(first)
      PROVE  FALSE
  <2>1. PICK d \in ChainOf(first) : fat[d] = g
    BY <1>1, <1>3, ChainPredecessor
  <2>2. d \in Cluster
    BY ChainInCluster
  <2>3. QED BY <1>3, <2>1, <2>2 DEF IsHead
<1>4. QED BY <1>2, <1>3

(* free_chain on a head leaves every other chain and head as it was.       *)
LEMMA FreeChainKeeps ==
  ASSUME TypesOK, ChainsOK, NEW first, IsHead(first), FreeChain(first)
  PROVE  /\ ChainsOK'
         /\ \A g : (IsHead(g) /\ g # first) => IsHead(g)'
<1>1. \A c \in Cluster : fat'[c] = IF c \in ChainOf(first) THEN FreeCl ELSE fat[c]
  BY DEF FreeChain
<1>2. ASSUME NEW c \in Cluster, fat'[c] \in Cluster
      PROVE  /\ fat'[fat'[c]] # FreeCl
             /\ \A d \in Cluster : fat'[d] = fat'[c] => d = c
  <2>1. c \notin ChainOf(first) /\ fat'[c] = fat[c]
    BY <1>1, <1>2, ClusterFacts
  <2>2. fat[c] \in Cluster /\ fat[c] \notin ChainOf(first)
    BY <1>2, <2>1, ChainIsolated
  <2>3. fat'[fat[c]] # FreeCl
    BY <1>1, <2>2 DEF ChainsOK
  <2>4. ASSUME NEW d \in Cluster, fat'[d] = fat'[c]
        PROVE  d = c
    <3>1. fat[d] = fat[c]
      BY <1>1, <1>2, <2>1, <2>4, ClusterFacts
    <3>2. QED BY <3>1, <2>2 DEF ChainsOK
  <2>5. QED BY <2>1, <2>3, <2>4
<1>3. ASSUME NEW g, IsHead(g), g # first
      PROVE  IsHead(g)'
  <2>1. g \in Cluster /\ g \notin ChainOf(first)
    BY <1>3, ChainIsolated DEF IsHead
  <2>2. fat'[g] # FreeCl
    BY <1>1, <1>3, <2>1 DEF IsHead
  <2>3. \A d \in Cluster : fat'[d] # g
    BY <1>1, <1>3, <2>1, ClusterFacts DEF IsHead
  <2>4. QED BY <2>1, <2>2, <2>3 DEF IsHead
<1>4. QED BY <1>2, <1>3 DEF ChainsOK

(* A cluster alloc_cluster returns is the end of no chain and the head of  *)
(* none; marked as an end it is a head, and every other head stays one.    *)
LEMMA AllocKeeps ==
  ASSUME TypesOK, ChainsOK, NEW c \in AllocChoice, fat' = [fat EXCEPT ![c] = Eof]
  PROVE  /\ ChainsOK' /\ IsHead(c)' /\ ~ IsHead(c)
         /\ \A g : IsHead(g) => IsHead(g)'
         /\ \A d \in Cluster : fat[d] # FreeCl => fat'[d] # FreeCl
<1>1. c \in Cluster /\ fat[c] = FreeCl
  BY DEF AllocChoice
<1>2. \A d \in Cluster : fat'[d] = IF d = c THEN Eof ELSE fat[d]
  BY DEF TypesOK
<1>3. \A d \in Cluster : fat[d] # c
  BY <1>1 DEF ChainsOK
<1>4. ChainsOK'
  BY <1>1, <1>2, <1>3, ClusterFacts DEF ChainsOK
<1>5. IsHead(c)' /\ ~ IsHead(c)
  BY <1>1, <1>2, <1>3, ClusterFacts DEF IsHead
<1>6. \A g : IsHead(g) => IsHead(g)'
  BY <1>1, <1>2, ClusterFacts DEF IsHead
<1>7. QED BY <1>2, <1>4, <1>5, <1>6, ClusterFacts

-----------------------------------------------------------------------------
(* Entries and handles. *)

(* A step that adds no entry and no handle, moves none to another chain    *)
(* and leaves their heads heads keeps them from sharing a chain.           *)
LEMMA LinksKept ==
  ASSUME EntriesOK, HandlesOK,
         \A d \in DirIds, s \in Slots : (Used(d, s)' /\ table'[d][s].head # 0) =>
            /\ Used(d, s) /\ table'[d][s].head = table[d][s].head
            /\ IsHead(table[d][s].head)',
         \A h \in Handle : (handles'[h].open /\ handles'[h].head # 0) =>
            /\ handles[h].open /\ handles'[h].head = handles[h].head
            /\ handles'[h].parent = handles[h].parent /\ handles'[h].off = handles[h].off
            /\ IsHead(handles[h].head)'
  PROVE  EntriesOK' /\ HandlesOK'
<1>1. EntriesOK'
  <2> SUFFICES ASSUME NEW d \in DirIds, NEW s \in Slots, Used(d, s)', table'[d][s].head # 0
               PROVE  /\ IsHead(table[d][s].head)'
                      /\ \A e \in DirIds : \A t \in Slots :
                           (Used(e, t)' /\ table'[e][t].head = table'[d][s].head)
                             => (e = d /\ t = s)
    BY DEF EntriesOK
  <2>1. IsHead(table[d][s].head)'
    OBVIOUS
  <2>2. \A e \in DirIds : \A t \in Slots :
           (Used(e, t)' /\ table'[e][t].head = table'[d][s].head) => (e = d /\ t = s)
    BY DEF EntriesOK
  <2>3. QED BY <2>1, <2>2
<1>2. HandlesOK'
  <2> SUFFICES ASSUME NEW h \in Handle, handles'[h].open, handles'[h].head # 0
               PROVE  /\ IsHead(handles[h].head)'
                      /\ \A g \in Handle :
                           (handles'[g].open /\ handles'[g].head = handles'[h].head) => g = h
                      /\ \A d \in DirIds : \A s \in Slots :
                           (Used(d, s)' /\ table'[d][s].head = handles'[h].head) =>
                             (d = handles'[h].parent /\ s = handles'[h].off)
    BY DEF HandlesOK
  <2>1. IsHead(handles[h].head)'
    OBVIOUS
  <2>2. \A g \in Handle :
          (handles'[g].open /\ handles'[g].head = handles'[h].head) => g = h
    BY DEF HandlesOK
  <2>3. \A d \in DirIds : \A s \in Slots :
          (Used(d, s)' /\ table'[d][s].head = handles'[h].head) =>
            (d = handles'[h].parent /\ s = handles'[h].off)
    BY DEF HandlesOK
  <2>4. QED BY <2>1, <2>2, <2>3
<1>3. QED BY <1>1, <1>2

(* Deleting the entry whose chain is freed, while no handle is on it.      *)
LEMMA RemoveKeeps ==
  ASSUME TypesOK, Apart, call.pc = "idle",
         NEW d \in DirIds, NEW s \in Slots, Used(d, s),
         \A h \in Handle : handles[h].open => ~ (handles[h].parent = d /\ handles[h].off = s),
         IF table[d][s].head # 0 THEN FreeChain(table[d][s].head) ELSE UNCHANGED fat,
         MarkDeleted(d, s), UNCHANGED <<handles, call>>
  PROVE  Apart'
<1> DEFINE first == table[d][s].head
<1>1. ChainsOK' /\ \A g : (IsHead(g) /\ g # first) => IsHead(g)'
  <2>1. CASE first # 0
    <3>1. IsHead(first)
      BY <2>1 DEF Apart, EntriesOK
    <3>2. QED BY <2>1, <3>1, FreeChainKeeps DEF Apart
  <2>2. CASE first = 0
    BY <2>2 DEF Apart, ChainsOK, IsHead
  <2>3. QED BY <2>1, <2>2
<1>2. \A e \in DirIds, t \in Slots : Used(e, t)' =>
        Used(e, t) /\ table'[e][t] = table[e][t] /\ ~ (e = d /\ t = s)
  BY DEF MarkDeleted, Used, TypesOK, DeletedEntry, EndEntry
<1>3. \A e \in DirIds, t \in Slots : (Used(e, t)' /\ table'[e][t].head # 0) =>
        /\ Used(e, t) /\ table'[e][t].head = table[e][t].head
        /\ IsHead(table[e][t].head)'
  <2> SUFFICES ASSUME NEW e \in DirIds, NEW t \in Slots, Used(e, t)', table'[e][t].head # 0
               PROVE  /\ Used(e, t) /\ table'[e][t].head = table[e][t].head
                      /\ IsHead(table[e][t].head)'
    OBVIOUS
  <2>1. Used(e, t) /\ table'[e][t] = table[e][t] /\ ~ (e = d /\ t = s)
    BY <1>2
  <2>2. IsHead(table[e][t].head) /\ table[e][t].head # first
    BY <2>1 DEF Apart, EntriesOK
  <2>3. QED BY <1>1, <2>1, <2>2
<1>4. \A h \in Handle : (handles'[h].open /\ handles'[h].head # 0) =>
        /\ handles[h].open /\ handles'[h].head = handles[h].head
        /\ handles'[h].parent = handles[h].parent /\ handles'[h].off = handles[h].off
        /\ IsHead(handles[h].head)'
  <2> SUFFICES ASSUME NEW h \in Handle, handles[h].open, handles[h].head # 0
               PROVE  IsHead(handles[h].head)'
    OBVIOUS
  <2>1. IsHead(handles[h].head) /\ handles[h].head # first
    BY DEF Apart, HandlesOK
  <2>2. QED BY <1>1, <2>1
<1>5. EntriesOK' /\ HandlesOK'
  BY <1>3, <1>4, LinksKept DEF Apart
<1>6. WriteOK'
  BY DEF WriteOK
<1>7. QED BY <1>1, <1>5, <1>6 DEF Apart

-----------------------------------------------------------------------------
(* Apart, one action at a time. *)

(* A step that changes neither the FAT, the first clusters in entries and  *)
(* handles, nor which of them are in use, and no call in progress.         *)
LEMMA SameLinksKeep ==
  ASSUME TypesOK, Apart, UNCHANGED <<fat, call>>,
         call.pc = "idle" \/ UNCHANGED handles,
         \A d \in DirIds, s \in Slots : (Used(d, s)' /\ table'[d][s].head # 0) =>
            Used(d, s) /\ table'[d][s].head = table[d][s].head,
         \A h \in Handle : (handles'[h].open /\ handles'[h].head # 0) =>
            /\ handles[h].open /\ handles'[h].head = handles[h].head
            /\ handles'[h].parent = handles[h].parent /\ handles'[h].off = handles[h].off
  PROVE  Apart'
<1>1. \A g : IsHead(g) => IsHead(g)'
  BY DEF IsHead
<1>2. ChainsOK'
  BY DEF Apart, ChainsOK
<1>3. WriteOK'
  BY DEF Apart, WriteOK
<1>4. \A d \in DirIds, s \in Slots : (Used(d, s)' /\ table'[d][s].head # 0) =>
        IsHead(table[d][s].head)'
  <2> SUFFICES ASSUME NEW d \in DirIds, NEW s \in Slots, Used(d, s)', table'[d][s].head # 0
               PROVE  IsHead(table[d][s].head)'
    OBVIOUS
  <2>1. IsHead(table[d][s].head)
    BY DEF Apart, EntriesOK
  <2>2. QED BY <1>1, <2>1
<1>5. \A h \in Handle : (handles'[h].open /\ handles'[h].head # 0) =>
        IsHead(handles[h].head)'
  <2> SUFFICES ASSUME NEW h \in Handle, handles'[h].open, handles'[h].head # 0
               PROVE  IsHead(handles[h].head)'
    OBVIOUS
  <2>1. IsHead(handles[h].head)
    BY DEF Apart, HandlesOK
  <2>2. QED BY <1>1, <2>1
<1>6. EntriesOK' /\ HandlesOK'
  BY <1>4, <1>5, LinksKept DEF Apart
<1>7. QED BY <1>2, <1>3, <1>6 DEF Apart

LEMMA LinksFails ==
  ASSUME Apart, NEW r, Fails(r)
  PROVE  Apart'
BY DEF Fails, vars, Apart, ChainsOK, EntriesOK, HandlesOK, WriteOK, IsHead, Used

LEMMA LinksChdir ==
  ASSUME TypesOK, Apart, NEW p \in Paths, NEW r, Chdir(p, r)
  PROVE  Apart'
<1>1. CASE UNCHANGED <<fat, table, up, handles, call>>
  BY <1>1 DEF Apart, ChainsOK, EntriesOK, HandlesOK, WriteOK, IsHead, Used
<1>2. CASE Fails(r)
  BY <1>2, LinksFails
<1>3. QED BY <1>1, <1>2 DEF Chdir

LEMMA LinksCreate ==
  ASSUME TypesOK, Apart, call.pc = "idle", NEW p \in Paths, NEW r, Create(p, r)
  PROVE  Apart'
<1>1. ASSUME NEW s \in CreateSlots(p),
             table' = [table EXCEPT ![Parent(p)][s] = NewEntry(p.leaf, FALSE, 0)],
             UNCHANGED <<fat, up, cwd, handles, call>>
      PROVE  Apart'
  <2>1. s \in Slots
    BY <1>1 DEF CreateSlots, AddSlots
  <2>2. Parent(p) \in DirIds
    BY <1>1, ParentType DEF CreateSlots, CanCreate
  <2>3. ASSUME NEW d \in DirIds, NEW t \in Slots, Used(d, t)', table'[d][t].head # 0
        PROVE  Used(d, t) /\ table'[d][t].head = table[d][t].head
    <3>1. CASE d = Parent(p) /\ t = s
      <4>1. table'[d][t].head = 0
        BY <1>1, <2>1, <2>2, <3>1 DEF TypesOK, NewEntry
      <4>2. QED BY <4>1, <2>3
    <3>2. CASE ~ (d = Parent(p) /\ t = s)
      <4>1. table'[d][t] = table[d][t]
        BY <1>1, <2>1, <2>2, <3>2 DEF TypesOK
      <4>2. QED BY <4>1, <2>3 DEF Used
    <3>3. QED BY <3>1, <3>2
  <2>4. QED BY <1>1, <2>3, SameLinksKeep
<1>2. CASE Fails(r)
  BY <1>2, LinksFails
<1>3. QED BY <1>1, <1>2 DEF Create

LEMMA LinksUnlink ==
  ASSUME TypesOK, Apart, call.pc = "idle",
         NEW p \in Paths, NEW r, ~ OpenOn(p), Unlink(p, r)
  PROVE  Apart'
<1>1. CASE /\ IsFile(p)
           /\ IF LeafEntry(p).head # 0 THEN FreeChain(LeafEntry(p).head) ELSE UNCHANGED fat
           /\ MarkDeleted(Parent(p), LeafSlot(p))
           /\ UNCHANGED <<up, cwd, handles, call>>
  <2>1. /\ Parent(p) \in DirIds /\ LeafSlot(p) \in Slots
        /\ Used(Parent(p), LeafSlot(p))
        /\ LeafEntry(p) = table[Parent(p)][LeafSlot(p)]
    BY <1>1, LeafFoundFacts DEF IsFile
  <2>2. \A h \in Handle : handles[h].open =>
          ~ (handles[h].parent = Parent(p) /\ handles[h].off = LeafSlot(p))
    BY <1>1 DEF OpenOn
  <2>3. QED BY <1>1, <2>1, <2>2, RemoveKeeps
<1>2. CASE Fails(r)
  BY <1>2, LinksFails
<1>3. QED BY <1>1, <1>2 DEF Unlink

LEMMA LinksRmdir ==
  ASSUME TypesOK, Apart, call.pc = "idle",
         NEW p \in Paths, NEW r, NoneOpen, Rmdir(p, r)
  PROVE  Apart'
<1>1. CASE /\ CanRmdir(p)
           /\ FreeChain(LeafEntry(p).head)
           /\ MarkDeleted(Parent(p), LeafSlot(p))
           /\ UNCHANGED <<up, cwd, handles, call>>
  <2>1. /\ Parent(p) \in DirIds /\ LeafSlot(p) \in Slots
        /\ Used(Parent(p), LeafSlot(p))
        /\ LeafEntry(p) = table[Parent(p)][LeafSlot(p)]
    BY <1>1, LeafFoundFacts DEF CanRmdir
  <2>2. LeafEntry(p).head # 0
    BY <1>1, ClusterFacts DEF CanRmdir, IsEmptyDir, Readable
  <2>3. QED BY <1>1, <2>1, <2>2, RemoveKeeps DEF NoneOpen
<1>2. CASE Fails(r)
  BY <1>2, LinksFails
<1>3. QED BY <1>1, <1>2 DEF Rmdir

LEMMA LinksRename ==
  ASSUME TypesOK, Apart, call.pc = "idle",
         NEW p \in Paths, NEW q \in Paths, NEW r, Rename(p, q, r)
  PROVE  Apart'
<1>1. CASE /\ LeafFound(p)
           /\ table' = [table EXCEPT ![Parent(p)][LeafSlot(p)].name = q.leaf]
           /\ UNCHANGED <<fat, up, cwd, handles, call>>
  <2>1. Parent(p) \in DirIds /\ LeafSlot(p) \in Slots
    BY <1>1, LeafFoundFacts
  <2>2. \A d \in DirIds, s \in Slots :
          table'[d][s].st = table[d][s].st /\ table'[d][s].head = table[d][s].head
    BY <1>1, <2>1 DEF TypesOK, Dirent
  <2>3. QED BY <1>1, <2>2, SameLinksKeep DEF Used
<1>2. CASE Fails(r)
  BY <1>2, LinksFails
<1>3. QED BY <1>1, <1>2 DEF Rename, CanRename

LEMMA LinksMkdir ==
  ASSUME TypesOK, Apart, call.pc = "idle",
         NEW p \in Paths, NEW r, NoneOpen, Mkdir(p, r)
  PROVE  Apart'
<1>1. ASSUME CanCreate(p), NEW c \in AllocChoice,
             fat' = [fat EXCEPT ![c] = Eof],
             \/ Readable(c) /\ MkdirInto(p, c, r)
             \/ UNCHANGED <<table, up>>,
             UNCHANGED <<cwd, handles, call>>
      PROVE  Apart'
  <2>1. /\ ChainsOK' /\ IsHead(c)' /\ ~ IsHead(c)
        /\ \A g : IsHead(g) => IsHead(g)'
    BY <1>1, AllocKeeps DEF Apart
  <2>2. c \in DirIds /\ c # 0
    BY <1>1, ClusterFacts DEF AllocChoice
  <2>3. Parent(p) \in DirIds
    BY <1>1, ParentType DEF CanCreate
  \* The new entry is at (Parent(p), k), when there is one.
  <2>4. \E k \in Slots : \A d \in DirIds, s \in Slots : Used(d, s)' =>
          \/ d = Parent(p) /\ s = k /\ table'[d][s].head = c
          \/ Used(d, s) /\ table'[d][s] = table[d][s]
    <3>1. CASE UNCHANGED <<table, up>>
      BY <3>1, ClusterFacts DEF Used
    <3>2. CASE MkdirInto(p, c, r)
      <4> DEFINE fresh == [table EXCEPT ![c] = EmptyTable]
      <4>1. fresh \in [DirIds -> [Slots -> Dirent]]
        BY <2>2, RecordTypes DEF TypesOK
      <4>2. \A d \in DirIds, s \in Slots : fresh[d][s].st = "used" =>
              Used(d, s) /\ fresh[d][s] = table[d][s]
        BY <2>2 DEF TypesOK, Used, EmptyTable, EndEntry
      <4>3. \/ table' = fresh
            \/ \E s \in Slots : table' = [fresh EXCEPT ![Parent(p)][s] = NewEntry(p.leaf, TRUE, c)]
        BY <3>2 DEF MkdirInto, AddSlots
      <4> HIDE DEF fresh
      <4>4. CASE table' = fresh
        BY <4>2, <4>4, ClusterFacts DEF Used
      <4>5. ASSUME NEW k \in Slots,
                   table' = [fresh EXCEPT ![Parent(p)][k] = NewEntry(p.leaf, TRUE, c)],
                   NEW d \in DirIds, NEW s \in Slots, Used(d, s)'
            PROVE  \/ d = Parent(p) /\ s = k /\ table'[d][s].head = c
                   \/ Used(d, s) /\ table'[d][s] = table[d][s]
        <5>1. CASE d = Parent(p) /\ s = k
          BY <4>1, <4>5, <2>3, <5>1 DEF NewEntry
        <5>2. CASE ~ (d = Parent(p) /\ s = k)
          <6>1. table'[d][s] = fresh[d][s]
            BY <4>1, <4>5, <2>3, <5>2
          <6>2. QED BY <4>2, <4>5, <6>1 DEF Used
        <5>3. QED BY <5>1, <5>2
      <4>6. QED BY <4>3, <4>4, <4>5
    <3>3. QED BY <1>1, <3>1, <3>2
  <2>5. PICK k \in Slots : \A d \in DirIds, s \in Slots : Used(d, s)' =>
          \/ d = Parent(p) /\ s = k /\ table'[d][s].head = c
          \/ Used(d, s) /\ table'[d][s] = table[d][s]
    BY <2>4
  <2>6. \A d \in DirIds, s \in Slots : Used(d, s) => table[d][s].head # c
    BY <2>1, <2>2 DEF Apart, EntriesOK
  <2>7. EntriesOK'
    <3> SUFFICES ASSUME NEW d \in DirIds, NEW s \in Slots, Used(d, s)', table'[d][s].head # 0
                 PROVE  /\ IsHead(table[d][s].head)'
                        /\ \A e \in DirIds : \A t \in Slots :
                             (Used(e, t)' /\ table'[e][t].head = table'[d][s].head)
                               => (e = d /\ t = s)
      BY DEF EntriesOK
    <3>1. CASE d = Parent(p) /\ s = k /\ table'[d][s].head = c
      BY <2>1, <2>5, <2>6, <3>1
    <3>2. CASE Used(d, s) /\ table'[d][s] = table[d][s]
      <4>1. IsHead(table[d][s].head)'
        <5>1. IsHead(table[d][s].head)
          BY <3>2 DEF Apart, EntriesOK
        <5>2. QED BY <2>1, <3>2, <5>1
      <4>2. \A e \in DirIds : \A t \in Slots :
              (Used(e, t)' /\ table'[e][t].head = table'[d][s].head) => (e = d /\ t = s)
        BY <2>5, <2>6, <3>2 DEF Apart, EntriesOK
      <4>3. QED BY <4>1, <4>2
    <3>3. QED BY <2>5, <3>1, <3>2
  <2>8. HandlesOK' /\ WriteOK'
    BY <1>1 DEF NoneOpen, HandlesOK, WriteOK
  <2>9. QED BY <2>1, <2>7, <2>8 DEF Apart
<1>2. CASE Fails(r)
  BY <1>2, LinksFails
<1>3. QED BY <1>1, <1>2 DEF Mkdir

LEMMA LinksOpen ==
  ASSUME TypesOK, Apart, call.pc = "idle",
         NEW p \in Paths, NEW r, ~ OpenOn(p), Open(p, r)
  PROVE  Apart'
<1>1. CASE /\ r \in FreeHandles /\ IsFile(p)
           /\ handles' = [handles EXCEPT ![r] = NewHandle(p)]
           /\ UNCHANGED <<fat, table, up, cwd, call>>
  <2>1. /\ Parent(p) \in DirIds /\ LeafSlot(p) \in Slots
        /\ Used(Parent(p), LeafSlot(p))
        /\ LeafEntry(p) = table[Parent(p)][LeafSlot(p)]
    BY <1>1, LeafFoundFacts DEF IsFile
  <2>2. r \in Handle
    BY <1>1 DEF FreeHandles
  <2>3. /\ handles'[r].head = table[Parent(p)][LeafSlot(p)].head
        /\ handles'[r].parent = Parent(p) /\ handles'[r].off = LeafSlot(p)
        /\ \A h \in Handle : h # r => handles'[h] = handles[h]
    BY <1>1, <2>1, <2>2 DEF TypesOK, NewHandle
  \* No open handle is on this chain yet: it would be on this entry.
  <2>4. ASSUME NEW h \in Handle, handles[h].open, handles[h].head # 0
        PROVE  handles[h].head # table[Parent(p)][LeafSlot(p)].head
    BY <1>1, <2>1, <2>4 DEF OpenOn, Apart, HandlesOK
  <2>5. \A g : IsHead(g) => IsHead(g)'
    BY <1>1 DEF IsHead
  <2>6. HandlesOK'
    <3> SUFFICES ASSUME NEW h \in Handle, handles'[h].open, handles'[h].head # 0
                 PROVE  /\ IsHead(handles[h].head)'
                        /\ \A g \in Handle :
                             (handles'[g].open /\ handles'[g].head = handles'[h].head) => g = h
                        /\ \A d \in DirIds : \A s \in Slots :
                             (Used(d, s)' /\ table'[d][s].head = handles'[h].head) =>
                               (d = handles'[h].parent /\ s = handles'[h].off)
      BY DEF HandlesOK
    <3>1. CASE h = r
      <4>1. IsHead(table[Parent(p)][LeafSlot(p)].head)
        BY <2>1, <2>3, <3>1 DEF Apart, EntriesOK
      <4>2. IsHead(handles[h].head)'
        BY <2>3, <2>5, <3>1, <4>1
      <4>3. \A g \in Handle :
              (handles'[g].open /\ handles'[g].head = handles'[h].head) => g = h
        BY <2>3, <2>4, <3>1
      <4>4. \A d \in DirIds : \A s \in Slots :
              (Used(d, s)' /\ table'[d][s].head = handles'[h].head) =>
                (d = handles'[h].parent /\ s = handles'[h].off)
        BY <1>1, <2>1, <2>3, <3>1 DEF Apart, EntriesOK, Used
      <4>5. QED BY <4>2, <4>3, <4>4
    <3>2. CASE h # r
      <4>1. handles'[h] = handles[h] /\ IsHead(handles[h].head)
        BY <2>3, <3>2 DEF Apart, HandlesOK
      <4>2. IsHead(handles[h].head)'
        BY <2>5, <4>1
      <4>3. \A g \in Handle :
              (handles'[g].open /\ handles'[g].head = handles'[h].head) => g = h
        BY <2>3, <2>4, <4>1 DEF Apart, HandlesOK
      <4>4. \A d \in DirIds : \A s \in Slots :
              (Used(d, s)' /\ table'[d][s].head = handles'[h].head) =>
                (d = handles'[h].parent /\ s = handles'[h].off)
        BY <1>1, <4>1 DEF Apart, HandlesOK, Used
      <4>5. QED BY <4>2, <4>3, <4>4
    <3>3. QED BY <3>1, <3>2
  <2>7. ChainsOK' /\ EntriesOK' /\ WriteOK'
    BY <1>1 DEF Apart, ChainsOK, EntriesOK, IsHead, Used, WriteOK
  <2>8. QED BY <2>6, <2>7 DEF Apart
<1>2. CASE Fails(r)
  BY <1>2, LinksFails
<1>3. QED BY <1>1, <1>2 DEF Open

LEMMA LinksCloseRead ==
  ASSUME TypesOK, Apart, call.pc = "idle",
         NEW h \in Handle, NEW n \in 1 .. MaxUnits, NEW r,
         Close(h, r) \/ Read(h, n, r)
  PROVE  Apart'
<1>1. CASE Close(h, r)
  <2>1. \A g \in Handle : handles'[g].open => handles'[g] = handles[g]
    BY <1>1 DEF Close, TypesOK, ClosedHandle
  <2>2. UNCHANGED <<fat, call, table>>
    BY <1>1 DEF Close
  <2>3. QED BY <2>1, <2>2, SameLinksKeep DEF Used
<1>2. CASE Read(h, n, r)
  <2>1. \A g \in Handle :
          /\ handles'[g].open = handles[g].open /\ handles'[g].head = handles[g].head
          /\ handles'[g].parent = handles[g].parent /\ handles'[g].off = handles[g].off
    BY <1>2 DEF Read, TypesOK, HandleRec
  <2>2. UNCHANGED <<fat, call, table>>
    BY <1>2 DEF Read
  <2>3. QED BY <2>1, <2>2, SameLinksKeep DEF Used
<1>3. QED BY <1>1, <1>2

(* The first cluster of an open handle is allocated.                       *)
LEMMA HandleHead ==
  ASSUME Apart, NEW h \in Handle, handles[h].open, handles[h].head # 0
  PROVE  handles[h].head \in Cluster /\ fat[handles[h].head] # FreeCl
BY DEF Apart, HandlesOK, IsHead

LEMMA LinksWriteEnter ==
  ASSUME TypesOK, Apart, call.pc = "idle",
         NEW h \in Handle, NEW n \in 1 .. MaxUnits, NEW r, WriteEnter(h, n, r)
  PROVE  Apart'
<1>1. handles[h].open
  BY DEF WriteEnter
<1>2. CASE /\ handles[h].head # 0 /\ StartWrite(h, n, handles[h].head)
           /\ UNCHANGED <<fat, handles, table, up, cwd>>
  <2>1. WriteOK'
    BY <1>1, <1>2, HandleHead DEF WriteOK, StartWrite
  <2>2. ChainsOK' /\ EntriesOK' /\ HandlesOK'
    BY <1>2 DEF Apart, ChainsOK, EntriesOK, HandlesOK, IsHead, Used
  <2>3. QED BY <2>1, <2>2 DEF Apart
<1>3. ASSUME handles[h].head = 0, NEW c \in AllocChoice,
             fat' = [fat EXCEPT ![c] = Eof],
             handles' = [handles EXCEPT ![h].head = c],
             StartWrite(h, n, c),
             UNCHANGED <<table, up, cwd>>
      PROVE  Apart'
  <2>1. /\ ChainsOK' /\ IsHead(c)' /\ ~ IsHead(c)
        /\ \A g : IsHead(g) => IsHead(g)'
    BY <1>3, AllocKeeps DEF Apart
  <2>2. c \in Cluster /\ c # 0
    BY <1>3, ClusterFacts DEF AllocChoice
  <2>3. /\ handles'[h].head = c /\ handles'[h].open
        /\ \A g \in Handle : g # h => handles'[g] = handles[g]
    BY <1>1, <1>3 DEF TypesOK, HandleRec
  <2>4. \A d \in DirIds, s \in Slots : Used(d, s) => table[d][s].head # c
    BY <2>1, <2>2 DEF Apart, EntriesOK
  <2>5. \A g \in Handle : handles[g].open => handles[g].head # c
    BY <2>1, <2>2 DEF Apart, HandlesOK
  <2>6. EntriesOK'
    BY <1>3, <2>1 DEF Apart, EntriesOK, Used
  <2>7. HandlesOK'
    <3> SUFFICES ASSUME NEW k \in Handle, handles'[k].open, handles'[k].head # 0
                 PROVE  /\ IsHead(handles[k].head)'
                        /\ \A g \in Handle :
                             (handles'[g].open /\ handles'[g].head = handles'[k].head) => g = k
                        /\ \A d \in DirIds : \A s \in Slots :
                             (Used(d, s)' /\ table'[d][s].head = handles'[k].head) =>
                               (d = handles'[k].parent /\ s = handles'[k].off)
      BY DEF HandlesOK
    <3>1. CASE k = h
      BY <1>3, <2>1, <2>3, <2>4, <2>5, <3>1 DEF Used
    <3>2. CASE k # h
      <4>1. handles'[k] = handles[k] /\ IsHead(handles[k].head)
        BY <2>3, <3>2 DEF Apart, HandlesOK
      <4>2. IsHead(handles[k].head)'
        BY <2>1, <4>1
      <4>3. \A g \in Handle :
              (handles'[g].open /\ handles'[g].head = handles'[k].head) => g = k
        BY <2>3, <2>5, <4>1 DEF Apart, HandlesOK
      <4>4. \A d \in DirIds : \A s \in Slots :
              (Used(d, s)' /\ table'[d][s].head = handles'[k].head) =>
                (d = handles'[k].parent /\ s = handles'[k].off)
        <5>1. handles[k].open /\ handles[k].head # 0 /\ handles'[k] = handles[k] /\ table' = table
          BY <1>3, <4>1
        <5>2. \A d \in DirIds : \A s \in Slots :
                (Used(d, s) /\ table[d][s].head = handles[k].head) =>
                  (d = handles[k].parent /\ s = handles[k].off)
          BY <5>1 DEF Apart, HandlesOK
        <5>3. QED BY <5>1, <5>2 DEF Used
      <4>5. QED BY <4>2, <4>3, <4>4
    <3>3. QED BY <3>1, <3>2
  <2>8. WriteOK'
    BY <1>3, <2>1, <2>2, <2>3 DEF WriteOK, StartWrite, IsHead
  <2>9. QED BY <2>1, <2>6, <2>7, <2>8 DEF Apart
<1>4. CASE UNCHANGED <<fat, handles, call, table, up, cwd>>
  BY <1>4 DEF Apart, ChainsOK, EntriesOK, HandlesOK, WriteOK, IsHead, Used
<1>5. QED BY <1>2, <1>3, <1>4 DEF WriteEnter

(* A cluster appended at the end of a chain.                               *)
LEMMA AppendKeeps ==
  ASSUME TypesOK, ChainsOK, NEW c \in AllocChoice, NEW at \in Cluster, fat[at] = Eof,
         fat' = [fat EXCEPT ![at] = c, ![c] = Eof]
  PROVE  ChainsOK' /\ fat'[c] # FreeCl /\ \A g : IsHead(g) => IsHead(g)'
<1>1. c \in Cluster /\ fat[c] = FreeCl /\ c # at
  BY ClusterFacts DEF AllocChoice
<1>2. \A d \in Cluster : fat'[d] = IF d = c THEN Eof ELSE IF d = at THEN c ELSE fat[d]
  BY <1>1 DEF TypesOK
<1>3. \A d \in Cluster : fat[d] # c
  BY <1>1 DEF ChainsOK
<1>4. ASSUME NEW x \in Cluster, fat'[x] \in Cluster
      PROVE  /\ fat'[fat'[x]] # FreeCl
             /\ \A d \in Cluster : fat'[d] = fat'[x] => d = x
  <2>1. CASE x = at
    BY <1>1, <1>2, <1>3, <2>1, ClusterFacts
  <2>2. CASE x # at
    <3>1. fat'[x] = fat[x]
      BY <1>2, <1>4, <2>2, ClusterFacts
    <3>2. fat'[fat[x]] # FreeCl
      BY <1>1, <1>2, <1>4, <3>1, ClusterFacts DEF ChainsOK
    <3>3. \A d \in Cluster : fat'[d] = fat[x] => d = x
      BY <1>2, <1>3, <1>4, <3>1, ClusterFacts DEF ChainsOK
    <3>4. QED BY <3>1, <3>2, <3>3
  <2>3. QED BY <2>1, <2>2
<1>5. ASSUME NEW g, IsHead(g)
      PROVE  IsHead(g)'
  <2>1. g \in Cluster /\ g # c
    BY <1>1, <1>5 DEF IsHead
  <2>2. fat'[g] # FreeCl
    BY <1>1, <1>2, <1>5, <2>1, ClusterFacts DEF IsHead
  <2>3. \A d \in Cluster : fat'[d] # g
    BY <1>2, <1>5, <2>1, ClusterFacts DEF IsHead
  <2>4. QED BY <2>1, <2>2, <2>3 DEF IsHead
<1>6. QED BY <1>1, <1>2, <1>4, <1>5, ClusterFacts DEF ChainsOK

LEMMA StepWriteHop ==
  ASSUME TypesOK, Apart, WriteHop
  PROVE  TypesOK' /\ Apart'
<1> DEFINE h == call.h
           at == call.at
<1>1. /\ call \in CallRec /\ h \in Handle /\ call.hop + 1 \in Nat
      /\ handles[h].open /\ handles[h].head # 0
      /\ at \in Cluster /\ fat[at] # FreeCl
  <2>1. call \in CallRec /\ call.pc = "loop"
    BY DEF TypesOK, WriteHop
  <2>2. h \in Handle /\ call.hop + 1 \in Nat
    BY <2>1 DEF CallRec
  <2>3. QED BY <2>1, <2>2 DEF Apart, WriteOK
<1>2. UNCHANGED <<table, up, cwd, handles>>
  BY DEF WriteHop
<1>3. ASSUME NEW next \in Cluster, fat'[next] # FreeCl,
             fat' \in [Cluster -> {FreeCl, Eof} \cup Cluster],
             call' = [call EXCEPT !.at = next, !.hop = @ + 1],
             ChainsOK', \A g : IsHead(g) => IsHead(g)'
      PROVE  TypesOK' /\ Apart'
  <2>1. call' \in CallRec
    BY <1>1, <1>3, ClusterFacts DEF CallRec
  <2>2. TypesOK'
    BY <1>2, <1>3, <2>1 DEF TypesOK
  <2>3. EntriesOK' /\ HandlesOK'
    BY <1>2, <1>3 DEF Apart, EntriesOK, HandlesOK, Used
  <2>4. call'.h = h /\ call'.at = next
    BY <1>1, <1>3 DEF CallRec
  <2>5. WriteOK'
    BY <1>1, <1>2, <1>3, <2>4 DEF WriteOK
  <2>6. QED BY <1>3, <2>2, <2>3, <2>5 DEF Apart
<1>4. CASE fat[at] # Eof /\ FollowLink
  <2>0. call' = [call EXCEPT !.at = fat[at], !.hop = @ + 1] /\ UNCHANGED fat
    BY <1>4 DEF FollowLink
  <2>1. fat[at] \in Cluster
    BY <1>1, <1>4 DEF TypesOK
  <2>2. fat'[fat[at]] # FreeCl
    BY <1>1, <2>0, <2>1 DEF Apart, ChainsOK
  <2>3. ChainsOK' /\ \A g : IsHead(g) => IsHead(g)'
    BY <2>0 DEF Apart, ChainsOK, IsHead
  <2>4. fat' \in [Cluster -> {FreeCl, Eof} \cup Cluster]
    BY <2>0 DEF TypesOK
  <2>5. QED BY <1>3, <2>0, <2>1, <2>2, <2>3, <2>4
<1>5. ASSUME NEW c \in AllocChoice, fat[at] = Eof,
             fat' = [fat EXCEPT ![at] = c, ![c] = Eof],
             call' = [call EXCEPT !.at = c, !.hop = @ + 1]
      PROVE  TypesOK' /\ Apart'
  <2>1. c \in Cluster
    BY <1>5 DEF AllocChoice
  <2>2. ChainsOK' /\ fat'[c] # FreeCl /\ \A g : IsHead(g) => IsHead(g)'
    BY <1>1, <1>5, AppendKeeps DEF Apart
  <2>3. fat' \in [Cluster -> {FreeCl, Eof} \cup Cluster]
    BY <1>5, <2>1 DEF TypesOK
  <2>4. QED BY <1>3, <1>5, <2>1, <2>2, <2>3
<1>6. CASE call' = [call EXCEPT !.pc = "done"] /\ UNCHANGED fat
  <2>1. call' \in CallRec
    BY <1>1, <1>6 DEF CallRec
  <2>2. call'.h = h /\ call'.at = at
    BY <1>1, <1>6 DEF CallRec
  <2>3. WriteOK'
    BY <1>1, <1>2, <1>6, <2>2 DEF WriteOK
  <2>4. ChainsOK' /\ EntriesOK' /\ HandlesOK'
    BY <1>2, <1>6 DEF Apart, ChainsOK, EntriesOK, HandlesOK, IsHead, Used
  <2>5. QED BY <1>2, <1>6, <2>1, <2>3, <2>4 DEF TypesOK, Apart
<1>7. QED BY <1>4, <1>5, <1>6 DEF WriteHop

LEMMA StepWriteChunk ==
  ASSUME TypesOK, Apart, WriteChunk
  PROVE  TypesOK' /\ Apart'
<1> DEFINE h == call.h
           at == call.at
<1>1. /\ call \in CallRec /\ h \in Handle /\ handles[h] \in HandleRec
      /\ handles[h].open /\ handles[h].head # 0
      /\ handles[h].head \in Cluster /\ fat[handles[h].head] # FreeCl
      /\ at \in Cluster /\ fat[at] # FreeCl
  BY HandleHead DEF TypesOK, CallRec, Apart, WriteOK, WriteChunk
<1>2. UNCHANGED <<fat, cwd>>
  BY DEF WriteChunk
<1>3. CASE call' = [call EXCEPT !.pc = "done"] /\ UNCHANGED <<table, up, handles>>
  <2>1. call' \in CallRec
    BY <1>1, <1>3 DEF CallRec
  <2>2. call'.h = h /\ call'.at = at
    BY <1>1, <1>3 DEF CallRec
  <2>3. WriteOK'
    BY <1>1, <1>2, <1>3, <2>2 DEF WriteOK
  <2>4. ChainsOK' /\ EntriesOK' /\ HandlesOK'
    BY <1>2, <1>3 DEF Apart, ChainsOK, EntriesOK, HandlesOK, IsHead, Used
  <2>5. QED BY <1>2, <1>3, <2>1, <2>3, <2>4 DEF TypesOK, Apart
<1>4. ASSUME NEW chunk \in Nat, chunk <= call.left,
             handles' = [handles EXCEPT ![h].pos = @ + chunk],
             call' = [call EXCEPT !.left = @ - chunk, !.total = @ + chunk,
                                  !.at = handles[h].head, !.hop = 0],
             table' = [table EXCEPT ![at] = EmptyTable],
             up' = [up EXCEPT ![at] = NoDir]
      PROVE  TypesOK' /\ Apart'
  <2>1. call.left - chunk \in Nat /\ call.total + chunk \in Nat /\ handles[h].pos + chunk \in Nat
    BY <1>1, <1>4 DEF CallRec, HandleRec
  <2>2. call' \in CallRec
    BY <1>1, <1>4, <2>1, ClusterFacts DEF CallRec
  <2>3. [handles[h] EXCEPT !.pos = @ + chunk] \in HandleRec
    BY <1>1, <2>1 DEF HandleRec
  <2>4. handles' \in [Handle -> HandleRec]
    BY <1>1, <1>4, <2>3 DEF TypesOK
  <2>5. table' \in [DirIds -> [Slots -> Dirent]] /\ up' \in [Cluster -> {NoDir} \cup DirIds]
    BY <1>1, <1>4, ClusterFacts, RecordTypes DEF TypesOK
  <2>6. TypesOK'
    BY <1>2, <2>2, <2>4, <2>5 DEF TypesOK
  <2>7. \A g \in Handle :
          /\ handles'[g].open = handles[g].open /\ handles'[g].head = handles[g].head
          /\ handles'[g].parent = handles[g].parent /\ handles'[g].off = handles[g].off
    BY <1>1, <1>4 DEF TypesOK, HandleRec
  <2>8. \A d \in DirIds, s \in Slots : Used(d, s)' =>
          Used(d, s) /\ table'[d][s] = table[d][s]
    BY <1>1, <1>4, ClusterFacts DEF TypesOK, Used, EmptyTable, EndEntry
  <2>9. \A g : IsHead(g) => IsHead(g)'
    BY <1>2 DEF IsHead
  <2>10. \A d \in DirIds, s \in Slots : (Used(d, s)' /\ table'[d][s].head # 0) =>
           IsHead(table[d][s].head)'
    <3> SUFFICES ASSUME NEW d \in DirIds, NEW s \in Slots, Used(d, s)', table'[d][s].head # 0
                 PROVE  IsHead(table[d][s].head)'
      OBVIOUS
    <3>1. IsHead(table[d][s].head)
      BY <2>8 DEF Apart, EntriesOK
    <3>2. QED BY <2>8, <2>9, <3>1
  <2>11. \A g \in Handle : (handles'[g].open /\ handles'[g].head # 0) =>
           IsHead(handles[g].head)'
    <3> SUFFICES ASSUME NEW g \in Handle, handles'[g].open, handles'[g].head # 0
                 PROVE  IsHead(handles[g].head)'
      OBVIOUS
    <3>1. IsHead(handles[g].head)
      BY <2>7 DEF Apart, HandlesOK
    <3>2. QED BY <2>7, <2>9, <3>1
  <2>12. EntriesOK' /\ HandlesOK'
    BY <2>7, <2>8, <2>10, <2>11, LinksKept DEF Apart
  <2>13. call'.h = h /\ call'.at = handles[h].head
    BY <1>1, <1>4 DEF CallRec
  <2>14. WriteOK'
    BY <1>1, <1>2, <2>7, <2>13 DEF WriteOK
  <2>15. ChainsOK'
    BY <1>2 DEF Apart, ChainsOK
  <2>16. QED BY <2>6, <2>12, <2>14, <2>15 DEF Apart
<1>5. CASE Transfer(at)
  <2> DEFINE room  == ClusterUnits - InCluster
             chunk == IF room > call.left THEN call.left ELSE room
  <2>1. InCluster \in 0 .. ClusterUnits - 1
    BY <1>1, ConstAssumption DEF InCluster, HandleRec
  <2>2. chunk \in Nat /\ chunk <= call.left
    BY <1>1, <2>1, ConstAssumption DEF CallRec
  <2>3. /\ handles' = [handles EXCEPT ![h].pos = @ + chunk]
        /\ call' = [call EXCEPT !.left = @ - chunk, !.total = @ + chunk,
                                !.at = handles[h].head, !.hop = 0]
        /\ table' = [table EXCEPT ![at] = EmptyTable]
        /\ up' = [up EXCEPT ![at] = NoDir]
    BY <1>5 DEF WriteChunk
  <2> HIDE DEF chunk
  <2>4. QED BY <1>4, <2>2, <2>3
<1>6. CASE ~ Transfer(at)
  BY <1>3, <1>6 DEF WriteChunk
<1>7. QED BY <1>5, <1>6

LEMMA StepWriteLeave ==
  ASSUME TypesOK, Apart, NEW r, WriteLeave(r)
  PROVE  TypesOK' /\ Apart'
<1> DEFINE h == call.h
           f == handles[h]
           size == NewSize(f)
<1>1. h \in Handle /\ f.open /\ f.head # 0
  <2>1. call \in CallRec /\ call.pc # "idle"
    BY DEF TypesOK, WriteLeave
  <2>2. QED BY <2>1 DEF CallRec, Apart, WriteOK
<1>2. /\ f.parent \in DirIds /\ f.off \in Slots /\ f.head \in DirIds
      /\ size \in Nat /\ f \in HandleRec
  BY <1>1 DEF TypesOK, HandleRec, NewSize
<1>3. /\ handles' = [handles EXCEPT ![h].size = size]
      /\ table' = [table EXCEPT ![f.parent][f.off].head = f.head,
                                ![f.parent][f.off].size = size]
      /\ call' = Idle /\ UNCHANGED <<fat, up, cwd>>
  BY DEF WriteLeave
<1> HIDE DEF size
<1>4. TypesOK'
  <2>1. [f EXCEPT !.size = size] \in HandleRec
    BY <1>2 DEF HandleRec
  <2>2. handles' \in [Handle -> HandleRec]
    BY <1>1, <1>3, <2>1 DEF TypesOK
  <2>3. [table[f.parent][f.off] EXCEPT !.head = f.head, !.size = size] \in Dirent
    <3>1. table[f.parent][f.off] \in Dirent
      BY <1>2, EntryType
    <3>2. QED BY <1>2, <3>1 DEF Dirent
  <2>4. table' \in [DirIds -> [Slots -> Dirent]]
    BY <1>2, <1>3, <2>3 DEF TypesOK
  <2>5. QED BY <1>3, <2>2, <2>4, RecordTypes DEF TypesOK
<1>5. \A g \in Handle :
        /\ handles'[g].open = handles[g].open /\ handles'[g].head = handles[g].head
        /\ handles'[g].parent = handles[g].parent /\ handles'[g].off = handles[g].off
  BY <1>1, <1>3 DEF TypesOK, HandleRec
<1>6. \A d \in DirIds, s \in Slots :
        /\ table'[d][s].st = table[d][s].st
        /\ table'[d][s].head = IF d = f.parent /\ s = f.off THEN f.head ELSE table[d][s].head
  <2> SUFFICES ASSUME NEW d \in DirIds, NEW s \in Slots
               PROVE  /\ table'[d][s].st = table[d][s].st
                      /\ table'[d][s].head =
                           IF d = f.parent /\ s = f.off THEN f.head ELSE table[d][s].head
    OBVIOUS
  <2>1. table[d][s] \in Dirent
    BY EntryType
  <2>2. CASE d = f.parent /\ s = f.off
    <3>1. table'[d][s] = [table[d][s] EXCEPT !.head = f.head, !.size = size]
      BY <1>2, <1>3, <2>2 DEF TypesOK
    <3>2. QED BY <2>1, <2>2, <3>1 DEF Dirent
  <2>3. CASE ~ (d = f.parent /\ s = f.off)
    <3>1. table'[d][s] = table[d][s]
      BY <1>2, <1>3, <2>3 DEF TypesOK
    <3>2. QED BY <2>3, <3>1
  <2>4. QED BY <2>2, <2>3
<1>7. \A g : IsHead(g) => IsHead(g)'
  BY <1>3 DEF IsHead
<1>8. IsHead(f.head)
  BY <1>1 DEF Apart, HandlesOK
\* A used entry that leads to the chain of f is the entry f was opened on.
<1>9. \A d \in DirIds, s \in Slots : (Used(d, s)' /\ table'[d][s].head = f.head) =>
        d = f.parent /\ s = f.off
  BY <1>1, <1>6 DEF Apart, HandlesOK, Used
<1>10. EntriesOK'
  <2> SUFFICES ASSUME NEW d \in DirIds, NEW s \in Slots, Used(d, s)', table'[d][s].head # 0
               PROVE  /\ IsHead(table[d][s].head)'
                      /\ \A e \in DirIds : \A t \in Slots :
                           (Used(e, t)' /\ table'[e][t].head = table'[d][s].head)
                             => (e = d /\ t = s)
    BY DEF EntriesOK
  <2>1. CASE d = f.parent /\ s = f.off
    <3>1. table'[d][s].head = f.head
      BY <1>6, <2>1
    <3>2. IsHead(table[d][s].head)'
      BY <1>7, <1>8, <3>1
    <3>3. QED BY <1>9, <2>1, <3>1, <3>2
  <2>2. CASE ~ (d = f.parent /\ s = f.off)
    <3>1. table'[d][s].head = table[d][s].head /\ Used(d, s)
      BY <1>6, <2>2 DEF Used
    <3>2. IsHead(table[d][s].head)'
      <4>1. IsHead(table[d][s].head)
        BY <3>1 DEF Apart, EntriesOK
      <4>2. QED BY <1>7, <3>1, <4>1
    <3>3. table'[d][s].head # f.head
      BY <1>9, <2>2
    <3>4. \A e \in DirIds : \A t \in Slots :
            (Used(e, t)' /\ table'[e][t].head = table'[d][s].head) => (e = d /\ t = s)
      BY <1>6, <3>1, <3>3 DEF Apart, EntriesOK, Used
    <3>5. QED BY <3>2, <3>4
  <2>3. QED BY <2>1, <2>2
<1>11. HandlesOK'
  <2> SUFFICES ASSUME NEW k \in Handle, handles'[k].open, handles'[k].head # 0
               PROVE  /\ IsHead(handles[k].head)'
                      /\ \A g \in Handle :
                           (handles'[g].open /\ handles'[g].head = handles'[k].head) => g = k
                      /\ \A d \in DirIds : \A s \in Slots :
                           (Used(d, s)' /\ table'[d][s].head = handles'[k].head) =>
                             (d = handles'[k].parent /\ s = handles'[k].off)
    BY DEF HandlesOK
  <2>1. IsHead(handles[k].head)'
    <3>1. IsHead(handles[k].head)
      BY <1>5 DEF Apart, HandlesOK
    <3>2. QED BY <1>5, <1>7, <3>1
  <2>2. \A g \in Handle : (handles'[g].open /\ handles'[g].head = handles'[k].head) => g = k
    BY <1>5 DEF Apart, HandlesOK
  <2>3. \A d \in DirIds : \A s \in Slots :
          (Used(d, s)' /\ table'[d][s].head = handles'[k].head) =>
            (d = handles'[k].parent /\ s = handles'[k].off)
    <3>1. CASE k = h
      BY <1>5, <1>9, <3>1
    <3>2. CASE k # h
      <4>1. handles[k].head # f.head
        BY <1>1, <1>5, <3>2 DEF Apart, HandlesOK
      <4>2. QED BY <1>5, <1>6, <4>1 DEF Apart, HandlesOK, Used
    <3>3. QED BY <3>1, <3>2
  <2>4. QED BY <2>1, <2>2, <2>3
<1>12. ChainsOK' /\ WriteOK'
  BY <1>3 DEF Apart, ChainsOK, WriteOK, Idle
<1>13. QED BY <1>4, <1>10, <1>11, <1>12 DEF Apart

-----------------------------------------------------------------------------
(* The inductive invariant. *)

IInv == TypesOK /\ Apart

LEMMA InitIInv == Init => IInv
<1> SUFFICES ASSUME Init PROVE IInv
  OBVIOUS
<1>1. TypesOK
  BY TypeInit
<1>2. ChainsOK
  BY ClusterFacts DEF Init, ChainsOK
<1>3. \A d \in DirIds, s \in Slots : ~ Used(d, s)
  BY DEF Init, EmptyTable, EndEntry, Used
<1>4. EntriesOK
  BY <1>3 DEF EntriesOK
<1>5. HandlesOK
  BY DEF Init, ClosedHandle, HandlesOK
<1>6. WriteOK
  BY DEF Init, Idle, WriteOK
<1>7. QED BY <1>1, <1>2, <1>4, <1>5, <1>6 DEF IInv, Apart

LEMMA DirCallIInv ==
  ASSUME IInv, call.pc = "idle", NEW p \in Paths, NEW r, DirCall(p, r)
  PROVE  IInv'
<1>1. NoneOpen
  BY DEF DirCall
<1>2. CASE Chdir(p, r)
  BY <1>2, TypeChdir, LinksChdir DEF IInv
<1>3. CASE Mkdir(p, r)
  BY <1>1, <1>3, TypeMkdir, LinksMkdir DEF IInv
<1>4. CASE Rmdir(p, r)
  BY <1>1, <1>4, TypeRmdir, LinksRmdir DEF IInv
<1>5. ASSUME NEW q \in Paths, Rename(p, q, r)
      PROVE  IInv'
  BY <1>5, TypeRename, LinksRename DEF IInv
<1>6. QED BY <1>2, <1>3, <1>4, <1>5 DEF DirCall

LEMMA FileCallIInv ==
  ASSUME IInv, call.pc = "idle", NEW p \in Paths, NEW r, FileCall(p, r)
  PROVE  IInv'
<1>1. CASE Create(p, r)
  BY <1>1, TypeCreate, LinksCreate DEF IInv
<1>2. CASE ~ OpenOn(p) /\ Unlink(p, r)
  BY <1>2, TypeUnlink, LinksUnlink DEF IInv
<1>3. CASE ~ OpenOn(p) /\ Open(p, r)
  BY <1>3, TypeOpen, LinksOpen DEF IInv
<1>4. QED BY <1>1, <1>2, <1>3 DEF FileCall

LEMMA HandleCallIInv ==
  ASSUME IInv, call.pc = "idle", NEW h \in Handle, NEW r, HandleCall(h, r)
  PROVE  IInv'
<1>1. 1 \in 1 .. MaxUnits
  BY ConstAssumption
<1>2. CASE Close(h, r)
  BY <1>1, <1>2, TypeCloseRead, LinksCloseRead DEF IInv
<1>3. ASSUME NEW n \in 1 .. MaxUnits, Read(h, n, r)
      PROVE  IInv'
  BY <1>3, TypeCloseRead, LinksCloseRead DEF IInv
<1>4. ASSUME NEW n \in 1 .. MaxUnits, WriteEnter(h, n, r)
      PROVE  IInv'
  BY <1>4, TypeWriteEnter, LinksWriteEnter DEF IInv
<1>5. QED BY <1>2, <1>3, <1>4 DEF HandleCall

LEMMA NextIInv == IInv /\ [Calls]_vars => IInv'
<1> SUFFICES ASSUME IInv, [Calls]_vars PROVE IInv'
  OBVIOUS
<1>1. CASE UNCHANGED vars
  BY <1>1 DEF vars, IInv, TypesOK, Apart, ChainsOK, EntriesOK, HandlesOK,
              WriteOK, IsHead, Used
<1>2. CASE WriteHop
  BY <1>2, StepWriteHop DEF IInv
<1>3. CASE WriteChunk
  BY <1>3, StepWriteChunk DEF IInv
<1>4. ASSUME NEW r \in Results, WriteLeave(r)
      PROVE  IInv'
  BY <1>4, StepWriteLeave DEF IInv
<1>5. ASSUME NEW r \in Results, call.pc = "idle", NEW p \in Paths, DirCall(p, r) \/ FileCall(p, r)
      PROVE  IInv'
  BY <1>5, DirCallIInv, FileCallIInv
<1>6. ASSUME NEW r \in Results, call.pc = "idle", NEW h \in Handle, HandleCall(h, r)
      PROVE  IInv'
  BY <1>6, HandleCallIInv
<1>7. QED BY <1>1, <1>2, <1>3, <1>4, <1>5, <1>6 DEF Calls

(* A step after which no call has gone astray is a step of a call that did *)
(* not, in a history without one.                                          *)
LEMMA OnlyCalls == [Next]_vars /\ ~ astray' => ~ astray /\ [Calls]_vars
BY DEF Next, Calls, Stray, Ended, vars

LEMMA Reachable == Spec => [](~ astray => IInv)
BY InitIInv, NextIInv, OnlyCalls, PTL DEF Spec

(* The variables have their types in every reachable state, whatever calls *)
(* the callers make in whatever order (fs_* of fat.c).                     *)
THEOREM TypeCorrect == Spec => []TypeOK
<1>1. Init => TypeOK
  BY TypeInit DEF Init, TypeOK
<1>2. TypeOK /\ (~ astray => IInv) /\ [Next]_vars => TypeOK'
  <2> SUFFICES ASSUME TypeOK, ~ astray => IInv, [Next]_vars
               PROVE  TypeOK'
    OBVIOUS
  <2>1. CASE UNCHANGED vars
    BY <2>1 DEF vars, TypeOK, TypesOK
  <2>2. CASE Calls
    BY <2>2, NextIInv DEF IInv, Calls, TypeOK
  <2>3. ASSUME NEW p \in Paths, Stray(p)
        PROVE  TypeOK'
    <3>1. TypesOK /\ astray' \in BOOLEAN
      BY <2>3 DEF TypeOK, Stray
    <3>2. fat' \in [Cluster -> {FreeCl, Eof} \cup Cluster]
      BY <2>3, <3>1, TypeFreeChain DEF Stray, TypesOK
    <3> QED BY <2>3, <3>1, <3>2 DEF Stray, TypeOK, TypesOK
  <2> QED BY <2>1, <2>2, <2>3 DEF Next, Ended
<1>3. QED BY <1>1, <1>2, Reachable, PTL DEF Spec

(* No sequence of file calls ever makes two files, or a file and a         *)
(* directory, share a cluster, or an entry, handle or chain lead to a free *)
(* cluster: alloc_cluster, free_chain, the append in fs_write and the      *)
(* store of the first cluster at its end, on a volume of any size.         *)
THEOREM CrossLinkFree == Spec => []NoCrossLinks
<1>1. (~ astray => IInv) => NoCrossLinks
  BY DEF IInv, NoCrossLinks
<1>2. QED BY Reachable, <1>1, PTL

-----------------------------------------------------------------------------
(* One directory table t.  Orderly says DirOK of each.                    *)

DirOK(t) ==
  \A s, u \in Slots : s < u =>
    /\ t[s].st = "end" => t[u].st = "end"
    /\ (t[s].st = "used" /\ t[u].st = "used" /\ t[s].name \in Names) =>
         t[s].name # t[u].name

(* No used entry of t carries the name n, when n is a name. *)
NameFree(t, n) == \A s \in Slots : (t[s].st = "used" /\ n \in Names) => t[s].name # n

LEMMA TablesAreDirs == Orderly <=> \A d \in DirIds : DirOK(table[d])
BY DEF Orderly, DirOK, Used

LEMMA SlotsOrder == \A s, u \in Slots : s \in Nat /\ (s < u \/ s = u \/ u < s)
                                        /\ (s < u <=> s \in 1 .. u - 1)
BY ConstAssumption DEF Slots

LEMMA EmptyDirOK == DirOK(EmptyTable) /\ \A n : NameFree(EmptyTable, n)
BY DEF DirOK, NameFree, EmptyTable, EndEntry

(* dir_add_entry: the first entry that is not used. *)
LEMMA AddDirOK ==
  ASSUME NEW t \in [Slots -> Dirent], DirOK(t), NEW d, NEW s \in AddSlots(d, t),
         NEW e \in Dirent, e.st = "used", NameFree(t, e.name)
  PROVE  DirOK([t EXCEPT ![s] = e])
<1> DEFINE v == [t EXCEPT ![s] = e]
<1>1. s \in Slots /\ t[s].st # "used" /\ \A u \in Slots : u < s => t[u].st = "used"
  BY SlotsOrder DEF AddSlots
<1>2. \A u \in Slots : v[u] = IF u = s THEN e ELSE t[u]
  BY <1>1
<1> HIDE DEF v
<1> SUFFICES ASSUME NEW x \in Slots, NEW y \in Slots, x < y
             PROVE  /\ v[x].st = "end" => v[y].st = "end"
                    /\ (v[x].st = "used" /\ v[y].st = "used" /\ v[x].name \in Names) =>
                         v[x].name # v[y].name
  BY DEF DirOK, v
<1>3. ~ (x = s /\ y = s)
  BY SlotsOrder
<1>4. CASE x = s
  BY <1>1, <1>2, <1>3, <1>4 DEF NameFree
<1>5. CASE y = s
  BY <1>1, <1>2, <1>3, <1>5 DEF NameFree
<1>6. CASE x # s /\ y # s
  BY <1>1, <1>2, <1>6 DEF DirOK
<1>7. QED BY <1>4, <1>5, <1>6

(* fs_unlink and fs_rmdir: the entry is marked. *)
LEMMA DeleteDirOK ==
  ASSUME NEW t \in [Slots -> Dirent], DirOK(t), NEW s \in Slots, t[s].st = "used"
  PROVE  DirOK([t EXCEPT ![s] = DeletedEntry])
BY DEF DirOK, DeletedEntry, EndEntry

(* fs_rename: the entry takes a name nobody has. *)
LEMMA RenameDirOK ==
  ASSUME NEW t \in [Slots -> Dirent], DirOK(t), NEW s \in Slots,
         NEW n \in Leaf, NameFree(t, n)
  PROVE  DirOK([t EXCEPT ![s].name = n])
<1> DEFINE v == [t EXCEPT ![s].name = n]
<1>1. \A u \in Slots : v[u].st = t[u].st /\ v[u].name = IF u = s THEN n ELSE t[u].name
  BY DEF Dirent
<1> HIDE DEF v
<1> SUFFICES ASSUME NEW x \in Slots, NEW y \in Slots, x < y
             PROVE  /\ v[x].st = "end" => v[y].st = "end"
                    /\ (v[x].st = "used" /\ v[y].st = "used" /\ v[x].name \in Names) =>
                         v[x].name # v[y].name
  BY DEF DirOK, v
<1>2. ~ (x = s /\ y = s)
  BY SlotsOrder
<1>3. QED BY <1>1, <1>2 DEF DirOK, NameFree

(* The end of fs_write: first cluster and size of one entry. *)
LEMMA SameNamesDirOK ==
  ASSUME NEW t, NEW v, DirOK(t),
         \A s \in Slots : v[s].st = t[s].st /\ v[s].name = t[s].name
  PROVE  DirOK(v)
BY DEF DirOK

-----------------------------------------------------------------------------
(* Lookup in a table that is DirOK: find_in_dir misses nothing.            *)

LEMMA FoundIffUsed ==
  ASSUME TypesOK, Orderly, NEW d \in DirIds, NEW n \in Names, NEW s \in Slots,
         Used(d, s), table[d][s].name = n
  PROVE  Found(d, n) /\ SlotOf(d, n) = s
<1>1. ASSUME NEW t \in Slots, t < s
      PROVE  table[d][t].st # "end" /\ ~ (Used(d, t) /\ table[d][t].name = n)
  BY <1>1 DEF Orderly, Used
<1>2. s \in Hits(d, n)
  <2>1. \A t \in 1 .. s - 1 : t \in Slots /\ t < s
    BY ConstAssumption DEF Slots
  <2>2. QED BY <1>1, <2>1 DEF Hits
<1>3. \A u \in Hits(d, n) : u = s
  BY SlotsOrder DEF Hits, Orderly
<1>4. QED BY <1>2, <1>3 DEF Found, SlotOf

LEMMA NotFoundIsFree ==
  ASSUME TypesOK, Orderly, NEW p, Parent(p) \in DirIds, ~ LeafFound(p)
  PROVE  NameFree(table[Parent(p)], p.leaf)
<1> SUFFICES ASSUME NEW s \in Slots, Used(Parent(p), s), p.leaf \in Names,
                    table[Parent(p)][s].name = p.leaf
             PROVE  FALSE
  BY DEF NameFree, Used
<1>1. Found(Parent(p), p.leaf)
  BY FoundIffUsed
<1>2. QED BY <1>1, ClusterFacts DEF LeafFound, IsName

-----------------------------------------------------------------------------
(* Every step keeps Orderly. *)

LEMMA TablesOneDir ==
  ASSUME TypesOK, Orderly, NEW d \in DirIds, NEW v, DirOK(v),
         \A e \in DirIds : table'[e] = IF e = d THEN v ELSE table[e]
  PROVE  Orderly'
<1>1. \A e \in DirIds : DirOK(table[e])
  BY TablesAreDirs
<1>2. \A e \in DirIds : DirOK(table'[e])
  BY <1>1
<1>3. QED BY <1>2 DEF Orderly, DirOK, Used

LEMMA TablesSame ==
  ASSUME Orderly, UNCHANGED table
  PROVE  Orderly'
BY DEF Orderly, Used

LEMMA TablesFails ==
  ASSUME Orderly, NEW r, Fails(r)
  PROVE  Orderly'
BY TablesSame DEF Fails, vars

LEMMA TablesRemove ==
  ASSUME TypesOK, Orderly, NEW p, LeafFound(p), MarkDeleted(Parent(p), LeafSlot(p))
  PROVE  Orderly'
<1>1. Parent(p) \in DirIds /\ LeafSlot(p) \in Slots /\ Used(Parent(p), LeafSlot(p))
  BY LeafFoundFacts
<1> DEFINE v == [table[Parent(p)] EXCEPT ![LeafSlot(p)] = DeletedEntry]
<1>2. DirOK(v)
  BY <1>1, TablesAreDirs, DeleteDirOK DEF TypesOK, Used
<1>3. \A e \in DirIds : table'[e] = IF e = Parent(p) THEN v ELSE table[e]
  BY <1>1 DEF MarkDeleted, TypesOK
<1>4. QED BY <1>1, <1>2, <1>3, TablesOneDir

LEMMA TablesCreate ==
  ASSUME TypesOK, Orderly, NEW p \in Paths, NEW r, Create(p, r)
  PROVE  Orderly'
<1>1. ASSUME NEW s \in CreateSlots(p),
             table' = [table EXCEPT ![Parent(p)][s] = NewEntry(p.leaf, FALSE, 0)]
      PROVE  Orderly'
  <2>1. CanCreate(p) /\ s \in AddSlots(Parent(p), table[Parent(p)]) /\ s \in Slots
    BY <1>1 DEF CreateSlots, AddSlots
  <2>2. Parent(p) \in DirIds /\ p.leaf \in Leaf
    BY <2>1, ParentType, LeafFacts DEF CanCreate, IsName
  <2> DEFINE e == NewEntry(p.leaf, FALSE, 0)
             v == [table[Parent(p)] EXCEPT ![s] = e]
  <2>3. e \in Dirent /\ e.st = "used" /\ e.name = p.leaf
    BY <2>2, RecordTypes, ClusterFacts DEF Root, NewEntry
  <2>4. NameFree(table[Parent(p)], p.leaf)
    BY <2>1, <2>2, NotFoundIsFree DEF CanCreate
  <2>5. table[Parent(p)] \in [Slots -> Dirent] /\ DirOK(table[Parent(p)])
    BY <2>2, TablesAreDirs DEF TypesOK
  <2>6. \A d \in DirIds : table'[d] = IF d = Parent(p) THEN v ELSE table[d]
    BY <1>1, <2>1, <2>2 DEF TypesOK
  <2> HIDE DEF e
  <2>7. DirOK(v)
    BY <2>1, <2>3, <2>4, <2>5, AddDirOK
  <2>8. QED BY <2>2, <2>6, <2>7, TablesOneDir
<1>2. CASE Fails(r)
  BY <1>2, TablesFails
<1>3. QED BY <1>1, <1>2 DEF Create

LEMMA TablesRename ==
  ASSUME TypesOK, Orderly, NEW p \in Paths, NEW q \in Paths, NEW r, Rename(p, q, r)
  PROVE  Orderly'
<1>1. CASE /\ CanRename(p, q)
           /\ table' = [table EXCEPT ![Parent(p)][LeafSlot(p)].name = q.leaf]
  <2>1. Parent(p) \in DirIds /\ LeafSlot(p) \in Slots /\ Parent(q) = Parent(p)
    BY <1>1, LeafFoundFacts DEF CanRename
  <2>2. q.leaf \in Leaf
    BY ConstAssumption DEF PathType
  <2>3. NameFree(table[Parent(p)], q.leaf)
    BY <1>1, <2>1, NotFoundIsFree DEF CanRename
  <2> DEFINE v == [table[Parent(p)] EXCEPT ![LeafSlot(p)].name = q.leaf]
  <2>4. DirOK(v)
    BY <2>1, <2>2, <2>3, TablesAreDirs, RenameDirOK DEF TypesOK
  <2>5. \A d \in DirIds : table'[d] = IF d = Parent(p) THEN v ELSE table[d]
    BY <1>1, <2>1 DEF TypesOK
  <2>6. QED BY <2>1, <2>4, <2>5, TablesOneDir
<1>2. CASE Fails(r)
  BY <1>2, TablesFails
<1>3. QED BY <1>1, <1>2 DEF Rename

(* The new cluster is an empty table before the entry is added, in the     *)
(* parent, which may be that cluster.                                      *)
LEMMA TablesMkdir ==
  ASSUME TypesOK, Orderly, NEW p \in Paths, NEW r, Mkdir(p, r)
  PROVE  Orderly'
<1>1. ASSUME CanCreate(p), NEW c \in Cluster, MkdirInto(p, c, r)
      PROVE  Orderly'
  <2> DEFINE fresh == [table EXCEPT ![c] = EmptyTable]
             e == NewEntry(p.leaf, TRUE, c)
  <2>1. c \in DirIds /\ Parent(p) \in DirIds /\ p.leaf \in Leaf
    BY <1>1, ClusterFacts, ParentType, LeafFacts DEF CanCreate, IsName
  <2>2. \A d \in DirIds : fresh[d] = IF d = c THEN EmptyTable ELSE table[d]
    BY <2>1 DEF TypesOK
  <2>3. fresh \in [DirIds -> [Slots -> Dirent]]
    BY <2>1, RecordTypes DEF TypesOK
  <2>4. \A d \in DirIds : DirOK(fresh[d])
    BY <2>2, TablesAreDirs, EmptyDirOK
  <2>5. NameFree(fresh[Parent(p)], p.leaf)
    BY <1>1, <2>1, <2>2, NotFoundIsFree, EmptyDirOK DEF CanCreate
  <2>6. e \in Dirent /\ e.st = "used" /\ e.name = p.leaf
    BY <2>1, RecordTypes DEF NewEntry
  <2>7. \/ table' = fresh
        \/ \E s \in AddSlots(Parent(p), fresh[Parent(p)]) :
             table' = [fresh EXCEPT ![Parent(p)][s] = e]
    BY <1>1 DEF MkdirInto
  <2> HIDE DEF fresh, e
  <2>8. CASE table' = fresh
    BY <2>4, <2>8 DEF Orderly, DirOK, Used
  <2>9. ASSUME NEW s \in AddSlots(Parent(p), fresh[Parent(p)]),
               table' = [fresh EXCEPT ![Parent(p)][s] = e]
        PROVE  Orderly'
    <3>1. s \in Slots
      BY <2>9 DEF AddSlots
    <3> DEFINE v == [fresh[Parent(p)] EXCEPT ![s] = e]
    <3>2. DirOK(v)
      BY <2>1, <2>3, <2>4, <2>5, <2>6, <2>9, AddDirOK
    <3>3. \A d \in DirIds : table'[d] = IF d = Parent(p) THEN v ELSE fresh[d]
      BY <2>1, <2>3, <2>9, <3>1
    <3> HIDE DEF v
    <3>4. \A d \in DirIds : DirOK(table'[d])
      BY <2>4, <3>2, <3>3
    <3>5. QED BY <3>4 DEF Orderly, DirOK, Used
  <2>10. QED BY <2>7, <2>8, <2>9
<1>2. CASE UNCHANGED table
  BY <1>2, TablesSame
<1>3. CASE Fails(r)
  BY <1>3, TablesFails
<1>4. QED BY <1>1, <1>2, <1>3 DEF Mkdir, AllocChoice

LEMMA TablesWriteChunk ==
  ASSUME TypesOK, Apart, Orderly, WriteChunk
  PROVE  Orderly'
<1>1. CASE UNCHANGED table
  BY <1>1, TablesSame
<1>2. CASE table' = [table EXCEPT ![call.at] = EmptyTable]
  <2>1. call.at \in DirIds
    BY DEF TypesOK, CallRec
  <2>2. \A d \in DirIds : table'[d] = IF d = call.at THEN EmptyTable ELSE table[d]
    BY <1>2, <2>1 DEF TypesOK
  <2>3. QED BY <2>1, <2>2, EmptyDirOK, TablesOneDir
<1>3. QED BY <1>1, <1>2 DEF WriteChunk

LEMMA TablesWriteLeave ==
  ASSUME TypesOK, Orderly, NEW r, WriteLeave(r)
  PROVE  Orderly'
<1> DEFINE f == handles[call.h]
<1>1. f.parent \in DirIds /\ f.off \in Slots
  BY DEF TypesOK, CallRec, HandleRec
<1>2. table' = [table EXCEPT ![f.parent][f.off].head = f.head,
                             ![f.parent][f.off].size = NewSize(f)]
  BY DEF WriteLeave
<1> HIDE DEF f
<1>3. \A d \in DirIds, s \in Slots :
        table'[d][s].st = table[d][s].st /\ table'[d][s].name = table[d][s].name
  BY <1>1, <1>2, SMTT(30) DEF TypesOK, Dirent
<1>4. QED BY <1>3, TablesAreDirs, SameNamesDirOK DEF Orderly, Used

LEMMA InitTables == Init => Orderly
BY EmptyDirOK, TablesAreDirs DEF Init

LEMMA NextTables == TypesOK /\ Apart /\ Orderly /\ [Calls]_vars => Orderly'
<1> SUFFICES ASSUME TypesOK, Apart, Orderly, [Calls]_vars PROVE Orderly'
  OBVIOUS
<1>1. CASE UNCHANGED vars
  BY <1>1, TablesSame DEF vars
<1>2. CASE WriteHop
  BY <1>2, TablesSame DEF WriteHop
<1>3. CASE WriteChunk
  BY <1>3, TablesWriteChunk
<1>4. ASSUME NEW r \in Results, WriteLeave(r)
      PROVE  Orderly'
  BY <1>4, TablesWriteLeave
<1>5. ASSUME NEW r \in Results, NEW p \in Paths, DirCall(p, r)
      PROVE  Orderly'
  <2>1. CASE Chdir(p, r)
    BY <2>1, TablesSame, TablesFails DEF Chdir
  <2>2. CASE Mkdir(p, r)
    BY <2>2, TablesMkdir
  <2>3. CASE Rmdir(p, r)
    BY <2>3, TablesRemove, TablesFails DEF Rmdir, CanRmdir
  <2>4. ASSUME NEW q \in Paths, Rename(p, q, r)
        PROVE  Orderly'
    BY <2>4, TablesRename
  <2>5. QED BY <1>5, <2>1, <2>2, <2>3, <2>4 DEF DirCall
<1>6. ASSUME NEW r \in Results, NEW p \in Paths, FileCall(p, r)
      PROVE  Orderly'
  <2>1. CASE Create(p, r)
    BY <2>1, TablesCreate
  <2>2. CASE Unlink(p, r)
    BY <2>2, TablesRemove, TablesFails DEF Unlink, IsFile
  <2>3. CASE Open(p, r)
    BY <2>3, TablesSame, TablesFails DEF Open
  <2>4. QED BY <1>6, <2>1, <2>2, <2>3 DEF FileCall
<1>7. ASSUME NEW r \in Results, NEW h \in Handle, HandleCall(h, r)
      PROVE  Orderly'
  BY <1>7, TablesSame DEF HandleCall, Close, Read, WriteEnter
<1>8. QED BY <1>1, <1>2, <1>3, <1>4, <1>5, <1>6, <1>7 DEF Calls

(* find_in_dir, which stops at the first end mark, misses no entry, and no *)
(* name stands twice in a directory: dir_add_entry, fs_rename, fs_mkdir    *)
(* and the removals keep this in every order of calls, on a volume of any  *)
(* size.                                                                   *)
THEOREM TablesSound == Spec => []TablesOK
<1>1. IInv => TypesOK /\ Apart
  BY DEF IInv
<1>2. Spec => [](~ astray => Orderly)
  BY InitIInv, NextIInv, InitTables, NextTables, OnlyCalls, <1>1, PTL DEF Spec
<1>3. QED BY <1>2, PTL DEF TablesOK

-----------------------------------------------------------------------------
(* Induction over the naturals, as a fact about sets. *)

LEMMA LeastElement ==
  ASSUME NEW S \in SUBSET Nat, S # {}
  PROVE  \E n \in S : \A m \in S : n <= m
<1> DEFINE R == OpToRel(<, Nat)
<1>1. IsWellFoundedOn(R, Nat)
  BY NatLessThanWellFounded
<1>2. \A a, b \in Nat : a < b => <<a, b>> \in R
  BY Zenon DEF OpToRel
<1> HIDE DEF R
<1>3. PICK n \in S : \A m \in S : <<m, n>> \notin R
  BY <1>1, WFMin
<1>4. \A m \in S : ~ (m < n)
  BY <1>2, <1>3
<1>5. QED BY <1>4, SMT

LEMMA Induction ==
  ASSUME NEW S \in SUBSET Nat, 0 \in S, \A n \in S : n + 1 \in S
  PROVE  \A n \in Nat : n \in S
<1> SUFFICES ASSUME Nat \ S # {} PROVE FALSE
  OBVIOUS
<1>1. PICK n \in Nat \ S : \A m \in Nat \ S : n <= m
  <2>1. Nat \ S \in SUBSET Nat
    OBVIOUS
  <2> QED BY <2>1, LeastElement
<1>2. n # 0 /\ n - 1 \in Nat
  OBVIOUS
<1>3. n - 1 \in S
  BY <1>1, <1>2
<1>4. (n - 1) + 1 = n
  OBVIOUS
<1>5. QED BY <1>1, <1>3, <1>4

-----------------------------------------------------------------------------
(* cluster_after, one link at a time. *)

Link(x) == IF x \in Cluster THEN fat[x] ELSE x

(* The function After evaluates: the walk of n links from c. *)
Walk(f, c, n) ==
  f = [i \in 0 .. n |-> IF i = 0 THEN c
                        ELSE IF f[i - 1] \in Cluster THEN fat[f[i - 1]] ELSE f[i - 1]]

LEMMA WalkLinks ==
  ASSUME NEW c, NEW n \in Nat, NEW f, Walk(f, c, n)
  PROVE  /\ f[0] = c
         /\ \A i \in 0 .. n - 1 : f[i + 1] = Link(f[i])
<1>1. f[0] = c
  BY DEF Walk
<1>2. ASSUME NEW i \in 0 .. n - 1
      PROVE  f[i + 1] = Link(f[i])
  <2>1. i + 1 \in 0 .. n /\ i + 1 # 0 /\ (i + 1) - 1 = i
    OBVIOUS
  <2> QED BY <2>1 DEF Walk, Link
<1>3. QED BY <1>1, <1>2

LEMMA WalkExists ==
  ASSUME NEW c
  PROVE  \A n \in Nat : \E f : Walk(f, c, n)
<1> DEFINE S == {n \in Nat : \E f : Walk(f, c, n)}
<1>1. 0 \in S
  <2>1. Walk([i \in 0 .. 0 |-> c], c, 0)
    BY DEF Walk
  <2> QED BY <2>1
<1>2. ASSUME NEW n \in S
      PROVE  n + 1 \in S
  <2>1. PICK f : Walk(f, c, n)
    OBVIOUS
  <2> DEFINE g == [i \in 0 .. n + 1 |-> IF i = n + 1 THEN Link(f[n]) ELSE f[i]]
  <2>2. /\ f[0] = c
        /\ \A i \in 0 .. n - 1 : f[i + 1] = Link(f[i])
    BY <2>1, WalkLinks
  <2>3. g[0] = c
    BY <2>2
  <2>4. ASSUME NEW i \in 1 .. n + 1
        PROVE  g[i] = Link(g[i - 1])
    <3>1. CASE i = n + 1
      BY <3>1
    <3>2. CASE i # n + 1
      <4>1. i - 1 \in 0 .. n - 1 /\ (i - 1) + 1 = i /\ i - 1 # n + 1 /\ i - 1 \in 0 .. n + 1
        BY <3>2
      <4> QED BY <3>2, <4>1, <2>2
    <3> QED BY <3>1, <3>2
  <2>5. g = [i \in 0 .. n + 1 |-> g[i]]
    OBVIOUS
  <2> HIDE DEF g
  <2>6. \A i \in 0 .. n + 1 :
          g[i] = IF i = 0 THEN c
                 ELSE IF g[i - 1] \in Cluster THEN fat[g[i - 1]] ELSE g[i - 1]
    BY <2>3, <2>4 DEF Link
  <2>7. Walk(g, c, n + 1)
    BY <2>5, <2>6 DEF Walk
  <2> QED BY <2>7
<1> HIDE DEF S
<1>3. S \in SUBSET Nat
  BY DEF S
<1>4. \A n \in Nat : n \in S
  BY <1>1, <1>2, <1>3, Induction
<1>5. QED BY <1>4 DEF S

LEMMA AfterWalks ==
  ASSUME NEW c, NEW n \in Nat
  PROVE  \E f : Walk(f, c, n) /\ After(c, n) = f[n]
<1>1. After(c, n) =
        (CHOOSE f : f = [i \in 0 .. n |-> IF i = 0 THEN c
                         ELSE IF f[i - 1] \in Cluster THEN fat[f[i - 1]] ELSE f[i - 1]])[n]
  BY DEF After
<1>2. After(c, n) = (CHOOSE f : Walk(f, c, n))[n]
  BY <1>1, Zenon DEF Walk
<1>3. \E f : Walk(f, c, n)
  BY WalkExists
<1>4. Walk(CHOOSE f : Walk(f, c, n), c, n)
  BY <1>3
<1>5. QED BY <1>2, <1>4

(* Two walks from one cluster agree as far as both go. *)
LEMMA WalksAgree ==
  ASSUME NEW c, NEW n \in Nat, NEW f, NEW g, Walk(f, c, n), Walk(g, c, n + 1)
  PROVE  f[n] = g[n]
<1> DEFINE S == {i \in Nat : i <= n => f[i] = g[i]}
<1>1. /\ f[0] = c /\ \A i \in 0 .. n - 1 : f[i + 1] = Link(f[i])
  BY WalkLinks
<1>2. /\ g[0] = c /\ \A i \in 0 .. (n + 1) - 1 : g[i + 1] = Link(g[i])
  BY WalkLinks
<1>3. 0 \in S
  BY <1>1, <1>2
<1>4. ASSUME NEW i \in S
      PROVE  i + 1 \in S
  <2>1. CASE i + 1 <= n
    <3>1. i \in 0 .. n - 1 /\ i \in 0 .. (n + 1) - 1 /\ i <= n /\ i \in Nat /\ i + 1 \in Nat
      BY <2>1
    <3>2. f[i + 1] = Link(f[i]) /\ g[i + 1] = Link(g[i]) /\ f[i] = g[i]
      BY <1>1, <1>2, <3>1
    <3> QED BY <3>1, <3>2
  <2>2. CASE ~ (i + 1 <= n)
    BY <2>2
  <2> QED BY <2>1, <2>2
<1> HIDE DEF S
<1>5. S \in SUBSET Nat
  BY DEF S
<1>6. n \in S
  BY <1>3, <1>4, <1>5, Induction
<1>7. QED BY <1>6 DEF S

LEMMA AfterLinks ==
  \A c : After(c, 0) = c /\ \A n \in Nat : After(c, n + 1) = Link(After(c, n))
<1> TAKE c
<1>1. After(c, 0) = c
  BY AfterWalks, WalkLinks
<1>2. ASSUME NEW n \in Nat
      PROVE  After(c, n + 1) = Link(After(c, n))
  <2>1. PICK f : Walk(f, c, n) /\ After(c, n) = f[n]
    BY AfterWalks
  <2>2. n + 1 \in Nat
    OBVIOUS
  <2>3. PICK g : Walk(g, c, n + 1) /\ After(c, n + 1) = g[n + 1]
    BY <2>2, AfterWalks
  <2>4. f[n] = g[n]
    BY <2>1, <2>3, WalksAgree
  <2>5. g[n + 1] = Link(g[n])
    <3>1. \A i \in 0 .. (n + 1) - 1 : g[i + 1] = Link(g[i])
      <4> DEFINE k == n + 1
      <4>1. k \in Nat /\ Walk(g, c, k)
        BY <2>3
      <4> HIDE DEF k
      <4>2. \A i \in 0 .. k - 1 : g[i + 1] = Link(g[i])
        BY <4>1, WalkLinks
      <4> QED BY <4>2 DEF k
    <3>2. n \in 0 .. (n + 1) - 1
      OBVIOUS
    <3> QED BY <3>1, <3>2
  <2> QED BY <2>1, <2>3, <2>4, <2>5
<1>3. QED BY <1>1, <1>2

LEMMA AfterLinksNext ==
  (\A c : After(c, 0) = c /\ \A n \in Nat : After(c, n + 1) = Link(After(c, n)))'
BY AfterLinks, PTL

-----------------------------------------------------------------------------
(* Units and clusters. *)

LEMMA Division ==
  /\ \A i \in Nat : i \div ClusterUnits \in Nat /\ i % ClusterUnits \in 0 .. ClusterUnits - 1
  /\ \A i, j \in Nat : i <= j => i \div ClusterUnits <= j \div ClusterUnits
  /\ \A i, k \in Nat : (k > 0 /\ (i % ClusterUnits) + k <= ClusterUnits) =>
       (i + k - 1) \div ClusterUnits = i \div ClusterUnits
<1> DEFINE N == ClusterUnits
<1>1. N \in Nat \ {0}
  BY ConstAssumption
<1> HIDE DEF N
<1>2. \A i \in Nat : i \div N \in Nat /\ i % N \in 0 .. N - 1
  BY <1>1
<1>3. \A i, j \in Nat : i <= j => i \div N <= j \div N
  BY <1>1
<1>4. \A i, k \in Nat : (k > 0 /\ (i % N) + k <= N) => (i + k - 1) \div N = i \div N
  BY <1>1
<1>5. QED BY <1>2, <1>3, <1>4 DEF N

(* A shorter file on a chain is backed when a longer one is, and a file    *)
(* grows by what fits into the next cluster it can read.                   *)
LEMMA BackedLess ==
  ASSUME NEW c, NEW n \in Nat, NEW m \in Nat, m <= n, Backed(c, n)
  PROVE  Backed(c, m)
<1> SUFFICES ASSUME NEW i \in 0 .. (m - 1) \div ClusterUnits, m > 0
             PROVE  Readable(After(c, i))
  BY DEF Backed
<1>1. (m - 1) \div ClusterUnits <= (n - 1) \div ClusterUnits
  <2>1. m - 1 \in Nat /\ n - 1 \in Nat /\ m - 1 <= n - 1
    OBVIOUS
  <2> QED BY <2>1, Division
<1>2. (m - 1) \div ClusterUnits \in Nat /\ (n - 1) \div ClusterUnits \in Nat
  BY Division
<1>3. i \in 0 .. (n - 1) \div ClusterUnits /\ n > 0
  BY <1>1, <1>2
<1>4. QED BY <1>3 DEF Backed

LEMMA BackedNone == \A c : Backed(c, 0)
BY DEF Backed

LEMMA BackedMore ==
  ASSUME NEW c, NEW n \in Nat, NEW k \in Nat, k > 0,
         (n % ClusterUnits) + k <= ClusterUnits,
         Backed(c, n), Readable(After(c, n \div ClusterUnits))
  PROVE  Backed(c, n + k)
<1> DEFINE last == n \div ClusterUnits
<1>1. last \in Nat /\ (n + k - 1) \div ClusterUnits = last
  BY Division
<1> SUFFICES ASSUME NEW i \in 0 .. last
             PROVE  Readable(After(c, i))
  BY <1>1 DEF Backed
<1>2. CASE i = last
  BY <1>2
<1>3. CASE i < last
  <2>1. n > 0
    <3>1. CASE n = 0
      <4>1. 0 \div ClusterUnits = 0
        BY ConstAssumption
      <4> QED BY <1>1, <1>3, <3>1, <4>1
    <3> QED BY <3>1
  <2>2. i <= (n - 1) \div ClusterUnits
    <3> DEFINE before == (n - 1) \div ClusterUnits
               N == ClusterUnits
    <3>1. N \in Nat \ {0} /\ n - 1 \in Nat
      BY <2>1, ConstAssumption
    <3> HIDE DEF N
    <3>2. n \div N <= (n - 1) \div N + 1
      BY <3>1
    <3>3. n \div N \in Nat /\ (n - 1) \div N \in Nat
      BY <3>1
    <3> QED BY <1>1, <1>3, <3>2, <3>3 DEF N
  <2>3. i \in 0 .. (n - 1) \div ClusterUnits
    <3>1. (n - 1) \div ClusterUnits \in Nat
      BY <2>1, Division
    <3> QED BY <1>1, <2>2, <3>1
  <2> QED BY <2>1, <2>3 DEF Backed
<1>4. QED BY <1>1, <1>2, <1>3

-----------------------------------------------------------------------------
(* Which steps leave a walk alone. *)

(* The clusters walked from c are the same after the step. *)
Kept(c) == \A n \in Nat : After(c, n) \in Cluster => After(c, n)' = After(c, n)

LEMMA WalkKept ==
  ASSUME NEW c, NEW P, \A n \in Nat : After(c, n) \notin P,
         \A x \in Cluster \ P : fat[x] \in Cluster => fat'[x] = fat[x]
  PROVE  Kept(c)
<1> DEFINE S == {n \in Nat : After(c, n) \in Cluster => After(c, n)' = After(c, n)}
<1>1. 0 \in S
  <2>1. After(c, 0) = c /\ After(c, 0)' = c
    BY AfterLinks, AfterLinksNext
  <2> QED BY <2>1
<1>2. ASSUME NEW n \in S
      PROVE  n + 1 \in S
  <2> SUFFICES ASSUME After(c, n + 1) \in Cluster
               PROVE  After(c, n + 1)' = After(c, n + 1)
    OBVIOUS
  <2>1. n \in Nat
    OBVIOUS
  <2>2. After(c, n + 1) = Link(After(c, n)) /\ After(c, n + 1)' = Link(After(c, n))'
    BY <2>1, AfterLinks, AfterLinksNext
  <2>3. After(c, n) \in Cluster /\ fat[After(c, n)] = After(c, n + 1)
    BY <2>2 DEF Link
  <2>4. fat'[After(c, n)] = fat[After(c, n)] /\ After(c, n)' = After(c, n)
    BY <2>1, <2>3
  <2> QED BY <2>2, <2>3, <2>4 DEF Link
<1> HIDE DEF S
<1>3. S \in SUBSET Nat
  BY DEF S
<1>4. \A n \in Nat : n \in S
  BY <1>1, <1>2, <1>3, Induction
<1>5. QED BY <1>4 DEF S, Kept

LEMMA BackedKept ==
  ASSUME NEW c, NEW n \in Nat, Kept(c), Backed(c, n)
  PROVE  Backed(c, n)'
<1> SUFFICES ASSUME NEW i \in 0 .. (n - 1) \div ClusterUnits, n > 0
             PROVE  Readable(After(c, i))'
  BY DEF Backed
<1>1. i \in Nat
  BY Division
<1>2. Readable(After(c, i)) /\ After(c, i) \in Cluster
  BY ClusterFacts DEF Backed, Readable
<1>3. QED BY <1>1, <1>2 DEF Kept, Readable

(* Nothing is freed: alloc_cluster and the append write only entries that  *)
(* were free or the end of a chain.                                        *)
LEMMA AllKept ==
  ASSUME TypesOK,
         \A x \in Cluster : fat[x] \in Cluster => fat'[x] = fat[x]
  PROVE  \A c : Kept(c)
<1> TAKE c
<1> DEFINE P == {}
<1>1. /\ \A n \in Nat : After(c, n) \notin P
      /\ \A x \in Cluster \ P : fat[x] \in Cluster => fat'[x] = fat[x]
  OBVIOUS
<1> HIDE DEF P
<1>2. QED BY <1>1, WalkKept

(* free_chain: a walk that starts outside the chain stays outside. *)
LEMMA OthersKept ==
  ASSUME TypesOK, ChainsOK, NEW g, IsHead(g), FreeChain(g), NEW c, c \notin ChainOf(g)
  PROVE  Kept(c)
<1>1. \A x \in Cluster : fat[x] \in ChainOf(g) => x \in ChainOf(g)
  BY ChainIsolated
<1> DEFINE S == {n \in Nat : After(c, n) \notin ChainOf(g)}
<1>2. 0 \in S
  BY AfterLinks
<1>3. ASSUME NEW n \in S
      PROVE  n + 1 \in S
  <2>1. After(c, n + 1) = Link(After(c, n)) /\ After(c, n) \notin ChainOf(g)
    BY AfterLinks
  <2> QED BY <1>1, <2>1 DEF Link
<1> HIDE DEF S
<1>4. S \in SUBSET Nat
  BY DEF S
<1>5. \A n \in Nat : n \in S
  BY <1>2, <1>3, <1>4, Induction
<1>6. \A n \in Nat : After(c, n) \notin ChainOf(g)
  BY <1>5 DEF S
<1>7. \A x \in Cluster \ ChainOf(g) : fat'[x] = fat[x]
  BY DEF FreeChain
<1>8. QED BY <1>6, <1>7, WalkKept

-----------------------------------------------------------------------------
(* The inductive invariant: the sizes, the position of each open handle,   *)
(* and where fs_write stands on the chain it walks.                        *)

EntriesBacked ==
  \A d \in DirIds : \A s \in Slots :
    Used(d, s) => Backed(table[d][s].head, table[d][s].size)

HandlesBacked ==
  \A h \in Handle : handles[h].open =>
    /\ Backed(handles[h].head, handles[h].size)
    /\ Backed(handles[h].head, handles[h].pos)

OnChain == call.pc = "loop" => call.at = After(handles[call.h].head, call.hop)

SizeInv == EntriesBacked /\ HandlesBacked /\ OnChain

(* An entry keeps its first cluster and size, or has no size. *)
SameEntries(d, s) ==
  Used(d, s)' =>
    \/ table'[d][s].size = 0
    \/ /\ Used(d, s) /\ Kept(table[d][s].head)
       /\ table'[d][s].head = table[d][s].head /\ table'[d][s].size = table[d][s].size

(* A handle keeps its chain, and its position stays below the size. *)
SameHandles(h) ==
  handles'[h].open =>
    /\ handles[h].open /\ Kept(handles[h].head)
    /\ handles'[h].head = handles[h].head /\ handles'[h].size = handles[h].size
    /\ handles'[h].pos = handles[h].pos \/ handles'[h].pos <= handles[h].size

LEMMA EntriesStay ==
  ASSUME TypesOK, EntriesBacked, \A d \in DirIds, s \in Slots : SameEntries(d, s)
  PROVE  EntriesBacked'
<1> SUFFICES ASSUME NEW d \in DirIds, NEW s \in Slots, Used(d, s)'
             PROVE  Backed(table[d][s].head, table[d][s].size)'
  BY DEF EntriesBacked
<1>1. CASE table'[d][s].size = 0
  BY <1>1 DEF Backed
<1>2. CASE /\ Used(d, s) /\ Kept(table[d][s].head)
           /\ table'[d][s].head = table[d][s].head /\ table'[d][s].size = table[d][s].size
  <2>1. PICK c, n : c = table[d][s].head /\ n = table[d][s].size
    OBVIOUS
  <2>2. n \in Nat /\ Kept(c) /\ Backed(c, n)
    BY <1>2, <2>1, EntryType DEF EntriesBacked
  <2>3. Backed(c, n)'
    BY <2>2, BackedKept
  <2>4. table'[d][s].head = c /\ table'[d][s].size = n
    BY <1>2, <2>1
  <2> QED BY <2>3, <2>4 DEF Backed
<1>3. QED BY <1>1, <1>2 DEF SameEntries

LEMMA HandlesStay ==
  ASSUME TypesOK, TypesOK', HandlesBacked, NEW h \in Handle, handles'[h].open, SameHandles(h)
  PROVE  Backed(handles[h].head, handles[h].size)' /\ Backed(handles[h].head, handles[h].pos)'
<1>1. PICK c, n, q, r : /\ c = handles[h].head /\ n = handles[h].size
                        /\ q = handles[h].pos /\ r = handles'[h].pos
  OBVIOUS
<1>2. /\ n \in Nat /\ q \in Nat /\ r \in Nat /\ Kept(c)
      /\ Backed(c, n) /\ Backed(c, q) /\ (r = q \/ r <= n)
  BY <1>1 DEF SameHandles, HandlesBacked, TypesOK, HandleRec
<1>3. Backed(c, r)
  BY <1>2, BackedLess
<1>4. Backed(c, n)' /\ Backed(c, r)'
  BY <1>2, <1>3, BackedKept
<1>5. handles'[h].head = c /\ handles'[h].size = n /\ handles'[h].pos = r
  BY <1>1 DEF SameHandles
<1>6. QED BY <1>4, <1>5 DEF Backed

(* The calls outside fs_write. *)
LEMMA OutsideWrite ==
  ASSUME TypesOK, TypesOK', SizeInv, call'.pc # "loop",
         \A d \in DirIds, s \in Slots : SameEntries(d, s),
         \A h \in Handle : SameHandles(h)
  PROVE  SizeInv'
<1>1. EntriesBacked'
  BY EntriesStay DEF SizeInv
<1>2. HandlesBacked'
  BY HandlesStay DEF SizeInv, HandlesBacked
<1>3. OnChain'
  BY DEF OnChain
<1>4. QED BY <1>1, <1>2, <1>3 DEF SizeInv

(* Unlink and Rmdir: what keeps its first cluster is outside the chain     *)
(* that is freed.                                                          *)
LEMMA SizesRemove ==
  ASSUME TypesOK, TypesOK', Apart, SizeInv, call.pc = "idle",
         NEW d \in DirIds, NEW s \in Slots, Used(d, s),
         \A h \in Handle : handles[h].open => ~ (handles[h].parent = d /\ handles[h].off = s),
         IF table[d][s].head # 0 THEN FreeChain(table[d][s].head) ELSE UNCHANGED fat,
         MarkDeleted(d, s), UNCHANGED <<handles, call>>
  PROVE  SizeInv'
<1> DEFINE g == table[d][s].head
<1>1. \A c : (c = 0 \/ (IsHead(c) /\ c # g)) => Kept(c)
  <2>1. CASE g # 0
    <3>1. IsHead(g) /\ ChainsOK /\ FreeChain(g)
      BY <2>1 DEF Apart, EntriesOK
    <3>2. 0 \notin ChainOf(g)
      BY ChainInCluster, ClusterFacts
    <3>3. \A c : IsHead(c) /\ c # g => c \notin ChainOf(g)
      BY <3>1, ChainIsolated
    <3> QED BY <3>1, <3>2, <3>3, OthersKept
  <2>2. CASE g = 0
    BY <2>2, AllKept
  <2> QED BY <2>1, <2>2
<1>2. \A e \in DirIds, t \in Slots : SameEntries(e, t)
  <2> SUFFICES ASSUME NEW e \in DirIds, NEW t \in Slots, Used(e, t)'
               PROVE  /\ Used(e, t) /\ Kept(table[e][t].head)
                      /\ table'[e][t].head = table[e][t].head
                      /\ table'[e][t].size = table[e][t].size
    BY DEF SameEntries
  <2>1. ~ (e = d /\ t = s) /\ table'[e][t] = table[e][t] /\ Used(e, t)
    BY DEF MarkDeleted, DeletedEntry, Used, TypesOK
  <2>2. table[e][t].head = 0 \/ (IsHead(table[e][t].head) /\ table[e][t].head # g)
    BY <2>1 DEF Apart, EntriesOK
  <2> QED BY <1>1, <2>1, <2>2
<1>3. \A h \in Handle : SameHandles(h)
  <2> SUFFICES ASSUME NEW h \in Handle, handles[h].open
               PROVE  Kept(handles[h].head)
    BY DEF SameHandles
  <2>1. handles[h].head = 0 \/ (IsHead(handles[h].head) /\ handles[h].head # g)
    BY DEF Apart, HandlesOK
  <2> QED BY <1>1, <2>1
<1>4. QED BY <1>2, <1>3, OutsideWrite

(* What a call may do to keep the sizes, when nothing is freed. *)
LEMMA NothingFreed ==
  ASSUME TypesOK, TypesOK', SizeInv, call'.pc # "loop",
         \A x \in Cluster : fat[x] \in Cluster => fat'[x] = fat[x],
         \A d \in DirIds, s \in Slots : Used(d, s)' =>
            \/ table'[d][s].size = 0
            \/ /\ Used(d, s) /\ table'[d][s].head = table[d][s].head
               /\ table'[d][s].size = table[d][s].size,
         \A h \in Handle : handles'[h].open =>
            /\ handles[h].open
            /\ handles'[h].head = handles[h].head /\ handles'[h].size = handles[h].size
            /\ handles'[h].pos = handles[h].pos \/ handles'[h].pos <= handles[h].size
  PROVE  SizeInv'
<1>1. \A c : Kept(c)
  BY AllKept
<1>2. \A d \in DirIds, s \in Slots : SameEntries(d, s)
  BY <1>1 DEF SameEntries
<1>3. \A h \in Handle : SameHandles(h)
  BY <1>1 DEF SameHandles
<1>4. QED BY <1>2, <1>3, OutsideWrite

LEMMA SizesStutter ==
  ASSUME SizeInv, UNCHANGED <<fat, table, handles, call>>
  PROVE  SizeInv'
<1>1. \A c, n : After(c, n)' = After(c, n)
  BY Zenon DEF After
<1>2. EntriesBacked'
  <2> SUFFICES ASSUME NEW d \in DirIds, NEW s \in Slots, Used(d, s)
               PROVE  Backed(table[d][s].head, table[d][s].size)'
    BY DEF EntriesBacked, Used
  <2>1. Backed(table[d][s].head, table[d][s].size)
    BY DEF SizeInv, EntriesBacked
  <2> QED BY <1>1, <2>1 DEF Backed
<1>3. HandlesBacked'
  <2> SUFFICES ASSUME NEW h \in Handle, handles[h].open
               PROVE  /\ Backed(handles[h].head, handles[h].size)'
                      /\ Backed(handles[h].head, handles[h].pos)'
    BY DEF HandlesBacked
  <2>1. Backed(handles[h].head, handles[h].size) /\ Backed(handles[h].head, handles[h].pos)
    BY DEF SizeInv, HandlesBacked
  <2> QED BY <1>1, <2>1 DEF Backed
<1>4. OnChain'
  <2> SUFFICES ASSUME call.pc = "loop"
               PROVE  call.at = After(handles[call.h].head, call.hop)'
    BY DEF OnChain
  <2> QED BY <1>1 DEF SizeInv, OnChain
<1>5. QED BY <1>2, <1>3, <1>4 DEF SizeInv

LEMMA SizesCreate ==
  ASSUME TypesOK, TypesOK', SizeInv, call.pc = "idle", NEW p \in Paths, NEW r, Create(p, r)
  PROVE  SizeInv'
<1>1. ASSUME NEW s \in CreateSlots(p),
             table' = [table EXCEPT ![Parent(p)][s] = NewEntry(p.leaf, FALSE, 0)],
             UNCHANGED <<fat, up, cwd, handles, call>>
      PROVE  SizeInv'
  <2>1. s \in Slots /\ Parent(p) \in DirIds
    BY <1>1, ParentType DEF CreateSlots, AddSlots, CanCreate
  <2>2. \A d \in DirIds, t \in Slots :
          table'[d][t].size = 0 \/ table'[d][t] = table[d][t]
    BY <1>1, <2>1 DEF TypesOK, NewEntry
  <2>3. QED BY <1>1, <2>2, NothingFreed DEF Used
<1>2. CASE Fails(r)
  BY <1>2, SizesStutter DEF Fails, vars
<1>3. QED BY <1>1, <1>2 DEF Create

LEMMA SizesUnlink ==
  ASSUME TypesOK, TypesOK', Apart, SizeInv, call.pc = "idle",
         NEW p \in Paths, NEW r, ~ OpenOn(p), Unlink(p, r)
  PROVE  SizeInv'
<1>1. CASE /\ IsFile(p)
           /\ IF LeafEntry(p).head # 0 THEN FreeChain(LeafEntry(p).head) ELSE UNCHANGED fat
           /\ MarkDeleted(Parent(p), LeafSlot(p))
           /\ UNCHANGED <<up, cwd, handles, call>>
  <2>1. /\ Parent(p) \in DirIds /\ LeafSlot(p) \in Slots
        /\ Used(Parent(p), LeafSlot(p))
        /\ LeafEntry(p) = table[Parent(p)][LeafSlot(p)]
    BY <1>1, LeafFoundFacts DEF IsFile
  <2>2. \A h \in Handle : handles[h].open =>
          ~ (handles[h].parent = Parent(p) /\ handles[h].off = LeafSlot(p))
    BY <1>1 DEF OpenOn
  <2>3. QED BY <1>1, <2>1, <2>2, SizesRemove
<1>2. CASE Fails(r)
  BY <1>2, SizesStutter DEF Fails, vars
<1>3. QED BY <1>1, <1>2 DEF Unlink

LEMMA SizesRmdir ==
  ASSUME TypesOK, TypesOK', Apart, SizeInv, call.pc = "idle",
         NEW p \in Paths, NEW r, NoneOpen, Rmdir(p, r)
  PROVE  SizeInv'
<1>1. CASE /\ CanRmdir(p)
           /\ FreeChain(LeafEntry(p).head)
           /\ MarkDeleted(Parent(p), LeafSlot(p))
           /\ UNCHANGED <<up, cwd, handles, call>>
  <2>1. /\ Parent(p) \in DirIds /\ LeafSlot(p) \in Slots
        /\ Used(Parent(p), LeafSlot(p))
        /\ LeafEntry(p) = table[Parent(p)][LeafSlot(p)]
    BY <1>1, LeafFoundFacts DEF CanRmdir
  <2>2. LeafEntry(p).head # 0
    BY <1>1, ClusterFacts DEF CanRmdir, IsEmptyDir, Readable
  <2>3. QED BY <1>1, <2>1, <2>2, SizesRemove DEF NoneOpen
<1>2. CASE Fails(r)
  BY <1>2, SizesStutter DEF Fails, vars
<1>3. QED BY <1>1, <1>2 DEF Rmdir

LEMMA SizesRename ==
  ASSUME TypesOK, TypesOK', SizeInv, call.pc = "idle",
         NEW p \in Paths, NEW q \in Paths, NEW r, Rename(p, q, r)
  PROVE  SizeInv'
<1>1. CASE /\ LeafFound(p)
           /\ table' = [table EXCEPT ![Parent(p)][LeafSlot(p)].name = q.leaf]
           /\ UNCHANGED <<fat, up, cwd, handles, call>>
  <2>1. Parent(p) \in DirIds /\ LeafSlot(p) \in Slots
    BY <1>1, LeafFoundFacts
  <2>2. \A d \in DirIds, s \in Slots :
          /\ table'[d][s].st = table[d][s].st /\ table'[d][s].head = table[d][s].head
          /\ table'[d][s].size = table[d][s].size
    BY <1>1, <2>1, SMTT(30) DEF TypesOK, Dirent
  <2>3. QED BY <1>1, <2>2, NothingFreed DEF Used
<1>2. CASE Fails(r)
  BY <1>2, SizesStutter DEF Fails, vars
<1>3. QED BY <1>1, <1>2 DEF Rename, CanRename

(* The table after fs_mkdir: the new directory is empty, and nothing but   *)
(* its entry is new.                                                       *)
OneMade(p, c) ==
  \E k \in Slots : \A d \in DirIds, s \in Slots : Used(d, s)' =>
    \/ /\ d = Parent(p) /\ s = k /\ table'[d][s] = NewEntry(p.leaf, TRUE, c)
       /\ d = c \/ ~ Used(d, s)
    \/ d # c /\ Used(d, s) /\ table'[d][s] = table[d][s]

LEMMA MkdirTable ==
  ASSUME TypesOK, NEW p, Parent(p) \in DirIds, NEW c \in Cluster, NEW r, MkdirInto(p, c, r)
  PROVE  OneMade(p, c)
<1> DEFINE fresh == [table EXCEPT ![c] = EmptyTable]
<1>1. fresh \in [DirIds -> [Slots -> Dirent]] /\ c \in DirIds
  BY RecordTypes, ClusterFacts DEF TypesOK
<1>2. \A d \in DirIds, s \in Slots : fresh[d][s].st = "used" =>
        d # c /\ Used(d, s) /\ fresh[d][s] = table[d][s]
  BY <1>1 DEF TypesOK, Used, EmptyTable, EndEntry
<1>3. \/ table' = fresh
      \/ \E s \in Slots : /\ fresh[Parent(p)][s].st # "used"
                          /\ table' = [fresh EXCEPT ![Parent(p)][s] = NewEntry(p.leaf, TRUE, c)]
  BY DEF MkdirInto, AddSlots
<1>6. \A d \in DirIds : d # c => fresh[d] = table[d]
  BY <1>1 DEF TypesOK
<1> HIDE DEF fresh
<1>4. CASE table' = fresh
  <2>1. \A d \in DirIds, s \in Slots : Used(d, s)' =>
          d # c /\ Used(d, s) /\ table'[d][s] = table[d][s]
    BY <1>2, <1>4 DEF Used
  <2>2. 1 \in Slots
    BY ConstAssumption DEF Slots
  <2>3. \E k \in Slots : k = 1
    BY <2>2
  <2>4. PICK k \in Slots : k = 1
    BY <2>3
  <2>5. \A d \in DirIds, s \in Slots : Used(d, s)' =>
          \/ /\ d = Parent(p) /\ s = k /\ table'[d][s] = NewEntry(p.leaf, TRUE, c)
             /\ d = c \/ ~ Used(d, s)
          \/ d # c /\ Used(d, s) /\ table'[d][s] = table[d][s]
    BY <2>1
  <2>6. QED BY <2>5 DEF OneMade
<1>5. ASSUME NEW k \in Slots, fresh[Parent(p)][k].st # "used",
             table' = [fresh EXCEPT ![Parent(p)][k] = NewEntry(p.leaf, TRUE, c)],
             NEW d \in DirIds, NEW s \in Slots, Used(d, s)'
      PROVE  \/ /\ d = Parent(p) /\ s = k /\ table'[d][s] = NewEntry(p.leaf, TRUE, c)
                /\ d = c \/ ~ Used(d, s)
             \/ d # c /\ Used(d, s) /\ table'[d][s] = table[d][s]
  <2>1. CASE d = Parent(p) /\ s = k
    BY <1>1, <1>5, <1>6, <2>1 DEF Used
  <2>2. CASE ~ (d = Parent(p) /\ s = k)
    <3>1. table'[d][s] = fresh[d][s]
      BY <1>1, <1>5, <2>2
    <3>2. QED BY <1>2, <1>5, <3>1 DEF Used
  <2>3. QED BY <2>1, <2>2
<1>7. QED BY <1>3, <1>4, <1>5 DEF OneMade

LEMMA SizesMkdir ==
  ASSUME TypesOK, TypesOK', SizeInv, call.pc = "idle", NEW p \in Paths, NEW r, Mkdir(p, r)
  PROVE  SizeInv'
<1>1. ASSUME CanCreate(p), NEW c \in AllocChoice,
             fat' = [fat EXCEPT ![c] = Eof],
             \/ Readable(c) /\ MkdirInto(p, c, r)
             \/ UNCHANGED <<table, up>>,
             UNCHANGED <<cwd, handles, call>>
      PROVE  SizeInv'
  <2>1. /\ c \in Cluster /\ Parent(p) \in DirIds
        /\ \A x \in Cluster : fat[x] \in Cluster => fat'[x] = fat[x]
    BY <1>1, ParentType, ClusterFacts DEF AllocChoice, CanCreate, TypesOK
  <2>2. \A d \in DirIds, s \in Slots : Used(d, s)' =>
          table'[d][s].size = 0 \/ (Used(d, s) /\ table'[d][s] = table[d][s])
    <3>1. CASE UNCHANGED <<table, up>>
      BY <3>1 DEF Used
    <3>2. CASE MkdirInto(p, c, r)
      <4>1. PICK k \in Slots : \A d \in DirIds, s \in Slots : Used(d, s)' =>
              \/ /\ d = Parent(p) /\ s = k /\ table'[d][s] = NewEntry(p.leaf, TRUE, c)
                 /\ d = c \/ ~ Used(d, s)
              \/ d # c /\ Used(d, s) /\ table'[d][s] = table[d][s]
        <5>1. OneMade(p, c)
          BY <2>1, <3>2, MkdirTable
        <5> QED BY <5>1 DEF OneMade
      <4>2. NewEntry(p.leaf, TRUE, c).size = 0
        BY DEF NewEntry
      <4> QED BY <4>1, <4>2
    <3> QED BY <1>1, <3>1, <3>2
  <2>3. QED BY <1>1, <2>1, <2>2, NothingFreed
<1>2. CASE Fails(r)
  BY <1>2, SizesStutter DEF Fails, vars
<1>3. QED BY <1>1, <1>2 DEF Mkdir

LEMMA SizesOpen ==
  ASSUME TypesOK, TypesOK', SizeInv, call.pc = "idle", NEW p \in Paths, NEW r, Open(p, r)
  PROVE  SizeInv'
<1>1. CASE /\ r \in FreeHandles /\ IsFile(p)
           /\ handles' = [handles EXCEPT ![r] = NewHandle(p)]
           /\ UNCHANGED <<fat, table, up, cwd, call>>
  <2>1. /\ Parent(p) \in DirIds /\ LeafSlot(p) \in Slots
        /\ Used(Parent(p), LeafSlot(p))
        /\ LeafEntry(p) = table[Parent(p)][LeafSlot(p)]
    BY <1>1, LeafFoundFacts DEF IsFile
  <2>2. r \in Handle
    BY <1>1 DEF FreeHandles
  <2>3. Backed(LeafEntry(p).head, LeafEntry(p).size)
    BY <2>1 DEF SizeInv, EntriesBacked
  <2>4. \A c, n : After(c, n)' = After(c, n)
    BY <1>1, Zenon DEF After
  <2>5. EntriesBacked' /\ OnChain'
    <3>1. EntriesBacked'
      <4> SUFFICES ASSUME NEW d \in DirIds, NEW s \in Slots, Used(d, s)
                   PROVE  Backed(table[d][s].head, table[d][s].size)'
        BY <1>1 DEF EntriesBacked, Used
      <4>1. Backed(table[d][s].head, table[d][s].size)
        BY DEF SizeInv, EntriesBacked
      <4> QED BY <1>1, <2>4, <4>1 DEF Backed
    <3> QED BY <1>1, <3>1 DEF OnChain
  <2>6. ASSUME NEW h \in Handle, handles'[h].open
        PROVE  Backed(handles[h].head, handles[h].size)' /\ Backed(handles[h].head, handles[h].pos)'
    <3>1. CASE h = r
      <4>1. /\ handles'[h].head = LeafEntry(p).head /\ handles'[h].size = LeafEntry(p).size
            /\ handles'[h].pos = 0
        BY <1>1, <2>2, <3>1 DEF TypesOK, NewHandle
      <4> QED BY <2>3, <2>4, <4>1 DEF Backed
    <3>2. CASE h # r
      <4>1. handles'[h] = handles[h]
        BY <1>1, <2>2, <3>2 DEF TypesOK
      <4>2. Backed(handles[h].head, handles[h].size) /\ Backed(handles[h].head, handles[h].pos)
        BY <2>6, <4>1 DEF SizeInv, HandlesBacked
      <4> QED BY <2>4, <4>1, <4>2 DEF Backed
    <3> QED BY <3>1, <3>2
  <2>7. QED BY <2>5, <2>6 DEF SizeInv, HandlesBacked
<1>2. CASE Fails(r)
  BY <1>2, SizesStutter DEF Fails, vars
<1>3. QED BY <1>1, <1>2 DEF Open

LEMMA SizesCloseRead ==
  ASSUME TypesOK, TypesOK', SizeInv, call.pc = "idle",
         NEW h \in Handle, NEW n \in 1 .. MaxUnits, NEW r,
         Close(h, r) \/ Read(h, n, r)
  PROVE  SizeInv'
<1>1. UNCHANGED <<fat, call, table>>
  BY DEF Close, Read
<1>2. CASE Close(h, r)
  <2>1. \A g \in Handle : handles'[g].open => handles'[g] = handles[g]
    BY <1>2 DEF Close, TypesOK, ClosedHandle
  <2>2. QED BY <1>1, <2>1, NothingFreed DEF Used
<1>3. CASE Read(h, n, r)
  <2>1. /\ r \in Nat /\ handles' = [handles EXCEPT ![h].pos = @ + r]
        /\ handles[h].pos + r <= handles[h].size
    BY <1>3 DEF Read, CanRead
  <2>2. \A g \in Handle :
          /\ handles'[g].open = handles[g].open /\ handles'[g].head = handles[g].head
          /\ handles'[g].size = handles[g].size
          /\ handles'[g].pos = IF g = h THEN handles[h].pos + r ELSE handles[g].pos
    BY <2>1 DEF TypesOK, HandleRec
  <2>3. \A g \in Handle : handles'[g].pos = handles[g].pos \/ handles'[g].pos <= handles[g].size
    BY <2>1, <2>2
  <2>4. QED BY <1>1, <2>2, <2>3, NothingFreed DEF Used
<1>4. QED BY <1>2, <1>3

(* A handle without a first cluster has no size and no position. *)
LEMMA NoHeadNoSize ==
  ASSUME TypesOK, SizeInv, NEW h \in Handle, handles[h].open, handles[h].head = 0
  PROVE  handles[h].size = 0 /\ handles[h].pos = 0
<1>1. Backed(0, handles[h].size) /\ Backed(0, handles[h].pos)
  BY DEF SizeInv, HandlesBacked
<1>2. After(0, 0) = 0 /\ ~ Readable(0)
  BY AfterLinks, ClusterFacts DEF Readable
<1>3. ASSUME NEW m \in Nat, m > 0
      PROVE  ~ Backed(0, m)
  <2>1. m - 1 \in Nat
    BY <1>3
  <2>2. 0 \in 0 .. (m - 1) \div ClusterUnits
    BY <2>1, Division
  <2> QED BY <1>2, <1>3, <2>2 DEF Backed
<1>4. handles[h].size \in Nat /\ handles[h].pos \in Nat
  BY DEF TypesOK, HandleRec
<1>5. QED BY <1>1, <1>3, <1>4

(* fs_write starts at the first cluster of the handle. *)
LEMMA SizesWriteEnter ==
  ASSUME TypesOK, TypesOK', SizeInv, call.pc = "idle",
         NEW h \in Handle, NEW n \in 1 .. MaxUnits, NEW r, WriteEnter(h, n, r)
  PROVE  SizeInv'
<1>2. CASE /\ handles[h].head # 0 /\ StartWrite(h, n, handles[h].head)
           /\ UNCHANGED <<fat, handles, table, up, cwd>>
  <2>1. \A c : Kept(c)
    BY <1>2, AllKept
  <2>2. EntriesBacked' /\ HandlesBacked'
    <3>1. EntriesBacked'
      BY <1>2, <2>1, EntriesStay DEF SizeInv, SameEntries, Used
    <3>2. \A g \in Handle : SameHandles(g)
      BY <1>2, <2>1 DEF SameHandles
    <3> QED BY <3>1, <3>2, HandlesStay DEF SizeInv, HandlesBacked
  <2>3. call'.h = h /\ call'.at = handles'[h].head /\ call'.hop = 0
    BY <1>2 DEF StartWrite
  <2>4. OnChain'
    BY <2>3, AfterLinksNext DEF OnChain
  <2> QED BY <2>2, <2>4 DEF SizeInv
<1>3. ASSUME handles[h].head = 0, NEW c \in AllocChoice,
             fat' = [fat EXCEPT ![c] = Eof],
             handles' = [handles EXCEPT ![h].head = c],
             StartWrite(h, n, c),
             UNCHANGED <<table, up, cwd>>,
             handles[h].open
      PROVE  SizeInv'
  <2>1. \A x \in Cluster : fat[x] \in Cluster => fat'[x] = fat[x]
    BY <1>3, ClusterFacts DEF AllocChoice, TypesOK
  <2>2. \A x : Kept(x)
    BY <2>1, AllKept
  <2>3. EntriesBacked'
    BY <1>3, <2>2, EntriesStay DEF SizeInv, SameEntries, Used
  <2>4. handles[h].size = 0 /\ handles[h].pos = 0
    BY <1>3, NoHeadNoSize
  <2>5. /\ handles'[h].head = c /\ handles'[h].size = 0 /\ handles'[h].pos = 0
        /\ \A g \in Handle : g # h => handles'[g] = handles[g]
    BY <1>3, <2>4 DEF TypesOK, HandleRec
  <2>6. HandlesBacked'
    <3> SUFFICES ASSUME NEW g \in Handle, handles'[g].open
                 PROVE  /\ Backed(handles[g].head, handles[g].size)'
                        /\ Backed(handles[g].head, handles[g].pos)'
      BY DEF HandlesBacked
    <3>1. CASE g = h
      BY <2>5, <3>1 DEF Backed
    <3>2. CASE g # h
      <4>1. SameHandles(g)
        BY <2>2, <2>5, <3>2 DEF SameHandles
      <4> QED BY <4>1, HandlesStay DEF SizeInv
    <3> QED BY <3>1, <3>2
  <2>7. call'.h = h /\ call'.at = c /\ call'.hop = 0
    BY <1>3 DEF StartWrite
  <2>8. OnChain'
    BY <2>5, <2>7, AfterLinksNext DEF OnChain
  <2> QED BY <2>3, <2>6, <2>8 DEF SizeInv
<1>4. CASE UNCHANGED <<fat, handles, call, table, up, cwd>>
  BY <1>4, SizesStutter
<1>5. QED BY <1>2, <1>3, <1>4 DEF WriteEnter

(* One hop of the inner loop: the walk is one link longer. *)
LEMMA SizesWriteHop ==
  ASSUME TypesOK, TypesOK', Apart, SizeInv, WriteHop
  PROVE  SizeInv'
<1> DEFINE h == call.h
           at == call.at
           first == handles[h].head
<1>1. /\ call \in CallRec /\ h \in Handle /\ call.hop \in Nat /\ call.pc = "loop"
      /\ at \in Cluster /\ fat[at] # FreeCl /\ at = After(first, call.hop)
  BY DEF TypesOK, WriteHop, CallRec, Apart, WriteOK, SizeInv, OnChain
<1>2. UNCHANGED <<table, up, cwd, handles>>
  BY DEF WriteHop
<1>3. ASSUME \A x \in Cluster : fat[x] \in Cluster => fat'[x] = fat[x], OnChain'
      PROVE  SizeInv'
  <2>1. \A c : Kept(c)
    BY <1>3, AllKept
  <2>2. EntriesBacked'
    BY <1>2, <2>1, EntriesStay DEF SizeInv, SameEntries, Used
  <2>3. \A g \in Handle : SameHandles(g)
    BY <1>2, <2>1 DEF SameHandles
  <2>4. HandlesBacked'
    BY <2>3, HandlesStay DEF SizeInv, HandlesBacked
  <2> QED BY <1>3, <2>2, <2>4 DEF SizeInv
<1>4. ASSUME NEW next, fat'[at] = next,
             call' = [call EXCEPT !.at = next, !.hop = @ + 1],
             \A x \in Cluster : fat[x] \in Cluster => fat'[x] = fat[x]
      PROVE  OnChain'
  <2>1. call'.h = h /\ call'.at = next /\ call'.hop = call.hop + 1
    BY <1>1, <1>4 DEF CallRec
  <2>2. Kept(first)
    BY <1>4, AllKept
  <2>4. PICK f, k : f = first /\ k = call.hop
    OBVIOUS
  <2>5. After(f, k + 1)' = Link(After(f, k))' /\ k \in Nat
    BY <1>1, <2>4, AfterLinksNext
  <2>6. After(f, k)' = at
    <3>1. Kept(f) /\ k \in Nat /\ After(f, k) = at /\ at \in Cluster
      BY <1>1, <2>2, <2>4
    <3> HIDE DEF at, first
    <3> QED BY <3>1 DEF Kept
  <2>7. After(f, k + 1)' = next
    BY <1>1, <1>4, <2>5, <2>6 DEF Link
  <2> QED BY <1>2, <2>1, <2>4, <2>7 DEF OnChain
<1>5. CASE fat[at] # Eof /\ FollowLink
  <2>1. call' = [call EXCEPT !.at = fat[at], !.hop = @ + 1] /\ UNCHANGED fat
    BY <1>5 DEF FollowLink
  <2> QED BY <1>3, <1>4, <2>1
<1>6. ASSUME NEW c \in AllocChoice, fat[at] = Eof,
             fat' = [fat EXCEPT ![at] = c, ![c] = Eof],
             call' = [call EXCEPT !.at = c, !.hop = @ + 1]
      PROVE  SizeInv'
  <2>1. c \in Cluster /\ fat[c] = FreeCl /\ c # at
    BY <1>6, ClusterFacts DEF AllocChoice
  <2>2. \A d \in Cluster : fat'[d] = IF d = c THEN Eof ELSE IF d = at THEN c ELSE fat[d]
    BY <1>1, <1>6, <2>1 DEF TypesOK
  <2>3. \A x \in Cluster : fat[x] \in Cluster => fat'[x] = fat[x]
    BY <1>6, <2>1, <2>2, ClusterFacts
  <2>4. fat'[at] = c
    BY <1>1, <2>1, <2>2
  <2> QED BY <1>3, <1>4, <1>6, <2>3, <2>4
<1>7. CASE call' = [call EXCEPT !.pc = "done"] /\ UNCHANGED fat
  <2>1. call'.pc = "done"
    BY <1>1, <1>7 DEF CallRec
  <2>2. OnChain'
    BY <2>1 DEF OnChain
  <2> QED BY <1>3, <1>7, <2>2
<1>8. QED BY <1>5, <1>6, <1>7 DEF WriteHop

(* One turn of the outer loop: the position moves into a cluster that was  *)
(* read and written, and the next walk starts at the first cluster.        *)
LEMMA SizesWriteChunk ==
  ASSUME TypesOK, TypesOK', Apart, SizeInv, WriteChunk
  PROVE  SizeInv'
<1> DEFINE h == call.h
           at == call.at
<1>1. /\ call \in CallRec /\ h \in Handle /\ call.left \in Nat /\ call.left > 0
      /\ call.hop = ClusterIdx /\ at \in Cluster
      /\ handles[h].open /\ handles[h] \in HandleRec
      /\ at = After(handles[h].head, call.hop)
  BY DEF TypesOK, WriteChunk, CallRec, Apart, WriteOK, SizeInv, OnChain
<1>2. \A c : Kept(c)
  BY AllKept DEF WriteChunk
<1>3. CASE ~ Transfer(at) /\ call' = [call EXCEPT !.pc = "done"] /\ UNCHANGED <<table, up, handles>>
  <2>1. call'.pc = "done"
    BY <1>1, <1>3 DEF CallRec
  <2>2. \A d \in DirIds, s \in Slots : SameEntries(d, s)
    BY <1>2, <1>3 DEF SameEntries, Used
  <2>3. \A g \in Handle : SameHandles(g)
    BY <1>2, <1>3 DEF SameHandles
  <2> QED BY <2>1, <2>2, <2>3, OutsideWrite
<1>4. ASSUME NEW chunk,
             chunk = IF ClusterUnits - InCluster > call.left THEN call.left
                     ELSE ClusterUnits - InCluster,
             Transfer(at),
             handles' = [handles EXCEPT ![h].pos = @ + chunk],
             call' = [call EXCEPT !.left = @ - chunk, !.total = @ + chunk,
                                  !.at = handles[h].head, !.hop = 0],
             table' = [table EXCEPT ![at] = EmptyTable]
      PROVE  SizeInv'
  <2> DEFINE pos  == handles[h].pos
             head == handles[h].head
  <2>1. pos \in Nat /\ Backed(head, pos)
    BY <1>1 DEF SizeInv, HandlesBacked, HandleRec
  <2>2. chunk \in Nat /\ chunk > 0 /\ (pos % ClusterUnits) + chunk <= ClusterUnits
    <3>1. pos % ClusterUnits \in 0 .. ClusterUnits - 1 /\ ClusterUnits \in Nat
      BY <2>1, Division, ConstAssumption
    <3> HIDE DEF pos
    <3>2. InCluster = pos % ClusterUnits
      BY DEF InCluster, pos
    <3> QED BY <1>1, <1>4, <3>1, <3>2
  <2>3. Backed(head, pos + chunk)
    <3>1. Readable(After(head, pos \div ClusterUnits))
      BY <1>1, <1>4 DEF Transfer, ClusterIdx
    <3> HIDE DEF head, pos
    <3> QED BY <2>1, <2>2, <3>1, BackedMore
  <2>4. /\ \A g \in Handle : g # h => handles'[g] = handles[g]
        /\ handles'[h].head = head /\ handles'[h].size = handles[h].size
        /\ handles'[h].pos = pos + chunk
    BY <1>1, <1>4 DEF TypesOK, HandleRec
  <2>5. EntriesBacked'
    <3>1. \A d \in DirIds, s \in Slots :
            Used(d, s)' => Used(d, s) /\ table'[d][s] = table[d][s]
      BY <1>4 DEF TypesOK, Used, EmptyTable, EndEntry
    <3>2. \A d \in DirIds, s \in Slots : SameEntries(d, s)
      BY <1>2, <3>1 DEF SameEntries
    <3> QED BY <3>2, EntriesStay DEF SizeInv
  <2>6. HandlesBacked'
    <3> SUFFICES ASSUME NEW g \in Handle, handles'[g].open
                 PROVE  /\ Backed(handles[g].head, handles[g].size)'
                        /\ Backed(handles[g].head, handles[g].pos)'
      BY DEF HandlesBacked
    <3>1. CASE g # h
      <4>1. SameHandles(g)
        BY <1>2, <2>4, <3>1 DEF SameHandles
      <4> QED BY <4>1, HandlesStay DEF SizeInv
    <3>2. CASE g = h
      <4>1. PICK c, n, q : c = head /\ n = handles[h].size /\ q = pos + chunk
        OBVIOUS
      <4>2. /\ n \in Nat /\ q \in Nat /\ Kept(c) /\ Backed(c, n) /\ Backed(c, q)
        <5>1. handles[h].size \in Nat /\ Backed(head, handles[h].size)
          BY <1>1 DEF SizeInv, HandlesBacked, HandleRec
        <5>2. pos + chunk \in Nat
          BY <2>1, <2>2
        <5> QED BY <1>2, <2>3, <4>1, <5>1, <5>2
      <4>3. Backed(c, n)' /\ Backed(c, q)'
        BY <4>2, BackedKept
      <4>4. handles'[g].head = c /\ handles'[g].size = n /\ handles'[g].pos = q
        BY <2>4, <3>2, <4>1
      <4> QED BY <4>3, <4>4 DEF Backed
    <3> QED BY <3>1, <3>2
  <2>7. call'.h = h /\ call'.at = head /\ call'.hop = 0
    BY <1>1, <1>4 DEF CallRec
  <2>8. OnChain'
    BY <2>4, <2>7, AfterLinksNext DEF OnChain
  <2> QED BY <2>5, <2>6, <2>8 DEF SizeInv
<1>5. QED BY <1>3, <1>4 DEF WriteChunk

(* The done label: the new size is the old one or the position. *)
LEMMA SizesWriteLeave ==
  ASSUME TypesOK, TypesOK', Apart, SizeInv, NEW r, WriteLeave(r)
  PROVE  SizeInv'
<1> DEFINE h == call.h
           f == handles[h]
<1>1. /\ h \in Handle /\ f \in HandleRec /\ f.open /\ call'.pc = "idle"
      /\ f.parent \in DirIds /\ f.off \in Slots
      /\ UNCHANGED fat
  BY DEF TypesOK, WriteLeave, CallRec, HandleRec, Apart, WriteOK, Idle
<1>2. \A c : Kept(c)
  BY <1>1, AllKept
<1>3. PICK c, n, q : c = f.head /\ n = NewSize(f) /\ q = f.pos
  OBVIOUS
<1>4. n \in Nat /\ q \in Nat /\ Kept(c) /\ Backed(c, n) /\ Backed(c, q)
  BY <1>1, <1>2, <1>3 DEF NewSize, SizeInv, HandlesBacked, HandleRec
<1>5. Backed(c, n)' /\ Backed(c, q)'
  BY <1>4, BackedKept
<1>6. /\ \A g \in Handle : g # h => handles'[g] = handles[g]
      /\ handles'[h].head = c /\ handles'[h].size = n /\ handles'[h].pos = q
  <2>1. handles' = [handles EXCEPT ![h].size = n]
    BY <1>3 DEF WriteLeave
  <2>2. handles \in [Handle -> HandleRec] /\ h \in Handle
    BY <1>1 DEF TypesOK
  <2> HIDE DEF h
  <2>3. \A g \in Handle : g # h => handles'[g] = handles[g]
    BY <2>1, <2>2
  <2>4. handles'[h] = [handles[h] EXCEPT !.size = n]
    BY <2>1, <2>2
  <2>5. /\ handles'[h].head = handles[h].head /\ handles'[h].size = n
        /\ handles'[h].pos = handles[h].pos
    BY <2>2, <2>4 DEF HandleRec
  <2> QED BY <1>3, <2>3, <2>5
<1>7. \A d \in DirIds, s \in Slots :
        IF d = f.parent /\ s = f.off
        THEN table'[d][s].head = c /\ table'[d][s].size = n
        ELSE table'[d][s] = table[d][s]
  <2>1. table' = [table EXCEPT ![f.parent][f.off].head = c, ![f.parent][f.off].size = n]
    BY <1>3 DEF WriteLeave
  <2>2. f.parent \in DirIds /\ f.off \in Slots
    BY <1>1
  <2> HIDE DEF f
  <2> SUFFICES ASSUME NEW d \in DirIds, NEW s \in Slots
               PROVE  IF d = f.parent /\ s = f.off
                      THEN table'[d][s].head = c /\ table'[d][s].size = n
                      ELSE table'[d][s] = table[d][s]
    OBVIOUS
  <2>3. CASE d = f.parent /\ s = f.off
    <3>1. table'[d][s] = [table[d][s] EXCEPT !.head = c, !.size = n]
      BY <2>1, <2>2, <2>3 DEF TypesOK
    <3>2. table[d][s] \in Dirent
      BY EntryType
    <3> QED BY <2>3, <3>1, <3>2 DEF Dirent
  <2>4. CASE ~ (d = f.parent /\ s = f.off)
    <3>1. table'[d][s] = table[d][s]
      BY <2>1, <2>2, <2>4 DEF TypesOK
    <3> QED BY <2>4, <3>1
  <2> QED BY <2>3, <2>4
<1>8. EntriesBacked'
  <2> SUFFICES ASSUME NEW d \in DirIds, NEW s \in Slots, Used(d, s)'
               PROVE  Backed(table[d][s].head, table[d][s].size)'
    BY DEF EntriesBacked
  <2>1. CASE d = f.parent /\ s = f.off
    <3>1. table'[d][s].head = c /\ table'[d][s].size = n
      BY <1>7, <2>1
    <3> QED BY <1>5, <3>1 DEF Backed
  <2>2. CASE ~ (d = f.parent /\ s = f.off)
    <3>1. table'[d][s] = table[d][s] /\ Used(d, s)
      BY <1>7, <2>2 DEF Used
    <3>2. PICK b, m : b = table[d][s].head /\ m = table[d][s].size
      OBVIOUS
    <3>3. m \in Nat /\ Kept(b) /\ Backed(b, m)
      BY <1>2, <3>1, <3>2, EntryType DEF SizeInv, EntriesBacked
    <3>4. Backed(b, m)'
      BY <3>3, BackedKept
    <3>5. table'[d][s].head = b /\ table'[d][s].size = m
      BY <3>1, <3>2
    <3> QED BY <3>4, <3>5 DEF Backed
  <2> QED BY <2>1, <2>2
<1>9. HandlesBacked'
  <2> SUFFICES ASSUME NEW g \in Handle, handles'[g].open
               PROVE  /\ Backed(handles[g].head, handles[g].size)'
                      /\ Backed(handles[g].head, handles[g].pos)'
    BY DEF HandlesBacked
  <2>1. CASE g # h
    <3>1. SameHandles(g)
      BY <1>2, <1>6, <2>1 DEF SameHandles
    <3> QED BY <3>1, HandlesStay DEF SizeInv
  <2>2. CASE g = h
    <3>1. handles'[g].head = c /\ handles'[g].size = n /\ handles'[g].pos = q
      BY <1>6, <2>2
    <3> QED BY <1>5, <3>1 DEF Backed
  <2> QED BY <2>1, <2>2
<1>10. OnChain'
  BY <1>1 DEF OnChain
<1>11. QED BY <1>8, <1>9, <1>10 DEF SizeInv

-----------------------------------------------------------------------------
LEMMA SizesInit == Init => SizeInv
<1> SUFFICES ASSUME Init PROVE SizeInv
  OBVIOUS
<1>1. \A d \in DirIds, s \in Slots : ~ Used(d, s)
  BY DEF Init, Used, EmptyTable, EndEntry
<1>2. \A h \in Handle : ~ handles[h].open
  BY DEF Init, ClosedHandle
<1>3. call.pc = "idle"
  BY DEF Init, Idle
<1>4. QED BY <1>1, <1>2, <1>3 DEF SizeInv, EntriesBacked, HandlesBacked, OnChain

LEMMA SizesNext ==
  ASSUME TypesOK, TypesOK', Apart, SizeInv, [Calls]_vars
  PROVE  SizeInv'
<1>1. CASE WriteHop
  BY <1>1, SizesWriteHop
<1>2. CASE WriteChunk
  BY <1>2, SizesWriteChunk
<1>3. ASSUME NEW r \in Results, WriteLeave(r)
      PROVE  SizeInv'
  BY <1>3, SizesWriteLeave
<1>4. ASSUME NEW r \in Results, call.pc = "idle", NEW p \in Paths, DirCall(p, r)
      PROVE  SizeInv'
  <2>1. CASE Chdir(p, r)
    <3>1. UNCHANGED <<fat, table, handles, call>>
      BY <2>1 DEF Chdir, Fails, vars
    <3> QED BY <3>1, SizesStutter
  <2>2. CASE Mkdir(p, r)
    BY <1>4, <2>2, SizesMkdir
  <2>3. CASE Rmdir(p, r)
    BY <1>4, <2>3, SizesRmdir DEF DirCall
  <2>4. ASSUME NEW q \in Paths, Rename(p, q, r)
        PROVE  SizeInv'
    BY <1>4, <2>4, SizesRename
  <2> QED BY <1>4, <2>1, <2>2, <2>3, <2>4 DEF DirCall
<1>5. ASSUME NEW r \in Results, call.pc = "idle", NEW p \in Paths, FileCall(p, r)
      PROVE  SizeInv'
  <2>1. CASE Create(p, r)
    BY <1>5, <2>1, SizesCreate
  <2>2. CASE ~ OpenOn(p) /\ Unlink(p, r)
    BY <1>5, <2>2, SizesUnlink
  <2>3. CASE Open(p, r)
    BY <1>5, <2>3, SizesOpen
  <2> QED BY <1>5, <2>1, <2>2, <2>3 DEF FileCall
<1>6. ASSUME NEW r \in Results, call.pc = "idle", NEW h \in Handle, HandleCall(h, r)
      PROVE  SizeInv'
  <2>1. CASE Close(h, r)
    <3>1. 1 \in 1 .. MaxUnits
      BY ConstAssumption
    <3> QED BY <1>6, <2>1, <3>1, SizesCloseRead
  <2>2. ASSUME NEW n \in 1 .. MaxUnits, Read(h, n, r)
        PROVE  SizeInv'
    BY <1>6, <2>2, SizesCloseRead
  <2>3. ASSUME NEW n \in 1 .. MaxUnits, WriteEnter(h, n, r)
        PROVE  SizeInv'
    BY <1>6, <2>3, SizesWriteEnter
  <2> QED BY <1>6, <2>1, <2>2, <2>3 DEF HandleCall
<1>7. CASE UNCHANGED vars
  <2>1. UNCHANGED <<fat, table, handles, call>>
    BY <1>7 DEF vars
  <2> QED BY <2>1, SizesStutter
<1>8. QED BY <1>1, <1>2, <1>3, <1>4, <1>5, <1>6, <1>7 DEF Calls

(* Every byte below the size a directory entry or a handle holds lies in a *)
(* cluster of the file's chain that can be read: fs_write stores no size   *)
(* past what it allocated and wrote, on a full FAT, past the data area, or *)
(* when the chain it walks ends early; and no unlink, rmdir or append to   *)
(* another file takes a cluster out of the chain.                          *)
THEOREM SizesBacked == Spec => []SizeBacked
<1>1. Init => IInv /\ SizeInv
  BY InitIInv, SizesInit
<1>2. IInv /\ SizeInv /\ [Calls]_vars => IInv' /\ SizeInv'
  <2> SUFFICES ASSUME IInv, SizeInv, [Calls]_vars PROVE IInv' /\ SizeInv'
    OBVIOUS
  <2>1. IInv'
    BY NextIInv
  <2>2. TypesOK /\ Apart /\ TypesOK'
    BY <2>1 DEF IInv
  <2> QED BY <2>1, <2>2, SizesNext
<1>3. SizeInv => AllBacked
  BY DEF SizeInv, EntriesBacked, HandlesBacked, AllBacked
<1>4. Spec => [](~ astray => AllBacked)
  BY <1>1, <1>2, <1>3, OnlyCalls, PTL DEF Spec
<1>5. QED BY <1>4, PTL DEF SizeBacked

-----------------------------------------------------------------------------
(* The tree.  A set of directories is live when it holds the root, is      *)
(* closed under the directory entries in it, and every other member has    *)
(* such an entry, readable and with the ".." entry that leads back.  Tree, *)
(* which stops after LastEntry steps, lies in every live set, and it is    *)
(* the live set that the calls carry along.                                *)

IsDirEntry(d, s) == Used(d, s) /\ table[d][s].dir

Live(S) ==
  /\ S \in SUBSET DirIds /\ Root \in S
  /\ \A d \in S, s \in Slots : IsDirEntry(d, s) =>
       /\ table[d][s].head \in S /\ Readable(table[d][s].head)
       /\ up[table[d][s].head] = d
  /\ \A c \in S \ {Root} :
       \E d \in S, s \in Slots : IsDirEntry(d, s) /\ table[d][s].head = c

Agrees(h) ==
  LET e == table[handles[h].parent][handles[h].off]
  IN  /\ e.st = "used" /\ ~ e.dir
      /\ e.head = handles[h].head \/ (e.size = 0 /\ e.head = 0)
      /\ e.size = handles[h].size

Owned(S) == \A h \in Handle : (handles[h].open /\ handles[h].parent \in S) => Agrees(h)

(* No open handle has a directory for its entry, and no two have the same. *)
OpenFiles ==
  \A h \in Handle : handles[h].open => ~ IsDirEntry(handles[h].parent, handles[h].off)
OneEach ==
  \A g, h \in Handle :
    (/\ handles[g].open /\ handles[h].open
     /\ handles[g].parent = handles[h].parent /\ handles[g].off = handles[h].off) => g = h

TreeInv == OpenFiles /\ OneEach /\ \E S : Live(S) /\ Owned(S)

(* The function Tree evaluates. *)
Reach(f, n) ==
  f = [i \in 0 .. n |-> IF i = 0 THEN {Root}
                        ELSE f[i - 1] \cup UNION {DirHeads(d) : d \in f[i - 1]}]

LEMMA ReachExists == \A n \in Nat : \E f : Reach(f, n)
<1> DEFINE S == {n \in Nat : \E f : Reach(f, n)}
<1>1. 0 \in S
  <2>1. Reach([i \in 0 .. 0 |-> {Root}], 0)
    BY DEF Reach
  <2> QED BY <2>1
<1>2. ASSUME NEW n \in S
      PROVE  n + 1 \in S
  <2>1. PICK f : Reach(f, n)
    OBVIOUS
  <2> DEFINE more(x) == x \cup UNION {DirHeads(d) : d \in x}
             g == [i \in 0 .. n + 1 |-> IF i = n + 1 THEN more(f[n]) ELSE f[i]]
  <2>2. \A i \in 0 .. n : f[i] = IF i = 0 THEN {Root} ELSE more(f[i - 1])
    BY <2>1, Zenon DEF Reach
  <2> HIDE DEF more
  <2>3. \A i \in 0 .. n + 1 : g[i] = IF i = 0 THEN {Root} ELSE more(g[i - 1])
    <3> TAKE i \in 0 .. n + 1
    <3>1. CASE i = n + 1
      <4>1. i - 1 = n /\ n \in 0 .. n + 1 /\ n # n + 1 /\ i # 0
        BY <3>1
      <4> QED BY <3>1, <4>1
    <3>2. CASE i # n + 1
      <4>1. i \in 0 .. n
        BY <3>2
      <4>2. i # 0 => i - 1 \in 0 .. n + 1 /\ i - 1 # n + 1
        BY <3>2
      <4> QED BY <2>2, <3>2, <4>1, <4>2
    <3> QED BY <3>1, <3>2
  <2>4. g = [i \in 0 .. n + 1 |-> g[i]]
    OBVIOUS
  <2> HIDE DEF g
  <2>5. g = [i \in 0 .. n + 1 |-> IF i = 0 THEN {Root} ELSE more(g[i - 1])]
    BY <2>3, <2>4
  <2>6. Reach(g, n + 1)
    BY <2>5 DEF Reach, more
  <2> QED BY <2>6
<1> HIDE DEF S
<1>3. S \in SUBSET Nat
  BY DEF S
<1>4. \A n \in Nat : n \in S
  BY <1>1, <1>2, <1>3, Induction
<1>5. QED BY <1>4 DEF S

LEMMA TreeInLive ==
  ASSUME NEW S, Live(S)
  PROVE  Tree \subseteq S
<1> DEFINE N == LastEntry
<1>1. N \in Nat
  BY ConstAssumption
<1>2. Tree = (CHOOSE f : f = [i \in 0 .. N |-> IF i = 0 THEN {Root}
                               ELSE f[i - 1] \cup UNION {DirHeads(d) : d \in f[i - 1]}])[N]
  BY DEF Tree
<1>3. Tree = (CHOOSE f : Reach(f, N))[N]
  BY <1>2, Zenon DEF Reach
<1>4. \E f : Reach(f, N)
  BY <1>1, ReachExists
<1>5. PICK f : Reach(f, N) /\ Tree = f[N]
  BY <1>3, <1>4
<1>6. \A i \in 0 .. N :
        f[i] = IF i = 0 THEN {Root} ELSE f[i - 1] \cup UNION {DirHeads(d) : d \in f[i - 1]}
  BY <1>5, Zenon DEF Reach
<1>7. \A d \in S : DirHeads(d) \subseteq S
  BY DEF Live, DirHeads, IsDirEntry
<1> HIDE DEF N
<1> DEFINE K == {i \in Nat : i <= N => f[i] \subseteq S}
<1>8. 0 \in K
  <2>1. 0 \in 0 .. N
    BY <1>1
  <2>2. f[0] = {Root}
    BY <1>6, <2>1
  <2> QED BY <2>2 DEF Live
<1>9. ASSUME NEW i \in K
      PROVE  i + 1 \in K
  <2>1. CASE i + 1 <= N
    <3>1. i + 1 \in 0 .. N /\ i + 1 # 0 /\ (i + 1) - 1 = i /\ i <= N
      BY <1>1, <2>1
    <3>2. f[i + 1] = f[i] \cup UNION {DirHeads(d) : d \in f[i]}
      BY <1>6, <3>1
    <3>3. f[i] \subseteq S
      BY <3>1
    <3>4. f[i + 1] \subseteq S
      BY <1>7, <3>2, <3>3
    <3> QED BY <3>4
  <2>2. CASE ~ (i + 1 <= N)
    BY <2>2
  <2> QED BY <2>1, <2>2
<1>10. K \in SUBSET Nat
  OBVIOUS
<1> HIDE DEF K
<1>11. N \in K
  BY <1>1, <1>8, <1>9, <1>10, Induction
<1>12. QED BY <1>1, <1>5, <1>11 DEF K

(* A live directory but the root is an allocated cluster and the head of   *)
(* its chain.                                                              *)
LEMMA LiveHead ==
  ASSUME TypesOK, Apart, NEW S, Live(S), NEW c \in S, c # Root
  PROVE  IsHead(c) /\ c \in Cluster
<1>1. PICK d \in S, s \in Slots : IsDirEntry(d, s) /\ table[d][s].head = c
  BY DEF Live
<1>2. d \in DirIds /\ c # 0
  BY DEF Live, Root
<1>3. QED BY <1>1, <1>2 DEF Apart, EntriesOK, IsDirEntry, IsHead

(* The calls that neither add nor remove a directory. *)
LEMMA LiveSame ==
  ASSUME NEW S, Live(S),
         \A d \in S, s \in Slots :
           /\ IsDirEntry(d, s)' <=> IsDirEntry(d, s)
           /\ IsDirEntry(d, s) => table'[d][s].head = table[d][s].head,
         \A c \in S \ {Root} : up'[c] = up[c]
  PROVE  Live(S)'
<1>1. ASSUME NEW d \in S, NEW s \in Slots, IsDirEntry(d, s)'
      PROVE  /\ table'[d][s].head \in S /\ Readable(table'[d][s].head)
             /\ up'[table'[d][s].head] = d
  <2>1. /\ table'[d][s].head = table[d][s].head
        /\ table[d][s].head \in S /\ Readable(table[d][s].head) /\ up[table[d][s].head] = d
    BY <1>1 DEF Live
  <2>2. table[d][s].head # Root
    BY <2>1, ClusterFacts DEF Readable, Root
  <2> QED BY <2>1, <2>2
<1>2. ASSUME NEW c \in S \ {Root}
      PROVE  \E d \in S, s \in Slots : IsDirEntry(d, s)' /\ table'[d][s].head = c
  BY DEF Live
<1>3. S \in SUBSET DirIds /\ Root \in S
  BY DEF Live
<1>4. QED BY <1>1, <1>2, <1>3 DEF Live, Readable

(* Every step but fs_mkdir and fs_rmdir: an open handle keeps what it and  *)
(* its entry agree on.                                                     *)
LEMMA TreeSame ==
  ASSUME TreeInv,
         \A S : Live(S) =>
           /\ \A d \in S, s \in Slots :
                /\ IsDirEntry(d, s)' <=> IsDirEntry(d, s)
                /\ IsDirEntry(d, s) => table'[d][s].head = table[d][s].head
           /\ \A c \in S \ {Root} : up'[c] = up[c]
           /\ Owned(S) => Owned(S)',
         OpenFiles', OneEach'
  PROVE  TreeInv'
<1>1. PICK S : Live(S) /\ Owned(S)
  BY DEF TreeInv
<1>2. Live(S)' /\ Owned(S)'
  BY <1>1, LiveSame
<1>3. QED BY <1>2 DEF TreeInv

LEMMA TreeStutter ==
  ASSUME TreeInv, UNCHANGED <<table, up, handles>>
  PROVE  TreeInv'
<1>1. OpenFiles' /\ OneEach'
  BY DEF TreeInv, OpenFiles, OneEach, IsDirEntry, Used
<1>2. \A d, s : IsDirEntry(d, s)' <=> IsDirEntry(d, s)
  BY DEF IsDirEntry, Used
<1>3. \A S : Owned(S) => Owned(S)'
  BY DEF Owned, Agrees
<1>4. QED BY <1>1, <1>2, <1>3, TreeSame

LEMMA TreeCreate ==
  ASSUME TypesOK, TreeInv, NEW p \in Paths, NEW r, Create(p, r)
  PROVE  TreeInv'
<1>1. ASSUME NEW s \in CreateSlots(p),
             table' = [table EXCEPT ![Parent(p)][s] = NewEntry(p.leaf, FALSE, 0)],
             UNCHANGED <<fat, up, cwd, handles, call>>
      PROVE  TreeInv'
  <2>1. s \in Slots /\ Parent(p) \in DirIds /\ ~ Used(Parent(p), s)
    BY <1>1, ParentType DEF CreateSlots, AddSlots, CanCreate, Used
  <2>2. /\ \A d \in DirIds, t \in Slots :
              ~ (d = Parent(p) /\ t = s) => table'[d][t] = table[d][t]
        /\ ~ table'[Parent(p)][s].dir
    BY <1>1, <2>1 DEF TypesOK, NewEntry
  <2>3. \A d \in DirIds, t \in Slots : IsDirEntry(d, t)' <=> IsDirEntry(d, t)
    BY <2>1, <2>2 DEF IsDirEntry, Used
  <2>4. \A d \in DirIds, t \in Slots :
          IsDirEntry(d, t) => table'[d][t].head = table[d][t].head
    BY <2>1, <2>2 DEF IsDirEntry
  <2>5. \A h \in Handle : handles[h].parent \in DirIds /\ handles[h].off \in Slots
    BY DEF TypesOK, HandleRec
  <2>6. OpenFiles' /\ OneEach'
    BY <1>1, <2>3, <2>5 DEF TreeInv, OpenFiles, OneEach
  <2>7. ASSUME NEW h \in Handle, Agrees(h)
        PROVE  Agrees(h)'
    <3>1. ~ (handles[h].parent = Parent(p) /\ handles[h].off = s)
      BY <2>1, <2>7 DEF Agrees, Used
    <3>2. table'[handles[h].parent][handles[h].off] = table[handles[h].parent][handles[h].off]
      BY <2>2, <2>5, <3>1
    <3> QED BY <1>1, <2>7, <3>2 DEF Agrees
  <2>8. \A S : Owned(S) => Owned(S)'
    BY <1>1, <2>7 DEF Owned
  <2> QED BY <1>1, <2>3, <2>4, <2>6, <2>8, TreeSame DEF Live
<1>2. CASE Fails(r)
  BY <1>2, TreeStutter DEF Fails, vars
<1>3. QED BY <1>1, <1>2 DEF Create

LEMMA TreeUnlink ==
  ASSUME TypesOK, TreeInv, NEW p \in Paths, NEW r, ~ OpenOn(p), Unlink(p, r)
  PROVE  TreeInv'
<1>1. CASE /\ IsFile(p) /\ MarkDeleted(Parent(p), LeafSlot(p))
           /\ UNCHANGED <<up, cwd, handles, call>>
  <2> DEFINE P == Parent(p)
             s == LeafSlot(p)
  <2>1. P \in DirIds /\ s \in Slots /\ ~ table[P][s].dir
    BY <1>1, LeafFoundFacts DEF IsFile
  <2>2. \A h \in Handle : handles[h].open => ~ (handles[h].parent = P /\ handles[h].off = s)
    BY <1>1 DEF OpenOn
  <2>3. /\ \A d \in DirIds, t \in Slots :
              ~ (d = P /\ t = s) => table'[d][t] = table[d][t]
        /\ table'[P][s].st = "del"
    BY <1>1, <2>1 DEF TypesOK, MarkDeleted, DeletedEntry, EndEntry
  <2>4. \A h \in Handle : handles[h].parent \in DirIds /\ handles[h].off \in Slots
    BY DEF TypesOK, HandleRec
  <2> HIDE DEF P, s
  <2>5. \A d \in DirIds, t \in Slots : IsDirEntry(d, t)' <=> IsDirEntry(d, t)
    BY <2>1, <2>3 DEF IsDirEntry, Used
  <2>6. \A d \in DirIds, t \in Slots :
          IsDirEntry(d, t) => table'[d][t].head = table[d][t].head
    BY <2>1, <2>3 DEF IsDirEntry
  <2>7. OpenFiles' /\ OneEach'
    BY <1>1, <2>4, <2>5 DEF TreeInv, OpenFiles, OneEach
  <2>8. \A h \in Handle : handles[h].open /\ Agrees(h) => Agrees(h)'
    BY <1>1, <2>2, <2>3, <2>4 DEF Agrees
  <2>9. \A S : Owned(S) => Owned(S)'
    BY <1>1, <2>8 DEF Owned
  <2> QED BY <1>1, <2>5, <2>6, <2>7, <2>9, TreeSame DEF Live
<1>2. CASE Fails(r)
  BY <1>2, TreeStutter DEF Fails, vars
<1>3. QED BY <1>1, <1>2 DEF Unlink

LEMMA TreeRename ==
  ASSUME TypesOK, TreeInv, NEW p \in Paths, NEW q \in Paths, NEW r, Rename(p, q, r)
  PROVE  TreeInv'
<1>1. CASE /\ LeafFound(p)
           /\ table' = [table EXCEPT ![Parent(p)][LeafSlot(p)].name = q.leaf]
           /\ UNCHANGED <<fat, up, cwd, handles, call>>
  <2>1. Parent(p) \in DirIds /\ LeafSlot(p) \in Slots
    BY <1>1, LeafFoundFacts
  <2>2. \A d \in DirIds, s \in Slots :
          /\ table'[d][s].st = table[d][s].st /\ table'[d][s].head = table[d][s].head
          /\ table'[d][s].size = table[d][s].size /\ table'[d][s].dir = table[d][s].dir
    BY <1>1, <2>1 DEF TypesOK, Dirent
  <2>3. \A d \in DirIds, t \in Slots : IsDirEntry(d, t)' <=> IsDirEntry(d, t)
    BY <2>2 DEF IsDirEntry, Used
  <2>4. \A h \in Handle : handles[h].parent \in DirIds /\ handles[h].off \in Slots
    BY DEF TypesOK, HandleRec
  <2>5. OpenFiles' /\ OneEach'
    BY <1>1, <2>3, <2>4 DEF TreeInv, OpenFiles, OneEach
  <2>6. \A h \in Handle : Agrees(h) => Agrees(h)'
    BY <1>1, <2>2, <2>4 DEF Agrees
  <2>7. \A S : Owned(S) => Owned(S)'
    BY <1>1, <2>6 DEF Owned
  <2> QED BY <1>1, <2>2, <2>3, <2>5, <2>7, TreeSame DEF Live
<1>2. CASE Fails(r)
  BY <1>2, TreeStutter DEF Fails, vars
<1>3. QED BY <1>1, <1>2 DEF Rename, CanRename

LEMMA TreeOpen ==
  ASSUME TypesOK, TreeInv, NEW p \in Paths, NEW r, ~ OpenOn(p), Open(p, r)
  PROVE  TreeInv'
<1>1. CASE /\ r \in FreeHandles /\ IsFile(p)
           /\ handles' = [handles EXCEPT ![r] = NewHandle(p)]
           /\ UNCHANGED <<fat, table, up, cwd, call>>
  <2> DEFINE P == Parent(p)
             s == LeafSlot(p)
  <2>1. /\ P \in DirIds /\ s \in Slots /\ Used(P, s) /\ ~ table[P][s].dir
        /\ LeafEntry(p) = table[P][s] /\ r \in Handle
    BY <1>1, LeafFoundFacts DEF IsFile, FreeHandles
  <2>2. \A h \in Handle : handles[h].open => ~ (handles[h].parent = P /\ handles[h].off = s)
    BY <1>1 DEF OpenOn
  <2>3. /\ handles'[r].parent = P /\ handles'[r].off = s
        /\ handles'[r].head = table[P][s].head /\ handles'[r].size = table[P][s].size
        /\ \A h \in Handle : h # r => handles'[h] = handles[h]
    BY <1>1, <2>1 DEF TypesOK, NewHandle
  <2> HIDE DEF P, s
  <2>4. \A d \in DirIds, t \in Slots : IsDirEntry(d, t)' <=> IsDirEntry(d, t)
    BY <1>1 DEF IsDirEntry, Used
  <2>5. OpenFiles'
    <3> SUFFICES ASSUME NEW h \in Handle, handles'[h].open, IsDirEntry(handles'[h].parent, handles'[h].off)
                 PROVE  FALSE
      BY <1>1 DEF OpenFiles, IsDirEntry, Used
    <3>1. CASE h = r
      BY <2>1, <2>3, <3>1 DEF IsDirEntry
    <3>2. CASE h # r
      BY <2>3, <3>2 DEF TreeInv, OpenFiles
    <3> QED BY <3>1, <3>2
  <2>6. OneEach'
    <3> SUFFICES ASSUME NEW g \in Handle, NEW h \in Handle, handles'[g].open, handles'[h].open,
                        handles'[g].parent = handles'[h].parent, handles'[g].off = handles'[h].off,
                        g # h
                 PROVE  FALSE
      BY DEF OneEach
    <3>1. CASE g = r
      BY <2>2, <2>3, <3>1
    <3>2. CASE h = r
      BY <2>2, <2>3, <3>2
    <3>3. CASE g # r /\ h # r
      BY <2>3, <3>3 DEF TreeInv, OneEach
    <3> QED BY <3>1, <3>2, <3>3
  <2>7. \A h \in Handle : h # r /\ Agrees(h) => Agrees(h)'
    BY <1>1, <2>3 DEF Agrees
  <2>8. Agrees(r)'
    BY <1>1, <2>1, <2>3 DEF Agrees, Used
  <2>9. \A S : Owned(S) => Owned(S)'
    BY <2>3, <2>7, <2>8 DEF Owned
  <2> QED BY <1>1, <2>4, <2>5, <2>6, <2>9, TreeSame DEF Live
<1>2. CASE Fails(r)
  BY <1>2, TreeStutter DEF Fails, vars
<1>3. QED BY <1>1, <1>2 DEF Open

(* The table stays; an open handle keeps its entry and, but for a first    *)
(* cluster where it had none, its chain and size.                          *)
LEMMA TreeHandles ==
  ASSUME TypesOK, SizeInv, TreeInv, UNCHANGED <<table, up>>,
         \A h \in Handle : handles'[h].open =>
           /\ handles[h].open
           /\ handles'[h].parent = handles[h].parent /\ handles'[h].off = handles[h].off
           /\ handles'[h].size = handles[h].size
           /\ handles[h].head = 0 \/ handles'[h].head = handles[h].head
  PROVE  TreeInv'
<1>1. \A d, t : IsDirEntry(d, t)' <=> IsDirEntry(d, t)
  BY DEF IsDirEntry, Used
<1>2. OpenFiles'
  BY DEF TreeInv, OpenFiles, IsDirEntry, Used
<1>3. OneEach'
  BY DEF TreeInv, OneEach
<1>4. \A h \in Handle : handles'[h].open /\ Agrees(h) => Agrees(h)'
  BY NoHeadNoSize DEF Agrees
<1>5. \A S : Owned(S) => Owned(S)'
  BY <1>4 DEF Owned
<1>6. QED BY <1>1, <1>2, <1>3, <1>5, TreeSame

LEMMA TreeHandleCall ==
  ASSUME TypesOK, SizeInv, TreeInv, NEW h \in Handle, NEW n, NEW r,
         Close(h, r) \/ Read(h, n, r) \/ WriteEnter(h, n, r)
  PROVE  TreeInv'
<1>1. UNCHANGED <<table, up>>
  BY DEF Close, Read, WriteEnter
<1>2. CASE Close(h, r)
  <2>1. \A g \in Handle : handles'[g].open => handles'[g] = handles[g]
    BY <1>2 DEF Close, TypesOK, ClosedHandle
  <2> QED BY <1>1, <2>1, TreeHandles
<1>3. CASE Read(h, n, r)
  <2>1. handles' = [handles EXCEPT ![h].pos = @ + r]
    BY <1>3 DEF Read
  <2> QED BY <1>1, <2>1, TreeHandles DEF TypesOK, HandleRec
<1>4. CASE WriteEnter(h, n, r)
  <2>1. \/ handles' = handles
        \/ handles[h].head = 0 /\ \E c : handles' = [handles EXCEPT ![h].head = c]
    BY <1>4 DEF WriteEnter
  <2>2. ASSUME NEW c, handles[h].head = 0, handles' = [handles EXCEPT ![h].head = c]
        PROVE  TreeInv'
    <3>1. \A g \in Handle :
            /\ handles'[g].open = handles[g].open /\ handles'[g].parent = handles[g].parent
            /\ handles'[g].off = handles[g].off /\ handles'[g].size = handles[g].size
            /\ handles[g].head = 0 \/ handles'[g].head = handles[g].head
      BY <2>2 DEF TypesOK, HandleRec
    <3> QED BY <1>1, <3>1, TreeHandles
  <2>3. CASE handles' = handles
    BY <1>1, <2>3, TreeStutter
  <2> QED BY <2>1, <2>2, <2>3
<1>5. QED BY <1>2, <1>3, <1>4

(* The cluster fs_write stands on is no directory of the tree: it is in    *)
(* the chain of a file.                                                    *)
LEMMA WalkInChain ==
  ASSUME NEW c, NEW n \in Nat, After(c, n) \in Cluster
  PROVE  After(c, n) \in ChainOf(c)
<1> SUFFICES ASSUME NEW S \in SUBSET Cluster, c \in S, Closed(S)
             PROVE  After(c, n) \in S
  BY DEF ChainOf
<1> DEFINE K == {i \in Nat : After(c, i) \in Cluster => After(c, i) \in S}
<1>1. 0 \in K
  BY AfterLinks
<1>2. ASSUME NEW i \in K
      PROVE  i + 1 \in K
  <2>1. After(c, i + 1) = Link(After(c, i)) /\ i \in Nat /\ i + 1 \in Nat
    BY AfterLinks
  <2>2. CASE After(c, i) \in Cluster
    <3>1. After(c, i) \in S
      BY <2>2
    <3> QED BY <2>1, <2>2, <3>1 DEF Link, Closed
  <2>3. CASE After(c, i) \notin Cluster
    BY <2>1, <2>3 DEF Link
  <2> QED BY <2>2, <2>3
<1> HIDE DEF K
<1>3. K \in SUBSET Nat
  BY DEF K
<1>4. n \in K
  BY <1>1, <1>2, <1>3, Induction
<1>5. QED BY <1>4 DEF K

LEMMA WriteOutsideTree ==
  ASSUME TypesOK, Apart, SizeInv, OpenFiles, call.pc = "loop", NEW S, Live(S)
  PROVE  call.at \notin S /\ call.at \in ChainOf(handles[call.h].head)
<1> DEFINE h == call.h
           at == call.at
           head == handles[call.h].head
<1>1. /\ h \in Handle /\ handles[h].open /\ head # 0 /\ at \in Cluster
      /\ call.hop \in Nat /\ at = After(head, call.hop)
  BY DEF TypesOK, CallRec, Apart, WriteOK, SizeInv, OnChain
<1>2. IsHead(head)
  BY <1>1 DEF Apart, HandlesOK
<1> HIDE DEF at, head
<1>3. at \in ChainOf(head)
  BY <1>1, WalkInChain
<1>4. ASSUME at \in S
      PROVE  FALSE
  <2>1. at # Root
    BY <1>1, ClusterFacts DEF Root
  <2>2. IsHead(at)
    BY <1>4, <2>1, LiveHead
  <2>3. at = head
    BY <1>2, <1>3, <2>2, ChainIsolated DEF Apart
  <2>4. PICK d \in S, s \in Slots : IsDirEntry(d, s) /\ table[d][s].head = at
    BY <1>4, <2>1 DEF Live
  <2>5. d \in DirIds
    BY DEF Live
  <2>6. d = handles[h].parent /\ s = handles[h].off
    BY <1>1, <2>3, <2>4, <2>5 DEF Apart, HandlesOK, IsDirEntry, head
  <2> QED BY <1>1, <2>4, <2>6 DEF OpenFiles
<1>5. QED BY <1>3, <1>4 DEF at, head

LEMMA TreeWriteHop ==
  ASSUME TreeInv, WriteHop
  PROVE  TreeInv'
BY TreeStutter DEF WriteHop

LEMMA TreeWriteChunk ==
  ASSUME TypesOK, Apart, SizeInv, TreeInv, WriteChunk
  PROVE  TreeInv'
<1>1. CASE UNCHANGED <<table, up, handles>>
  BY <1>1, TreeStutter
<1>2. ASSUME NEW chunk, handles' = [handles EXCEPT ![call.h].pos = @ + chunk],
             table' = [table EXCEPT ![call.at] = EmptyTable],
             up' = [up EXCEPT ![call.at] = NoDir]
      PROVE  TreeInv'
  <2> DEFINE at == call.at
  <2>1. call.pc = "loop" /\ at \in Cluster /\ at \in DirIds
    BY ClusterFacts DEF WriteChunk, Apart, WriteOK
  <2>2. \A h \in Handle :
          /\ handles'[h].open = handles[h].open /\ handles'[h].parent = handles[h].parent
          /\ handles'[h].off = handles[h].off /\ handles'[h].head = handles[h].head
          /\ handles'[h].size = handles[h].size
          /\ handles[h].parent \in DirIds /\ handles[h].off \in Slots
    BY <1>2 DEF TypesOK, HandleRec
  <2>3. \A S : Live(S) => at \notin S /\ S \subseteq DirIds
    BY <2>1, WriteOutsideTree DEF TreeInv, Live
  <2>4. /\ \A d \in DirIds : d # at => table'[d] = table[d]
        /\ \A s \in Slots : table'[at][s].st = "end"
        /\ \A c : c # at /\ c \in Cluster => up'[c] = up[c]
    BY <1>2, <2>1 DEF TypesOK, EmptyTable, EndEntry
  <2> HIDE DEF at
  <2>5. \A d \in DirIds, s \in Slots : IsDirEntry(d, s)' => IsDirEntry(d, s)
    BY <2>1, <2>4 DEF IsDirEntry, Used
  <2>6. OpenFiles'
    BY <2>2, <2>5 DEF TreeInv, OpenFiles
  <2>7. OneEach'
    BY <2>2 DEF TreeInv, OneEach
  <2>8. \A h \in Handle : handles[h].parent # at /\ Agrees(h) => Agrees(h)'
    BY <2>2, <2>4 DEF Agrees
  <2>9. ASSUME NEW S, Live(S)
        PROVE  /\ \A d \in S, s \in Slots :
                    /\ IsDirEntry(d, s)' <=> IsDirEntry(d, s)
                    /\ IsDirEntry(d, s) => table'[d][s].head = table[d][s].head
               /\ \A c \in S \ {Root} : up'[c] = up[c]
               /\ Owned(S) => Owned(S)'
    <3>1. at \notin S /\ S \subseteq DirIds
      BY <2>3, <2>9
    <3>2. \A d \in S : table'[d] = table[d]
      BY <2>4, <3>1
    <3>3. \A c \in S \ {Root} : c \in Cluster
      BY <3>1, ClusterFacts DEF Root
    <3>4. Owned(S) => Owned(S)'
      BY <2>2, <2>8, <3>1 DEF Owned
    <3>5. \A d \in S, s \in Slots : IsDirEntry(d, s)' <=> IsDirEntry(d, s)
      BY <3>2 DEF IsDirEntry, Used
    <3> QED BY <2>4, <3>1, <3>2, <3>3, <3>4, <3>5
  <2> QED BY <2>6, <2>7, <2>9, TreeSame
<1>3. QED BY <1>1, <1>2 DEF WriteChunk

(* The store by offset hits the entry of the handle and no other handle's. *)
LEMMA TreeWriteLeave ==
  ASSUME TypesOK, Apart, TreeInv, NEW r, WriteLeave(r)
  PROVE  TreeInv'
<1> DEFINE h == call.h
           f == handles[h]
           P == f.parent
           o == f.off
<1>1. h \in Handle /\ f \in HandleRec /\ f.open /\ P \in DirIds /\ o \in Slots
  BY DEF TypesOK, WriteLeave, CallRec, HandleRec, Apart, WriteOK
<1>2. PICK n : n = NewSize(f)
  OBVIOUS
<1>3. /\ \A g \in Handle :
            /\ handles'[g].open = handles[g].open /\ handles'[g].parent = handles[g].parent
            /\ handles'[g].off = handles[g].off /\ handles'[g].head = handles[g].head
            /\ handles'[g].size = IF g = h THEN n ELSE handles[g].size
            /\ handles[g].parent \in DirIds /\ handles[g].off \in Slots
      /\ up' = up
  BY <1>1, <1>2 DEF WriteLeave, TypesOK, HandleRec
<1>4. table' = [table EXCEPT ![P][o].head = f.head, ![P][o].size = n]
  BY <1>2 DEF WriteLeave
<1>5. OneEach'
  BY <1>3 DEF TreeInv, OneEach
<1>6. ~ IsDirEntry(P, o)
  BY <1>1 DEF TreeInv, OpenFiles
<1> HIDE DEF P, o
<1>7. \A d \in DirIds, s \in Slots : ~ (d = P /\ s = o) => table'[d][s] = table[d][s]
  BY <1>1, <1>4 DEF TypesOK
<1>8. /\ table'[P][o].st = table[P][o].st /\ table'[P][o].dir = table[P][o].dir
      /\ table'[P][o].head = f.head /\ table'[P][o].size = n
  <2>1. table'[P][o] = [table[P][o] EXCEPT !.head = f.head, !.size = n]
    BY <1>1, <1>4 DEF TypesOK
  <2>2. table[P][o] \in Dirent
    BY <1>1, EntryType
  <2> QED BY <2>1, <2>2 DEF Dirent
<1>9. \A d \in DirIds, s \in Slots :
        /\ IsDirEntry(d, s)' <=> IsDirEntry(d, s)
        /\ IsDirEntry(d, s) => table'[d][s].head = table[d][s].head
  BY <1>6, <1>7, <1>8 DEF IsDirEntry, Used
<1>10. OpenFiles'
  BY <1>3, <1>9 DEF TreeInv, OpenFiles
<1>11. ASSUME NEW g \in Handle, handles[g].open, Agrees(g)
       PROVE  Agrees(g)'
  <2>1. CASE g = h
    <3>1. /\ table[P][o].st = "used" /\ ~ table[P][o].dir
      BY <1>11, <2>1 DEF Agrees, P, o
    <3>2. handles'[g].parent = P /\ handles'[g].off = o
      BY <1>3, <2>1 DEF P, o
    <3>3. handles'[g].head = f.head /\ handles'[g].size = n
      BY <1>3, <2>1
    <3> QED BY <1>8, <3>1, <3>2, <3>3 DEF Agrees
  <2>2. CASE g # h
    <3>1. ~ (handles[g].parent = P /\ handles[g].off = o)
      BY <1>1, <1>11, <2>2 DEF TreeInv, OneEach, P, o
    <3>2. table'[handles[g].parent][handles[g].off] = table[handles[g].parent][handles[g].off]
      BY <1>3, <1>7, <3>1
    <3> QED BY <1>3, <1>11, <2>2, <3>2, SMTT(30) DEF Agrees
  <2> QED BY <2>1, <2>2
<1>12. \A S : Owned(S) => Owned(S)'
  BY <1>3, <1>11 DEF Owned
<1>13. QED BY <1>3, <1>5, <1>9, <1>10, <1>12, TreeSame DEF Live

(* fs_rmdir takes a directory without entries out of the tree. *)
LEMMA TreeRmdir ==
  ASSUME TypesOK, Apart, Orderly, TreeInv, NEW p \in Paths, NEW r, NoneOpen, Rmdir(p, r)
  PROVE  TreeInv'
<1>1. CASE /\ CanRmdir(p)
           /\ MarkDeleted(Parent(p), LeafSlot(p))
           /\ UNCHANGED <<up, cwd, handles, call>>
  <2>0. PICK P, o, c : P = Parent(p) /\ o = LeafSlot(p) /\ c = LeafEntry(p).head
    OBVIOUS
  <2>1. /\ P \in DirIds /\ o \in Slots /\ IsDirEntry(P, o) /\ table[P][o].head = c
        /\ Readable(c) /\ c \in Cluster /\ c # Root /\ c # 0
    BY <1>1, <2>0, LeafFoundFacts, ClusterFacts DEF CanRmdir, IsDirEntry, IsEmptyDir, Readable, Root
  <2>2. \A s \in Slots : ~ Used(c, s)
    <3> SUFFICES ASSUME NEW s \in Slots, Used(c, s) PROVE FALSE
      OBVIOUS
    <3>1. PICK t \in 1 .. s - 1 : table[c][t].st = "end"
      BY <1>1, <2>0 DEF CanRmdir, IsEmptyDir
    <3>2. t \in Slots /\ t < s
      BY ConstAssumption DEF Slots
    <3>3. c \in DirIds
      BY <2>1, ClusterFacts
    <3>4. table[c][s].st = "end"
      BY <3>1, <3>2, <3>3 DEF Orderly
    <3> QED BY <3>4 DEF Used
  <2>3. /\ \A d \in DirIds, t \in Slots :
              ~ (d = P /\ t = o) => table'[d][t] = table[d][t]
        /\ table'[P][o].st = "del"
    BY <1>1, <2>0, <2>1 DEF TypesOK, MarkDeleted, DeletedEntry, EndEntry
  <2>4. OpenFiles' /\ OneEach' /\ \A S : Owned(S)'
    BY <1>1 DEF NoneOpen, OpenFiles, OneEach, Owned
  <2>5. PICK S : Live(S)
    BY DEF TreeInv
  <2> DEFINE T == S \ {c}
  <2>6. T \in SUBSET DirIds /\ Root \in T /\ T \subseteq S /\ c \notin T
    BY <2>1, <2>5 DEF Live
  <2>7. ASSUME NEW d \in T, NEW t \in Slots, IsDirEntry(d, t)'
        PROVE  /\ table'[d][t].head \in T /\ Readable(table'[d][t].head)
               /\ up'[table'[d][t].head] = d
    <3>1. ~ (d = P /\ t = o) /\ d \in DirIds
      BY <2>3, <2>6, <2>7 DEF IsDirEntry, Used
    <3>2. table'[d][t] = table[d][t]
      BY <2>3, <3>1
    <3>3. IsDirEntry(d, t)
      BY <2>7, <3>2 DEF IsDirEntry, Used
    <3>4. /\ table[d][t].head \in S /\ Readable(table[d][t].head)
          /\ up[table[d][t].head] = d
      BY <2>5, <2>6, <3>3 DEF Live
    <3>5. table[d][t].head # c
      BY <2>1, <3>1, <3>3 DEF Apart, EntriesOK, IsDirEntry
    <3> QED BY <1>1, <3>2, <3>4, <3>5
  <2>8. ASSUME NEW x \in T \ {Root}
        PROVE  \E d \in T, t \in Slots : IsDirEntry(d, t)' /\ table'[d][t].head = x
    <3>1. x \in S \ {Root} /\ x # c
      BY <2>6
    <3>2. PICK d \in S, t \in Slots : IsDirEntry(d, t) /\ table[d][t].head = x
      BY <2>5, <3>1 DEF Live
    <3>3. d # c /\ d \in DirIds
      BY <2>2, <2>5, <3>2 DEF IsDirEntry, Live
    <3>4. table'[d][t] = table[d][t]
      BY <2>1, <2>3, <3>1, <3>2, <3>3
    <3>5. IsDirEntry(d, t)'
      BY <3>2, <3>4 DEF IsDirEntry, Used
    <3> QED BY <3>2, <3>3, <3>4, <3>5
  <2>9. Live(T)'
    <3> HIDE DEF T
    <3> QED BY <2>6, <2>7, <2>8 DEF Live, Readable
  <2> QED BY <2>4, <2>9 DEF TreeInv
<1>2. CASE Fails(r)
  BY <1>2, TreeStutter DEF Fails, vars
<1>3. QED BY <1>1, <1>2 DEF Rmdir

(* fs_mkdir clears the cluster it took, and the directory it makes an      *)
(* entry for joins the tree when its parent is in it.                      *)
LEMMA TreeMkdir ==
  ASSUME TypesOK, Apart, TreeInv, NEW p \in Paths, NEW r, NoneOpen, Mkdir(p, r)
  PROVE  TreeInv'
<1>1. ASSUME CanCreate(p), NEW c \in AllocChoice, Readable(c), MkdirInto(p, c, r),
             UNCHANGED <<cwd, handles, call>>
      PROVE  TreeInv'
  <2>0. PICK P : P = Parent(p)
    OBVIOUS
  <2> DEFINE fresh == [table EXCEPT ![c] = EmptyTable]
  <2>1. c \in Cluster /\ c \in DirIds /\ fat[c] = FreeCl /\ P \in DirIds /\ c # Root
    BY <1>1, <2>0, ParentType, ClusterFacts DEF AllocChoice, CanCreate, Root
  <2>2. OpenFiles' /\ OneEach' /\ \A S : Owned(S)'
    BY <1>1 DEF NoneOpen, OpenFiles, OneEach, Owned
  <2>3. up' = [up EXCEPT ![c] = P]
    BY <1>1, <2>0 DEF MkdirInto, NewUp
  <2>4. /\ fresh \in [DirIds -> [Slots -> Dirent]]
        /\ \A d \in DirIds : d # c => fresh[d] = table[d]
        /\ \A s \in Slots : fresh[c][s].st = "end"
    BY <2>1, RecordTypes DEF TypesOK, EmptyTable, EndEntry
  <2>5. \/ table' = fresh
        \/ \E s \in Slots : /\ fresh[P][s].st # "used"
                            /\ table' = [fresh EXCEPT ![P][s] = NewEntry(p.leaf, TRUE, c)]
    BY <1>1, <2>0 DEF MkdirInto, AddSlots
  <2> HIDE DEF fresh
  <2>6. PICK S : Live(S)
    BY DEF TreeInv
  <2>7. c \notin S /\ S \subseteq DirIds
    BY <2>1, <2>6, LiveHead DEF IsHead, Live
  <2>8. \A x \in S \ {Root} : up'[x] = up[x]
    BY <2>1, <2>3, <2>7, ClusterFacts DEF TypesOK, Root
  <2>9. \A d \in S : fresh[d] = table[d]
    BY <2>4, <2>7
  <2>10. CASE table' = fresh
    <3>1. Live(S)'
      <4>1. \A d \in S, s \in Slots :
              /\ IsDirEntry(d, s)' <=> IsDirEntry(d, s)
              /\ IsDirEntry(d, s) => table'[d][s].head = table[d][s].head
        BY <2>9, <2>10 DEF IsDirEntry, Used
      <4> QED BY <2>6, <2>8, <4>1, LiveSame
    <3> QED BY <2>2, <3>1 DEF TreeInv
  <2>11. ASSUME NEW k \in Slots, fresh[P][k].st # "used",
                table' = [fresh EXCEPT ![P][k] = NewEntry(p.leaf, TRUE, c)]
         PROVE  TreeInv'
    <3>1. /\ \A d \in DirIds, s \in Slots :
               ~ (d = P /\ s = k) => table'[d][s] = fresh[d][s]
          /\ IsDirEntry(P, k)' /\ table'[P][k].head = c
      <4>1. table'[P][k] = NewEntry(p.leaf, TRUE, c)
        BY <2>1, <2>4, <2>11
      <4>2. \A d \in DirIds, s \in Slots :
              ~ (d = P /\ s = k) => table'[d][s] = fresh[d][s]
        BY <2>1, <2>4, <2>11
      <4> QED BY <4>1, <4>2 DEF NewEntry, IsDirEntry, Used
    <3>2. CASE P \notin S
      <4>1. \A d \in S, s \in Slots : table'[d][s] = table[d][s]
        BY <2>7, <2>9, <3>1, <3>2
      <4>2. \A d \in S, s \in Slots :
              /\ IsDirEntry(d, s)' <=> IsDirEntry(d, s)
              /\ IsDirEntry(d, s) => table'[d][s].head = table[d][s].head
        BY <4>1 DEF IsDirEntry, Used
      <4>3. Live(S)'
        BY <2>6, <2>8, <4>2, LiveSame
      <4> QED BY <2>2, <4>3 DEF TreeInv
    <3>3. CASE P \in S
      <4> DEFINE T == S \cup {c}
      <4>1. T \in SUBSET DirIds /\ Root \in T /\ S \subseteq T /\ c \in T /\ P \in T /\ P # c
        BY <2>1, <2>6, <2>7, <3>3 DEF Live
      <4>2. ASSUME NEW d \in T, NEW s \in Slots, IsDirEntry(d, s)'
            PROVE  /\ table'[d][s].head \in T /\ Readable(table'[d][s].head)
                   /\ up'[table'[d][s].head] = d
        <5>1. CASE d = P /\ s = k
          <6>1. up'[c] = P
            BY <2>1, <2>3 DEF TypesOK
          <6> QED BY <1>1, <3>1, <4>1, <5>1, <6>1
        <5>2. CASE ~ (d = P /\ s = k)
          <6>1. table'[d][s] = fresh[d][s]
            BY <3>1, <4>1, <5>2
          <6>2. d # c
            BY <2>4, <4>2, <6>1 DEF IsDirEntry, Used
          <6>3. d \in S /\ table'[d][s] = table[d][s]
            BY <2>9, <6>1, <6>2
          <6>4. IsDirEntry(d, s)
            BY <4>2, <6>3 DEF IsDirEntry, Used
          <6>5. /\ table[d][s].head \in S /\ Readable(table[d][s].head)
                /\ up[table[d][s].head] = d
            BY <2>6, <6>3, <6>4 DEF Live
          <6>6. table[d][s].head # Root
            BY <6>5, ClusterFacts DEF Readable, Root
          <6> QED BY <2>8, <4>1, <6>3, <6>5, <6>6
        <5> QED BY <5>1, <5>2
      <4>3. ASSUME NEW x \in T \ {Root}
            PROVE  \E d \in T, s \in Slots : IsDirEntry(d, s)' /\ table'[d][s].head = x
        <5>1. CASE x = c
          <6>1. P \in T /\ k \in Slots /\ IsDirEntry(P, k)' /\ table'[P][k].head = x
            BY <3>1, <4>1, <5>1
          <6> QED BY <6>1
        <5>2. CASE x # c
          <6>1. PICK d \in S, s \in Slots : IsDirEntry(d, s) /\ table[d][s].head = x
            BY <2>6, <5>2 DEF Live
          <6>2. ~ (d = P /\ s = k)
            BY <2>9, <2>11, <6>1 DEF IsDirEntry, Used
          <6>3. table'[d][s] = table[d][s]
            BY <2>7, <2>9, <3>1, <6>2
          <6>4. IsDirEntry(d, s)'
            BY <6>1, <6>3 DEF IsDirEntry, Used
          <6> QED BY <4>1, <6>1, <6>3, <6>4
        <5> QED BY <5>1, <5>2
      <4>4. Live(T)'
        <5> HIDE DEF T
        <5> QED BY <4>1, <4>2, <4>3 DEF Live, Readable
      <4> QED BY <2>2, <4>4 DEF TreeInv
    <3> QED BY <3>2, <3>3
  <2> QED BY <2>5, <2>10, <2>11
<1>2. CASE UNCHANGED <<table, up, cwd, handles, call>>
  BY <1>2, TreeStutter
<1>3. CASE Fails(r)
  BY <1>3, TreeStutter DEF Fails, vars
<1>4. QED BY <1>1, <1>2, <1>3 DEF Mkdir

LEMMA TreeInit == Init => TreeInv
<1> SUFFICES ASSUME Init PROVE TreeInv
  OBVIOUS
<1>1. \A d \in DirIds, s \in Slots : ~ IsDirEntry(d, s)
  BY DEF Init, IsDirEntry, Used, EmptyTable, EndEntry
<1>2. \A h \in Handle : ~ handles[h].open
  BY DEF Init, ClosedHandle
<1>3. Live({Root})
  <2> DEFINE S == {Root}
  <2>1. S \in SUBSET DirIds /\ Root \in S /\ S \ {Root} = {}
    BY ClusterFacts
  <2> HIDE DEF S
  <2>2. Live(S)
    BY <1>1, <2>1 DEF Live
  <2> QED BY <2>2 DEF S
<1>4. QED BY <1>2, <1>3 DEF TreeInv, OpenFiles, OneEach, Owned

LEMMA TreeNext ==
  ASSUME TypesOK, Apart, Orderly, SizeInv, TreeInv, [Calls]_vars
  PROVE  TreeInv'
<1>1. CASE WriteHop
  BY <1>1, TreeWriteHop
<1>2. CASE WriteChunk
  BY <1>2, TreeWriteChunk
<1>3. ASSUME NEW r \in Results, WriteLeave(r)
      PROVE  TreeInv'
  BY <1>3, TreeWriteLeave
<1>4. ASSUME NEW r \in Results, NEW p \in Paths, DirCall(p, r)
      PROVE  TreeInv'
  <2>1. NoneOpen
    BY <1>4 DEF DirCall
  <2>2. CASE Chdir(p, r)
    <3>1. UNCHANGED <<table, up, handles>>
      BY <2>2 DEF Chdir, Fails, vars
    <3> QED BY <3>1, TreeStutter
  <2>3. CASE Mkdir(p, r)
    BY <2>1, <2>3, TreeMkdir
  <2>4. CASE Rmdir(p, r)
    BY <2>1, <2>4, TreeRmdir
  <2>5. ASSUME NEW q \in Paths, Rename(p, q, r)
        PROVE  TreeInv'
    BY <2>5, TreeRename
  <2> QED BY <1>4, <2>2, <2>3, <2>4, <2>5 DEF DirCall
<1>5. ASSUME NEW r \in Results, NEW p \in Paths, FileCall(p, r)
      PROVE  TreeInv'
  BY <1>5, TreeCreate, TreeUnlink, TreeOpen DEF FileCall
<1>6. ASSUME NEW r \in Results, NEW h \in Handle, HandleCall(h, r)
      PROVE  TreeInv'
  BY <1>6, TreeHandleCall DEF HandleCall
<1>7. CASE UNCHANGED vars
  BY <1>7, TreeStutter DEF vars
<1>8. QED BY <1>1, <1>2, <1>3, <1>4, <1>5, <1>6, <1>7 DEF Calls

LEMMA TreeReachable == Spec => [](~ astray => IInv /\ SizeInv /\ TreeInv)
<1> DEFINE J == IInv /\ SizeInv /\ TreeInv
<1>1. Init => J
  BY InitIInv, SizesInit, TreeInit
<1>2. J /\ Orderly /\ [Calls]_vars => J'
  <2> SUFFICES ASSUME J, Orderly, [Calls]_vars PROVE J'
    OBVIOUS
  <2>1. IInv'
    BY NextIInv
  <2>2. TypesOK /\ Apart /\ TypesOK'
    BY <2>1 DEF IInv
  <2> QED BY <2>1, <2>2, SizesNext, TreeNext
<1> HIDE DEF J
<1>3. Spec => [](~ astray => Orderly)
  BY TablesSound DEF TablesOK
<1>4. Spec => [](~ astray => J)
  BY <1>1, <1>2, <1>3, OnlyCalls, PTL DEF Spec
<1>5. QED BY <1>4 DEF J

(* A path from the root only ever leads to readable directories, and ".."  *)
(* in each of them leads back to the directory that holds it: the ".."     *)
(* entry fs_mkdir writes outlives renames, removals, the reuse of clusters *)
(* and every fs_write to other chains.                                     *)
THEOREM DotDotSound == Spec => []DotDotOK
<1>1. TreeInv => UpsTrue
  <2> SUFFICES ASSUME TreeInv PROVE UpsTrue
    OBVIOUS
  <2>1. PICK S : Live(S)
    BY DEF TreeInv
  <2>2. Tree \subseteq S
    BY <2>1, TreeInLive
  <2> QED BY <2>1, <2>2 DEF UpsTrue, Live, IsDirEntry
<1>2. Spec => [](~ astray => UpsTrue)
  BY <1>1, TreeReachable, PTL
<1>3. QED BY <1>2, PTL DEF DotDotOK

(* Between calls a handle and the entry it was opened on agree on first    *)
(* cluster and size, as long as the file's directory is in the tree: the   *)
(* store of fs_write by slot number never lands on another file's entry.   *)
THEOREM HandlesCoherent == Spec => []HandleCoherent
<1>1. TreeInv => Coherent
  <2> SUFFICES ASSUME TreeInv PROVE Coherent
    OBVIOUS
  <2>1. PICK S : Live(S) /\ Owned(S)
    BY DEF TreeInv
  <2>2. Tree \subseteq S
    BY <2>1, TreeInLive
  <2> QED BY <2>1, <2>2 DEF Coherent, Owned, Agrees
<1>2. Spec => [](~ astray => Coherent)
  BY <1>1, TreeReachable, PTL
<1>3. QED BY <1>2, PTL DEF HandleCoherent

-----------------------------------------------------------------------------
(* The chains of the files a call is not about. *)

LEMMA ChainClosed ==
  ASSUME NEW c
  PROVE  \A x \in ChainOf(c) : fat[x] \in Cluster => fat[x] \in ChainOf(c)
<1> SUFFICES ASSUME NEW x \in ChainOf(c), fat[x] \in Cluster,
                    NEW S \in SUBSET Cluster, c \in S, Closed(S)
             PROVE  fat[x] \in S
  BY DEF ChainOf
<1>1. x \in S
  BY DEF ChainOf
<1>2. QED BY <1>1 DEF Closed

LEMMA ChainKept ==
  ASSUME NEW c \in Cluster, \A x \in ChainOf(c) : fat'[x] = fat[x]
  PROVE  ChainOf(c)' = ChainOf(c)
<1>1. ASSUME NEW x \in Cluster,
             \A S \in SUBSET Cluster : (c \in S /\ Closed(S)) => x \in S,
             NEW S \in SUBSET Cluster, c \in S, Closed(S)'
      PROVE  x \in S
  <2> DEFINE T == S \cap ChainOf(c)
  <2>1. T \in SUBSET Cluster /\ c \in T
    BY <1>1, ChainHasHead
  <2>2. Closed(T)
    BY <1>1, ChainClosed DEF Closed
  <2> HIDE DEF T
  <2>3. x \in T
    BY <1>1, <2>1, <2>2
  <2> QED BY <2>3 DEF T
<1>2. PICK C : C = ChainOf(c)
  OBVIOUS
<1>3. C \in SUBSET Cluster /\ c \in C /\ Closed(C)'
  BY <1>2, ChainClosed, ChainInCluster, ChainHasHead DEF Closed
<1>4. ASSUME NEW x \in Cluster,
             \A S \in SUBSET Cluster : (c \in S /\ Closed(S)') => x \in S
      PROVE  x \in C
  BY <1>3, <1>4
<1>5. \A x : x \in ChainOf(c)' <=> x \in ChainOf(c)
  BY <1>1, <1>2, <1>4 DEF ChainOf
<1>6. QED BY <1>5

LEMMA ChainsDisjoint ==
  ASSUME ChainsOK, NEW c, NEW g, IsHead(c), IsHead(g), c # g
  PROVE  \A x \in ChainOf(c) : x \notin ChainOf(g)
<1> DEFINE T == ChainOf(c) \ ChainOf(g)
<1>1. T \in SUBSET Cluster /\ c \in T
  BY ChainHasHead, ChainInCluster, ChainIsolated DEF IsHead
<1>2. Closed(T)
  <2> SUFFICES ASSUME NEW y \in T, fat[y] \in Cluster
               PROVE  fat[y] \in T
    BY DEF Closed
  <2>1. fat[y] \in ChainOf(c)
    BY ChainClosed
  <2>2. y \in Cluster /\ y \notin ChainOf(g)
    BY <1>1
  <2>3. fat[y] \notin ChainOf(g)
    BY <2>2, ChainIsolated
  <2> QED BY <2>1, <2>3
<1>3. \A x \in ChainOf(c) : x \in T
  <2> HIDE DEF T
  <2> QED BY <1>1, <1>2 DEF ChainOf
<1>4. QED BY <1>3

LEMMA ChainAllocated ==
  ASSUME ChainsOK, NEW c \in Cluster, fat[c] # FreeCl
  PROVE  \A x \in ChainOf(c) : fat[x] # FreeCl
<1> DEFINE T == {x \in Cluster : fat[x] # FreeCl}
<1>1. T \in SUBSET Cluster /\ c \in T /\ Closed(T)
  BY DEF Closed, ChainsOK
<1> HIDE DEF T
<1>2. \A x \in ChainOf(c) : x \in T
  BY <1>1 DEF ChainOf
<1>3. QED BY <1>2 DEF T

(* No step changes a link in the chain of an entry that stays and that no  *)
(* open handle was opened on.                                              *)
LEMMA StepChain ==
  ASSUME TypesOK, Apart, SizeInv, TreeInv, Calls,
         NEW d \in DirIds, NEW s \in Slots, Used(d, s), Used(d, s)',
         NEW c, c = table[d][s].head, c # 0, ~ OpenedOn(d, s)
  PROVE  \A x \in ChainOf(c) : fat'[x] = fat[x]
<1>1. IsHead(c) /\ c \in Cluster /\ fat[c] # FreeCl /\ ChainsOK
  BY DEF Apart, EntriesOK, IsHead
<1>2. \A x \in ChainOf(c) : x \in Cluster /\ fat[x] # FreeCl
  BY <1>1, ChainAllocated, ChainInCluster
<1>3. CASE UNCHANGED fat
  BY <1>3
<1>4. ASSUME NEW e \in DirIds, NEW t \in Slots, Used(e, t), ~ Used(e, t)',
             FreeChain(table[e][t].head), table[e][t].head # 0
      PROVE  \A x \in ChainOf(c) : fat'[x] = fat[x]
  <2> DEFINE g == table[e][t].head
  <2>1. IsHead(g) /\ g # c
    BY <1>4 DEF Apart, EntriesOK
  <2>2. \A x \in ChainOf(c) : x \notin ChainOf(g)
    BY <1>1, <2>1, ChainsDisjoint
  <2> QED BY <1>2, <1>4, <2>2 DEF FreeChain
<1>5. ASSUME NEW a \in AllocChoice, fat' = [fat EXCEPT ![a] = Eof]
      PROVE  \A x \in ChainOf(c) : fat'[x] = fat[x]
  BY <1>2, <1>5 DEF AllocChoice, TypesOK
<1>6. CASE WriteHop
  <2>1. ASSUME NEW a \in AllocChoice, fat' = [fat EXCEPT ![call.at] = a, ![a] = Eof]
        PROVE  \A x \in ChainOf(c) : fat'[x] = fat[x]
    <3> DEFINE h == call.h
               head == handles[h].head
    <3>1. PICK S : Live(S)
      BY DEF TreeInv
    <3>2. call.at \in ChainOf(head)
      BY <1>6, <3>1, WriteOutsideTree DEF WriteHop, TreeInv
    <3>3. h \in Handle /\ handles[h].open /\ head # 0
      BY <1>6 DEF TypesOK, CallRec, WriteHop, Apart, WriteOK
    <3>4. IsHead(head) /\ head # c
      BY <3>3 DEF Apart, HandlesOK, OpenedOn
    <3>5. call.at \notin ChainOf(c)
      BY <1>1, <3>2, <3>4, ChainsDisjoint
    <3> QED BY <1>2, <2>1, <3>5 DEF AllocChoice, TypesOK
  <2> QED BY <1>3, <1>6, <2>1 DEF WriteHop, FollowLink
<1>7. CASE WriteChunk \/ \E r \in Results : WriteLeave(r)
  BY <1>3, <1>7 DEF WriteChunk, WriteLeave
<1>8. ASSUME NEW p \in Paths, NEW r, DirCall(p, r) \/ FileCall(p, r)
      PROVE  \A x \in ChainOf(c) : fat'[x] = fat[x]
  <2>1. CASE Unlink(p, r) \/ Rmdir(p, r)
    <3>1. CASE Fails(r)
      BY <1>3, <3>1 DEF Fails, vars
    <3>2. CASE /\ LeafFound(p) /\ MarkDeleted(Parent(p), LeafSlot(p))
               /\ IF LeafEntry(p).head # 0 THEN FreeChain(LeafEntry(p).head) ELSE UNCHANGED fat
      <4>1. PICK e, t : e = Parent(p) /\ t = LeafSlot(p)
        OBVIOUS
      <4>2. /\ e \in DirIds /\ t \in Slots /\ Used(e, t) /\ LeafEntry(p) = table[e][t]
        BY <3>2, <4>1, LeafFoundFacts
      <4>3. ~ Used(e, t)'
        BY <3>2, <4>1, <4>2 DEF MarkDeleted, DeletedEntry, EndEntry, Used, TypesOK
      <4> QED BY <1>3, <1>4, <3>2, <4>2, <4>3
    <3>3. Rmdir(p, r) /\ ~ Fails(r) => LeafEntry(p).head # 0
      BY ClusterFacts DEF Rmdir, CanRmdir, IsEmptyDir, Readable
    <3> QED BY <2>1, <3>1, <3>2, <3>3 DEF Unlink, Rmdir, IsFile, CanRmdir
  <2>2. CASE Mkdir(p, r)
    BY <1>3, <1>5, <2>2 DEF Mkdir, Fails, vars
  <2>3. CASE Chdir(p, r) \/ (\E q \in Paths : Rename(p, q, r)) \/ Create(p, r) \/ Open(p, r)
    BY <1>3, <2>3 DEF Chdir, Rename, Create, Open, Fails, vars
  <2> QED BY <1>8, <2>1, <2>2, <2>3 DEF DirCall, FileCall
<1>9. ASSUME NEW h \in Handle, NEW r, HandleCall(h, r)
      PROVE  \A x \in ChainOf(c) : fat'[x] = fat[x]
  BY <1>3, <1>5, <1>9 DEF HandleCall, Close, Read, WriteEnter
<1>10. QED BY <1>6, <1>7, <1>8, <1>9 DEF Calls

(* Nor its first cluster, for an entry of a directory in the tree. *)
LEMMA StepHead ==
  ASSUME TypesOK, Apart, SizeInv, TreeInv, Calls,
         NEW S, Live(S), NEW d \in S, NEW s \in Slots, Used(d, s), Used(d, s)', ~ OpenedOn(d, s)
  PROVE  table'[d][s].head = table[d][s].head
<1>1. d \in DirIds
  BY DEF Live
<1>2. CASE UNCHANGED table
  BY <1>2
<1>3. CASE WriteChunk
  <2>1. ASSUME table' = [table EXCEPT ![call.at] = EmptyTable]
        PROVE  table'[d][s].head = table[d][s].head
    BY <1>1, <2>1 DEF TypesOK, EmptyTable, EndEntry, Used
  <2> QED BY <1>2, <1>3, <2>1 DEF WriteChunk
<1>4. ASSUME NEW r, WriteLeave(r)
      PROVE  table'[d][s].head = table[d][s].head
  <2> DEFINE f == handles[call.h]
  <2>1. /\ call.h \in Handle /\ f.open /\ f.parent \in DirIds /\ f.off \in Slots
    BY <1>4 DEF TypesOK, WriteLeave, CallRec, HandleRec, Apart, WriteOK
  <2>2. ~ (d = f.parent /\ s = f.off)
    BY <2>1 DEF OpenedOn
  <2>3. \E e, n : table' = [table EXCEPT ![f.parent][f.off].head = e, ![f.parent][f.off].size = n]
    BY <1>4 DEF WriteLeave
  <2> HIDE DEF f
  <2> QED BY <1>1, <2>1, <2>2, <2>3 DEF TypesOK
<1>5. ASSUME NEW p \in Paths, NEW r, DirCall(p, r) \/ FileCall(p, r)
      PROVE  table'[d][s].head = table[d][s].head
  <2>1. CASE Create(p, r)
    <3>1. ASSUME NEW k \in CreateSlots(p),
                 table' = [table EXCEPT ![Parent(p)][k] = NewEntry(p.leaf, FALSE, 0)]
          PROVE  table'[d][s].head = table[d][s].head
      <4>1. k \in Slots /\ Parent(p) \in DirIds /\ ~ Used(Parent(p), k)
        BY <3>1, ParentType DEF CreateSlots, AddSlots, CanCreate, Used
      <4> QED BY <1>1, <3>1, <4>1 DEF TypesOK
    <3> QED BY <1>2, <2>1, <3>1 DEF Create, Fails, vars
  <2>2. CASE Unlink(p, r) \/ Rmdir(p, r)
    <3>1. CASE LeafFound(p) /\ MarkDeleted(Parent(p), LeafSlot(p))
      BY <1>1, <3>1, LeafFoundFacts DEF MarkDeleted, DeletedEntry, EndEntry, Used, TypesOK
    <3> QED BY <1>2, <2>2, <3>1 DEF Unlink, Rmdir, IsFile, CanRmdir, Fails, vars
  <2>3. CASE Mkdir(p, r)
    <3>1. ASSUME CanCreate(p), NEW c \in AllocChoice, MkdirInto(p, c, r)
          PROVE  table'[d][s].head = table[d][s].head
      <4>1. c \in Cluster /\ fat[c] = FreeCl /\ c # Root /\ Parent(p) \in DirIds
        BY <3>1, ParentType, ClusterFacts DEF AllocChoice, CanCreate, Root
      <4>2. d # c
        BY <4>1, LiveHead DEF IsHead
      <4>3. PICK k \in Slots : \A e \in DirIds, t \in Slots : Used(e, t)' =>
              \/ /\ e = Parent(p) /\ t = k /\ table'[e][t] = NewEntry(p.leaf, TRUE, c)
                 /\ e = c \/ ~ Used(e, t)
              \/ e # c /\ Used(e, t) /\ table'[e][t] = table[e][t]
        <5>1. MkdirInto(p, c, r) /\ c \in Cluster /\ Parent(p) \in DirIds /\ TypesOK
          BY <3>1, <4>1
        <5>2. OneMade(p, c)
          BY <5>1, MkdirTable
        <5> QED BY <5>2 DEF OneMade
      <4> QED BY <1>1, <4>2, <4>3
    <3> QED BY <1>2, <2>3, <3>1 DEF Mkdir, Fails, vars
  <2>4. ASSUME NEW q \in Paths, Rename(p, q, r)
        PROVE  table'[d][s].head = table[d][s].head
    <3>1. CASE /\ LeafFound(p)
               /\ table' = [table EXCEPT ![Parent(p)][LeafSlot(p)].name = q.leaf]
      <4>1. Parent(p) \in DirIds /\ LeafSlot(p) \in Slots
        BY <3>1, LeafFoundFacts
      <4> QED BY <1>1, <3>1, <4>1 DEF TypesOK, Dirent
    <3> QED BY <1>2, <2>4, <3>1 DEF Rename, CanRename, Fails, vars
  <2>5. CASE Chdir(p, r) \/ Open(p, r)
    BY <1>2, <2>5 DEF Chdir, Open, Fails, vars
  <2> QED BY <1>5, <2>1, <2>2, <2>3, <2>4, <2>5 DEF DirCall, FileCall
<1>6. ASSUME NEW h \in Handle, NEW r, HandleCall(h, r)
      PROVE  table'[d][s].head = table[d][s].head
  BY <1>2, <1>6 DEF HandleCall, Close, Read, WriteEnter
<1>7. CASE WriteHop
  BY <1>2, <1>7 DEF WriteHop
<1>8. QED BY <1>3, <1>4, <1>5, <1>6, <1>7 DEF Calls

(* No call changes the clusters of a file it is not about: whatever is     *)
(* written, appended to, created or deleted, every other entry of the tree *)
(* keeps its first cluster and its whole chain.                            *)
THEOREM OthersUntouched == Spec => OtherFilesKept
<1> DEFINE Keeps ==
      \A d \in Tree : \A s \in Slots :
        (Used(d, s) /\ Used(d, s)' /\ table[d][s].head # 0 /\ ~ OpenedOn(d, s)) =>
          /\ table'[d][s].head = table[d][s].head
          /\ ChainOf(table[d][s].head)' = ChainOf(table[d][s].head)
<1>1. IInv /\ SizeInv /\ TreeInv /\ Calls => Keeps
  <2> SUFFICES ASSUME IInv, SizeInv, TreeInv, Calls,
                      NEW d \in Tree, NEW s \in Slots,
                      Used(d, s), Used(d, s)', table[d][s].head # 0, ~ OpenedOn(d, s)
               PROVE  /\ table'[d][s].head = table[d][s].head
                      /\ ChainOf(table[d][s].head)' = ChainOf(table[d][s].head)
    OBVIOUS
  <2>1. PICK S : Live(S)
    BY DEF TreeInv
  <2>2. d \in S /\ d \in DirIds /\ TypesOK /\ Apart
    BY <2>1, TreeInLive DEF Live, IInv
  <2>3. PICK c : c = table[d][s].head
    OBVIOUS
  <2>4. table'[d][s].head = c
    BY <2>1, <2>2, <2>3, StepHead
  <2>5. c \in Cluster
    BY <2>2, <2>3 DEF Apart, EntriesOK, IsHead
  <2>6. ChainOf(c)' = ChainOf(c)
    BY <2>2, <2>3, <2>5, StepChain, ChainKept
  <2> QED BY <2>3, <2>4, <2>6
<1> HIDE DEF Keeps
<1>2. (~ astray => IInv /\ SizeInv /\ TreeInv) /\ [Next]_vars => [~ astray' => Keeps]_vars
  BY <1>1, OnlyCalls
<1>3. Spec => [][~ astray' => Keeps]_vars
  BY <1>2, TreeReachable, PTL DEF Spec
<1>4. QED BY <1>3 DEF OtherFilesKept, Keeps

-----------------------------------------------------------------------------
(* What leads to a cluster.  Tree is the last of LastEntry steps from the  *)
(* root; as no set of directories grows that often, it is closed.          *)

Reached(f) ==
  /\ f[0] = {Root} /\ Tree = f[LastEntry]
  /\ \A i \in Nat : i < LastEntry => f[i + 1] = f[i] \cup UNION {DirHeads(d) : d \in f[i]}

LEMMA TreeReached == \E f : Reached(f)
<1> DEFINE N == LastEntry
<1>1. N \in Nat
  BY ConstAssumption
<1>2. Tree = (CHOOSE f : f = [i \in 0 .. N |-> IF i = 0 THEN {Root}
                               ELSE f[i - 1] \cup UNION {DirHeads(d) : d \in f[i - 1]}])[N]
  BY DEF Tree
<1>3. Tree = (CHOOSE f : Reach(f, N))[N]
  BY <1>2, Zenon DEF Reach
<1>4. PICK f : Reach(f, N) /\ Tree = f[N]
  BY <1>1, <1>3, ReachExists
<1>5. \A i \in 0 .. N :
        f[i] = IF i = 0 THEN {Root} ELSE f[i - 1] \cup UNION {DirHeads(d) : d \in f[i - 1]}
  BY <1>4, Zenon DEF Reach
<1>6. f[0] = {Root}
  <2>1. 0 \in 0 .. N
    BY <1>1
  <2> HIDE DEF N
  <2> QED BY <1>5, <2>1
<1>7. ASSUME NEW i \in Nat, i < N
      PROVE  f[i + 1] = f[i] \cup UNION {DirHeads(d) : d \in f[i]}
  <2>1. i + 1 \in 0 .. N /\ i + 1 # 0 /\ (i + 1) - 1 = i
    BY <1>1, <1>7
  <2> QED BY <1>5, <2>1
<1>8. QED BY <1>4, <1>6, <1>7 DEF Reached

LEMMA TreeReachedNext == (\E f : Reached(f))'
BY TreeReached, PTL

LEMMA ReachedGrows ==
  ASSUME NEW f, Reached(f)
  PROVE  \A i, j \in Nat : i <= j /\ j <= LastEntry => f[i] \subseteq f[j]
<1> SUFFICES ASSUME NEW i \in Nat
             PROVE  \A j \in Nat : i <= j /\ j <= LastEntry => f[i] \subseteq f[j]
  OBVIOUS
<1> DEFINE K == {j \in Nat : i <= j /\ j <= LastEntry => f[i] \subseteq f[j]}
<1>1. LastEntry \in Nat
  BY ConstAssumption
<1>2. 0 \in K
  <2>1. i <= 0 => i = 0
    OBVIOUS
  <2> QED BY <2>1
<1>3. ASSUME NEW j \in K
      PROVE  j + 1 \in K
  <2>1. CASE i <= j /\ j < LastEntry
    <3>1. f[j] \subseteq f[j + 1]
      BY <2>1 DEF Reached
    <3>2. f[i] \subseteq f[j]
      BY <1>1, <2>1
    <3> QED BY <3>1, <3>2
  <2>2. CASE ~ (i <= j /\ j < LastEntry)
    <3>1. i <= j + 1 /\ j + 1 <= LastEntry => i = j + 1
      BY <1>1, <2>2
    <3> QED BY <3>1
  <2> QED BY <2>1, <2>2
<1>4. K \in SUBSET Nat
  OBVIOUS
<1> HIDE DEF K
<1>5. \A j \in Nat : j \in K
  BY <1>2, <1>3, <1>4, Induction
<1>6. QED BY <1>5 DEF K

LEMMA ReachedInTree ==
  ASSUME NEW f, Reached(f)
  PROVE  \A i \in Nat : i <= LastEntry => f[i] \subseteq Tree
BY ReachedGrows, ConstAssumption DEF Reached

LEMMA TreeFacts ==
  ASSUME TypesOK
  PROVE  Root \in Tree /\ Tree \subseteq DirIds
<1>1. PICK f : Reached(f)
  BY TreeReached
<1>2. Root \in Tree
  BY <1>1, ReachedInTree, ConstAssumption DEF Reached
<1> DEFINE K == {i \in Nat : i <= LastEntry => f[i] \subseteq DirIds}
<1>3. 0 \in K
  BY <1>1, ClusterFacts DEF Reached
<1>4. ASSUME NEW i \in K
      PROVE  i + 1 \in K
  <2>1. CASE i + 1 <= LastEntry
    <3>1. i \in Nat /\ i < LastEntry /\ f[i] \subseteq DirIds
      BY <2>1, ConstAssumption
    <3>2. \A d \in DirIds : DirHeads(d) \subseteq DirIds
      BY EntryType DEF DirHeads
    <3> QED BY <1>1, <3>1, <3>2 DEF Reached
  <2>2. CASE ~ (i + 1 <= LastEntry)
    BY <2>2
  <2> QED BY <2>1, <2>2
<1>5. K \in SUBSET Nat
  OBVIOUS
<1> HIDE DEF K
<1>6. LastEntry \in K
  BY <1>3, <1>4, <1>5, Induction, ConstAssumption
<1>7. QED BY <1>1, <1>2, <1>6, ConstAssumption DEF K, Reached

LEMMA TreeClosed ==
  ASSUME TypesOK, NEW d \in Tree
  PROVE  DirHeads(d) \subseteq Tree
<1>1. PICK f : Reached(f)
  BY TreeReached
<1>2. LastEntry \in Nat /\ 2 <= LastEntry
  BY ConstAssumption
<1>3. IsFiniteSet(DirIds) /\ Cardinality(DirIds) = LastEntry
  <2>1. IsFiniteSet(2 .. LastEntry) /\ Cardinality(2 .. LastEntry) = LastEntry - 1
    BY <1>2, FS_Interval
  <2>2. Root \notin 2 .. LastEntry
    BY DEF Root
  <2>3. IsFiniteSet((2 .. LastEntry) \cup {Root})
        /\ Cardinality((2 .. LastEntry) \cup {Root}) = (LastEntry - 1) + 1
    BY <2>1, <2>2, FS_AddElement
  <2>4. DirIds = (2 .. LastEntry) \cup {Root}
    BY DEF DirIds, Cluster
  <2> QED BY <1>2, <2>3, <2>4
<1>4. \A i \in Nat : i <= LastEntry => f[i] \subseteq DirIds
  BY <1>1, ReachedInTree, TreeFacts
<1> DEFINE more(x) == x \cup UNION {DirHeads(e) : e \in x}
           K == {i \in Nat : i <= LastEntry =>
                   /\ IsFiniteSet(f[i])
                   /\ more(f[i]) \subseteq f[i] \/ Cardinality(f[i]) >= i + 1}
<1>5. \A i \in Nat : i < LastEntry => f[i + 1] = more(f[i])
  BY <1>1 DEF Reached
<1>6. \A i \in Nat : i <= LastEntry => IsFiniteSet(f[i]) /\ Cardinality(f[i]) \in Nat
                                       /\ Cardinality(f[i]) <= LastEntry
  BY <1>3, <1>4, FS_Subset, FS_CardinalityType
<1> HIDE DEF more
<1>7. 0 \in K
  <2>1. IsFiniteSet({Root}) /\ Cardinality({Root}) = 1
    BY FS_Singleton
  <2>2. IsFiniteSet(f[0]) /\ Cardinality(f[0]) = 1
    BY <1>1, <2>1 DEF Reached
  <2> QED BY <2>2
<1>8. ASSUME NEW i \in K
      PROVE  i + 1 \in K
  <2>1. CASE i + 1 <= LastEntry
    <3>1. i \in Nat /\ i < LastEntry /\ i <= LastEntry /\ f[i + 1] = more(f[i]) /\ f[i] \subseteq more(f[i])
      BY <1>2, <1>5, <2>1 DEF more
    <3>2. CASE more(f[i]) \subseteq f[i]
      BY <1>6, <2>1, <3>1, <3>2
    <3>3. CASE ~ (more(f[i]) \subseteq f[i])
      <4>1. Cardinality(f[i]) >= i + 1
        BY <3>1, <3>3
      <4>2. Cardinality(f[i]) < Cardinality(f[i + 1])
        BY <1>6, <2>1, <3>1, <3>3, FS_Subset
      <4>3. Cardinality(f[i]) \in Nat /\ Cardinality(f[i + 1]) \in Nat
        BY <1>6, <2>1, <3>1
      <4>4. Cardinality(f[i + 1]) >= (i + 1) + 1
        BY <3>1, <4>1, <4>2, <4>3
      <4> QED BY <1>6, <2>1, <3>1, <4>4
    <3> QED BY <3>2, <3>3
  <2>2. CASE ~ (i + 1 <= LastEntry)
    BY <2>2
  <2> QED BY <2>1, <2>2
<1>9. K \in SUBSET Nat
  OBVIOUS
<1> HIDE DEF K
<1>10. LastEntry \in K
  BY <1>2, <1>7, <1>8, <1>9, Induction
<1>11. Cardinality(f[LastEntry]) \in Nat /\ Cardinality(f[LastEntry]) <= LastEntry
  BY <1>2, <1>6
<1>12. more(f[LastEntry]) \subseteq f[LastEntry]
  BY <1>2, <1>10, <1>11 DEF K
<1>13. QED BY <1>1, <1>12 DEF more, Reached


(* A directory that goes has no directory in it, so the others stay.       *)
LEMMA TreeLess ==
  ASSUME NEW c, c # Root, c \in Tree => DirHeads(c) = {},
         \A d \in Tree : DirHeads(d) \ {c} \subseteq DirHeads(d)'
  PROVE  Tree \ {c} \subseteq Tree'
<1>1. PICK f : Reached(f)
  BY TreeReached
<1>2. PICK g : Reached(g)'
  BY TreeReachedNext
<1> DEFINE K == {i \in Nat : i <= LastEntry => f[i] \ {c} \subseteq g[i]}
<1>3. 0 \in K
  BY <1>1, <1>2 DEF Reached
<1>4. ASSUME NEW i \in K
      PROVE  i + 1 \in K
  <2>1. CASE i + 1 <= LastEntry
    <3>1. i \in Nat /\ i < LastEntry /\ i <= LastEntry /\ f[i] \ {c} \subseteq g[i]
      BY <2>1, ConstAssumption
    <3>2. /\ f[i + 1] = f[i] \cup UNION {DirHeads(d) : d \in f[i]}
          /\ g[i + 1] = g[i] \cup UNION {DirHeads(d)' : d \in g[i]}
      BY <1>1, <1>2, <3>1 DEF Reached
    <3>3. f[i] \subseteq Tree
      BY <1>1, <3>1, ReachedInTree
    <3>4. ASSUME NEW x \in f[i + 1], x # c, x \notin f[i]
          PROVE  x \in g[i + 1]
      <4>1. PICK d \in f[i] : x \in DirHeads(d)
        BY <3>2, <3>4
      <4>2. d \in Tree /\ d # c
        BY <3>3, <4>1
      <4>3. d \in g[i] /\ x \in DirHeads(d)'
        BY <3>1, <3>4, <4>1, <4>2
      <4> QED BY <3>2, <4>3
    <3>5. \A x \in f[i] : x # c => x \in g[i + 1]
      BY <3>1, <3>2
    <3>6. f[i + 1] \ {c} \subseteq g[i + 1]
      BY <3>4, <3>5
    <3> QED BY <3>6
  <2>2. CASE ~ (i + 1 <= LastEntry)
    BY <2>2
  <2> QED BY <2>1, <2>2
<1>5. K \in SUBSET Nat
  OBVIOUS
<1> HIDE DEF K
<1>6. LastEntry \in K
  BY <1>3, <1>4, <1>5, Induction, ConstAssumption
<1>7. QED BY <1>1, <1>2, <1>6, ConstAssumption DEF K, Reached

LEMMA TreeGrows ==
  ASSUME TypesOK, \A d \in Tree : DirHeads(d) \subseteq DirHeads(d)'
  PROVE  Tree \subseteq Tree'
<1>1. NoDir \notin Tree /\ NoDir # Root
  BY TreeFacts, ClusterFacts
<1>2. PICK c : c = NoDir
  OBVIOUS
<1>3. Tree \ {c} \subseteq Tree'
  BY <1>1, <1>2, TreeLess
<1>4. QED BY <1>1, <1>2, <1>3

LEMMA TreeStays ==
  ASSUME TypesOK, \A d \in Tree : DirHeads(d)' = DirHeads(d)
  PROVE  Tree' = Tree
<1>1. Tree \subseteq Tree'
  BY TreeGrows
<1>2. PICK f : Reached(f)
  BY TreeReached
<1>3. PICK g : Reached(g)'
  BY TreeReachedNext
<1> DEFINE K == {i \in Nat : i <= LastEntry => g[i] \subseteq Tree}
<1>4. 0 \in K
  BY <1>3, TreeFacts DEF Reached
<1>5. ASSUME NEW i \in K
      PROVE  i + 1 \in K
  <2>1. CASE i + 1 <= LastEntry
    <3>1. i \in Nat /\ i < LastEntry /\ g[i] \subseteq Tree
      BY <2>1, ConstAssumption
    <3>2. g[i + 1] = g[i] \cup UNION {DirHeads(d)' : d \in g[i]}
      BY <1>3, <3>1 DEF Reached
    <3>3. \A d \in g[i] : DirHeads(d)' \subseteq Tree
      BY <3>1, TreeClosed
    <3> QED BY <3>1, <3>2, <3>3
  <2>2. CASE ~ (i + 1 <= LastEntry)
    BY <2>2
  <2> QED BY <2>1, <2>2
<1>6. K \in SUBSET Nat
  OBVIOUS
<1> HIDE DEF K
<1>7. LastEntry \in K
  BY <1>4, <1>5, <1>6, Induction, ConstAssumption
<1>8. g[LastEntry] \subseteq Tree
  BY <1>7, ConstAssumption DEF K
<1>9. Tree' = g[LastEntry]
  BY <1>3 DEF Reached
<1>10. QED BY <1>1, <1>8, <1>9

LEMMA SameDirHeads ==
  ASSUME NEW d,
         \A s \in Slots : /\ IsDirEntry(d, s)' <=> IsDirEntry(d, s)
                          /\ IsDirEntry(d, s) => table'[d][s].head = table[d][s].head
  PROVE  DirHeads(d)' = DirHeads(d)
BY DEF DirHeads, IsDirEntry

-----------------------------------------------------------------------------
(* What is held: the chains of the entries of the tree and of the open     *)
(* handles.                                                                *)

EntryHolds(c) == \E d \in Tree, s \in Slots : Used(d, s) /\ table[d][s].head = c
HandleHolds(c) == \E h \in Handle : handles[h].open /\ handles[h].head = c
Holds(c) == c # 0 /\ (EntryHolds(c) \/ HandleHolds(c))

LEMMA HeldIs == \A x : x \in Held <=> \E c : Holds(c) /\ x \in ChainOf(c)
<1>1. \A c : c \in HeadsHeld \ {0} <=> Holds(c)
  <2> TAKE c
  <2> DEFINE U == {y \in Tree \X Slots : Used(y[1], y[2])}
  <2>1. c \in {table[x[1]][x[2]].head : x \in U} <=> EntryHolds(c)
    <3>1. ASSUME NEW x \in U, table[x[1]][x[2]].head = c
          PROVE  EntryHolds(c)
      BY <3>1 DEF EntryHolds
    <3>2. ASSUME NEW d \in Tree, NEW s \in Slots, Used(d, s), table[d][s].head = c
          PROVE  c \in {table[x[1]][x[2]].head : x \in U}
      <4>1. <<d, s>> \in U /\ <<d, s>>[1] = d /\ <<d, s>>[2] = s
        BY <3>2
      <4> HIDE DEF U
      <4> QED BY <3>2, <4>1
    <3> QED BY <3>1, <3>2 DEF EntryHolds
  <2>2. c \in {handles[h].head : h \in {g \in Handle : handles[g].open}} <=> HandleHolds(c)
    BY DEF HandleHolds
  <2> QED BY <2>1, <2>2 DEF HeadsHeld, Holds
<1>2. QED BY <1>1 DEF Held

LEMMA HeldIsNext == (\A x : x \in Held <=> \E c : Holds(c) /\ x \in ChainOf(c))'
BY HeldIs, PTL

LEMMA HoldsHead ==
  ASSUME TypesOK, Apart, NEW c, Holds(c)
  PROVE  IsHead(c) /\ c \in Cluster /\ ChainsOK
<1>1. \A d \in Tree : d \in DirIds
  BY TreeFacts
<1>2. QED BY <1>1 DEF Holds, EntryHolds, HandleHolds, Apart, EntriesOK, HandlesOK, IsHead

(* Links that stay, and an end that becomes one, keep a chain's clusters.  *)
LEMMA ChainGrows ==
  ASSUME NEW c \in Cluster, \A x \in ChainOf(c) : fat[x] \in Cluster => fat'[x] = fat[x]
  PROVE  ChainOf(c) \subseteq ChainOf(c)'
<1> SUFFICES ASSUME NEW x \in ChainOf(c), NEW S \in SUBSET Cluster, c \in S, Closed(S)'
             PROVE  x \in S
  BY ChainInCluster DEF ChainOf
<1> DEFINE T == S \cap ChainOf(c)
<1>1. T \in SUBSET Cluster /\ c \in T
  BY ChainHasHead
<1>2. Closed(T)
  BY ChainClosed DEF Closed
<1> HIDE DEF T
<1>3. x \in T
  BY <1>1, <1>2 DEF ChainOf
<1>4. QED BY <1>3 DEF T

LEMMA ChainNext ==
  ASSUME NEW c \in Cluster
  PROVE  c \in ChainOf(c)' /\ \A x \in ChainOf(c)' : fat'[x] \in Cluster => fat'[x] \in ChainOf(c)'
BY DEF ChainOf, Closed

(* A step that keeps or frees every chain that is held can only lose the   *)
(* clusters it takes.                                                      *)
LEMMA HeldKept ==
  ASSUME TypesOK, Apart,
         \A c : Holds(c) =>
           \/ Holds(c)' /\ \A x \in ChainOf(c) : fat[x] \in Cluster => fat'[x] = fat[x]
           \/ \A x \in ChainOf(c) : fat'[x] = FreeCl,
         NEW x, x \in Leaked', x \notin Leaked
  PROVE  x \in Cluster /\ x \notin Held' /\ fat[x] = FreeCl /\ fat'[x] # FreeCl
<1>1. x \in Cluster /\ fat'[x] # FreeCl /\ x \notin Held' /\ (fat[x] = FreeCl \/ x \in Held)
  BY DEF Leaked
<1>2. ASSUME x \in Held
      PROVE  FALSE
  <2>1. PICK c : Holds(c) /\ x \in ChainOf(c)
    BY <1>2, HeldIs
  <2>2. c \in Cluster
    BY <2>1, HoldsHead
  <2>3. Holds(c)' /\ \A y \in ChainOf(c) : fat[y] \in Cluster => fat'[y] = fat[y]
    BY <1>1, <2>1
  <2>4. x \in ChainOf(c)'
    BY <2>1, <2>2, <2>3, ChainGrows
  <2> QED BY <1>1, <2>3, <2>4, HeldIsNext
<1>3. QED BY <1>1, <1>2

LEMMA HeldSame ==
  ASSUME TypesOK, Apart, UNCHANGED fat, \A c : Holds(c) => Holds(c)'
  PROVE  Leaked' \subseteq Leaked
BY HeldKept


-----------------------------------------------------------------------------
(* Between calls an open handle has the first cluster of its entry, so     *)
(* fs_close forgets no chain.                                              *)

IdleCall == call.pc = "idle" => call = Idle
SameHead(h) == table[handles[h].parent][handles[h].off].head = handles[h].head
Rests(h) == call.pc = "idle" \/ h # call.h
HeadsSame ==
  \A h \in Handle : (handles[h].open /\ handles[h].parent \in Tree /\ Rests(h)) => SameHead(h)

LeakInv == IInv /\ Orderly /\ SizeInv /\ TreeInv /\ HeadsSame /\ IdleCall

(* What a step may lose. *)
LeakStep ==
  \A c \in Leaked' \ Leaked :
    /\ fat[c] = FreeCl /\ fat'[c] = Eof
    /\ call = Idle /\ call' = Idle
    /\ \A d \in DirIds : \A s \in Slots : Used(d, s)' => Used(d, s)

LEMMA OpenAgrees ==
  ASSUME TreeInv
  PROVE  /\ \A h \in Handle : handles[h].open /\ handles[h].parent \in Tree => Agrees(h)
         /\ \E S : Live(S) /\ Tree \subseteq S
BY TreeInLive DEF TreeInv, Owned

LEMMA TreeSteady ==
  ASSUME TypesOK,
         \A d \in Tree, s \in Slots :
           /\ IsDirEntry(d, s)' <=> IsDirEntry(d, s)
           /\ IsDirEntry(d, s) => table'[d][s].head = table[d][s].head
  PROVE  Tree' = Tree
BY SameDirHeads, TreeStays

LEMMA TreeUnchanged == ASSUME TypesOK, UNCHANGED table PROVE Tree' = Tree
BY TreeSteady DEF IsDirEntry, Used

LEMMA HoldsKept ==
  ASSUME Tree \subseteq Tree',
         \A d \in Tree, s \in Slots : Used(d, s) /\ table[d][s].head # 0 =>
           Used(d, s)' /\ table'[d][s].head = table[d][s].head,
         \A h \in Handle : handles[h].open /\ handles[h].head # 0 =>
           handles'[h].open /\ handles'[h].head = handles[h].head
  PROVE  \A c : Holds(c) => Holds(c)'
<1> SUFFICES ASSUME NEW c, Holds(c)
             PROVE  Holds(c)'
  OBVIOUS
<1>1. CASE EntryHolds(c)
  BY <1>1 DEF EntryHolds, Holds
<1>2. CASE HandleHolds(c)
  BY <1>2 DEF HandleHolds, Holds
<1>3. QED BY <1>1, <1>2 DEF Holds

LEMMA NoneLost ==
  ASSUME TypesOK, Apart, UNCHANGED fat, Tree \subseteq Tree',
         \A d \in Tree, s \in Slots : Used(d, s) /\ table[d][s].head # 0 =>
           Used(d, s)' /\ table'[d][s].head = table[d][s].head,
         \A h \in Handle : handles[h].open /\ handles[h].head # 0 =>
           handles'[h].open /\ handles'[h].head = handles[h].head
  PROVE  LeakStep
BY HoldsKept, HeldSame DEF LeakStep

LEMMA HeadsSameKept ==
  ASSUME HeadsSame, Tree' \subseteq Tree,
         \A h \in Handle : (handles'[h].open /\ handles'[h].parent \in Tree /\ Rests(h)') =>
           \/ /\ handles[h].open /\ Rests(h)
              /\ handles'[h].parent = handles[h].parent /\ handles'[h].off = handles[h].off
              /\ handles'[h].head = handles[h].head
              /\ table'[handles[h].parent][handles[h].off].head = table[handles[h].parent][handles[h].off].head
           \/ SameHead(h)'
  PROVE  HeadsSame'
BY DEF HeadsSame, SameHead

LEMMA LeakStutter ==
  ASSUME TypesOK, Apart, HeadsSame, UNCHANGED <<fat, table, handles, call>>
  PROVE  HeadsSame' /\ LeakStep
<1>1. Tree' = Tree
  BY TreeUnchanged
<1>2. LeakStep
  BY <1>1, NoneLost DEF Used
<1>3. HeadsSame'
  BY <1>1, HeadsSameKept DEF Rests
<1>4. QED BY <1>2, <1>3

LEMMA LeakCreate ==
  ASSUME TypesOK, Apart, TreeInv, HeadsSame, NEW p \in Paths, NEW r, Create(p, r)
  PROVE  HeadsSame' /\ LeakStep
<1>1. ASSUME NEW s \in CreateSlots(p),
             table' = [table EXCEPT ![Parent(p)][s] = NewEntry(p.leaf, FALSE, 0)],
             UNCHANGED <<fat, up, cwd, handles, call>>
      PROVE  HeadsSame' /\ LeakStep
  <2>0. PICK P : P = Parent(p)
    OBVIOUS
  <2>1. s \in Slots /\ P \in DirIds /\ ~ Used(P, s)
    BY <1>1, <2>0, ParentType DEF CreateSlots, AddSlots, CanCreate, Used
  <2>2. /\ \A d \in DirIds, t \in Slots : ~ (d = P /\ t = s) => table'[d][t] = table[d][t]
        /\ ~ table'[P][s].dir
    BY <1>1, <2>0, <2>1 DEF TypesOK, NewEntry
  <2>3. Tree' = Tree
    <3>1. \A d \in DirIds, t \in Slots :
            /\ IsDirEntry(d, t)' <=> IsDirEntry(d, t)
            /\ IsDirEntry(d, t) => table'[d][t].head = table[d][t].head
      BY <2>1, <2>2 DEF IsDirEntry, Used
    <3> QED BY <3>1, TreeSteady, TreeFacts
  <2>4. \A d \in DirIds, t \in Slots : Used(d, t) => table'[d][t] = table[d][t]
    BY <2>1, <2>2
  <2>5. LeakStep
    BY <1>1, <2>3, <2>4, NoneLost, TreeFacts DEF Used
  <2>6. \A h \in Handle : handles[h].open /\ handles[h].parent \in Tree =>
          table'[handles[h].parent][handles[h].off] = table[handles[h].parent][handles[h].off]
    <3>1. \A h \in Handle : handles[h].parent \in DirIds /\ handles[h].off \in Slots
      BY DEF TypesOK, HandleRec
    <3>2. \A h \in Handle : Agrees(h) => Used(handles[h].parent, handles[h].off)
      BY DEF Agrees, Used
    <3> QED BY <2>4, <3>1, <3>2, OpenAgrees
  <2>7. HeadsSame'
    BY <1>1, <2>3, <2>6, HeadsSameKept DEF Rests
  <2> QED BY <2>5, <2>7
<1>2. CASE Fails(r)
  BY <1>2, LeakStutter DEF Fails, vars
<1>3. QED BY <1>1, <1>2 DEF Create

LEMMA LeakRename ==
  ASSUME TypesOK, Apart, HeadsSame, NEW p \in Paths, NEW q \in Paths, NEW r, Rename(p, q, r)
  PROVE  HeadsSame' /\ LeakStep
<1>1. CASE /\ LeafFound(p)
           /\ table' = [table EXCEPT ![Parent(p)][LeafSlot(p)].name = q.leaf]
           /\ UNCHANGED <<fat, up, cwd, handles, call>>
  <2>1. Parent(p) \in DirIds /\ LeafSlot(p) \in Slots
    BY <1>1, LeafFoundFacts
  <2>2. \A d \in DirIds, s \in Slots :
          /\ table'[d][s].st = table[d][s].st /\ table'[d][s].head = table[d][s].head
          /\ table'[d][s].dir = table[d][s].dir
    <3>1. PICK P \in DirIds, o \in Slots : P = Parent(p) /\ o = LeafSlot(p)
      BY <2>1
    <3>2. table[P][o] \in Dirent
      BY EntryType
    <3>3. table'[P][o] = [table[P][o] EXCEPT !.name = q.leaf]
      BY <1>1, <3>1 DEF TypesOK
    <3>4. \A d \in DirIds, s \in Slots : ~ (d = P /\ s = o) => table'[d][s] = table[d][s]
      BY <1>1, <3>1 DEF TypesOK
    <3>5. /\ table'[P][o].st = table[P][o].st /\ table'[P][o].head = table[P][o].head
          /\ table'[P][o].dir = table[P][o].dir
      BY <3>2, <3>3 DEF Dirent
    <3> QED BY <3>4, <3>5
  <2>3. Tree' = Tree
    BY <2>2, TreeSteady, TreeFacts DEF IsDirEntry, Used
  <2>4. LeakStep
    BY <1>1, <2>2, <2>3, NoneLost, TreeFacts DEF Used
  <2>5. \A h \in Handle : handles[h].parent \in DirIds /\ handles[h].off \in Slots
    BY DEF TypesOK, HandleRec
  <2>6. HeadsSame'
    BY <1>1, <2>2, <2>3, <2>5, HeadsSameKept DEF Rests
  <2> QED BY <2>4, <2>6
<1>2. CASE Fails(r)
  BY <1>2, LeakStutter DEF Fails, vars
<1>3. QED BY <1>1, <1>2 DEF Rename, CanRename

LEMMA LeakOpen ==
  ASSUME TypesOK, Apart, HeadsSame, NEW p \in Paths, NEW r, Open(p, r)
  PROVE  HeadsSame' /\ LeakStep
<1>1. CASE /\ r \in FreeHandles /\ IsFile(p)
           /\ handles' = [handles EXCEPT ![r] = NewHandle(p)]
           /\ UNCHANGED <<fat, table, up, cwd, call>>
  <2>1. r \in Handle /\ ~ handles[r].open /\ LeafEntry(p) = table[Parent(p)][LeafSlot(p)]
    BY <1>1, LeafFoundFacts DEF IsFile, FreeHandles
  <2>2. /\ handles'[r].parent = Parent(p) /\ handles'[r].off = LeafSlot(p)
        /\ handles'[r].head = LeafEntry(p).head
        /\ \A h \in Handle : h # r => handles'[h] = handles[h]
    BY <1>1, <2>1 DEF TypesOK, NewHandle
  <2>3. Tree' = Tree
    BY <1>1, TreeUnchanged
  <2>4. LeakStep
    BY <1>1, <2>1, <2>2, <2>3, NoneLost DEF Used
  <2>5. SameHead(r)'
    BY <1>1, <2>1, <2>2 DEF SameHead
  <2>6. HeadsSame'
    BY <1>1, <2>2, <2>3, <2>5, HeadsSameKept DEF Rests
  <2> QED BY <2>4, <2>6
<1>2. CASE Fails(r)
  BY <1>2, LeakStutter DEF Fails, vars
<1>3. QED BY <1>1, <1>2 DEF Open

(* The chain of a handle that is closed is that of its entry. *)
LEMMA LeakClose ==
  ASSUME TypesOK, Apart, TreeInv, HeadsSame, call.pc = "idle", NEW h \in Handle, NEW r, Close(h, r)
  PROVE  HeadsSame' /\ (InTree => LeakStep)
<1>1. /\ handles' = [handles EXCEPT ![h] = ClosedHandle] /\ handles[h].open
      /\ UNCHANGED <<fat, table, up, cwd, call>>
  BY DEF Close
<1>2. \A g \in Handle : /\ g # h => handles'[g] = handles[g]
                        /\ handles'[g].open => g # h
  BY <1>1 DEF TypesOK, ClosedHandle
<1>3. Tree' = Tree
  BY <1>1, TreeUnchanged
<1>4. HeadsSame'
  BY <1>1, <1>2, <1>3, HeadsSameKept DEF Rests
<1>5. ASSUME InTree
      PROVE  LeakStep
  <2>1. PICK P, o : P = handles[h].parent /\ o = handles[h].off
    OBVIOUS
  <2>2. P \in Tree /\ o \in Slots /\ Used(P, o) /\ table[P][o].head = handles[h].head
    BY <1>1, <1>5, <2>1, OpenAgrees DEF InTree, HeadsSame, Rests, SameHead, Agrees, Used, TypesOK, HandleRec
  <2>3. ASSUME NEW c, Holds(c)
        PROVE  Holds(c)'
    <3>1. CASE EntryHolds(c)
      BY <1>1, <1>3, <2>3, <3>1 DEF EntryHolds, Holds, Used
    <3>2. CASE HandleHolds(c)
      <4>1. PICK g \in Handle : handles[g].open /\ handles[g].head = c
        BY <3>2 DEF HandleHolds
      <4>2. CASE g = h
        <5>1. EntryHolds(c)
          BY <2>2, <4>1, <4>2 DEF EntryHolds
        <5> QED BY <3>1, <5>1
      <4>3. CASE g # h
        BY <1>2, <2>3, <4>1, <4>3 DEF HandleHolds, Holds
      <4> QED BY <4>2, <4>3
    <3> QED BY <2>3, <3>1, <3>2 DEF Holds
  <2> QED BY <1>1, <2>3, HeldSame DEF LeakStep
<1>6. QED BY <1>4, <1>5

LEMMA LeakRead ==
  ASSUME TypesOK, Apart, HeadsSame, NEW h \in Handle, NEW n, NEW r, Read(h, n, r)
  PROVE  HeadsSame' /\ LeakStep
<1>1. handles' = [handles EXCEPT ![h].pos = @ + r] /\ UNCHANGED <<fat, table, up, cwd, call>>
  BY DEF Read
<1>2. \A g \in Handle :
        /\ handles'[g].open = handles[g].open /\ handles'[g].parent = handles[g].parent
        /\ handles'[g].off = handles[g].off /\ handles'[g].head = handles[g].head
  BY <1>1 DEF TypesOK, HandleRec
<1>3. Tree' = Tree
  BY <1>1, TreeUnchanged
<1>4. LeakStep
  BY <1>1, <1>2, <1>3, NoneLost DEF Used
<1>5. HeadsSame'
  BY <1>1, <1>2, <1>3, HeadsSameKept DEF Rests
<1>6. QED BY <1>4, <1>5


LEMMA LeakWriteEnter ==
  ASSUME TypesOK, Apart, HeadsSame, call.pc = "idle", NEW h \in Handle, NEW n, NEW r,
         WriteEnter(h, n, r)
  PROVE  HeadsSame' /\ LeakStep
<1>1. handles[h].open /\ UNCHANGED <<table, up, cwd>>
  BY DEF WriteEnter
<1>2. Tree' = Tree
  BY <1>1, TreeUnchanged
<1>3. CASE UNCHANGED <<fat, handles, call>>
  BY <1>1, <1>3, LeakStutter
<1>4. CASE UNCHANGED <<fat, handles>> /\ call'.pc = "loop" /\ call'.h = h
  <2>1. LeakStep
    BY <1>1, <1>2, <1>4, NoneLost DEF Used
  <2>2. HeadsSame'
    BY <1>1, <1>2, <1>4, HeadsSameKept DEF Rests
  <2> QED BY <2>1, <2>2
<1>5. ASSUME NEW c \in AllocChoice, handles[h].head = 0, fat' = [fat EXCEPT ![c] = Eof],
             handles' = [handles EXCEPT ![h].head = c], call'.pc = "loop", call'.h = h
      PROVE  HeadsSame' /\ LeakStep
  <2>1. c \in Cluster /\ c # 0 /\ fat[c] = FreeCl
    BY <1>5, ClusterFacts DEF AllocChoice
  <2>2. \A x \in Cluster : x # c => fat'[x] = fat[x]
    BY <1>5, <2>1 DEF TypesOK
  <2>3. /\ handles'[h].open /\ handles'[h].head = c
        /\ \A g \in Handle : g # h => handles'[g] = handles[g]
    BY <1>1, <1>5 DEF TypesOK, HandleRec
  <2>4. \A b : Holds(b) => Holds(b)'
    BY <1>1, <1>2, <1>5, <2>3, HoldsKept DEF Used
  <2>5. Holds(c)'
    BY <2>1, <2>3 DEF Holds, HandleHolds
  <2>6. c \in Held'
    BY <2>1, <2>5, ChainNext, HeldIsNext
  <2>7. \A b : \A x \in ChainOf(b) : fat[x] \in Cluster => fat'[x] = fat[x]
    BY <2>1, <2>2, ChainInCluster, ClusterFacts
  <2>8. ASSUME NEW x, x \in Leaked', x \notin Leaked
        PROVE  FALSE
    <3>1. x \in Cluster /\ x \notin Held' /\ fat[x] = FreeCl /\ fat'[x] # FreeCl
      BY <2>4, <2>7, <2>8, HeldKept
    <3> QED BY <2>2, <2>6, <3>1
  <2>9. LeakStep
    BY <2>8 DEF LeakStep
  <2>10. HeadsSame'
    BY <1>1, <1>2, <1>5, <2>3, HeadsSameKept DEF Rests
  <2> QED BY <2>9, <2>10
<1>6. QED BY <1>3, <1>4, <1>5 DEF WriteEnter, StartWrite

LEMMA LeakWriteHop ==
  ASSUME TypesOK, Apart, SizeInv, TreeInv, HeadsSame, WriteHop
  PROVE  HeadsSame' /\ LeakStep
<1>1. call.pc = "loop" /\ UNCHANGED <<table, up, cwd, handles>>
  BY DEF WriteHop
<1>2. Tree' = Tree
  BY <1>1, TreeUnchanged
<1>3. call'.h = call.h /\ call'.pc # "idle"
  <2>1. PICK k \in CallRec : k = call
    BY DEF TypesOK
  <2> QED BY <2>1 DEF WriteHop, FollowLink, CallRec
<1>4. HeadsSame'
  BY <1>1, <1>2, <1>3, HeadsSameKept DEF Rests
<1>5. CASE UNCHANGED fat
  <2>1. LeakStep
    BY <1>1, <1>2, <1>5, NoneLost DEF Used
  <2> QED BY <1>4, <2>1
<1>6. ASSUME NEW c \in AllocChoice, fat[call.at] = Eof, fat' = [fat EXCEPT ![call.at] = c, ![c] = Eof]
      PROVE  LeakStep
  <2>1. PICK at \in Cluster : at = call.at
    BY <1>1 DEF Apart, WriteOK
  <2>2. c \in Cluster /\ c # 0 /\ fat[c] = FreeCl /\ c # at
    BY <1>6, <2>1, ClusterFacts DEF AllocChoice
  <2>3. fat'[at] = c /\ \A x \in Cluster : x # c /\ x # at => fat'[x] = fat[x]
    BY <1>6, <2>1, <2>2 DEF TypesOK
  <2>4. PICK head : head = handles[call.h].head
    OBVIOUS
  <2>5. at \in ChainOf(head)
    BY <1>1, <2>1, <2>4, OpenAgrees, WriteOutsideTree DEF TreeInv
  <2>6. Holds(head) /\ head \in Cluster
    <3>1. call.h \in Handle /\ handles[call.h].open /\ head # 0
      BY <1>1, <2>4 DEF TypesOK, CallRec, Apart, WriteOK
    <3>2. Holds(head)
      BY <2>4, <3>1 DEF Holds, HandleHolds
    <3> QED BY <3>2, HoldsHead
  <2>7. \A b : Holds(b) => Holds(b)'
    BY <1>1, <1>2, HoldsKept DEF Used
  <2>8. \A b : \A x \in ChainOf(b) : fat[x] \in Cluster => fat'[x] = fat[x]
    BY <1>6, <2>1, <2>2, <2>3, ChainInCluster, ClusterFacts
  <2>9. at \in ChainOf(head)'
    BY <2>5, <2>6, <2>8, ChainGrows
  <2>10. c \in ChainOf(head)'
    BY <2>2, <2>3, <2>6, <2>9, ChainNext
  <2>11. c \in Held'
    BY <2>6, <2>7, <2>10, HeldIsNext
  <2>12. ASSUME NEW x, x \in Leaked', x \notin Leaked
         PROVE  FALSE
    <3>1. x \in Cluster /\ x \notin Held' /\ fat[x] = FreeCl /\ fat'[x] # FreeCl
      BY <2>7, <2>8, <2>12, HeldKept
    <3> QED BY <1>6, <2>1, <2>3, <2>11, <3>1, ClusterFacts
  <2> QED BY <2>12 DEF LeakStep
<1>7. QED BY <1>4, <1>5, <1>6 DEF WriteHop, FollowLink

LEMMA LeakWriteChunk ==
  ASSUME TypesOK, Apart, SizeInv, TreeInv, HeadsSame, WriteChunk
  PROVE  HeadsSame' /\ LeakStep
<1>0. call.pc = "loop" /\ UNCHANGED fat
  BY DEF WriteChunk
<1>1. call'.h = call.h /\ call'.pc # "idle"
  <2>1. PICK k \in CallRec : k = call
    BY DEF TypesOK
  <2>2. CASE call' = [call EXCEPT !.pc = "done"]
    BY <2>1, <2>2 DEF CallRec
  <2>3. ASSUME NEW a, NEW b, NEW c, call' = [call EXCEPT !.left = a, !.total = b, !.at = c, !.hop = 0]
        PROVE  call'.h = call.h /\ call'.pc # "idle"
    BY <1>0, <2>1, <2>3 DEF CallRec
  <2>4. \/ call' = [call EXCEPT !.pc = "done"]
        \/ \E a, b, c : call' = [call EXCEPT !.left = a, !.total = b, !.at = c, !.hop = 0]
    <3> DEFINE room == ClusterUnits - InCluster
               chunk == IF room > call.left THEN call.left ELSE room
    <3>1. CASE Transfer(call.at)
      <4>1. call' = [call EXCEPT !.left = @ - chunk, !.total = @ + chunk,
                                 !.at = handles[call.h].head, !.hop = 0]
        BY <3>1 DEF WriteChunk
      <4> HIDE DEF chunk
      <4> QED BY <4>1
    <3>2. CASE ~ Transfer(call.at)
      BY <3>2 DEF WriteChunk
    <3> QED BY <3>1, <3>2
  <2> QED BY <2>2, <2>3, <2>4
<1>2. call.at \in Cluster /\ call.at \in DirIds /\ call.at \notin Tree
  BY <1>0, ClusterFacts, OpenAgrees, WriteOutsideTree DEF TreeInv, Apart, WriteOK
<1>3. table' = table \/ table' = [table EXCEPT ![call.at] = EmptyTable]
  BY DEF WriteChunk
<1>4. \A d \in Tree : d \in DirIds /\ table'[d] = table[d]
  BY <1>2, <1>3, TreeFacts DEF TypesOK
<1>5. \A g \in Handle :
        /\ handles'[g].open = handles[g].open /\ handles'[g].parent = handles[g].parent
        /\ handles'[g].off = handles[g].off /\ handles'[g].head = handles[g].head
  <2>1. CASE UNCHANGED handles
    BY <2>1
  <2>2. ASSUME NEW k, handles' = [handles EXCEPT ![call.h].pos = @ + k]
        PROVE  \A g \in Handle :
                 /\ handles'[g].open = handles[g].open /\ handles'[g].parent = handles[g].parent
                 /\ handles'[g].off = handles[g].off /\ handles'[g].head = handles[g].head
    BY <2>2 DEF TypesOK, HandleRec
  <2> QED BY <2>1, <2>2 DEF WriteChunk
<1>6. Tree' = Tree
  BY <1>4, TreeSteady DEF IsDirEntry, Used
<1>7. LeakStep
  BY <1>0, <1>4, <1>5, <1>6, NoneLost DEF Used
<1>8. HeadsSame'
  BY <1>0, <1>1, <1>4, <1>5, <1>6, HeadsSameKept DEF Rests
<1>9. QED BY <1>7, <1>8

LEMMA LeakWriteLeave ==
  ASSUME TypesOK, Apart, TreeInv, HeadsSame, NEW r, WriteLeave(r)
  PROVE  HeadsSame' /\ LeakStep
<1>1. PICK h \in Handle : h = call.h
  BY DEF TypesOK, CallRec
<1>2. PICK f \in HandleRec : f = handles[h]
  BY <1>1 DEF TypesOK
<1>3. PICK P \in DirIds, o \in Slots : P = f.parent /\ o = f.off
  BY <1>2 DEF HandleRec
<1>4. call.pc # "idle" /\ f.open /\ f.head # 0
  BY <1>1, <1>2 DEF WriteLeave, Apart, WriteOK
<1>5. PICK n : n = NewSize(f)
  OBVIOUS
<1>6. /\ handles' = [handles EXCEPT ![h].size = n]
      /\ table' = [table EXCEPT ![P][o].head = f.head, ![P][o].size = n]
      /\ UNCHANGED <<fat, up, cwd>>
  BY <1>1, <1>2, <1>3, <1>5 DEF WriteLeave
<1>7. \A g \in Handle :
        /\ handles'[g].open = handles[g].open /\ handles'[g].parent = handles[g].parent
        /\ handles'[g].off = handles[g].off /\ handles'[g].head = handles[g].head
        /\ handles[g].parent \in DirIds /\ handles[g].off \in Slots
  BY <1>6 DEF TypesOK, HandleRec
<1>8. \A d \in DirIds, s \in Slots : ~ (d = P /\ s = o) => table'[d][s] = table[d][s]
  BY <1>6 DEF TypesOK
<1>9. table'[P][o].st = table[P][o].st /\ table'[P][o].dir = table[P][o].dir /\ table'[P][o].head = f.head
  <2>1. table'[P][o] = [table[P][o] EXCEPT !.head = f.head, !.size = n]
    BY <1>6 DEF TypesOK
  <2>2. table[P][o] \in Dirent
    BY EntryType
  <2> QED BY <2>1, <2>2 DEF Dirent
<1>10. ~ IsDirEntry(P, o)
  BY <1>1, <1>2, <1>3, <1>4 DEF TreeInv, OpenFiles
<1>11. Tree' = Tree
  <2>1. \A d \in DirIds, s \in Slots :
          /\ IsDirEntry(d, s)' <=> IsDirEntry(d, s)
          /\ IsDirEntry(d, s) => table'[d][s].head = table[d][s].head
    BY <1>8, <1>9, <1>10 DEF IsDirEntry, Used
  <2> QED BY <2>1, TreeSteady, TreeFacts
<1>12. LeakStep
  <2>1. ASSUME NEW d \in Tree, NEW s \in Slots, Used(d, s), table[d][s].head # 0
        PROVE  Used(d, s)' /\ table'[d][s].head = table[d][s].head
    <3>1. CASE d = P /\ s = o
      <4>1. Agrees(h)
        BY <1>2, <1>3, <1>4, <3>1, OpenAgrees
      <4>2. table[P][o].head = f.head
        BY <1>2, <1>3, <2>1, <3>1, <4>1 DEF Agrees
      <4> QED BY <1>9, <2>1, <3>1, <4>2 DEF Used
    <3>2. CASE ~ (d = P /\ s = o)
      BY <1>8, <2>1, <3>2, TreeFacts DEF Used
    <3> QED BY <3>1, <3>2
  <2> QED BY <1>6, <1>7, <1>11, <2>1, NoneLost
<1>13. HeadsSame'
  <2>1. SameHead(h)'
    BY <1>2, <1>3, <1>7, <1>9 DEF SameHead
  <2>2. ASSUME NEW g \in Handle, g # h, handles[g].open
        PROVE  table'[handles[g].parent][handles[g].off] = table[handles[g].parent][handles[g].off]
    <3>1. ~ (handles[g].parent = P /\ handles[g].off = o)
      BY <1>2, <1>3, <1>4, <2>2 DEF TreeInv, OneEach
    <3> QED BY <1>7, <1>8, <3>1
  <2> QED BY <1>1, <1>7, <1>11, <2>1, <2>2, HeadsSameKept DEF Rests
<1>14. QED BY <1>12, <1>13


(* A deleted entry, its chain freed: what else was held still is. *)
LEMMA LeakRemove ==
  ASSUME TypesOK, Apart, InTree, NEW P \in DirIds, NEW o \in Slots, Used(P, o),
         NEW g, g = table[P][o].head,
         \A d \in DirIds, s \in Slots : ~ (d = P /\ s = o) => table'[d][s] = table[d][s],
         \A d \in Tree, s \in Slots : Used(d, s) => d \in Tree',
         UNCHANGED handles, IF g # 0 THEN FreeChain(g) ELSE UNCHANGED fat
  PROVE  LeakStep
<1>1. ASSUME g # 0, NEW c \in Cluster
      PROVE  fat'[c] = IF c \in ChainOf(g) THEN FreeCl ELSE fat[c]
  BY <1>1 DEF FreeChain
<1>2. ASSUME NEW c, Holds(c), c # g
      PROVE  Holds(c)'
  <2>1. CASE EntryHolds(c)
    <3>1. PICK d \in Tree, s \in Slots : Used(d, s) /\ table[d][s].head = c
      BY <2>1 DEF EntryHolds
    <3>2. d \in DirIds /\ table'[d][s] = table[d][s] /\ d \in Tree'
      BY <1>2, <3>1, TreeFacts
    <3> QED BY <1>2, <3>1, <3>2 DEF Holds, EntryHolds, Used
  <2>2. CASE HandleHolds(c)
    BY <1>2, <2>2 DEF Holds, HandleHolds
  <2> QED BY <1>2, <2>1, <2>2 DEF Holds
<1>3. ASSUME NEW c, Holds(c), c # g
      PROVE  \A x \in ChainOf(c) : fat'[x] = fat[x]
  <2>1. CASE g = 0
    BY <2>1
  <2>2. CASE g # 0
    <3>1. IsHead(c) /\ IsHead(g) /\ ChainsOK
      BY <1>3, <2>2, HoldsHead DEF Apart, EntriesOK
    <3>2. \A x \in ChainOf(c) : x \notin ChainOf(g) /\ x \in Cluster
      BY <1>3, <3>1, ChainsDisjoint, ChainInCluster
    <3> QED BY <1>1, <2>2, <3>2
  <2> QED BY <2>1, <2>2
<1>4. \A c : Holds(c) /\ c = g => \A x \in ChainOf(c) : fat'[x] = FreeCl
  BY <1>1, ChainInCluster DEF Holds
<1>5. \A x \in Cluster : fat[x] = FreeCl => fat'[x] = FreeCl
  BY <1>1
<1>6. \A c : Holds(c) =>
        \/ Holds(c)' /\ \A x \in ChainOf(c) : fat[x] \in Cluster => fat'[x] = fat[x]
        \/ \A x \in ChainOf(c) : fat'[x] = FreeCl
  BY <1>2, <1>3, <1>4
<1>7. ASSUME NEW x, x \in Leaked', x \notin Leaked
      PROVE  FALSE
  <2>1. x \in Cluster /\ fat[x] = FreeCl /\ fat'[x] # FreeCl
    BY <1>6, <1>7, HeldKept
  <2> QED BY <1>5, <2>1
<1>8. QED BY <1>7 DEF LeakStep

LEMMA LeakUnlink ==
  ASSUME TypesOK, Apart, HeadsSame, NEW p \in Paths, NEW r, ~ OpenOn(p), Unlink(p, r)
  PROVE  HeadsSame' /\ (InTree => LeakStep)
<1>1. CASE /\ IsFile(p) /\ MarkDeleted(Parent(p), LeafSlot(p))
           /\ IF LeafEntry(p).head # 0 THEN FreeChain(LeafEntry(p).head) ELSE UNCHANGED fat
           /\ UNCHANGED <<up, cwd, handles, call>>
  <2>1. PICK P \in DirIds, o \in Slots : P = Parent(p) /\ o = LeafSlot(p)
    BY <1>1, LeafFoundFacts DEF IsFile
  <2>2. Used(P, o) /\ LeafEntry(p) = table[P][o] /\ ~ table[P][o].dir
    BY <1>1, <2>1, LeafFoundFacts DEF IsFile
  <2>3. /\ \A d \in DirIds, s \in Slots : ~ (d = P /\ s = o) => table'[d][s] = table[d][s]
        /\ table'[P][o].st = "del"
    BY <1>1, <2>1 DEF TypesOK, MarkDeleted, DeletedEntry, EndEntry
  <2>4. Tree' = Tree
    <3>1. \A d \in DirIds, s \in Slots :
            /\ IsDirEntry(d, s)' <=> IsDirEntry(d, s)
            /\ IsDirEntry(d, s) => table'[d][s].head = table[d][s].head
      BY <2>2, <2>3 DEF IsDirEntry, Used
    <3> QED BY <3>1, TreeSteady, TreeFacts
  <2>5. InTree => LeakStep
    BY <1>1, <2>2, <2>3, <2>4, LeakRemove
  <2>6. \A h \in Handle : handles[h].open =>
          table'[handles[h].parent][handles[h].off] = table[handles[h].parent][handles[h].off]
    <3>1. \A h \in Handle : handles[h].parent \in DirIds /\ handles[h].off \in Slots
      BY DEF TypesOK, HandleRec
    <3>2. \A h \in Handle : handles[h].open => ~ (handles[h].parent = P /\ handles[h].off = o)
      BY <1>1, <2>1 DEF OpenOn
    <3> QED BY <2>3, <3>1, <3>2
  <2>7. HeadsSame'
    BY <1>1, <2>4, <2>6, HeadsSameKept DEF Rests
  <2> QED BY <2>5, <2>7
<1>2. CASE Fails(r)
  BY <1>2, LeakStutter DEF Fails, vars
<1>3. QED BY <1>1, <1>2 DEF Unlink

LEMMA LeakRmdir ==
  ASSUME TypesOK, Apart, Orderly, HeadsSame, NEW p \in Paths, NEW r, NoneOpen, Rmdir(p, r)
  PROVE  HeadsSame' /\ (InTree => LeakStep)
<1>1. CASE /\ CanRmdir(p)
           /\ FreeChain(LeafEntry(p).head)
           /\ MarkDeleted(Parent(p), LeafSlot(p))
           /\ UNCHANGED <<up, cwd, handles, call>>
  <2>1. PICK P \in DirIds, o \in Slots : P = Parent(p) /\ o = LeafSlot(p)
    BY <1>1, LeafFoundFacts DEF CanRmdir
  <2>2. Used(P, o) /\ LeafEntry(p) = table[P][o] /\ table[P][o].dir
    BY <1>1, <2>1, LeafFoundFacts DEF CanRmdir
  <2>3. PICK c \in Cluster : c = table[P][o].head /\ IsEmptyDir(c)
    BY <1>1, <2>2, ClusterFacts DEF CanRmdir, IsEmptyDir, Readable
  <2>4. c # Root /\ c # 0 /\ c \in DirIds
    BY ClusterFacts DEF Root
  <2>5. \A s \in Slots : ~ Used(c, s)
    <3> SUFFICES ASSUME NEW s \in Slots, Used(c, s) PROVE FALSE
      OBVIOUS
    <3>1. PICK t \in 1 .. s - 1 : table[c][t].st = "end"
      BY <2>3 DEF IsEmptyDir
    <3>2. t \in Slots /\ t < s
      BY ConstAssumption DEF Slots
    <3>3. table[c][s].st = "end"
      BY <2>4, <3>1, <3>2 DEF Orderly
    <3> QED BY <3>3 DEF Used
  <2>6. /\ \A d \in DirIds, s \in Slots : ~ (d = P /\ s = o) => table'[d][s] = table[d][s]
        /\ table'[P][o].st = "del"
    BY <1>1, <2>1 DEF TypesOK, MarkDeleted, DeletedEntry, EndEntry
  <2>7. Tree \ {c} \subseteq Tree'
    <3>1. DirHeads(c) = {}
      BY <2>5 DEF DirHeads
    <3>2. ASSUME NEW d \in Tree, NEW x \in DirHeads(d), x # c
          PROVE  x \in DirHeads(d)'
      <4>1. PICK s \in Slots : Used(d, s) /\ table[d][s].dir /\ x = table[d][s].head
        BY DEF DirHeads
      <4>2. table'[d][s] = table[d][s]
        BY <2>3, <2>6, <3>2, <4>1, TreeFacts
      <4> QED BY <4>1, <4>2 DEF DirHeads, Used
    <3> QED BY <2>4, <3>1, <3>2, TreeLess
  <2>8. \A d \in Tree, s \in Slots : Used(d, s) => d \in Tree'
    BY <2>5, <2>7
  <2>9. IF c # 0 THEN FreeChain(c) ELSE UNCHANGED fat
    BY <1>1, <2>2, <2>3, <2>4
  <2>10. InTree => LeakStep
    BY <1>1, <2>2, <2>3, <2>6, <2>8, <2>9, LeakRemove
  <2>11. HeadsSame'
    BY <1>1 DEF NoneOpen, HeadsSame
  <2> QED BY <2>10, <2>11
<1>2. CASE Fails(r)
  BY <1>2, LeakStutter DEF Fails, vars
<1>3. QED BY <1>1, <1>2 DEF Rmdir

(* A path leads into the tree when nobody works outside it. *)
LEMMA ParentInTree ==
  ASSUME TypesOK, TreeInv, InTree, NEW p, Parent(p) # NoDir
  PROVE  Parent(p) \in Tree
<1>1. ASSUME NEW d \in Tree
      PROVE  Above(d) \in Tree
  <2>1. CASE d = Root
    BY <2>1, TreeFacts DEF Above
  <2>2. CASE d # Root
    <3>1. PICK S : Live(S) /\ Tree \subseteq S
      BY OpenAgrees
    <3>2. PICK e \in S, s \in Slots : IsDirEntry(e, s) /\ table[e][s].head = d
      BY <2>2, <3>1 DEF Live
    <3>3. up[d] = e /\ e \in DirIds
      BY <3>1, <3>2 DEF Live
    <3>4. e \in Tree
      BY <3>2, <3>3 DEF InTree, IsDirEntry
    <3>5. e # NoDir
      BY <3>3, ClusterFacts
    <3> QED BY <2>2, <3>3, <3>4, <3>5 DEF Above
  <2> QED BY <2>1, <2>2
<1>2. ASSUME NEW d \in Tree, NEW comp, Step(d, comp) # NoDir
      PROVE  Step(d, comp) \in Tree
  <2>1. CASE comp \in {Dot, Blank}
    BY <2>1 DEF Step, Dot, DotDot, Blank
  <2>2. CASE comp = DotDot /\ comp \notin {Dot, Blank}
    BY <1>1, <2>2 DEF Step
  <2>3. CASE comp \notin {Dot, Blank, DotDot}
    <3>1. Found(d, comp) /\ EntryOf(d, comp).dir /\ Step(d, comp) = EntryOf(d, comp).head
      BY <1>2, <2>3 DEF Step
    <3>2. EntryOf(d, comp).head \in DirHeads(d)
      BY <3>1, FoundFacts DEF EntryOf, DirHeads
    <3> QED BY <3>1, <3>2, TreeClosed
  <2> QED BY <2>1, <2>2, <2>3
<1>3. Start(p) \in Tree
  BY TreeFacts DEF Start, InTree
<1>4. Step(Start(p), p.via) # NoDir
  BY DEF Parent
<1>5. QED BY <1>1, <1>2, <1>3, <1>4 DEF Parent


(* The cluster of a new directory is lost only when the call fails. *)
LEMMA LeakMkdir ==
  ASSUME TypesOK, Apart, TreeInv, HeadsSame, IdleCall, call.pc = "idle",
         NEW p \in Paths, NEW r, NoneOpen, Mkdir(p, r)
  PROVE  HeadsSame' /\ (InTree => LeakStep)
<1>1. ASSUME CanCreate(p), NEW c \in AllocChoice, fat' = [fat EXCEPT ![c] = Eof],
             \/ Readable(c) /\ MkdirInto(p, c, r)
             \/ r = -1 /\ ~ Readable(c) /\ UNCHANGED <<table, up>>,
             UNCHANGED <<cwd, handles, call>>
      PROVE  HeadsSame' /\ (InTree => LeakStep)
  <2>1. PICK P \in DirIds : P = Parent(p) /\ P # NoDir
    BY <1>1, ParentType DEF CanCreate
  <2>2. c \in Cluster /\ c # 0 /\ c \in DirIds /\ fat[c] = FreeCl
    BY <1>1, ClusterFacts DEF AllocChoice
  <2>3. fat'[c] = Eof /\ \A x \in Cluster : x # c => fat'[x] = fat[x]
    BY <1>1, <2>2 DEF TypesOK
  <2>4. HeadsSame'
    BY <1>1 DEF NoneOpen, HeadsSame
  <2>5. c \notin Tree
    <3>1. PICK S : Live(S) /\ Tree \subseteq S
      BY OpenAgrees
    <3> QED BY <2>2, <3>1, LiveHead DEF IsHead, Root
  <2> DEFINE Same == /\ \A d \in DirIds, s \in Slots : d # c => table'[d][s] = table[d][s]
                     /\ \A d \in DirIds, s \in Slots : Used(d, s)' => Used(d, s)
             Made(k) == /\ P = c \/ ~ Used(P, k)
                        /\ table'[P][k] = NewEntry(p.leaf, TRUE, c)
                        /\ \A d \in DirIds, s \in Slots :
                             d # c /\ ~ (d = P /\ s = k) => table'[d][s] = table[d][s]
  <2>6. Same \/ \E k \in Slots : Made(k)
    <3> DEFINE fresh == [table EXCEPT ![c] = EmptyTable]
    <3>1. CASE UNCHANGED <<table, up>>
      BY <3>1 DEF Used
    <3>2. CASE MkdirInto(p, c, r)
      <4>1. fresh \in [DirIds -> [Slots -> Dirent]] /\ (\A d \in DirIds : d # c => fresh[d] = table[d])
            /\ \A s \in Slots : fresh[c][s].st # "used"
        BY <2>2, RecordTypes DEF TypesOK, EmptyTable, EndEntry
      <4>2. \/ table' = fresh
            \/ \E k \in Slots : /\ fresh[P][k].st # "used"
                                /\ table' = [fresh EXCEPT ![P][k] = NewEntry(p.leaf, TRUE, c)]
        BY <2>1, <3>2 DEF MkdirInto, AddSlots
      <4> HIDE DEF fresh
      <4>3. CASE table' = fresh
        BY <4>1, <4>3 DEF Used
      <4>4. ASSUME NEW k \in Slots, fresh[P][k].st # "used",
                   table' = [fresh EXCEPT ![P][k] = NewEntry(p.leaf, TRUE, c)]
            PROVE  Made(k)
        BY <2>1, <4>1, <4>4 DEF Used
      <4> QED BY <4>2, <4>3, <4>4
    <3> QED BY <1>1, <3>1, <3>2
  <2>7. ASSUME InTree
        PROVE  LeakStep
    <3>1. P \in Tree /\ P # c /\ \A s \in Slots : ~ Used(c, s)
      BY <2>1, <2>2, <2>5, <2>7, ParentInTree DEF InTree
    <3>2. \A d \in Tree, s \in Slots : Used(d, s) => table'[d][s] = table[d][s]
      <4> SUFFICES ASSUME NEW d \in Tree, NEW s \in Slots, Used(d, s)
                   PROVE  table'[d][s] = table[d][s]
        OBVIOUS
      <4>1. d \in DirIds /\ d # c
        BY <2>5, TreeFacts
      <4>2. ASSUME NEW k \in Slots, Made(k)
            PROVE  table'[d][s] = table[d][s]
        <5>1. ~ (d = P /\ s = k)
          BY <3>1, <4>2
        <5> QED BY <4>1, <4>2, <5>1
      <4>3. CASE Same
        BY <4>1, <4>3
      <4> HIDE DEF Same, Made
      <4> QED BY <2>6, <4>2, <4>3
    <3>3. Tree \subseteq Tree'
      BY <3>2, TreeGrows DEF DirHeads, Used
    <3>4. \A b : Holds(b) => Holds(b)'
      BY <1>1, <3>2, <3>3, HoldsKept DEF Used
    <3>5. \A b : \A x \in ChainOf(b) : fat[x] \in Cluster => fat'[x] = fat[x]
      BY <2>2, <2>3, ChainInCluster, ClusterFacts
    <3>6. ASSUME NEW x, x \in Leaked', x \notin Leaked
          PROVE  x = c /\ c \notin Held'
      <4>1. x \in Cluster /\ x \notin Held' /\ fat[x] = FreeCl /\ fat'[x] # FreeCl
        BY <3>4, <3>5, <3>6, HeldKept
      <4> QED BY <2>3, <4>1
    <3>7. ASSUME NEW k \in Slots, table'[P][k] = NewEntry(p.leaf, TRUE, c)
          PROVE  c \in Held'
      <4>1. Used(P, k)' /\ table'[P][k].head = c
        BY <3>7 DEF Used, NewEntry
      <4>2. Holds(c)'
        BY <2>2, <3>1, <3>3, <4>1 DEF Holds, EntryHolds
      <4> QED BY <2>2, <4>2, ChainNext, HeldIsNext
    <3>8. call = Idle /\ call' = Idle
      BY <1>1 DEF IdleCall
    <3>9. CASE Same
      BY <2>2, <2>3, <3>6, <3>8, <3>9 DEF LeakStep
    <3>10. ASSUME NEW k \in Slots, Made(k)
           PROVE  LeakStep
      BY <3>6, <3>7, <3>10 DEF LeakStep
    <3> HIDE DEF Same, Made
    <3> QED BY <2>6, <3>9, <3>10
  <2> QED BY <2>4, <2>7
<1>2. CASE Fails(r)
  BY <1>2, LeakStutter DEF Fails, vars
<1>3. QED BY <1>1, <1>2 DEF Mkdir

LEMMA LeakInit == Init => HeadsSame /\ IdleCall
BY DEF Init, HeadsSame, IdleCall, ClosedHandle

LEMMA IdleNext ==
  ASSUME TypesOK, IdleCall, [Calls]_vars
  PROVE  IdleCall'
<1>1. PICK k \in CallRec : k = call
  BY DEF TypesOK
<1>2. CASE UNCHANGED call
  BY <1>2 DEF IdleCall
<1>3. CASE WriteHop
  BY <1>1, <1>3 DEF WriteHop, FollowLink, CallRec, IdleCall
<1>4. CASE call.pc = "loop" /\ \E a, b, c : call' = [call EXCEPT !.left = a, !.total = b, !.at = c, !.hop = 0]
  BY <1>1, <1>4 DEF CallRec, IdleCall
<1>5. CASE WriteChunk
  <2> DEFINE room == ClusterUnits - InCluster
             chunk == IF room > call.left THEN call.left ELSE room
  <2>1. CASE Transfer(call.at)
    <3>1. call' = [call EXCEPT !.left = @ - chunk, !.total = @ + chunk,
                               !.at = handles[call.h].head, !.hop = 0]
      BY <2>1, <1>5 DEF WriteChunk
    <3>2. call.pc = "loop"
      BY <1>5 DEF WriteChunk
    <3> HIDE DEF chunk
    <3> QED BY <1>4, <3>1, <3>2
  <2>2. CASE ~ Transfer(call.at)
    BY <1>1, <1>5, <2>2 DEF WriteChunk, CallRec, IdleCall
  <2> QED BY <2>1, <2>2
<1>6. ASSUME NEW r, WriteLeave(r)
      PROVE  IdleCall'
  BY <1>6 DEF WriteLeave, IdleCall
<1>7. ASSUME NEW p, NEW r, DirCall(p, r) \/ FileCall(p, r)
      PROVE  IdleCall'
  <2>1. UNCHANGED call
    BY <1>7 DEF DirCall, FileCall, Chdir, Mkdir, Rmdir, Rename, Create, Unlink, Open, Fails, vars
  <2> QED BY <1>2, <2>1
<1>8. ASSUME NEW h, NEW r, HandleCall(h, r)
      PROVE  IdleCall'
  BY <1>2, <1>8 DEF HandleCall, Close, Read, WriteEnter, StartWrite, IdleCall
<1>9. QED BY <1>2, <1>3, <1>5, <1>6, <1>7, <1>8 DEF Calls, vars

LEMMA LeakNext ==
  ASSUME LeakInv, [Calls]_vars
  PROVE  HeadsSame' /\ (InTree => LeakStep)
<1>0. TypesOK /\ Apart /\ Orderly /\ SizeInv /\ TreeInv /\ HeadsSame /\ IdleCall
  BY DEF LeakInv, IInv
<1>1. CASE WriteHop \/ WriteChunk
  BY <1>0, <1>1, LeakWriteHop, LeakWriteChunk
<1>2. ASSUME NEW r \in Results, WriteLeave(r)
      PROVE  HeadsSame' /\ (InTree => LeakStep)
  BY <1>0, <1>2, LeakWriteLeave
<1>3. ASSUME NEW r \in Results, NEW p \in Paths, call.pc = "idle", DirCall(p, r)
      PROVE  HeadsSame' /\ (InTree => LeakStep)
  <2>1. NoneOpen
    BY <1>3 DEF DirCall
  <2>2. CASE Chdir(p, r)
    <3>1. UNCHANGED <<fat, table, handles, call>>
      BY <2>2 DEF Chdir, Fails, vars
    <3> QED BY <1>0, <3>1, LeakStutter
  <2>3. CASE Mkdir(p, r)
    BY <1>0, <1>3, <2>1, <2>3, LeakMkdir
  <2>4. CASE Rmdir(p, r)
    BY <1>0, <2>1, <2>4, LeakRmdir
  <2>5. ASSUME NEW q \in Paths, Rename(p, q, r)
        PROVE  HeadsSame' /\ (InTree => LeakStep)
    BY <1>0, <2>5, LeakRename
  <2> QED BY <1>3, <2>2, <2>3, <2>4, <2>5 DEF DirCall
<1>4. ASSUME NEW r \in Results, NEW p \in Paths, FileCall(p, r)
      PROVE  HeadsSame' /\ (InTree => LeakStep)
  BY <1>0, <1>4, LeakCreate, LeakUnlink, LeakOpen DEF FileCall
<1>5. ASSUME NEW r \in Results, NEW h \in Handle, call.pc = "idle", HandleCall(h, r)
      PROVE  HeadsSame' /\ (InTree => LeakStep)
  BY <1>0, <1>5, LeakClose, LeakRead, LeakWriteEnter DEF HandleCall
<1>6. CASE UNCHANGED vars
  BY <1>0, <1>6, LeakStutter DEF vars
<1>7. QED BY <1>1, <1>2, <1>3, <1>4, <1>5, <1>6 DEF Calls

(* As long as nobody works in a removed directory, the only call that ever *)
(* loses a cluster is an fs_mkdir that fails after alloc_cluster: no write *)
(* on a full volume, no fs_close, fs_unlink, fs_rmdir or fs_rename leaves  *)
(* a taken cluster that neither the tree nor an open handle leads to.      *)
THEOREM LeaksOnlyThere == Spec => LeaksOnlyOnFailedMkdir
<1>1. Init => HeadsSame /\ IdleCall
  BY LeakInit
<1>2. LeakInv /\ [Calls]_vars => HeadsSame' /\ IdleCall'
  BY LeakNext, IdleNext DEF LeakInv, IInv
<1>3. IInv /\ Orderly /\ SizeInv /\ TreeInv /\ HeadsSame /\ IdleCall => LeakInv
  BY DEF LeakInv
<1>4. Spec => [](~ astray => Orderly)
  BY TablesSound DEF TablesOK
<1>5. Spec => [](~ astray => LeakInv)
  BY <1>1, <1>2, <1>3, <1>4, TreeReachable, OnlyCalls, PTL DEF Spec
<1> DEFINE Lost ==
      \A c \in Leaked' \ Leaked :
        /\ fat[c] = FreeCl /\ fat'[c] = Eof
        /\ call = Idle /\ call' = Idle
        /\ \A d \in DirIds : \A s \in Slots : Used(d, s)' => Used(d, s)
<1>6. LeakInv /\ [Calls]_vars => (InTree => Lost)
  BY LeakNext DEF LeakStep
<1> HIDE DEF Lost
<1>7. (~ astray => LeakInv) /\ [Next]_vars => [InTree /\ ~ astray' => Lost]_vars
  BY <1>6, OnlyCalls
<1>8. Spec => [][InTree /\ ~ astray' => Lost]_vars
  BY <1>5, <1>7, PTL DEF Spec
<1>9. QED BY <1>8 DEF LeaksOnlyOnFailedMkdir, Lost

-----------------------------------------------------------------------------
(* The commands of the shell, on top of the volume.                        *)

-----------------------------------------------------------------------------
(* The inductive invariant. *)

Copies == {"cpr", "mv"}

(* The commands that pass through a place, and what they have open there.  *)
ShapeOK ==
  /\ At("prompt") => cmd.name = "none"
  /\ cmd.at \in {"unlink", "more"} => cmd.name = "save"
  /\ cmd.at \in {"open", "read", "closesrc"} => cmd.name \in {"cat", "cpr", "mv"}
  /\ At("remove") => cmd.name = "mv"
  /\ cmd.at \in {"create", "opendst", "write", "writing", "closedst"} =>
       cmd.name \in {"cpr", "mv", "save", "notes"}
  /\ cmd.at \in {"prompt", "unlink", "open", "remove", "closedst"} => cmd.src = NoHandle
  /\ cmd.at \in {"prompt", "unlink", "open", "create", "opendst", "remove"} =>
       cmd.dst = NoHandle
  /\ cmd.name \in Copies /\ cmd.at \in {"create", "opendst", "write", "writing"} =>
       cmd.src # NoHandle
  /\ cmd.name \in Copies /\ At("read") => cmd.dst # NoHandle
  /\ cmd.name = "cat" => cmd.dst = NoHandle
  /\ cmd.name \in {"save", "notes"} => cmd.src = NoHandle
  /\ cmd.name \in {"cat", "cpr", "mv"} => cmd.p \in Paths
  /\ cmd.name \in {"cpr", "mv", "save", "notes"} => cmd.q \in Paths

(* What is open is open for the command that runs.                         *)
OnlyOpen == \A h \in Handle : handles[h].open => h \in {cmd.src, cmd.dst}

(* No file is longer than MaxSize.                                         *)
EntrySizes == \A d \in DirIds, s \in Slots : Used(d, s) => table[d][s].size <= MaxSize
SizesOK ==
  /\ EntrySizes
  /\ \A h \in Handle : handles[h].open => handles[h].size <= MaxSize
  /\ cmd.src # NoHandle => handles[cmd.src].pos <= handles[cmd.src].size

(* How far the destination may be written by now: as far as the source was *)
(* read, or as the text was taken from the editor.                         *)
Room ==
  IF cmd.name = "save" THEN cmd.text - cmd.left
  ELSE IF cmd.name \in Copies THEN handles[cmd.src].pos ELSE MaxSize

RoomOK ==
  /\ cmd.name = "save" => cmd.left <= cmd.text
  /\ (cmd.name = "notes" \/ At("write")) => cmd.got \in 1 .. MaxUnits
  /\ cmd.name \in Copies /\ At("read") => handles[cmd.dst].pos <= Room
  /\ At("more")    => handles[cmd.dst].pos <= Room
  /\ At("write")   => handles[cmd.dst].pos + cmd.got <= Room
  /\ At("writing") => handles[cmd.dst].pos + call.left <= Room

(* The file a copy creates is not the one it reads.                        *)
ApartOK ==
  cmd.src # NoHandle =>
    LET f == handles[cmd.src]
    IN  /\ At("create")  => Used(f.parent, f.off)
        /\ At("opendst") => \A q \in Paths : q = cmd.q =>
             ~ (LeafFound(q) /\ f.parent = Parent(q) /\ f.off = LeafSlot(q))

VolInv  == TypesOK /\ Apart /\ Orderly
CallInv == CmdSound /\ ShapeOK /\ OnlyOpen /\ SizesOK /\ RoomOK /\ ApartOK
ShInv   == VolInv /\ CallInv

-----------------------------------------------------------------------------
(* Each step of a command is a step FatVolume!Next allows.                 *)

LEMMA ResultFacts ==
  /\ 0 \in Results /\ -1 \in Results /\ 0 .. MaxSize \subseteq Results
  /\ NoHandle \notin Handle
  /\ 1 \in 1 .. MaxUnits /\ Buffer \in 1 .. MaxUnits /\ Buffer \in Nat
BY ConstAssumption, BufferAssumption DEF Results, NoHandle, Handle

(* Outside an fs_write no call is under way. *)
LEMMA BetweenCalls ==
  ASSUME CmdSound, cmd.at # "writing"
  PROVE  call = Idle /\ call.pc = "idle"
BY DEF CmdSound, At, Idle

LEMMA NothingOpen ==
  ASSUME OnlyOpen, cmd.src = NoHandle, cmd.dst = NoHandle
  PROVE  NoneOpen /\ \A p : ~ OpenOn(p)
BY ResultFacts DEF OnlyOpen, NoneOpen, OpenOn

LEMMA SimDirCall ==
  ASSUME NEW p \in Paths, NEW r \in Results, call.pc = "idle", Clear(p), DirCall(p, r),
         ~ astray, UNCHANGED astray
  PROVE  Calls
BY DEF Calls

LEMMA SimFileCall ==
  ASSUME NEW p \in Paths, NEW r \in Results, call.pc = "idle", Clear(p), FileCall(p, r),
         ~ astray, UNCHANGED astray
  PROVE  Calls
BY DEF Calls

LEMMA SimHandleCall ==
  ASSUME NEW h \in Handle, NEW r \in Results, call.pc = "idle", HandleCall(h, r),
         ~ astray, UNCHANGED astray
  PROVE  Calls
BY DEF Calls

LEMMA SimPrompt ==
  ASSUME ShInv, Prompt
  PROVE  [Calls]_vars
<1>0. ~ astray /\ UNCHANGED astray
  BY DEF Prompt
<1>1. NoneOpen /\ (\A p : ~ OpenOn(p)) /\ call.pc = "idle"
  <2>1. cmd.src = NoHandle /\ cmd.dst = NoHandle /\ cmd.at # "writing"
    BY DEF ShInv, CallInv, ShapeOK, Prompt, At
  <2>2. QED BY <2>1, NothingOpen, BetweenCalls DEF ShInv, CallInv
<1>2. ASSUME NEW p \in Paths, Direct(p)
      PROVE  Calls
  <2>1. PICK r \in Results : Chdir(p, r) \/ Mkdir(p, r) \/ Rmdir(p, r) \/ Unlink(p, r)
    BY <1>2 DEF Direct
  <2>2. Clear(p) /\ (DirCall(p, r) \/ FileCall(p, r))
    BY <1>1, <1>2, <2>1 DEF Direct, DirCall, FileCall
  <2>3. QED BY <1>0, <1>1, <2>2, SimDirCall, SimFileCall
<1>3. ASSUME NEW p \in Paths, NEW q \in Paths, StartMv(p, q)
      PROVE  Calls
  <2>1. Clear(p) /\ Clear(q) /\ \E r \in Results : Rename(p, q, r)
    BY <1>3, ResultFacts DEF StartMv
  <2>2. PICK r \in Results : DirCall(p, r)
    BY <1>1, <2>1 DEF DirCall
  <2>3. QED BY <1>0, <1>1, <2>1, <2>2, SimDirCall
<1>4. QED BY <1>2, <1>3 DEF Prompt, StartCat, StartCpr, StartSave, StartNotes

(* What fs_read returns fits the results Next ranges over. *)
LEMMA ReadResult ==
  ASSUME TypesOK, SizesOK, NEW h \in Handle, NEW r, handles[h].open, Read(h, Buffer, r)
  PROVE  r \in Results
<1>1. r \in Nat /\ handles[h].pos + r <= handles[h].size
  BY ResultFacts DEF Read, CanRead
<1>2. handles[h].size <= MaxSize /\ handles[h].size \in Nat /\ handles[h].pos \in Nat
  BY DEF SizesOK, TypesOK, HandleRec
<1>3. r \in 0 .. MaxSize
  BY <1>1, <1>2, ConstAssumption
<1>4. QED BY <1>3, ResultFacts

(* Where a write starts, the destination is short enough for it. *)
LEMMA RoomBound ==
  ASSUME ShInv, cmd.at \in {"read", "more", "write", "writing"}, cmd.name # "cat"
  PROVE  Room \in Int /\ Room <= MaxSize
<1>1. CASE cmd.name = "save"
  <2>1. cmd.text \in 0 .. MaxSize /\ cmd.left \in 0 .. MaxSize /\ cmd.left <= cmd.text
    BY <1>1 DEF ShInv, CallInv, CmdSound, CmdRec, RoomOK
  <2>2. Room = cmd.text - cmd.left
    BY <1>1 DEF Room, Copies
  <2>3. QED BY <2>1, <2>2, ConstAssumption
<1>2. CASE cmd.name \in Copies
  <2>1. cmd.src \in Handle /\ handles[cmd.src].open
    BY <1>2 DEF ShInv, CallInv, CmdSound, CmdRec, ShapeOK, Copies
  <2>2. /\ handles[cmd.src].pos \in Nat /\ handles[cmd.src].size \in Nat
        /\ handles[cmd.src].pos <= handles[cmd.src].size /\ handles[cmd.src].size <= MaxSize
    BY <2>1, ResultFacts DEF ShInv, VolInv, CallInv, SizesOK, TypesOK, HandleRec
  <2>3. QED BY <1>2, <2>2, ConstAssumption DEF Room, Copies
<1>3. CASE cmd.name = "notes"
  BY <1>3, ConstAssumption DEF Room, Copies
<1>4. QED BY <1>1, <1>2, <1>3 DEF ShInv, CallInv, ShapeOK, At, Copies

LEMMA SimRun ==
  ASSUME ShInv, Run
  PROVE  [Calls]_vars
<1>0. ~ astray /\ UNCHANGED astray
  BY DEF Run
<1>1. cmd \in CmdRec /\ CmdSound /\ OnlyOpen /\ ShapeOK /\ SizesOK /\ TypesOK
  BY DEF ShInv, CallInv, VolInv, CmdSound
<1>2. CASE UnlinkOld
  <2>1. cmd.at = "unlink" /\ cmd.src = NoHandle /\ cmd.dst = NoHandle /\ cmd.q \in Paths
    BY <1>1, <1>2 DEF UnlinkOld, At, ShapeOK
  <2>2. PICK r \in Results : Unlink(cmd.q, r)
    BY <1>2 DEF UnlinkOld
  <2>3. Clear(cmd.q) /\ FileCall(cmd.q, r) /\ call.pc = "idle"
    BY <1>1, <1>2, <2>1, <2>2, NothingOpen, BetweenCalls DEF FileCall, UnlinkOld
  <2>4. QED BY <1>0, <2>1, <2>3, SimFileCall
<1>3. CASE OpenSrc
  <2>1. cmd.at = "open" /\ cmd.src = NoHandle /\ cmd.dst = NoHandle /\ cmd.p \in Paths
    BY <1>1, <1>3 DEF OpenSrc, At, ShapeOK
  <2>2. PICK r \in Results : Open(cmd.p, r)
    BY <1>3 DEF OpenSrc
  <2>3. Clear(cmd.p) /\ FileCall(cmd.p, r) /\ call.pc = "idle"
    BY <1>1, <1>3, <2>1, <2>2, NothingOpen, BetweenCalls DEF FileCall, OpenSrc
  <2>4. QED BY <1>0, <2>1, <2>3, SimFileCall
<1>4. CASE CreateDst
  <2>1. cmd.at = "create" /\ cmd.q \in Paths
    BY <1>1, <1>4 DEF CreateDst, At, ShapeOK
  <2>2. PICK r \in Results : Create(cmd.q, r)
    BY <1>4 DEF CreateDst
  <2>3. Clear(cmd.q) /\ FileCall(cmd.q, r) /\ call.pc = "idle"
    BY <1>1, <1>4, <2>1, <2>2, BetweenCalls DEF FileCall, CreateDst
  <2>4. QED BY <1>0, <2>1, <2>3, SimFileCall
<1>5. CASE OpenDst
  <2>1. cmd.at = "opendst" /\ cmd.dst = NoHandle /\ cmd.q \in Paths
    BY <1>1, <1>5 DEF OpenDst, At, ShapeOK
  <2>2. ~ OpenOn(cmd.q)
    <3>1. CASE cmd.src = NoHandle
      BY <1>1, <2>1, <3>1, NothingOpen
    <3>2. CASE cmd.src # NoHandle
      <4> SUFFICES ASSUME IsFile(cmd.q), NEW h \in Handle, handles[h].open,
                          handles[h].parent = Parent(cmd.q), handles[h].off = LeafSlot(cmd.q)
                   PROVE  FALSE
        BY DEF OpenOn
      <4>1. h = cmd.src
        BY <1>1, <2>1, ResultFacts DEF OnlyOpen
      <4>2. QED BY <2>1, <3>2, <4>1 DEF ShInv, CallInv, ApartOK, At, IsFile
    <3>3. QED BY <3>1, <3>2
  <2>3. PICK r \in Results : Open(cmd.q, r)
    BY <1>5 DEF OpenDst
  <2>4. Clear(cmd.q) /\ FileCall(cmd.q, r) /\ call.pc = "idle"
    BY <1>1, <1>5, <2>1, <2>2, <2>3, BetweenCalls DEF FileCall, OpenDst
  <2>5. QED BY <1>0, <2>1, <2>4, SimFileCall
<1>6. CASE ReadSrc
  <2>1. cmd.at = "read" /\ cmd.src \in Handle /\ handles[cmd.src].open
    BY <1>1, <1>6 DEF ReadSrc, At, CmdSound, CmdRec
  <2>2. PICK r \in 0 .. Buffer : Read(cmd.src, Buffer, r)
    BY <1>6 DEF ReadSrc
  <2>3. r \in Results
    BY <1>1, <2>1, <2>2, ReadResult
  <2>4. HandleCall(cmd.src, r)
    BY <2>2, ResultFacts DEF HandleCall
  <2>5. QED BY <1>0, <1>1, <2>1, <2>3, <2>4, BetweenCalls, SimHandleCall
<1>7. CASE EnterWrite
  <2>1. cmd.at = "write" /\ cmd.dst \in Handle /\ handles[cmd.dst].open /\ cmd.name # "cat"
    BY <1>1, <1>7 DEF EnterWrite, At, CmdSound, CmdRec, ShapeOK
  <2>2. cmd.got \in 1 .. MaxUnits /\ handles[cmd.dst].pos + cmd.got <= MaxSize
    <3>1. Room \in Int /\ Room <= MaxSize
      BY <2>1, RoomBound
    <3>2. cmd.got \in 1 .. MaxUnits /\ handles[cmd.dst].pos + cmd.got <= Room
      BY <2>1 DEF ShInv, CallInv, RoomOK, At
    <3>3. handles[cmd.dst].pos \in Nat
      BY <1>1, <2>1 DEF TypesOK, HandleRec
    <3>4. QED BY <3>1, <3>2, <3>3, ConstAssumption
  <2>3. PICK r \in Results : WriteEnter(cmd.dst, cmd.got, r)
    BY <1>7 DEF EnterWrite
  <2>4. HandleCall(cmd.dst, r)
    BY <2>2, <2>3 DEF HandleCall
  <2>5. QED BY <1>0, <1>1, <2>1, <2>4, BetweenCalls, SimHandleCall
<1>8. CASE InWrite
  BY <1>0, <1>8 DEF InWrite, Calls
<1>9. CASE CloseSrc
  <2>1. cmd.at = "closesrc" /\ cmd.src \in Handle
    BY <1>1, <1>9 DEF CloseSrc, At, CmdSound, CmdRec
  <2>2. HandleCall(cmd.src, 0)
    BY <1>9 DEF CloseSrc, HandleCall
  <2>3. QED BY <1>0, <1>1, <2>1, <2>2, ResultFacts, BetweenCalls, SimHandleCall
<1>10. CASE CloseDst
  <2>1. cmd.at = "closedst" /\ cmd.dst \in Handle
    BY <1>1, <1>10 DEF CloseDst, At, CmdSound, CmdRec
  <2>2. HandleCall(cmd.dst, 0)
    BY <1>10 DEF CloseDst, HandleCall
  <2>3. QED BY <1>0, <1>1, <2>1, <2>2, ResultFacts, BetweenCalls, SimHandleCall
<1>11. CASE RemoveOld
  <2>1. cmd.at = "remove" /\ cmd.src = NoHandle /\ cmd.dst = NoHandle /\ cmd.p \in Paths
    BY <1>1, <1>11 DEF RemoveOld, At, ShapeOK
  <2>2. PICK r \in Results : Unlink(cmd.p, r)
    BY <1>11 DEF RemoveOld
  <2>3. Clear(cmd.p) /\ FileCall(cmd.p, r) /\ call.pc = "idle"
    BY <1>1, <1>11, <2>1, <2>2, NothingOpen, BetweenCalls DEF FileCall, RemoveOld
  <2>4. QED BY <1>0, <2>1, <2>3, SimFileCall
<1>12. CASE NextLine
  BY <1>12 DEF NextLine
<1>13. QED BY <1>2, <1>3, <1>4, <1>5, <1>6, <1>7, <1>8, <1>9, <1>10, <1>11, <1>12 DEF Run

LEMMA SimStep == ShInv /\ [ShCalls]_shvars => [Calls]_vars
<1>1. UNCHANGED shvars => UNCHANGED vars
  BY DEF shvars, vars
<1>2. QED BY <1>1, SimPrompt, SimRun DEF ShCalls

(* A step after which no call has gone astray is a step of a call that did *)
(* not; a call that goes astray goes astray on the volume.                 *)
LEMMA OnlyShCalls == [ShNext]_shvars /\ ~ astray' => ~ astray /\ [ShCalls]_shvars
BY DEF ShNext, ShCalls, Prompt, Run, ShStray, Stray, ShEnded, Ended, vars, shvars

LEMMA SimNext == (~ astray => ShInv) /\ [ShNext]_shvars => [Next]_vars
<1> SUFFICES ASSUME ~ astray => ShInv, [ShNext]_shvars PROVE [Next]_vars
  OBVIOUS
<1>1. CASE UNCHANGED shvars
  BY <1>1 DEF shvars, vars
<1>2. CASE ShCalls
  <2>1. ~ astray
    BY <1>2 DEF ShCalls, Prompt, Run
  <2> QED BY <1>2, <2>1, SimStep DEF Next
<1>3. CASE ShEnded
  BY <1>3 DEF ShEnded, Next
<1>4. CASE ShStray
  <2>1. ~ astray
    BY <1>4 DEF ShStray, Stray
  <2>2. ShapeOK /\ CmdSound
    BY <2>1 DEF ShInv, CallInv
  <2>3. Walked \subseteq Paths
    BY <2>2 DEF Walked, ShapeOK, CmdSound, CmdRec, At, Places
  <2> QED BY <1>4, <2>3 DEF ShStray, Next
<1>5. QED BY <1>1, <1>2, <1>3, <1>4 DEF ShNext

(* What the calls keep of the volume is kept by the commands. *)
LEMMA VolStep == ShInv /\ [ShCalls]_shvars => VolInv'
<1>1. VolInv /\ [Calls]_vars => VolInv'
  BY NextIInv, NextTables DEF VolInv, IInv
<1>2. QED BY <1>1, SimStep DEF ShInv

-----------------------------------------------------------------------------
(* The calls and the sizes of the entries. *)

LEMMA SizesOneEntry ==
  ASSUME TypesOK, EntrySizes, NEW d \in DirIds, NEW s \in Slots, NEW e,
         e.st = "used" => e.size <= MaxSize, table' = [table EXCEPT ![d][s] = e]
  PROVE  EntrySizes'
<1> SUFFICES ASSUME NEW x \in DirIds, NEW y \in Slots, table'[x][y].st = "used"
             PROVE  table'[x][y].size <= MaxSize
  BY DEF EntrySizes, Used
<1>1. table'[x][y] = IF x = d /\ y = s THEN e ELSE table[x][y]
  BY DEF TypesOK
<1>2. QED BY <1>1 DEF EntrySizes, Used

LEMMA SizesSame ==
  ASSUME EntrySizes, UNCHANGED table
  PROVE  EntrySizes'
BY DEF EntrySizes, Used

LEMMA SizesFails ==
  ASSUME EntrySizes, NEW r, Fails(r)
  PROVE  EntrySizes' /\ UNCHANGED <<handles, call>>
BY SizesSame DEF Fails, vars

LEMMA MaxRemove ==
  ASSUME TypesOK, EntrySizes, NEW p, LeafFound(p), MarkDeleted(Parent(p), LeafSlot(p))
  PROVE  EntrySizes'
BY LeafFoundFacts, SizesOneEntry DEF MarkDeleted, DeletedEntry, EndEntry

LEMMA MaxCreate ==
  ASSUME TypesOK, EntrySizes, NEW p \in Paths, NEW r, Create(p, r)
  PROVE  EntrySizes' /\ UNCHANGED <<handles, call>>
<1>1. ASSUME NEW s \in CreateSlots(p),
             table' = [table EXCEPT ![Parent(p)][s] = NewEntry(p.leaf, FALSE, 0)]
      PROVE  EntrySizes'
  <2>1. Parent(p) \in DirIds /\ s \in Slots
    BY <1>1, ParentType DEF CreateSlots, CanCreate, AddSlots
  <2> DEFINE e == NewEntry(p.leaf, FALSE, 0)
  <2>2. e.size <= MaxSize
    BY ConstAssumption DEF NewEntry
  <2> HIDE DEF e
  <2>3. QED BY <1>1, <2>1, <2>2, SizesOneEntry DEF e
<1>2. QED BY <1>1, SizesFails DEF Create

LEMMA MaxUnlink ==
  ASSUME TypesOK, EntrySizes, NEW p, NEW r, Unlink(p, r)
  PROVE  EntrySizes' /\ UNCHANGED <<handles, call>>
BY MaxRemove, SizesFails DEF Unlink, IsFile

LEMMA MaxRename ==
  ASSUME TypesOK, EntrySizes, NEW p \in Paths, NEW q \in Paths, NEW r, Rename(p, q, r)
  PROVE  EntrySizes' /\ UNCHANGED <<handles, call>>
<1>1. CASE /\ LeafFound(p) /\ UNCHANGED <<handles, call>>
           /\ table' = [table EXCEPT ![Parent(p)][LeafSlot(p)].name = q.leaf]
  <2>1. Parent(p) \in DirIds /\ LeafSlot(p) \in Slots
    BY <1>1, LeafFoundFacts
  <2>2. \A d \in DirIds, s \in Slots :
          table'[d][s].st = table[d][s].st /\ table'[d][s].size = table[d][s].size
    BY <1>1, <2>1, SMTT(30) DEF TypesOK, Dirent
  <2>3. EntrySizes'
    BY <2>2 DEF EntrySizes, Used
  <2>4. QED BY <1>1, <2>3
<1>2. QED BY <1>1, SizesFails DEF Rename, CanRename

LEMMA MaxMkdir ==
  ASSUME TypesOK, EntrySizes, NEW p \in Paths, NEW r, Mkdir(p, r)
  PROVE  EntrySizes' /\ UNCHANGED <<handles, call>>
<1>1. ASSUME CanCreate(p), NEW c \in Cluster, MkdirInto(p, c, r)
      PROVE  EntrySizes'
  <2> DEFINE fresh == [table EXCEPT ![c] = EmptyTable]
             e == NewEntry(p.leaf, TRUE, c)
  <2>1. c \in DirIds /\ Parent(p) \in DirIds
    BY <1>1, ClusterFacts, ParentType DEF CanCreate
  <2>2. \A d \in DirIds, s \in Slots : fresh[d][s].st = "used" => fresh[d][s].size <= MaxSize
    BY <2>1 DEF TypesOK, EntrySizes, Used, EmptyTable, EndEntry
  <2>3. fresh \in [DirIds -> [Slots -> Dirent]]
    BY <2>1, RecordTypes DEF TypesOK
  <2>4. e.size <= MaxSize
    BY ConstAssumption DEF NewEntry
  <2>5. \/ table' = fresh
        \/ \E s \in Slots : table' = [fresh EXCEPT ![Parent(p)][s] = e]
    BY <1>1 DEF MkdirInto, AddSlots
  <2> HIDE DEF fresh, e
  <2>6. ASSUME NEW s \in Slots, table' = [fresh EXCEPT ![Parent(p)][s] = e],
               NEW x \in DirIds, NEW y \in Slots, table'[x][y].st = "used"
        PROVE  table'[x][y].size <= MaxSize
    <3>1. table'[x][y] = IF x = Parent(p) /\ y = s THEN e ELSE fresh[x][y]
      BY <2>1, <2>3, <2>6
    <3>2. QED BY <2>2, <2>4, <2>6, <3>1
  <2>7. \A x \in DirIds, y \in Slots : table'[x][y].st = "used" => table'[x][y].size <= MaxSize
    BY <2>2, <2>5, <2>6
  <2>8. QED BY <2>7 DEF EntrySizes, Used
<1>2. QED BY <1>1, SizesSame, SizesFails DEF Mkdir, AllocChoice

LEMMA SizesDirect ==
  ASSUME TypesOK, EntrySizes, NEW p \in Paths, Direct(p)
  PROVE  EntrySizes' /\ UNCHANGED <<handles, call, cmd>>
<1>1. PICK r \in Results : Chdir(p, r) \/ Mkdir(p, r) \/ Rmdir(p, r) \/ Unlink(p, r)
  BY DEF Direct
<1>2. Chdir(p, r) => EntrySizes' /\ UNCHANGED <<handles, call>>
  BY SizesSame, SizesFails DEF Chdir
<1>3. Rmdir(p, r) => EntrySizes' /\ UNCHANGED <<handles, call>>
  BY MaxRemove, SizesFails DEF Rmdir, CanRmdir
<1>4. QED BY <1>1, <1>2, <1>3, MaxMkdir, MaxUnlink DEF Direct

-----------------------------------------------------------------------------
(* The steps of the commands keep the invariant. *)

(* The locals of a command that has nothing open after the step. *)
LEMMA NothingOpenStep ==
  ASSUME OnlyOpen, call = Idle, cmd.src = NoHandle, cmd.dst = NoHandle,
         UNCHANGED <<handles, call>>, EntrySizes',
         cmd' \in CmdRec, cmd'.src = NoHandle, cmd'.dst = NoHandle, ShapeOK',
         cmd'.at \in {"prompt", "unlink", "open", "create", "opendst", "remove"},
         cmd'.name = "save" => cmd'.left <= cmd'.text,
         cmd'.name = "notes" => cmd'.got \in 1 .. MaxUnits
  PROVE  CallInv'
<1>1. \A h \in Handle : ~ handles[h].open
  BY ResultFacts DEF OnlyOpen
<1>2. CmdSound'
  BY DEF CmdSound, At
<1>3. OnlyOpen' /\ SizesOK'
  BY <1>1 DEF OnlyOpen, SizesOK
<1>4. RoomOK' /\ ApartOK'
  BY DEF RoomOK, ApartOK, At, Copies
<1>5. QED BY <1>2, <1>3, <1>4 DEF CallInv

(* A command that begins: nothing open, no lengths. *)
Fresh(c, n, place, p, q) ==
  /\ c \in CmdRec
  /\ c.name = n /\ c.at = place /\ c.p = p /\ c.q = q
  /\ c.src = NoHandle /\ c.dst = NoHandle

LEMMA NoCmdFresh == Fresh(NoCmd, "none", "prompt", NoPath, NoPath)
<1>1. NoPath \in PathType
  BY DEF NoPath, PathType, Leaf
<1>2. 0 \in 0 .. MaxSize
  BY ConstAssumption
<1>3. QED BY <1>1, <1>2 DEF Fresh, NoCmd, CmdRec, Commands, Places

LEMMA BeginFresh ==
  ASSUME NEW n \in Commands, NEW place \in Places, NEW p \in PathType, NEW q \in PathType
  PROVE  Fresh(Begin(n, place, p, q), n, place, p, q)
BY NoCmdFresh DEF Begin, Fresh, CmdRec

LEMMA StepPrompt ==
  ASSUME ShInv, Prompt
  PROVE  CallInv'
<1>1. /\ cmd \in CmdRec /\ cmd.at = "prompt" /\ cmd.src = NoHandle /\ cmd.dst = NoHandle
      /\ OnlyOpen /\ call = Idle /\ TypesOK /\ EntrySizes /\ ShapeOK /\ cmd.name = "none"
  BY BetweenCalls DEF ShInv, VolInv, CallInv, CmdSound, SizesOK, ShapeOK, Prompt, At
<1>2. \A p \in Paths : p \in PathType
  BY ConstAssumption
<1>3. ASSUME NEW p \in Paths, Direct(p)
      PROVE  CallInv'
  <2>1. EntrySizes' /\ UNCHANGED <<handles, call, cmd>>
    BY <1>1, <1>3, SizesDirect
  <2>2. ShapeOK'
    BY <1>1, <2>1 DEF ShapeOK, At
  <2>3. QED BY <1>1, <2>1, <2>2, NothingOpenStep
<1>4. ASSUME NEW p \in Paths, NEW q \in PathType, NEW n \in {"cat", "cpr", "mv"},
             n # "cat" => q \in Paths, cmd' = Begin(n, "open", p, q),
             EntrySizes', UNCHANGED <<handles, call>>
      PROVE  CallInv'
  <2>1. Fresh(cmd', n, "open", p, q)
    BY <1>2, <1>4, BeginFresh DEF Commands, Places
  <2>2. ShapeOK'
    BY <1>4, <2>1 DEF ShapeOK, At, Copies, Fresh
  <2>3. QED BY <1>1, <1>4, <2>1, <2>2, NothingOpenStep DEF Fresh
<1>5. ASSUME NEW p \in Paths, NEW q \in Paths, StartCat(p) \/ StartCpr(p, q) \/ StartMv(p, q)
      PROVE  CallInv'
  <2>1. EntrySizes' /\ UNCHANGED <<handles, call>>
    BY <1>1, <1>5, SizesSame, MaxRename DEF StartCat, StartCpr, StartMv, vars
  <2>2. CASE UNCHANGED cmd
    <3>1. ShapeOK'
      BY <1>1, <2>2 DEF ShapeOK, At
    <3>2. QED BY <1>1, <2>1, <2>2, <3>1, NothingOpenStep
  <2>3. CASE StartCat(p)
    BY <1>4, <2>1, <2>3, NoCmdFresh DEF StartCat, Fresh, CmdRec
  <2>4. CASE StartCpr(p, q)
    BY <1>2, <1>4, <2>1, <2>4 DEF StartCpr
  <2>5. CASE cmd' = Begin("mv", "open", p, q)
    BY <1>2, <1>4, <2>1, <2>5
  <2>6. QED BY <1>5, <2>2, <2>3, <2>4, <2>5 DEF StartMv
<1>6. ASSUME NEW q \in Paths, NEW n \in 0 .. MaxSize, StartSave(q, n)
      PROVE  CallInv'
  <2>1. Fresh(Begin("save", "unlink", NoPath, q), "save", "unlink", NoPath, q)
    BY <1>2, BeginFresh, NoCmdFresh DEF Commands, Places, Fresh, CmdRec
  <2>2. Fresh(cmd', "save", "unlink", NoPath, q) /\ cmd'.left = n /\ cmd'.text = n
    BY <1>6, <2>1 DEF StartSave, Fresh, CmdRec
  <2>3. ShapeOK'
    BY <2>2 DEF ShapeOK, At, Copies, Fresh
  <2>4. EntrySizes' /\ UNCHANGED <<handles, call>>
    BY <1>1, <1>6, SizesSame DEF StartSave, vars
  <2>5. n <= n
    BY ConstAssumption
  <2>6. QED BY <1>1, <2>2, <2>3, <2>4, <2>5, NothingOpenStep DEF Fresh
<1>7. ASSUME NEW q \in Paths, NEW n \in 1 .. MaxUnits, n <= MaxSize, StartNotes(q, n)
      PROVE  CallInv'
  <2>1. Fresh(Begin("notes", "create", NoPath, q), "notes", "create", NoPath, q)
    BY <1>2, BeginFresh, NoCmdFresh DEF Commands, Places, Fresh, CmdRec
  <2>2. n \in 0 .. MaxSize
    BY <1>7, ConstAssumption
  <2>3. Fresh(cmd', "notes", "create", NoPath, q) /\ cmd'.got = n
    BY <1>7, <2>1, <2>2 DEF StartNotes, Fresh, CmdRec
  <2>4. ShapeOK'
    BY <2>3 DEF ShapeOK, At, Copies, Fresh
  <2>5. EntrySizes' /\ UNCHANGED <<handles, call>>
    BY <1>1, <1>7, SizesSame DEF StartNotes, vars
  <2>6. QED BY <1>1, <2>3, <2>4, <2>5, NothingOpenStep DEF Fresh
<1>8. QED BY <1>3, <1>5, <1>6, <1>7 DEF Prompt

LEMMA GoToFacts ==
  ASSUME cmd \in CmdRec, NEW place \in Places
  PROVE  /\ GoTo(place) \in CmdRec /\ GoTo(place).at = place
         /\ GoTo(place).name = cmd.name
         /\ GoTo(place).p = cmd.p /\ GoTo(place).q = cmd.q
         /\ GoTo(place).src = cmd.src /\ GoTo(place).dst = cmd.dst
         /\ GoTo(place).got = cmd.got /\ GoTo(place).text = cmd.text
         /\ GoTo(place).left = cmd.left
BY DEF GoTo, CmdRec

LEMMA PlaceFacts ==
  {"prompt", "unlink", "open", "create", "opendst", "read", "more", "write",
   "writing", "closesrc", "closedst", "remove"} = Places
BY DEF Places

(* A command returns to the prompt, mv to the removal of the old name. *)
LEMMA ReturnsFacts ==
  ASSUME cmd \in CmdRec, cmd.name # "none"
  PROVE  /\ Returns \in CmdRec
         /\ \/ cmd.name # "mv" /\ Fresh(Returns, "none", "prompt", NoPath, NoPath)
            \/ /\ Returns.name = "mv" /\ Returns.at = "remove" /\ cmd.name = "mv"
               /\ Returns.p = cmd.p /\ Returns.q = cmd.q
               /\ Returns.src = cmd.src /\ Returns.dst = cmd.dst
BY NoCmdFresh, GoToFacts, PlaceFacts DEF Returns, Fresh

LEMMA HandleFacts ==
  ASSUME ShInv
  PROVE  /\ cmd.src # NoHandle =>
              /\ cmd.src \in Handle /\ handles[cmd.src] \in HandleRec /\ handles[cmd.src].open
              /\ handles[cmd.src].pos <= handles[cmd.src].size
              /\ handles[cmd.src].size <= MaxSize
         /\ cmd.dst # NoHandle =>
              /\ cmd.dst \in Handle /\ handles[cmd.dst] \in HandleRec /\ handles[cmd.dst].open
              /\ handles[cmd.dst].size <= MaxSize /\ cmd.dst # cmd.src
BY DEF ShInv, VolInv, CallInv, CmdSound, CmdRec, SizesOK, TypesOK

(* A command that returns with nothing open. *)
LEMMA ReturnStep ==
  ASSUME ShInv, cmd.at # "writing", cmd.name # "none",
         cmd.src = NoHandle, cmd.dst = NoHandle, cmd' = Returns,
         UNCHANGED <<handles, call>>, EntrySizes'
  PROVE  CallInv'
<1>1. /\ cmd \in CmdRec /\ OnlyOpen /\ call = Idle /\ ShapeOK
  BY BetweenCalls DEF ShInv, CallInv, CmdSound
<1>2. CASE cmd.name # "mv" /\ Fresh(Returns, "none", "prompt", NoPath, NoPath)
  <2>1. ShapeOK'
    BY <1>2 DEF ShapeOK, At, Copies, Fresh
  <2>2. QED BY <1>1, <1>2, <2>1, NothingOpenStep DEF Fresh
<1>3. CASE /\ Returns.name = "mv" /\ Returns.at = "remove" /\ cmd.name = "mv"
           /\ Returns.p = cmd.p /\ Returns.q = cmd.q
           /\ Returns.src = cmd.src /\ Returns.dst = cmd.dst
  <2>1. ShapeOK'
    BY <1>1, <1>3 DEF ShapeOK, At, Copies
  <2>2. QED BY <1>1, <1>3, <2>1, ReturnsFacts, NothingOpenStep
<1>4. QED BY <1>1, <1>2, <1>3, ReturnsFacts

LEMMA StepUnlinkOld ==
  ASSUME ShInv, UnlinkOld
  PROVE  CallInv'
<1>1. /\ cmd \in CmdRec /\ cmd.at = "unlink" /\ cmd.src = NoHandle /\ cmd.dst = NoHandle
      /\ OnlyOpen /\ call = Idle /\ TypesOK /\ EntrySizes /\ ShapeOK /\ cmd.name = "save"
      /\ cmd.left <= cmd.text
  BY BetweenCalls DEF ShInv, VolInv, CallInv, CmdSound, SizesOK, ShapeOK, RoomOK, UnlinkOld, At
<1>2. EntrySizes' /\ UNCHANGED <<handles, call>>
  <2>1. PICK r \in Results : Unlink(cmd.q, r)
    BY DEF UnlinkOld
  <2>2. QED BY <1>1, <2>1, MaxUnlink
<1> DEFINE old == IF IsFile(cmd.q) THEN LeafEntry(cmd.q).size ELSE 0
<1>3. old \in 0 .. MaxSize
  <2>1. CASE IsFile(cmd.q)
    BY <1>1, <2>1, LeafFoundFacts, ConstAssumption DEF IsFile, EntrySizes
  <2>2. CASE ~ IsFile(cmd.q)
    BY <2>2, ConstAssumption
  <2>3. QED BY <2>1, <2>2
<1>4. cmd' = [GoTo("create") EXCEPT !.old = old]
  BY DEF UnlinkOld
<1> HIDE DEF old
<1>5. /\ cmd' \in CmdRec /\ cmd'.at = "create" /\ cmd'.name = "save" /\ cmd'.q = cmd.q
      /\ cmd'.src = NoHandle /\ cmd'.dst = NoHandle
      /\ cmd'.left = cmd.left /\ cmd'.text = cmd.text
  BY <1>1, <1>3, <1>4, GoToFacts, PlaceFacts DEF CmdRec
<1>6. ShapeOK'
  BY <1>1, <1>5 DEF ShapeOK, At, Copies
<1>7. QED BY <1>1, <1>2, <1>5, <1>6, NothingOpenStep

LEMMA StepRemoveOld ==
  ASSUME ShInv, RemoveOld
  PROVE  CallInv'
<1>1. /\ cmd.at = "remove" /\ cmd.src = NoHandle /\ cmd.dst = NoHandle
      /\ OnlyOpen /\ call = Idle /\ TypesOK /\ EntrySizes
  BY BetweenCalls DEF ShInv, VolInv, CallInv, CmdSound, SizesOK, ShapeOK, RemoveOld, At
<1>2. EntrySizes' /\ UNCHANGED <<handles, call>>
  <2>1. PICK r \in Results : Unlink(cmd.p, r)
    BY DEF RemoveOld
  <2>2. QED BY <1>1, <2>1, MaxUnlink
<1>3. Fresh(cmd', "none", "prompt", NoPath, NoPath)
  BY NoCmdFresh DEF RemoveOld
<1>4. ShapeOK'
  BY <1>3 DEF ShapeOK, At, Copies, Fresh
<1>5. QED BY <1>1, <1>2, <1>3, <1>4, NothingOpenStep DEF Fresh

(* fs_open either returns -1 and changes nothing, or takes a closed handle *)
(* and sets it to the start of the file.                                   *)
LEMMA OpenEffect ==
  ASSUME ShInv, NEW p, NEW r, Open(p, r), r # -1
  PROVE  /\ r \in Handle /\ ~ handles[r].open /\ IsFile(p)
         /\ UNCHANGED <<table, call>>
         /\ handles' \in [Handle -> HandleRec]
         /\ \A h \in Handle : h # r => handles'[h] = handles[h]
         /\ handles'[r].open /\ handles'[r].pos = 0
         /\ handles'[r].parent = Parent(p) /\ handles'[r].off = LeafSlot(p)
         /\ handles'[r].size \in Nat /\ handles'[r].size <= MaxSize
<1>1. /\ r \in FreeHandles /\ IsFile(p)
      /\ handles' = [handles EXCEPT ![r] = NewHandle(p)]
      /\ UNCHANGED <<fat, table, up, cwd, call>>
  BY DEF Open, Fails
<1>2. /\ Parent(p) \in DirIds /\ LeafSlot(p) \in Slots /\ Used(Parent(p), LeafSlot(p))
      /\ LeafEntry(p) = table[Parent(p)][LeafSlot(p)]
      /\ LeafEntry(p).head \in DirIds /\ LeafEntry(p).size \in Nat
  BY <1>1, LeafFoundFacts DEF IsFile, ShInv, VolInv
<1>3. LeafEntry(p).size <= MaxSize
  BY <1>2 DEF ShInv, CallInv, SizesOK, EntrySizes
<1>4. NewHandle(p) \in HandleRec
  BY <1>2 DEF NewHandle, HandleRec
<1>5. handles \in [Handle -> HandleRec] /\ r \in Handle /\ ~ handles[r].open
  BY <1>1 DEF ShInv, VolInv, TypesOK, FreeHandles
<1>6. handles'[r] = NewHandle(p)
  BY <1>1, <1>5
<1>7. QED BY <1>1, <1>2, <1>3, <1>4, <1>5, <1>6 DEF NewHandle

LEMMA OpenFailed ==
  ASSUME NEW p, Open(p, -1)
  PROVE  UNCHANGED vars
BY ResultFacts DEF Open, Fails, FreeHandles, NoHandle

LEMMA StepOpenSrc ==
  ASSUME ShInv, OpenSrc
  PROVE  CallInv'
<1>1. /\ cmd \in CmdRec /\ cmd.at = "open" /\ cmd.src = NoHandle /\ cmd.dst = NoHandle
      /\ OnlyOpen /\ call = Idle /\ TypesOK /\ EntrySizes /\ ShapeOK
      /\ cmd.name \in {"cat", "cpr", "mv"}
  BY BetweenCalls DEF ShInv, VolInv, CallInv, CmdSound, SizesOK, ShapeOK, OpenSrc, At
<1>2. PICK r \in Results :
        /\ Open(cmd.p, r)
        /\ cmd' = IF r = -1 THEN Returns
                  ELSE [GoTo(IF cmd.name = "cat" THEN "read" ELSE "create") EXCEPT !.src = r]
  BY DEF OpenSrc
<1>3. CASE r = -1
  <2>1. UNCHANGED vars
    BY <1>2, <1>3, OpenFailed
  <2>2. EntrySizes' /\ UNCHANGED <<handles, call>>
    BY <1>1, <2>1, SizesSame DEF vars
  <2>3. QED BY <1>1, <1>2, <1>3, <2>2, ReturnStep
<1>4. CASE r # -1
  <2> DEFINE place == IF cmd.name = "cat" THEN "read" ELSE "create"
  <2>1. /\ r \in Handle /\ ~ handles[r].open /\ IsFile(cmd.p)
        /\ UNCHANGED <<table, call>>
        /\ \A h \in Handle : h # r => handles'[h] = handles[h]
        /\ handles'[r].open /\ handles'[r].pos = 0
        /\ handles'[r].parent = Parent(cmd.p) /\ handles'[r].off = LeafSlot(cmd.p)
        /\ handles'[r].size \in Nat /\ handles'[r].size <= MaxSize
    BY <1>2, <1>4, OpenEffect
  <2>2. /\ cmd' \in CmdRec /\ cmd'.at = place /\ cmd'.src = r /\ cmd'.dst = NoHandle
        /\ cmd'.name = cmd.name /\ cmd'.p = cmd.p /\ cmd'.q = cmd.q
    BY <1>1, <1>2, <1>4, <2>1, GoToFacts, PlaceFacts DEF CmdRec
  <2>3. r # NoHandle /\ \A h \in Handle : ~ handles[h].open
    BY <1>1, <2>1, ResultFacts DEF OnlyOpen
  <2>4. CmdSound'
    BY <1>1, <2>1, <2>2, <2>3 DEF CmdSound, At
  <2>5. ShapeOK'
    BY <1>1, <2>2, <2>3 DEF ShapeOK, At, Copies
  <2>6. OnlyOpen'
    BY <2>1, <2>2, <2>3 DEF OnlyOpen
  <2>7. SizesOK'
    BY <1>1, <2>1, <2>2, <2>3, SizesSame DEF SizesOK
  <2>8. RoomOK'
    BY <1>1, <2>2 DEF RoomOK, At, Copies
  <2>9. ApartOK'
    <3>1. Used(Parent(cmd.p), LeafSlot(cmd.p))
      BY <1>1, <2>1, LeafFoundFacts DEF IsFile
    <3>2. QED BY <2>1, <2>2, <3>1 DEF ApartOK, At, Used
  <2>10. QED BY <2>4, <2>5, <2>6, <2>7, <2>8, <2>9 DEF CallInv
<1>5. QED BY <1>3, <1>4

-----------------------------------------------------------------------------
(* fs_create does not change where a path leads: the new entry has a name  *)
(* no other entry of the directory has.                                    *)

(* The entry e takes the place s of directory d, where none was used. *)
Added(d, s, e) ==
  /\ s \in Slots /\ ~ Used(d, s) /\ e.st = "used"
  /\ \A y \in DirIds, t \in Slots :
       table'[y][t] = IF y = d /\ t = s THEN e ELSE table[y][t]

LEMMA CreateKeepsHits ==
  ASSUME TypesOK, Orderly, NEW d \in DirIds, NEW s, NEW e, Added(d, s, e),
         NEW x \in DirIds, NEW n, x # d \/ e.name # n
  PROVE  /\ Hits(x, n)' = Hits(x, n)
         /\ \A t \in Hits(x, n) : table'[x][t] = table[x][t]
<1>1. /\ s \in Slots /\ ~ Used(d, s)
      /\ \A t \in Slots : table'[x][t] = IF x = d /\ t = s THEN e ELSE table[x][t]
  BY DEF Added
<1>2. \A t \in Hits(x, n) : table'[x][t] = table[x][t]
  BY <1>1 DEF Hits
<1>3. \A u \in Slots : \A t \in 1 .. u - 1 : t \in Slots /\ t < u
  BY ConstAssumption DEF Slots
<1>4. Hits(x, n)' \subseteq Slots /\ Hits(x, n) \subseteq Slots
  BY DEF Hits
<1>5. CASE x # d
  <2>1. \A t \in Slots : table'[x][t] = table[x][t]
    BY <1>1, <1>5
  <2>2. \A u \in Slots : u \in Hits(x, n)' <=> u \in Hits(x, n)
    BY <1>3, <2>1 DEF Hits, Used
  <2>3. QED BY <1>2, <1>4, <2>2
<1>6. CASE x = d /\ e.name # n
  \* The end mark the new entry may replace hides nothing.
  <2>1. \A t \in Slots : (table[d][s].st = "end" /\ s < t) => ~ Used(d, t)
    BY <1>1 DEF Orderly, Used
  <2>2. \A t \in Slots : (Used(d, t)' /\ table'[d][t].name = n) <=>
                         (Used(d, t) /\ table[d][t].name = n)
    BY <1>1, <1>6 DEF Used, Added
  <2>3. \A t \in Slots : t # s => (table'[d][t].st = "end" <=> table[d][t].st = "end")
    BY <1>1, <1>6
  <2>4. table'[d][s].st # "end"
    BY <1>1, <1>6 DEF Added
  <2>5. ASSUME NEW u \in Slots
        PROVE  u \in Hits(d, n)' <=> u \in Hits(d, n)
    <3>1. CASE u \in Hits(d, n)
      BY <1>3, <2>2, <2>3, <2>4, <3>1 DEF Hits
    <3>2. CASE u \in Hits(d, n)'
      <4>1. Used(d, u) /\ table[d][u].name = n
        BY <2>2, <3>2 DEF Hits
      <4>2. \A t \in 1 .. u - 1 :
              /\ table'[d][t].st # "end"
              /\ ~ (Used(d, t)' /\ table'[d][t].name = n)
        BY <3>2 DEF Hits
      <4>3. \A t \in 1 .. u - 1 :
              table[d][t].st # "end" /\ ~ (Used(d, t) /\ table[d][t].name = n)
        BY <1>1, <1>3, <2>1, <2>2, <2>3, <4>1, <4>2
      <4>4. QED BY <3>2, <4>1, <4>3 DEF Hits
    <3>3. QED BY <3>1, <3>2
  <2>6. Hits(d, n)' = Hits(d, n)
    BY <1>4, <1>6, <2>5
  <2>7. QED BY <1>2, <1>6, <2>6
<1>7. QED BY <1>5, <1>6

LEMMA CreateKeepsEntry ==
  ASSUME TypesOK, Orderly, NEW d \in DirIds, NEW s, NEW e, Added(d, s, e),
         NEW x \in DirIds, NEW n, x # d \/ e.name # n
  PROVE  /\ Found(x, n)' <=> Found(x, n)
         /\ Found(x, n) => EntryOf(x, n)' = EntryOf(x, n)
<1>1. Hits(x, n)' = Hits(x, n) /\ \A t \in Hits(x, n) : table'[x][t] = table[x][t]
  BY CreateKeepsHits
<1>2. Found(x, n)' <=> Found(x, n)
  BY <1>1 DEF Found
<1>3. SlotOf(x, n)' = SlotOf(x, n)
  BY <1>1 DEF SlotOf
<1>4. Found(x, n) => SlotOf(x, n) \in Hits(x, n)
  BY DEF Found, SlotOf
<1>5. QED BY <1>1, <1>2, <1>3, <1>4 DEF EntryOf

LEMMA CreateKeepsParent ==
  ASSUME TypesOK, Orderly, NEW p \in Paths, CanCreate(p),
         NEW d, d = Parent(p), NEW s, NEW e, Added(d, s, e), e.name = p.leaf,
         UNCHANGED <<up, cwd>>
  PROVE  Parent(p)' = d
<1>1. /\ d \in DirIds /\ p.leaf \in Names /\ p.leaf # DotDot
      /\ ~ LeafFound(p) /\ e.name # DotDot
  BY ParentType, ConstAssumption DEF CanCreate, IsName
<1>2. PICK x \in DirIds : x = Start(p) /\ x = Start(p)'
  BY ClusterFacts DEF Start, TypesOK
<1>3. d = Step(x, p.via)
  BY <1>1, <1>2 DEF Parent
<1>4. Above(x)' = Above(x)
  BY DEF Above
<1>5. Step(x, p.via)' = Step(x, p.via)
  <2>1. CASE p.via = Dot \/ p.via = Blank
    BY <2>1 DEF Step, Dot, DotDot, Blank
  <2>2. CASE p.via = DotDot
    BY <1>4, <2>2 DEF Step
  <2>3. CASE p.via # Dot /\ p.via # Blank /\ p.via # DotDot
    <3>1. Step(x, p.via) = IF Found(x, p.via) /\ EntryOf(x, p.via).dir
                           THEN EntryOf(x, p.via).head ELSE NoDir
      BY <2>3 DEF Step
    <3>2. x # d \/ e.name # p.via
      BY <1>1, <1>3, <3>1, ClusterFacts DEF LeafFound, IsName
    <3>3. /\ Found(x, p.via)' <=> Found(x, p.via)
          /\ Found(x, p.via) => EntryOf(x, p.via)' = EntryOf(x, p.via)
      BY <1>1, <1>2, <3>2, CreateKeepsEntry
    <3>4. Step(x, p.via)' = IF Found(x, p.via)' /\ (EntryOf(x, p.via)').dir
                            THEN (EntryOf(x, p.via)').head ELSE NoDir
      BY <2>3 DEF Step
    <3>5. QED BY <3>1, <3>3, <3>4
  <2>4. QED BY <2>1, <2>2, <2>3
<1>6. Step(Start(p), p.via)' = Step(x, p.via)'
  BY <1>2 DEF Step, Above, Found, EntryOf, SlotOf, Hits
<1>7. QED BY <1>1, <1>3, <1>5, <1>6 DEF Parent

LEMMA FoundInTables ==
  TypesOK /\ Orderly => \A x \in DirIds, n \in Names, t \in Slots :
    (Used(x, t) /\ table[x][t].name = n) => SlotOf(x, n) = t
BY FoundIffUsed

(* fs_create that succeeds: the leaf is found at a place that was free.    *)
LEMMA CreateEffect ==
  ASSUME ShInv, VolInv', NEW p \in Paths, NEW r, Create(p, r), r # -1
  PROVE  /\ \A d \in DirIds, s \in Slots : Used(d, s) => Used(d, s)'
         /\ Parent(p)' \in DirIds /\ LeafSlot(p)' \in Slots
         /\ ~ Used(Parent(p)', LeafSlot(p)')
         /\ LeafEntry(p)' = NewEntry(p.leaf, FALSE, 0)
<1>1. PICK s \in CreateSlots(p) :
        /\ table' = [table EXCEPT ![Parent(p)][s] = NewEntry(p.leaf, FALSE, 0)]
        /\ UNCHANGED <<fat, up, cwd, handles, call>>
  BY DEF Create, Fails
<1>2. CanCreate(p) /\ s \in AddSlots(Parent(p), table[Parent(p)]) /\ s \in Slots
  BY <1>1 DEF CreateSlots, AddSlots
<1>3. TypesOK /\ Orderly /\ TypesOK' /\ Orderly'
  BY DEF ShInv, VolInv
<1>4. PICK d \in DirIds : d = Parent(p)
  BY <1>2, <1>3, ParentType DEF CanCreate
<1>5. PICK e : e = NewEntry(p.leaf, FALSE, 0)
  OBVIOUS
<1>6. ~ Used(d, s) /\ e.st = "used" /\ e.name = p.leaf
  BY <1>2, <1>4, <1>5 DEF AddSlots, NewEntry, Used
<1>7. \A y \in DirIds, t \in Slots :
        table'[y][t] = IF y = d /\ t = s THEN e ELSE table[y][t]
  BY <1>1, <1>2, <1>3, <1>4, <1>5 DEF TypesOK
<1>8. Added(d, s, e)
  BY <1>2, <1>6, <1>7 DEF Added
<1>9. Parent(p)' = d
  BY <1>1, <1>2, <1>3, <1>4, <1>6, <1>8, CreateKeepsParent
<1>10. Used(d, s)' /\ table'[d][s].name = p.leaf
  BY <1>2, <1>6, <1>7 DEF Used
<1>11. SlotOf(d, p.leaf)' = s
  <2>1. (TypesOK /\ Orderly => \A x \in DirIds, n \in Names, t \in Slots :
           (Used(x, t) /\ table[x][t].name = n) => SlotOf(x, n) = t)'
    BY FoundInTables, PTL
  <2>2. p.leaf \in Names
    BY <1>2 DEF CanCreate, IsName
  <2>3. QED BY <1>2, <1>3, <1>10, <2>1, <2>2
<1>12. LeafSlot(p)' = s
  BY <1>9, <1>11 DEF LeafSlot, SlotOf, Hits
<1>13. \A y \in DirIds, t \in Slots : Used(y, t) => Used(y, t)'
  BY <1>6, <1>7 DEF Used
<1>14. LeafEntry(p)' = NewEntry(p.leaf, FALSE, 0)
  <2>1. LeafEntry(p)' = table'[Parent(p)'][LeafSlot(p)']
    BY DEF LeafEntry, EntryOf, LeafSlot
  <2>2. QED BY <1>2, <1>5, <1>7, <1>9, <1>12, <2>1
<1>15. QED BY <1>2, <1>6, <1>9, <1>12, <1>13, <1>14 DEF Used

(* A command goes on to another place; the handles stay as they are. *)
LEMMA GoToStep ==
  ASSUME ShInv, NEW place \in {"opendst", "closesrc"}, cmd' = GoTo(place),
         cmd.at \in {"create", "opendst"}, cmd.name \in Copies, cmd.src # NoHandle,
         UNCHANGED <<handles, call>>, EntrySizes',
         place = "opendst" => ApartOK'
  PROVE  CallInv'
<1>1. /\ cmd \in CmdRec /\ CmdSound /\ ShapeOK /\ OnlyOpen /\ SizesOK /\ RoomOK
      /\ call = Idle /\ cmd.dst = NoHandle /\ cmd.p \in Paths /\ cmd.q \in Paths
  BY BetweenCalls DEF ShInv, CallInv, CmdSound, ShapeOK, Copies
<1>2. /\ cmd' \in CmdRec /\ cmd'.at = place /\ cmd'.src = cmd.src /\ cmd'.dst = NoHandle
      /\ cmd'.name = cmd.name /\ cmd'.p = cmd.p /\ cmd'.q = cmd.q
  BY <1>1, GoToFacts, PlaceFacts
<1>3. CmdSound'
  BY <1>1, <1>2 DEF CmdSound, At
<1>4. ShapeOK'
  BY <1>1, <1>2 DEF ShapeOK, At, Copies
<1>5. OnlyOpen' /\ SizesOK'
  BY <1>1, <1>2 DEF OnlyOpen, SizesOK
<1>6. RoomOK'
  BY <1>1, <1>2 DEF RoomOK, At, Copies
<1>7. ApartOK'
  BY <1>2 DEF ApartOK, At
<1>8. QED BY <1>3, <1>4, <1>5, <1>6, <1>7 DEF CallInv

LEMMA StepFail ==
  ASSUME ShInv, cmd.at \in {"create", "opendst"}, cmd' = Fail,
         UNCHANGED <<handles, call>>, EntrySizes'
  PROVE  CallInv'
<1>1. /\ cmd \in CmdRec /\ ShapeOK /\ cmd.dst = NoHandle
      /\ cmd.name \in {"cpr", "mv", "save", "notes"}
  BY DEF ShInv, CallInv, CmdSound, ShapeOK
<1>2. CASE cmd.src = NoHandle
  BY <1>1, <1>2, ReturnStep DEF Fail
<1>3. CASE cmd.src # NoHandle
  <2>1. cmd.name \in Copies
    BY <1>1, <1>3 DEF ShapeOK, Copies
  <2>2. cmd' = GoTo("closesrc")
    BY <1>3 DEF Fail
  <2>3. QED BY <1>3, <2>1, <2>2, GoToStep
<1>4. QED BY <1>2, <1>3

LEMMA StepCreateDst ==
  ASSUME ShInv, VolInv', CreateDst
  PROVE  CallInv'
<1>1. /\ cmd \in CmdRec /\ cmd.at = "create" /\ cmd.dst = NoHandle /\ cmd.q \in Paths
      /\ OnlyOpen /\ call = Idle /\ TypesOK /\ EntrySizes /\ ShapeOK /\ RoomOK
      /\ cmd.name \in {"cpr", "mv", "save", "notes"}
  BY BetweenCalls DEF ShInv, VolInv, CallInv, CmdSound, SizesOK, ShapeOK, CreateDst, At
<1>2. PICK r \in Results :
        /\ Create(cmd.q, r)
        /\ cmd' = IF r = -1 /\ cmd.name # "notes" THEN Fail ELSE GoTo("opendst")
  BY DEF CreateDst
<1>3. EntrySizes' /\ UNCHANGED <<handles, call>>
  BY <1>1, <1>2, MaxCreate
<1>4. CASE r = -1 /\ cmd.name # "notes"
  BY <1>1, <1>2, <1>3, <1>4, StepFail
<1>5. CASE ~ (r = -1 /\ cmd.name # "notes")
  <2>1. cmd' = GoTo("opendst")
    BY <1>2, <1>5
  <2>2. /\ cmd' \in CmdRec /\ cmd'.at = "opendst" /\ cmd'.src = cmd.src
        /\ cmd'.dst = NoHandle /\ cmd'.name = cmd.name /\ cmd'.q = cmd.q
        /\ cmd'.got = cmd.got /\ cmd'.text = cmd.text /\ cmd'.left = cmd.left
    BY <1>1, <2>1, GoToFacts, PlaceFacts
  <2>3. CASE cmd.src = NoHandle
    <3>1. ShapeOK'
      BY <1>1, <2>2, <2>3 DEF ShapeOK, At, Copies
    <3>2. /\ cmd'.name = "save" => cmd'.left <= cmd'.text
          /\ cmd'.name = "notes" => cmd'.got \in 1 .. MaxUnits
      BY <1>1, <2>2 DEF RoomOK
    <3>3. QED BY <1>1, <1>3, <2>2, <2>3, <3>1, <3>2, NothingOpenStep
  <2>4. CASE cmd.src # NoHandle
    <3>1. cmd.name \in Copies /\ r # -1
      BY <1>1, <1>5, <2>4 DEF ShapeOK, Copies
    <3>2. PICK q \in Paths : q = cmd.q
      BY <1>1
    <3>3. Create(q, r)
      BY <1>2, <3>2
    <3>4. /\ \A d \in DirIds, s \in Slots : Used(d, s) => Used(d, s)'
          /\ Parent(q)' \in DirIds /\ LeafSlot(q)' \in Slots
          /\ ~ Used(Parent(q)', LeafSlot(q)')
      BY <3>1, <3>3, CreateEffect
    <3>5. Used(handles[cmd.src].parent, handles[cmd.src].off)
      BY <1>1, <2>4 DEF ShInv, CallInv, ApartOK, At
    <3>6. ApartOK'
      BY <1>3, <2>2, <3>2, <3>4, <3>5 DEF ApartOK, At
    <3>7. QED BY <1>1, <1>3, <2>1, <2>4, <3>1, <3>6, GoToStep
  <2>5. QED BY <2>3, <2>4
<1>6. QED BY <1>4, <1>5

LEMMA StepOpenDst ==
  ASSUME ShInv, OpenDst
  PROVE  CallInv'
<1>1. /\ cmd \in CmdRec /\ cmd.at = "opendst" /\ cmd.dst = NoHandle /\ cmd.q \in Paths
      /\ OnlyOpen /\ call = Idle /\ TypesOK /\ EntrySizes /\ ShapeOK /\ RoomOK /\ SizesOK
      /\ cmd.name \in {"cpr", "mv", "save", "notes"} /\ CmdSound
  BY BetweenCalls DEF ShInv, VolInv, CallInv, CmdSound, SizesOK, ShapeOK, OpenDst, At
<1>2. PICK r \in Results : Open(cmd.q, r) /\ cmd' = OpenedDst(r)
  BY DEF OpenDst
<1>3. CASE r = -1
  <2>1. UNCHANGED vars
    BY <1>2, <1>3, OpenFailed
  <2>2. EntrySizes' /\ UNCHANGED <<handles, call>>
    BY <1>1, <2>1, SizesSame DEF vars
  <2>3. QED BY <1>1, <1>2, <1>3, <2>2, StepFail DEF OpenedDst
<1>4. CASE r # -1
  <2> DEFINE place == IF cmd.name = "save" THEN "more"
                      ELSE IF cmd.name = "notes" THEN "write" ELSE "read"
  <2>1. /\ r \in Handle /\ ~ handles[r].open /\ UNCHANGED <<table, call>>
        /\ \A h \in Handle : h # r => handles'[h] = handles[h]
        /\ handles'[r].open /\ handles'[r].pos = 0
        /\ handles'[r].size \in Nat /\ handles'[r].size <= MaxSize
    BY <1>2, <1>4, OpenEffect
  <2>2. cmd' = [cmd EXCEPT !.dst = r, !.at = place]
    <3>1. OpenedDst(r) = [cmd EXCEPT !.dst = r, !.at = CASE cmd.name = "save"  -> "more"
                                                         [] cmd.name = "notes" -> "write"
                                                         [] OTHER              -> "read"]
      BY <1>4 DEF OpenedDst
    <3>2. place = CASE cmd.name = "save"  -> "more"
                    [] cmd.name = "notes" -> "write"
                    [] OTHER              -> "read"
      <4>1. CASE cmd.name = "save"
        BY <4>1
      <4>2. CASE cmd.name = "notes"
        BY <4>2
      <4>3. CASE cmd.name # "save" /\ cmd.name # "notes"
        BY <4>3
      <4>4. QED BY <4>1, <4>2, <4>3
    <3>3. QED BY <1>2, <3>1, <3>2
  <2>3. /\ cmd' \in CmdRec /\ cmd'.at = place /\ cmd'.src = cmd.src /\ cmd'.dst = r
        /\ cmd'.name = cmd.name /\ cmd'.p = cmd.p /\ cmd'.q = cmd.q
        /\ cmd'.got = cmd.got /\ cmd'.text = cmd.text /\ cmd'.left = cmd.left
    BY <1>1, <2>1, <2>2, PlaceFacts DEF CmdRec
  <2>4. r # NoHandle /\ r # cmd.src
    BY <1>1, <2>1, ResultFacts DEF CmdSound
  <2>5. cmd.src # NoHandle => cmd.src \in Handle /\ handles'[cmd.src] = handles[cmd.src]
    BY <1>1, <2>1, <2>4 DEF CmdRec
  <2>6. CmdSound'
    BY <1>1, <2>1, <2>3, <2>4, <2>5 DEF CmdSound, At, ShapeOK, Copies
  <2>7. ShapeOK'
    BY <1>1, <2>3, <2>4 DEF ShapeOK, At, Copies
  <2>8. OnlyOpen'
    BY <1>1, <2>1, <2>3, ResultFacts DEF OnlyOpen
  <2>9. SizesOK'
    BY <1>1, <2>1, <2>3, <2>5, SizesSame DEF SizesOK
  <2>10. RoomOK'
    <3>1. CASE cmd.name = "save"
      <4>1. cmd.text - cmd.left >= 0 /\ cmd.left <= cmd.text
        BY <1>1, <3>1 DEF RoomOK, CmdRec
      <4>2. QED BY <2>1, <2>3, <3>1, <4>1 DEF RoomOK, Room, At, Copies
    <3>2. CASE cmd.name = "notes"
      <4>1. cmd.got \in 1 .. MaxUnits /\ 0 + cmd.got <= MaxSize
        BY <1>1, <3>2, ConstAssumption DEF RoomOK, CmdRec
      <4>2. QED BY <2>1, <2>3, <3>2, <4>1 DEF RoomOK, Room, At, Copies
    <3>3. CASE cmd.name \in Copies
      <4>1. cmd.src # NoHandle /\ cmd.src \in Handle /\ handles[cmd.src].pos >= 0
        BY <1>1, <3>3, HandleFacts DEF ShapeOK, Copies, HandleRec
      <4>2. QED BY <2>1, <2>3, <2>5, <3>3, <4>1 DEF RoomOK, Room, At, Copies
    <3>4. QED BY <1>1, <3>1, <3>2, <3>3 DEF Copies
  <2>11. ApartOK'
    BY <2>3 DEF ApartOK, At
  <2>12. QED BY <2>6, <2>7, <2>8, <2>9, <2>10, <2>11 DEF CallInv
<1>5. QED BY <1>3, <1>4

LEMMA StepReadSrc ==
  ASSUME ShInv, ReadSrc
  PROVE  CallInv'
<1>1. /\ cmd \in CmdRec /\ cmd.at = "read" /\ cmd.src \in Handle /\ cmd.src # NoHandle
      /\ OnlyOpen /\ call = Idle /\ TypesOK /\ EntrySizes /\ ShapeOK /\ RoomOK /\ SizesOK
      /\ cmd.name \in {"cat", "cpr", "mv"} /\ CmdSound
  BY BetweenCalls, HandleFacts
     DEF ShInv, VolInv, CallInv, CmdSound, SizesOK, ShapeOK, ReadSrc, At
<1>2. PICK r \in 0 .. Buffer : Read(cmd.src, Buffer, r) /\ cmd' = AfterRead(r)
  BY DEF ReadSrc
<1>3. /\ handles' = [handles EXCEPT ![cmd.src].pos = @ + r]
      /\ UNCHANGED <<table, call>> /\ r \in Nat
      /\ handles[cmd.src].pos + r <= handles[cmd.src].size
  BY <1>2, ResultFacts DEF Read, CanRead
<1>4. /\ handles[cmd.src].pos \in Nat /\ handles[cmd.src].size \in Nat
      /\ handles[cmd.src] \in HandleRec /\ handles \in [Handle -> HandleRec]
      /\ handles[cmd.src].size <= MaxSize
  BY <1>1, HandleFacts DEF TypesOK, HandleRec
<1>5. /\ \A h \in Handle : h # cmd.src => handles'[h] = handles[h]
      /\ \A h \in Handle : handles'[h].open = handles[h].open
                           /\ handles'[h].size = handles[h].size
      /\ handles'[cmd.src].pos = handles[cmd.src].pos + r
  BY <1>1, <1>3, <1>4 DEF HandleRec
<1>6. CASE cmd' = cmd /\ cmd.name = "cat"
  <2>1. CmdSound' /\ ShapeOK' /\ OnlyOpen' /\ ApartOK'
    BY <1>1, <1>3, <1>5, <1>6 DEF CmdSound, ShapeOK, OnlyOpen, ApartOK, At, CmdRec, Used
  <2>2. SizesOK'
    BY <1>1, <1>3, <1>5, <1>6, SizesSame DEF SizesOK
  <2>3. RoomOK'
    BY <1>1, <1>6 DEF RoomOK, At, Copies
  <2>4. QED BY <2>1, <2>2, <2>3 DEF CallInv
<1>7. CASE cmd' = GoTo("closesrc")
  <2>1. /\ cmd' \in CmdRec /\ cmd'.at = "closesrc" /\ cmd'.src = cmd.src
        /\ cmd'.dst = cmd.dst /\ cmd'.name = cmd.name /\ cmd'.p = cmd.p /\ cmd'.q = cmd.q
    BY <1>1, <1>7, GoToFacts, PlaceFacts
  <2>2. CmdSound'
    BY <1>1, <1>3, <1>5, <2>1 DEF CmdSound, At, CmdRec
  <2>3. ShapeOK'
    BY <1>1, <2>1 DEF ShapeOK, At, Copies
  <2>4. OnlyOpen' /\ SizesOK'
    BY <1>1, <1>3, <1>5, <2>1, SizesSame DEF OnlyOpen, SizesOK
  <2>5. RoomOK' /\ ApartOK'
    BY <1>1, <2>1 DEF RoomOK, ApartOK, At, Copies
  <2>6. QED BY <2>2, <2>3, <2>4, <2>5 DEF CallInv
<1>8. CASE cmd' = [GoTo("write") EXCEPT !.got = r] /\ r # 0 /\ cmd.name # "cat"
  <2>1. r \in 0 .. MaxSize
    BY <1>3, <1>4, ConstAssumption
  <2>2. /\ cmd' \in CmdRec /\ cmd'.at = "write" /\ cmd'.src = cmd.src /\ cmd'.got = r
        /\ cmd'.dst = cmd.dst /\ cmd'.name = cmd.name /\ cmd'.p = cmd.p /\ cmd'.q = cmd.q
    BY <1>1, <1>8, <2>1, GoToFacts, PlaceFacts DEF CmdRec
  <2>3. cmd.name \in Copies /\ cmd.dst # NoHandle /\ cmd.dst \in Handle /\ cmd.dst # cmd.src
    BY <1>1, <1>8, HandleFacts DEF ShapeOK, Copies, At
  <2>4. CmdSound'
    BY <1>1, <1>3, <1>5, <2>2, <2>3 DEF CmdSound, At
  <2>5. ShapeOK'
    BY <1>1, <2>2, <2>3 DEF ShapeOK, At, Copies
  <2>6. OnlyOpen' /\ SizesOK'
    BY <1>1, <1>3, <1>5, <2>2, SizesSame DEF OnlyOpen, SizesOK
  <2>7. RoomOK'
    <3>1. r \in 1 .. MaxUnits
      BY <1>2, <1>8, BufferAssumption, ConstAssumption
    <3>2. handles[cmd.dst].pos <= handles[cmd.src].pos /\ handles[cmd.dst].pos \in Nat
      BY <1>1, <1>4, <2>3 DEF RoomOK, Room, At, Copies, HandleRec
    <3>3. handles'[cmd.dst].pos + r <= handles'[cmd.src].pos
      BY <1>3, <1>4, <1>5, <2>3, <3>2
    <3>4. QED BY <1>1, <2>2, <2>3, <3>1, <3>3 DEF RoomOK, Room, At, Copies
  <2>8. ApartOK'
    BY <2>2 DEF ApartOK, At
  <2>9. QED BY <2>4, <2>5, <2>6, <2>7, <2>8 DEF CallInv
<1>9. QED BY <1>2, <1>6, <1>7, <1>8 DEF AfterRead

LEMMA StepNextLine ==
  ASSUME ShInv, NextLine
  PROVE  CallInv'
<1>1. /\ cmd \in CmdRec /\ cmd.at = "more" /\ cmd.src = NoHandle /\ cmd.dst # NoHandle
      /\ OnlyOpen /\ call = Idle /\ TypesOK /\ EntrySizes /\ ShapeOK /\ RoomOK /\ SizesOK
      /\ cmd.name = "save" /\ CmdSound /\ cmd.dst \in Handle
  BY BetweenCalls, HandleFacts
     DEF ShInv, VolInv, CallInv, CmdSound, SizesOK, ShapeOK, NextLine, At
<1>2. UNCHANGED <<handles, call, table>>
  BY DEF NextLine, vars
<1>3. CASE cmd' = GoTo("closedst")
  <2>1. /\ cmd' \in CmdRec /\ cmd'.at = "closedst" /\ cmd'.src = cmd.src
        /\ cmd'.dst = cmd.dst /\ cmd'.name = cmd.name /\ cmd'.q = cmd.q
        /\ cmd'.left = cmd.left /\ cmd'.text = cmd.text
    BY <1>1, <1>3, GoToFacts, PlaceFacts
  <2>2. CmdSound' /\ ShapeOK'
    BY <1>1, <1>2, <2>1 DEF CmdSound, ShapeOK, At, Copies
  <2>3. OnlyOpen' /\ SizesOK' /\ RoomOK' /\ ApartOK'
    BY <1>1, <1>2, <2>1, SizesSame DEF OnlyOpen, SizesOK, RoomOK, ApartOK, At, Copies
  <2>4. QED BY <2>2, <2>3 DEF CallInv
<1>4. ASSUME NEW n \in 1 .. MaxUnits, n <= cmd.left,
             cmd' = [GoTo("write") EXCEPT !.got = n, !.left = @ - n]
      PROVE  CallInv'
  <2>1. n \in 0 .. MaxSize /\ cmd.left - n \in 0 .. MaxSize /\ cmd.left \in Nat /\ n \in Nat
        /\ cmd.text \in Nat
    BY <1>1, <1>4, ConstAssumption DEF CmdRec
  <2>2. /\ cmd' \in CmdRec /\ cmd'.at = "write" /\ cmd'.src = cmd.src /\ cmd'.got = n
        /\ cmd'.dst = cmd.dst /\ cmd'.name = cmd.name /\ cmd'.q = cmd.q
        /\ cmd'.left = cmd.left - n /\ cmd'.text = cmd.text
    <3>1. PICK w : w = GoTo("write")
      OBVIOUS
    <3>2. /\ w \in CmdRec /\ w.at = "write" /\ w.src = cmd.src /\ w.dst = cmd.dst
          /\ w.name = cmd.name /\ w.q = cmd.q /\ w.left = cmd.left /\ w.text = cmd.text
      BY <1>1, <3>1, GoToFacts, PlaceFacts
    <3>3. cmd' = [w EXCEPT !.got = n, !.left = @ - n]
      BY <1>4, <3>1
    <3>4. QED BY <2>1, <3>2, <3>3 DEF CmdRec
  <2>3. CmdSound' /\ ShapeOK'
    BY <1>1, <1>2, <2>2 DEF CmdSound, ShapeOK, At, Copies
  <2>4. OnlyOpen' /\ SizesOK' /\ ApartOK'
    BY <1>1, <1>2, <2>2, SizesSame DEF OnlyOpen, SizesOK, ApartOK, At
  <2>5. RoomOK'
    <3>1. handles[cmd.dst].pos <= cmd.text - cmd.left /\ handles[cmd.dst].pos \in Nat
          /\ cmd.left <= cmd.text
      BY <1>1 DEF RoomOK, Room, At, TypesOK, HandleRec
    <3>2. handles[cmd.dst].pos + n <= cmd.text - (cmd.left - n) /\ cmd.left - n <= cmd.text
      BY <2>1, <3>1
    <3>3. QED BY <1>1, <1>2, <1>4, <2>2, <3>2 DEF RoomOK, Room, At, Copies
  <2>6. QED BY <2>3, <2>4, <2>5 DEF CallInv
<1>5. QED BY <1>3, <1>4 DEF NextLine

LEMMA StepCloseSrc ==
  ASSUME ShInv, CloseSrc
  PROVE  CallInv'
<1>1. /\ cmd \in CmdRec /\ cmd.at = "closesrc" /\ cmd.src \in Handle /\ cmd.src # NoHandle
      /\ OnlyOpen /\ call = Idle /\ TypesOK /\ EntrySizes /\ ShapeOK /\ RoomOK /\ SizesOK
      /\ cmd.name \in {"cat", "cpr", "mv"} /\ CmdSound
  BY BetweenCalls, HandleFacts
     DEF ShInv, VolInv, CallInv, CmdSound, SizesOK, ShapeOK, CloseSrc, At
<1>2. /\ handles' = [handles EXCEPT ![cmd.src] = ClosedHandle] /\ UNCHANGED <<table, call>>
  BY DEF CloseSrc, Close
<1>3. /\ \A h \in Handle : h # cmd.src => handles'[h] = handles[h]
      /\ ~ handles'[cmd.src].open
  BY <1>1, <1>2 DEF TypesOK, ClosedHandle
<1>4. CASE cmd.dst # NoHandle /\ cmd' = [GoTo("closedst") EXCEPT !.src = NoHandle]
  <2>1. /\ cmd' \in CmdRec /\ cmd'.at = "closedst" /\ cmd'.src = NoHandle
        /\ cmd'.dst = cmd.dst /\ cmd'.name = cmd.name /\ cmd'.p = cmd.p /\ cmd'.q = cmd.q
    BY <1>1, <1>4, GoToFacts, PlaceFacts DEF CmdRec
  <2>2. cmd.dst \in Handle /\ cmd.dst # cmd.src /\ cmd.name # "cat"
    BY <1>1, <1>4, HandleFacts DEF ShapeOK
  <2>3. CmdSound' /\ ShapeOK'
    BY <1>1, <1>2, <1>3, <1>4, <2>1, <2>2 DEF CmdSound, ShapeOK, At, Copies
  <2>4. OnlyOpen'
    BY <1>1, <1>3, <2>1, <2>2 DEF OnlyOpen
  <2>5. SizesOK'
    BY <1>1, <1>2, <1>3, <2>1, SizesSame DEF SizesOK
  <2>6. RoomOK' /\ ApartOK'
    BY <1>1, <2>1 DEF RoomOK, ApartOK, At, Copies
  <2>7. QED BY <2>3, <2>4, <2>5, <2>6 DEF CallInv
<1>5. CASE cmd.dst = NoHandle /\ cmd' = [Returns EXCEPT !.src = NoHandle]
  <2>1. \A h \in Handle : ~ handles'[h].open
    BY <1>1, <1>3, <1>5, ResultFacts DEF OnlyOpen
  <2>2. /\ cmd' \in CmdRec /\ cmd'.src = NoHandle /\ cmd'.dst = NoHandle
        /\ \/ cmd'.name = "none" /\ cmd'.at = "prompt"
           \/ cmd'.name = "mv" /\ cmd'.at = "remove" /\ cmd'.p = cmd.p /\ cmd'.q = cmd.q
              /\ cmd.name = "mv"
    BY <1>1, <1>5, ReturnsFacts DEF CmdRec, Fresh
  <2>3. CmdSound' /\ ShapeOK'
    BY <1>1, <1>2, <2>2 DEF CmdSound, ShapeOK, At, Copies
  <2>4. OnlyOpen' /\ SizesOK' /\ RoomOK' /\ ApartOK'
    BY <1>1, <1>2, <2>1, <2>2, SizesSame
       DEF OnlyOpen, SizesOK, RoomOK, ApartOK, At, Copies
  <2>5. QED BY <2>3, <2>4 DEF CallInv
<1>6. QED BY <1>4, <1>5 DEF CloseSrc

LEMMA StepCloseDst ==
  ASSUME ShInv, CloseDst
  PROVE  CallInv'
<1>1. /\ cmd \in CmdRec /\ cmd.at = "closedst" /\ cmd.dst \in Handle /\ cmd.src = NoHandle
      /\ OnlyOpen /\ call = Idle /\ TypesOK /\ EntrySizes /\ ShapeOK /\ RoomOK /\ SizesOK
      /\ cmd.name \in {"cpr", "mv", "save", "notes"} /\ CmdSound
  BY BetweenCalls, HandleFacts
     DEF ShInv, VolInv, CallInv, CmdSound, SizesOK, ShapeOK, CloseDst, At
<1>2. /\ handles' = [handles EXCEPT ![cmd.dst] = ClosedHandle] /\ UNCHANGED <<table, call>>
      /\ cmd' = [Returns EXCEPT !.dst = NoHandle]
  BY DEF CloseDst, Close
<1>3. \A h \in Handle : ~ handles'[h].open
  BY <1>1, <1>2, ResultFacts DEF TypesOK, ClosedHandle, OnlyOpen
<1>4. /\ cmd' \in CmdRec /\ cmd'.src = NoHandle /\ cmd'.dst = NoHandle
      /\ \/ cmd'.name = "none" /\ cmd'.at = "prompt"
         \/ cmd'.name = "mv" /\ cmd'.at = "remove" /\ cmd'.p = cmd.p /\ cmd'.q = cmd.q
            /\ cmd.name = "mv"
  BY <1>1, <1>2, ReturnsFacts DEF CmdRec, Fresh
<1>5. CmdSound' /\ ShapeOK'
  BY <1>1, <1>2, <1>4 DEF CmdSound, ShapeOK, At, Copies
<1>6. OnlyOpen' /\ SizesOK' /\ RoomOK' /\ ApartOK'
  BY <1>1, <1>2, <1>3, <1>4, SizesSame
     DEF OnlyOpen, SizesOK, RoomOK, ApartOK, At, Copies
<1>7. QED BY <1>5, <1>6 DEF CallInv

-----------------------------------------------------------------------------
(* fs_write inside a command.                                              *)

LEMMA WritingFacts ==
  ASSUME ShInv, cmd.at \in {"write", "writing"}
  PROVE  /\ cmd \in CmdRec /\ cmd.dst \in Handle /\ cmd.dst # NoHandle /\ cmd.dst # cmd.src
         /\ cmd.name \in {"cpr", "mv", "save", "notes"}
         /\ cmd.name \in Copies => cmd.src \in Handle /\ cmd.src # NoHandle
         /\ cmd.name \notin Copies => cmd.src = NoHandle
         /\ CmdSound /\ OnlyOpen /\ TypesOK /\ EntrySizes /\ ShapeOK /\ RoomOK /\ SizesOK
         /\ handles \in [Handle -> HandleRec] /\ handles[cmd.dst].pos \in Nat
         /\ handles[cmd.dst].open /\ handles[cmd.dst] \in HandleRec
         /\ Room \in Int /\ Room <= MaxSize
<1>1. /\ cmd \in CmdRec /\ ShapeOK /\ RoomOK /\ CmdSound /\ OnlyOpen /\ TypesOK /\ EntrySizes
      /\ SizesOK /\ cmd.dst # NoHandle
  BY DEF ShInv, VolInv, CallInv, CmdSound, SizesOK
<1>2. cmd.name \in {"cpr", "mv", "save", "notes"}
  BY <1>1 DEF ShapeOK
<1>3. cmd.name \in Copies => cmd.src \in Handle /\ cmd.src # NoHandle
  BY <1>1, HandleFacts DEF ShapeOK
<1>4. cmd.name \notin Copies => cmd.src = NoHandle
  BY <1>1, <1>2 DEF ShapeOK, Copies
<1>5. Room \in Int /\ Room <= MaxSize
  BY <1>2, RoomBound
<1>6. QED BY <1>1, <1>2, <1>3, <1>4, <1>5, HandleFacts DEF TypesOK, HandleRec

(* Where a command goes after a write. *)
LEMMA AfterWriteFacts ==
  ASSUME ShInv, cmd.at \in {"write", "writing"}, NEW r
  PROVE  LET c == AfterWrite(r)
         IN  /\ c \in CmdRec /\ c.name = cmd.name /\ c.p = cmd.p /\ c.q = cmd.q
             /\ c.src = cmd.src /\ c.dst = cmd.dst
             /\ c.got = cmd.got /\ c.text = cmd.text /\ c.left = cmd.left
             /\ \/ cmd.name = "save" /\ c.at = "more"
                \/ cmd.name = "notes" /\ c.at = "closedst"
                \/ cmd.name \in Copies /\ c.at \in {"read", "closesrc"}
<1>1. cmd \in CmdRec /\ cmd.name \in {"cpr", "mv", "save", "notes"}
  BY WritingFacts
<1>2. \/ cmd.name = "save" /\ AfterWrite(r) = GoTo("more")
      \/ cmd.name = "notes" /\ AfterWrite(r) = GoTo("closedst")
      \/ cmd.name \in Copies
         /\ AfterWrite(r) = GoTo(IF r = cmd.got THEN "read" ELSE "closesrc")
  <2>1. CASE cmd.name = "save"
    BY <2>1 DEF AfterWrite
  <2>2. CASE cmd.name = "notes"
    BY <2>2 DEF AfterWrite
  <2>3. CASE cmd.name \in Copies
    <3>1. cmd.name # "save" /\ cmd.name # "notes"
      BY <2>3 DEF Copies
    <3>2. QED BY <2>3, <3>1 DEF AfterWrite
  <2>4. QED BY <1>1, <2>1, <2>2, <2>3 DEF Copies
<1>3. QED BY <1>1, <1>2, GoToFacts, PlaceFacts

LEMMA AfterWriteStep ==
  ASSUME ShInv, cmd.at \in {"write", "writing"}, NEW r, cmd' = AfterWrite(r),
         handles[cmd.dst].pos <= Room, call' = Idle, EntrySizes',
         handles'[cmd.dst].open, handles'[cmd.dst].pos = handles[cmd.dst].pos,
         handles'[cmd.dst].size <= MaxSize,
         \A h \in Handle : h # cmd.dst => handles'[h] = handles[h]
  PROVE  CallInv'
<1>1. /\ cmd \in CmdRec /\ cmd.dst \in Handle /\ cmd.dst # NoHandle /\ cmd.dst # cmd.src
      /\ cmd.name \in {"cpr", "mv", "save", "notes"}
      /\ cmd.name \in Copies => cmd.src \in Handle /\ cmd.src # NoHandle
      /\ cmd.name \notin Copies => cmd.src = NoHandle
      /\ CmdSound /\ OnlyOpen /\ ShapeOK /\ RoomOK /\ SizesOK
  BY WritingFacts
<1>2. /\ cmd' \in CmdRec /\ cmd'.name = cmd.name /\ cmd'.p = cmd.p /\ cmd'.q = cmd.q
      /\ cmd'.src = cmd.src /\ cmd'.dst = cmd.dst
      /\ cmd'.got = cmd.got /\ cmd'.text = cmd.text /\ cmd'.left = cmd.left
      /\ \/ cmd.name = "save" /\ cmd'.at = "more"
         \/ cmd.name = "notes" /\ cmd'.at = "closedst"
         \/ cmd.name \in Copies /\ cmd'.at \in {"read", "closesrc"}
  BY AfterWriteFacts
<1>3. CmdSound'
  <2>1. cmd.src # NoHandle => handles'[cmd.src].open
    BY <1>1 DEF CmdSound, CmdRec
  <2>2. QED BY <1>1, <1>2, <2>1 DEF CmdSound, At, Copies
<1>4. ShapeOK'
  BY <1>1, <1>2 DEF ShapeOK, At, Copies
<1>5. OnlyOpen'
  BY <1>1, <1>2 DEF OnlyOpen
<1>6. SizesOK'
  <2>1. cmd.src # NoHandle => cmd.src \in Handle /\ handles'[cmd.src] = handles[cmd.src]
    BY <1>1
  <2>2. QED BY <1>1, <1>2, <2>1 DEF SizesOK
<1>7. RoomOK'
  <2>1. CASE cmd.name = "save"
    BY <1>1, <1>2, <2>1 DEF RoomOK, Room, At, Copies
  <2>2. CASE cmd.name = "notes"
    BY <1>1, <1>2, <2>2 DEF RoomOK, Room, At, Copies
  <2>3. CASE cmd.name \in Copies
    BY <1>1, <1>2, <2>3 DEF RoomOK, Room, At, Copies
  <2>4. QED BY <1>1, <2>1, <2>2, <2>3 DEF Copies
<1>8. ApartOK'
  BY <1>2 DEF ApartOK, At
<1>9. QED BY <1>3, <1>4, <1>5, <1>6, <1>7, <1>8 DEF CallInv

LEMMA StepEnterWrite ==
  ASSUME ShInv, EnterWrite
  PROVE  CallInv'
<1>1. /\ cmd \in CmdRec /\ cmd.dst \in Handle /\ cmd.dst # NoHandle /\ cmd.dst # cmd.src
      /\ cmd.name \in {"cpr", "mv", "save", "notes"}
      /\ cmd.name \in Copies => cmd.src \in Handle /\ cmd.src # NoHandle
      /\ cmd.name \notin Copies => cmd.src = NoHandle
      /\ CmdSound /\ OnlyOpen /\ TypesOK /\ EntrySizes /\ ShapeOK /\ RoomOK /\ SizesOK
      /\ handles \in [Handle -> HandleRec] /\ handles[cmd.dst].pos \in Nat
      /\ handles[cmd.dst].open /\ handles[cmd.dst] \in HandleRec
      /\ Room \in Int /\ Room <= MaxSize
      /\ cmd.at = "write"
  BY WritingFacts DEF EnterWrite, At
<1>2. PICK r \in Results :
        /\ WriteEnter(cmd.dst, cmd.got, r)
        /\ cmd' = IF r = -1 THEN AfterWrite(r) ELSE GoTo("writing")
  BY DEF EnterWrite
<1>3. cmd.got \in Nat /\ handles[cmd.dst].pos + cmd.got <= Room
  BY <1>1, ConstAssumption DEF RoomOK, At
<1>4. UNCHANGED table
  BY <1>2 DEF WriteEnter
<1>5. CASE r = -1
  <2>1. UNCHANGED <<handles, call>>
    BY <1>2, <1>5 DEF WriteEnter
  <2>2. handles[cmd.dst].pos <= Room
    BY <1>1, <1>3
  <2>3. call = Idle
    BY <1>1, BetweenCalls
  <2>4. handles'[cmd.dst].size <= MaxSize
    BY <1>1, <2>1 DEF SizesOK
  <2>5. QED BY <1>1, <1>2, <1>4, <1>5, <2>1, <2>2, <2>3, <2>4, SizesSame, AfterWriteStep
<1>6. CASE r # -1
  <2>1. /\ cmd' \in CmdRec /\ cmd'.at = "writing" /\ cmd'.name = cmd.name /\ cmd'.p = cmd.p
        /\ cmd'.q = cmd.q /\ cmd'.src = cmd.src /\ cmd'.dst = cmd.dst
        /\ cmd'.got = cmd.got /\ cmd'.text = cmd.text /\ cmd'.left = cmd.left
    BY <1>1, <1>2, <1>6, GoToFacts, PlaceFacts
  <2>2. /\ call'.h = cmd.dst /\ call'.left = cmd.got /\ call' # Idle
        /\ \/ UNCHANGED handles
           \/ \E c \in Cluster : handles' = [handles EXCEPT ![cmd.dst].head = c]
    <3>1. PICK first : StartWrite(cmd.dst, cmd.got, first)
      BY <1>2, <1>6 DEF WriteEnter
    <3>2. call'.h = cmd.dst /\ call'.left = cmd.got /\ call'.pc = "loop"
      BY <3>1 DEF StartWrite
    <3>3. \/ UNCHANGED handles
          \/ \E c \in Cluster : handles' = [handles EXCEPT ![cmd.dst].head = c]
      BY <1>2, <1>6 DEF WriteEnter, AllocChoice
    <3>4. call' # Idle
      BY <3>2 DEF Idle
    <3>5. QED BY <3>2, <3>3, <3>4
  <2>3. \A h \in Handle : /\ handles'[h].open = handles[h].open
                          /\ handles'[h].pos = handles[h].pos
                          /\ handles'[h].size = handles[h].size
    <3>1. ASSUME NEW c \in Cluster, handles' = [handles EXCEPT ![cmd.dst].head = c],
                 NEW h \in Handle
          PROVE  /\ handles'[h].open = handles[h].open
                 /\ handles'[h].pos = handles[h].pos
                 /\ handles'[h].size = handles[h].size
      BY <1>1, <3>1 DEF HandleRec
    <3>2. QED BY <2>2, <3>1
  <2>4. CmdSound'
    BY <1>1, <2>1, <2>2, <2>3 DEF CmdSound, At, CmdRec
  <2>5. ShapeOK'
    BY <1>1, <2>1 DEF ShapeOK, At, Copies
  <2>6. OnlyOpen'
    BY <1>1, <2>1, <2>3 DEF OnlyOpen
  <2>7. SizesOK'
    BY <1>1, <1>4, <2>1, <2>3, SizesSame DEF SizesOK
  <2>8. RoomOK'
    <3>1. Room' = Room
      BY <1>1, <2>1, <2>3 DEF Room, Copies
    <3>2. handles'[cmd.dst].pos + call'.left <= Room
      BY <1>1, <1>3, <2>2, <2>3
    <3>3. QED BY <1>1, <2>1, <3>1, <3>2 DEF RoomOK, At, Copies
  <2>9. ApartOK'
    BY <2>1 DEF ApartOK, At
  <2>10. QED BY <2>4, <2>5, <2>6, <2>7, <2>8, <2>9 DEF CallInv
<1>7. QED BY <1>5, <1>6

(* A turn of the loop of fs_write: the destination moves on by as much as  *)
(* is left less.                                                           *)
LEMMA LoopStep ==
  ASSUME ShInv, cmd.at = "writing", UNCHANGED cmd, EntrySizes',
         NEW n \in Nat, n <= call.left, call'.left = call.left - n,
         call'.h = call.h, call' # Idle,
         \A h \in Handle : /\ handles'[h].open = handles[h].open
                           /\ handles'[h].size = handles[h].size
                           /\ h # cmd.dst => handles'[h].pos = handles[h].pos,
         handles'[cmd.dst].pos = handles[cmd.dst].pos + n
  PROVE  CallInv'
<1>1. /\ cmd \in CmdRec /\ cmd.dst \in Handle /\ cmd.dst # NoHandle /\ cmd.dst # cmd.src
      /\ cmd.name \in {"cpr", "mv", "save", "notes"}
      /\ cmd.name \in Copies => cmd.src \in Handle /\ cmd.src # NoHandle
      /\ cmd.name \notin Copies => cmd.src = NoHandle
      /\ CmdSound /\ OnlyOpen /\ TypesOK /\ EntrySizes /\ ShapeOK /\ RoomOK /\ SizesOK
      /\ handles[cmd.dst].pos \in Nat /\ Room \in Int
  BY WritingFacts
<1>2. CmdSound'
  BY <1>1 DEF CmdSound, At, CmdRec
<1>3. ShapeOK' /\ OnlyOpen'
  BY <1>1 DEF ShapeOK, OnlyOpen, At
<1>4. SizesOK'
  BY <1>1 DEF SizesOK
<1>5. RoomOK'
  <2>1. Room' = Room
    BY <1>1 DEF Room, Copies
  <2>2. call.left \in Nat /\ handles[cmd.dst].pos + call.left <= Room
    BY <1>1 DEF TypesOK, CallRec, RoomOK, At
  <2>3. handles'[cmd.dst].pos + call'.left <= Room
    BY <1>1, <2>2
  <2>4. QED BY <1>1, <2>1, <2>3 DEF RoomOK, At
<1>6. ApartOK'
  BY DEF ApartOK, At
<1>7. QED BY <1>2, <1>3, <1>4, <1>5, <1>6 DEF CallInv

LEMMA StepInWrite ==
  ASSUME ShInv, InWrite
  PROVE  CallInv'
<1>1. /\ cmd \in CmdRec /\ cmd.dst \in Handle /\ cmd.dst # NoHandle /\ cmd.dst # cmd.src
      /\ CmdSound /\ TypesOK /\ EntrySizes /\ RoomOK /\ SizesOK
      /\ handles \in [Handle -> HandleRec] /\ handles[cmd.dst].pos \in Nat
      /\ handles[cmd.dst].open /\ handles[cmd.dst] \in HandleRec
      /\ Room \in Int /\ Room <= MaxSize /\ cmd.at = "writing" /\ call.h = cmd.dst
      /\ call \in CallRec /\ call.left \in Nat
  BY WritingFacts DEF InWrite, At, TypesOK, CmdSound, CallRec
<1>2. CASE WriteHop /\ UNCHANGED cmd
  <2>1. UNCHANGED <<table, handles>> /\ call.pc = "loop"
    BY <1>2 DEF WriteHop
  <2>2. /\ call'.left = call.left - 0 /\ call'.h = call.h /\ call'.pc # "idle"
    <3>1. CASE call' = [call EXCEPT !.at = fat[call.at], !.hop = @ + 1]
      BY <1>1, <2>1, <3>1 DEF CallRec
    <3>2. ASSUME NEW c, call' = [call EXCEPT !.at = c, !.hop = @ + 1]
          PROVE  call'.left = call.left - 0 /\ call'.h = call.h /\ call'.pc # "idle"
      BY <1>1, <2>1, <3>2 DEF CallRec
    <3>3. CASE call' = [call EXCEPT !.pc = "done"]
      BY <1>1, <3>3 DEF CallRec
    <3>4. QED BY <1>2, <3>1, <3>2, <3>3 DEF WriteHop, FollowLink
  <2>3. call' # Idle
    BY <2>2 DEF Idle
  <2>4. handles'[cmd.dst].pos = handles[cmd.dst].pos + 0
    BY <1>1, <2>1
  <2>5. 0 \in Nat /\ 0 <= call.left
    BY <1>1
  <2>6. QED BY <1>1, <1>2, <2>1, <2>2, <2>3, <2>4, <2>5, SizesSame, LoopStep
<1>3. CASE WriteChunk /\ UNCHANGED cmd
  <2>1. CASE call' = [call EXCEPT !.pc = "done"] /\ UNCHANGED <<table, handles>>
    <3>1. call'.left = call.left - 0 /\ call'.h = call.h /\ call'.pc # "idle"
      BY <1>1, <2>1 DEF CallRec
    <3>2. call' # Idle
      BY <3>1 DEF Idle
    <3>3. handles'[cmd.dst].pos = handles[cmd.dst].pos + 0
      BY <1>1, <2>1
    <3>4. 0 \in Nat /\ 0 <= call.left
      BY <1>1
    <3>5. QED BY <1>1, <1>3, <2>1, <3>1, <3>2, <3>3, <3>4, SizesSame, LoopStep
  <2>2. CASE Transfer(call.at)
    <3> DEFINE room  == ClusterUnits - InCluster
               chunk == IF room > call.left THEN call.left ELSE room
    <3>1. InCluster \in 0 .. ClusterUnits - 1
      BY <1>1, ConstAssumption DEF InCluster
    <3>2. chunk \in Nat /\ chunk <= call.left
      BY <1>1, <3>1, ConstAssumption
    <3>3. /\ handles' = [handles EXCEPT ![call.h].pos = @ + chunk]
          /\ call' = [call EXCEPT !.left = @ - chunk, !.total = @ + chunk,
                                  !.at = handles[call.h].head, !.hop = 0]
          /\ table' = [table EXCEPT ![call.at] = EmptyTable]
          /\ call.pc = "loop"
      BY <1>3, <2>2 DEF WriteChunk
    <3> HIDE DEF chunk
    <3>4. call'.left = call.left - chunk /\ call'.h = call.h /\ call'.pc = "loop"
      BY <1>1, <3>3 DEF CallRec
    <3>5. call' # Idle
      BY <3>4 DEF Idle
    <3>6. \A h \in Handle : /\ handles'[h].open = handles[h].open
                            /\ handles'[h].size = handles[h].size
                            /\ h # cmd.dst => handles'[h].pos = handles[h].pos
      BY <1>1, <3>3 DEF HandleRec
    <3>7. handles'[cmd.dst].pos = handles[cmd.dst].pos + chunk
      BY <1>1, <3>3 DEF HandleRec
    <3>8. EntrySizes'
      <4>1. call.at \in DirIds
        BY <1>1 DEF CallRec
      <4>2. QED BY <1>1, <3>3, <4>1 DEF EntrySizes, Used, EmptyTable, EndEntry, TypesOK
    <3>9. QED BY <1>1, <1>3, <3>2, <3>4, <3>5, <3>6, <3>7, <3>8, LoopStep
  <2>3. QED BY <1>3, <2>1, <2>2 DEF WriteChunk
<1>4. ASSUME NEW r \in Results, WriteLeave(r), cmd' = AfterWrite(r)
      PROVE  CallInv'
  <2> DEFINE f == handles[cmd.dst]
             size == NewSize(f)
  <2>1. /\ f.parent \in DirIds /\ f.off \in Slots /\ f.size \in Nat /\ f.size <= MaxSize
        /\ f.pos \in Nat
    BY <1>1 DEF HandleRec, SizesOK
  <2>2. f.pos + call.left <= Room
    BY <1>1 DEF RoomOK, At
  <2>3. f.pos <= Room /\ size \in Nat /\ size <= MaxSize
    BY <1>1, <2>1, <2>2, ConstAssumption DEF NewSize
  <2>4. /\ handles' = [handles EXCEPT ![cmd.dst].size = size] /\ call' = Idle
        /\ table' = [table EXCEPT ![f.parent][f.off].head = f.head,
                                  ![f.parent][f.off].size = size]
    BY <1>1, <1>4 DEF WriteLeave
  <2> HIDE DEF size
  <2>5. /\ handles'[cmd.dst].open /\ handles'[cmd.dst].pos = handles[cmd.dst].pos
        /\ handles'[cmd.dst].size <= MaxSize
        /\ \A h \in Handle : h # cmd.dst => handles'[h] = handles[h]
    BY <1>1, <2>3, <2>4 DEF HandleRec
  <2>6. EntrySizes'
    <3> DEFINE e == [table[f.parent][f.off] EXCEPT !.head = f.head, !.size = size]
    <3>1. table' = [table EXCEPT ![f.parent][f.off] = e]
      BY <1>1, <2>1, <2>4 DEF TypesOK
    <3>2. e.size = size
      BY <1>1, <2>1 DEF TypesOK, Dirent
    <3> HIDE DEF e
    <3>3. QED BY <1>1, <2>1, <2>3, <3>1, <3>2, SizesOneEntry
  <2>7. QED BY <1>1, <1>4, <2>3, <2>4, <2>5, <2>6, AfterWriteStep
<1>5. QED BY <1>2, <1>3, <1>4 DEF InWrite

-----------------------------------------------------------------------------
(* The theorems. *)

LEMMA ShInitInv == ShInit => ShInv
<1> SUFFICES ASSUME ShInit PROVE ShInv
  OBVIOUS
<1>1. VolInv
  BY InitIInv, InitTables DEF ShInit, VolInv, IInv
<1>2. Fresh(cmd, "none", "prompt", NoPath, NoPath)
  BY NoCmdFresh DEF ShInit
<1>3. \A h \in Handle : ~ handles[h].open
  BY DEF ShInit, Init, ClosedHandle
<1>4. call = Idle
  BY DEF ShInit, Init
<1>5. CmdSound
  BY <1>2, <1>4 DEF CmdSound, Fresh, At
<1>6. ShapeOK
  BY <1>2 DEF ShapeOK, Fresh, At, Copies
<1>7. OnlyOpen /\ ApartOK /\ RoomOK
  BY <1>2, <1>3 DEF OnlyOpen, ApartOK, RoomOK, Fresh, At, Copies
<1>8. SizesOK
  BY <1>2, <1>3 DEF SizesOK, EntrySizes, ShInit, Init, Used, EmptyTable, EndEntry, Fresh
<1>9. QED BY <1>1, <1>5, <1>6, <1>7, <1>8 DEF ShInv, CallInv

LEMMA LookupSame ==
  ASSUME UNCHANGED <<table, up, cwd>>, NEW q
  PROVE  /\ LeafFound(q)' <=> LeafFound(q)
         /\ Parent(q)' = Parent(q) /\ LeafSlot(q)' = LeafSlot(q)
<1>1. \A d, n : Hits(d, n)' = Hits(d, n)
  BY DEF Hits, Used
<1>2. \A d, n : /\ Found(d, n)' <=> Found(d, n)
               /\ SlotOf(d, n)' = SlotOf(d, n) /\ EntryOf(d, n)' = EntryOf(d, n)
  BY <1>1 DEF Found, SlotOf, EntryOf
<1>3. \A d : Above(d)' = Above(d)
  BY <1>2 DEF Above
<1>4. \A d, n : Step(d, n)' = Step(d, n)
  BY <1>2, <1>3 DEF Step
<1>5. Parent(q)' = Parent(q)
  BY <1>3, <1>4 DEF Parent, Start
<1>6. Hits(Parent(q), q.leaf)' = Hits(Parent(q), q.leaf)
  BY <1>5 DEF Hits, Used
<1>7. LeafSlot(q)' = LeafSlot(q)
  BY <1>6 DEF LeafSlot, SlotOf
<1>8. LeafFound(q)' <=> LeafFound(q)
  BY <1>5, <1>6 DEF LeafFound, Found, IsName
<1>9. QED BY <1>5, <1>7, <1>8

LEMMA ShNextInv == ShInv /\ [ShCalls]_shvars => ShInv'
<1> SUFFICES ASSUME ShInv, [ShCalls]_shvars PROVE ShInv'
  OBVIOUS
<1>1. VolInv'
  BY VolStep
<1>2. Prompt => CallInv'
  BY StepPrompt
<1>3. Run => CallInv'
  BY <1>1, StepUnlinkOld, StepOpenSrc, StepCreateDst, StepOpenDst, StepReadSrc,
     StepNextLine, StepEnterWrite, StepInWrite, StepCloseSrc, StepCloseDst, StepRemoveOld
     DEF Run
<1>4. ASSUME UNCHANGED shvars
      PROVE  CallInv'
  <2>1. CmdSound' /\ ShapeOK' /\ OnlyOpen' /\ RoomOK'
    BY <1>4 DEF shvars, ShInv, CallInv, CmdSound, ShapeOK, OnlyOpen, RoomOK, Room, At
  <2>2. SizesOK'
    BY <1>4, SizesSame DEF shvars, ShInv, CallInv, SizesOK
  <2>3. ApartOK'
    <3>1. UNCHANGED <<table, up, cwd, handles, cmd>>
      BY <1>4 DEF shvars
    <3>2. \A q \in Paths : /\ LeafFound(q)' <=> LeafFound(q)
                          /\ Parent(q)' = Parent(q) /\ LeafSlot(q)' = LeafSlot(q)
      BY <3>1, LookupSame
    <3>3. QED BY <3>1, <3>2 DEF ShInv, CallInv, ApartOK, At, Used
  <2>4. QED BY <2>1, <2>2, <2>3 DEF CallInv
<1>5. QED BY <1>1, <1>2, <1>3, <1>4 DEF ShCalls, ShInv

LEMMA ShReachable == ShSpec => [](~ astray => ShInv)
BY ShInitInv, ShNextInv, OnlyShCalls, PTL DEF ShSpec

(* The shell's file commands make no call FatVolume!Next does not allow:   *)
(* they close what they open, never open or remove a file they hold open,  *)
(* and change directories at the prompt only, on all their error paths     *)
(* (cmd_cat, cmd_cpr, cmd_mv, save_file, the Notes window).                *)
THEOREM CommandsImplementVolume == ShSpec => Spec
<1>1. ShInit => Init
  BY DEF ShInit
<1>2. QED BY ShReachable, SimNext, <1>1, PTL DEF ShSpec, Spec

(* A step of a command uses a handle only when it has it open, and the     *)
(* source and the destination of a copy are two handles.                   *)
THEOREM HandlesUsedOpen == ShSpec => []CmdOK
<1>1. (~ astray => ShInv) => CmdOK
  BY DEF ShInv, CallInv, CmdOK
<1>2. QED BY ShReachable, <1>1, PTL

(* No command returns with a handle open, on any of its error paths: no    *)
(* sequence of commands uses up the MAX_HANDLES of fat.c.                  *)
THEOREM NoHandleLost == ShSpec => []PromptClosed
<1>1. ShInv => AllClosed
  BY NothingOpen DEF ShInv, CallInv, ShapeOK, AllClosed, At
<1>2. (~ astray => ShInv) => PromptClosed
  BY <1>1 DEF PromptClosed
<1>3. QED BY ShReachable, <1>2, PTL


-----------------------------------------------------------------------------
(* Copies are complete.  Until the first write that comes up short the two *)
(* positions agree and the destination grows in the data area; a write     *)
(* comes up short when the data area has no free cluster, and a copy frees *)
(* none.                                                                   *)

(* A set of clusters the destination lies in, the one that is written too. *)
Spare(S) ==
  /\ S \in SUBSET Data /\ Closed(S)
  /\ handles[cmd.dst].head # 0 => handles[cmd.dst].head \in S
  /\ At("writing") => call.at \in S

Even ==
  LET s == handles[cmd.src]
      d == handles[cmd.dst]
  IN  /\ At("read")     => d.pos = s.pos /\ d.size = d.pos
      /\ At("write")    => d.pos + cmd.got = s.pos /\ d.size = d.pos
      /\ At("writing")  => /\ d.pos + call.left = s.pos /\ d.size <= d.pos
                           /\ call.total + call.left = cmd.got /\ call.pc = "loop"
      /\ At("closesrc") => d.size = s.size

CopyStarts ==
  /\ cmd.at \in {"create", "opendst"} => handles[cmd.src].pos = 0
  /\ At("opendst") => \A q \in Paths : (q = cmd.q /\ LeafFound(q)) =>
       LeafEntry(q).size = 0 /\ LeafEntry(q).head = 0

CopyGoes == cmd.src # NoHandle /\ cmd.dst # NoHandle => VolumeFull \/ (Even /\ \E S : Spare(S))

CopyInv == cmd.name \in Copies => CopyStarts /\ CopyGoes

(* Places where the invariant says nothing. *)
LEMMA CopyRests ==
  ASSUME ShInv, \/ cmd.name \notin Copies
                \/ cmd.at \in {"prompt", "unlink", "open", "remove", "closedst", "more"}
                \/ cmd.at = "closesrc" /\ cmd.dst = NoHandle
  PROVE  CopyInv
BY DEF ShInv, CallInv, ShapeOK, CopyInv, CopyStarts, CopyGoes, At, Copies

LEMMA CopyRestsNext ==
  ASSUME ShInv', \/ cmd'.name \notin Copies
                 \/ cmd'.at \in {"prompt", "unlink", "open", "remove", "closedst", "more"}
                 \/ cmd'.at = "closesrc" /\ cmd'.dst = NoHandle
  PROVE  CopyInv'
BY DEF ShInv, CallInv, ShapeOK, CopyInv, CopyStarts, CopyGoes, At, Copies

(* alloc_cluster takes a cluster past the data area only when that is full. *)
LEMMA AllocLeast ==
  /\ AllocChoice = {} => VolumeFull
  /\ \A c \in AllocChoice : c \in Data \/ VolumeFull
<1>1. Data \subseteq Cluster /\ Cluster \subseteq Nat /\ Data = 2 .. LastData
      /\ LastData \in Nat /\ \A c \in Cluster : c >= 2
  BY ConstAssumption DEF Data, Cluster
<1>2. ASSUME NEW c \in AllocChoice, c \notin Data
      PROVE  VolumeFull
  <2>1. c \in Cluster /\ c > LastData /\ \A d \in Cluster : d < c => fat[d] # FreeCl
    BY <1>1, <1>2 DEF AllocChoice
  <2>2. \A d \in Data : d < c
    BY <1>1, <2>1
  <2> QED BY <1>1, <2>1, <2>2 DEF VolumeFull
<1>3. ASSUME AllocChoice = {}
      PROVE  VolumeFull
  <2> DEFINE F == {c \in Cluster : fat[c] = FreeCl}
  <2>1. ASSUME F # {} PROVE FALSE
    <3>1. F \in SUBSET Nat
      BY <1>1
    <3>2. PICK n \in F : \A m \in F : n <= m
      BY <2>1, <3>1, LeastElement
    <3>3. \A d \in Cluster : d < n => fat[d] # FreeCl
      <4> TAKE d \in Cluster
      <4> HAVE d < n
      <4>1. ~ (n <= d)
        BY <1>1, <3>1
      <4> QED BY <3>2, <4>1
    <3> QED BY <1>3, <3>2, <3>3 DEF AllocChoice
  <2> QED BY <1>1, <2>1 DEF VolumeFull
<1>4. QED BY <1>2, <1>3

(* fs_read comes back with nothing only at the end of the file. *)
LEMMA ReadsAll ==
  ASSUME TypesOK, AllBacked, NEW h \in Handle, Read(h, Buffer, 0),
         handles[h].pos <= handles[h].size
  PROVE  handles[h].pos = handles[h].size
<1>1. /\ handles[h].open /\ handles[h].pos \in Nat /\ handles[h].size \in Nat
  BY DEF Read, TypesOK, HandleRec
<1>2. 1 \in 0 + 1 .. Buffer
  BY BufferAssumption, ConstAssumption
<1>3. ~ CanRead(h, 1)
  BY <1>2 DEF Read
<1>4. SUFFICES ASSUME handles[h].pos < handles[h].size PROVE FALSE
  BY <1>1
<1> DEFINE pos  == handles[h].pos
           size == handles[h].size
<1>5. pos + 1 <= size
  BY <1>1, <1>4
<1>6. Backed(handles[h].head, size)
  BY <1>1 DEF AllBacked
<1>7. Readable(After(handles[h].head, pos \div ClusterUnits))
  <2>1. pos \in Nat /\ size - 1 \in Nat /\ pos <= size - 1 /\ size > 0
    BY <1>1, <1>5
  <2> HIDE DEF pos, size
  <2>2. pos \div ClusterUnits <= (size - 1) \div ClusterUnits
    BY <2>1, Division
  <2>3. pos \div ClusterUnits \in Nat /\ (size - 1) \div ClusterUnits \in Nat
    BY <2>1, Division
  <2>4. pos \div ClusterUnits \in 0 .. (size - 1) \div ClusterUnits
    BY <2>2, <2>3
  <2> QED BY <1>6, <2>1, <2>4 DEF Backed
<1>8. \A i \in pos .. pos + 1 - 1 : i = pos
  BY <1>1
<1>9. QED BY <1>3, <1>5, <1>7, <1>8 DEF CanRead, ReadsTo

LEMMA FullStays ==
  ASSUME VolumeFull, \A c \in Cluster : fat[c] # FreeCl => fat'[c] # FreeCl
  PROVE  VolumeFull'
BY ConstAssumption DEF VolumeFull, Data, Cluster

(* Steps that change neither the FAT nor the destination's first cluster.  *)
LEMMA SpareSame ==
  ASSUME NEW S, Spare(S), UNCHANGED fat, cmd'.dst = cmd.dst,
         handles'[cmd.dst].head = handles[cmd.dst].head,
         cmd'.at = "writing" => call'.at \in S
  PROVE  Spare(S)'
BY DEF Spare, Closed, At

LEMMA CopyFull ==
  ASSUME VolumeFull', cmd'.at \notin {"create", "opendst"}
  PROVE  CopyInv'
BY DEF CopyInv, CopyStarts, CopyGoes, At

(* What a copy holds while it reads and writes. *)
LEMMA CopyFacts ==
  ASSUME ShInv, cmd.name \in Copies
  PROVE  /\ cmd \in CmdRec /\ cmd.got \in Nat
         /\ cmd.src # NoHandle =>
              /\ cmd.src \in Handle /\ handles[cmd.src] \in HandleRec
              /\ handles[cmd.src].pos \in Nat /\ handles[cmd.src].size \in Nat
              /\ handles[cmd.src].pos <= handles[cmd.src].size
         /\ cmd.dst # NoHandle =>
              /\ cmd.dst \in Handle /\ handles[cmd.dst] \in HandleRec /\ cmd.dst # cmd.src
              /\ handles[cmd.dst].pos \in Nat /\ handles[cmd.dst].size \in Nat
         /\ cmd.at \in {"create", "opendst", "read", "write", "writing", "closesrc"} =>
              cmd.src # NoHandle
         /\ cmd.at \in {"read", "write", "writing"} => cmd.dst # NoHandle
         /\ cmd.at \in {"create", "opendst"} => cmd.dst = NoHandle
         /\ handles \in [Handle -> HandleRec]
<1>1. /\ cmd \in CmdRec /\ CmdSound /\ ShapeOK /\ handles \in [Handle -> HandleRec]
  BY DEF ShInv, VolInv, CallInv, CmdSound, TypesOK
<1>2. cmd.got \in Nat
  BY <1>1, ConstAssumption DEF CmdRec
<1>3. QED BY <1>1, <1>2, HandleFacts DEF CmdSound, ShapeOK, At, HandleRec

LEMMA CopyOpenSrc ==
  ASSUME ShInv, ShInv', OpenSrc
  PROVE  CopyInv'
<1>1. cmd \in CmdRec /\ cmd.at = "open" /\ cmd.name \in {"cat", "cpr", "mv"} /\ cmd.dst = NoHandle
  BY DEF ShInv, CallInv, CmdSound, ShapeOK, OpenSrc, At
<1>2. PICK r \in Results :
        /\ Open(cmd.p, r)
        /\ cmd' = IF r = -1 THEN Returns
                  ELSE [GoTo(IF cmd.name = "cat" THEN "read" ELSE "create") EXCEPT !.src = r]
  BY DEF OpenSrc
<1>3. CASE r = -1
  <2>1. cmd'.at \in {"prompt", "remove"}
    BY <1>1, <1>2, <1>3, ReturnsFacts DEF Fresh
  <2>2. QED BY <2>1, CopyRestsNext
<1>4. CASE r # -1
  <2>1. r \in Handle /\ handles'[r].pos = 0
    BY <1>2, <1>4, OpenEffect
  <2> DEFINE place == IF cmd.name = "cat" THEN "read" ELSE "create"
  <2>2. /\ cmd'.at = place /\ cmd'.src = r /\ cmd'.dst = NoHandle /\ cmd'.name = cmd.name
    BY <1>1, <1>2, <1>4, GoToFacts, PlaceFacts DEF CmdRec
  <2>3. CASE cmd.name = "cat"
    BY <2>2, <2>3, CopyRestsNext DEF Copies
  <2>4. CASE cmd.name # "cat"
    BY <2>1, <2>2, <2>4 DEF CopyInv, CopyStarts, CopyGoes, At
  <2>5. QED BY <2>3, <2>4
<1>5. QED BY <1>3, <1>4

(* Where a command goes that has no destination. *)
LEMMA CopyFail ==
  ASSUME ShInv, ShInv', cmd.at \in {"create", "opendst"}, cmd' = Fail
  PROVE  CopyInv'
<1>1. cmd \in CmdRec /\ cmd.dst = NoHandle /\ cmd.name # "none"
  BY DEF ShInv, CallInv, CmdSound, ShapeOK
<1>2. CASE cmd.src # NoHandle
  <2>1. cmd'.at = "closesrc" /\ cmd'.dst = NoHandle
    BY <1>1, <1>2, GoToFacts, PlaceFacts DEF Fail
  <2>2. QED BY <2>1, CopyRestsNext
<1>3. CASE cmd.src = NoHandle
  <2>1. cmd'.at \in {"prompt", "remove"}
    BY <1>1, <1>3, ReturnsFacts DEF Fail, Fresh
  <2>2. QED BY <2>1, CopyRestsNext
<1>4. QED BY <1>2, <1>3

LEMMA CopyCreateDst ==
  ASSUME ShInv, ShInv', CopyInv, CreateDst
  PROVE  CopyInv'
<1>1. /\ cmd \in CmdRec /\ cmd.at = "create" /\ cmd.dst = NoHandle /\ cmd.q \in Paths
      /\ cmd.name \in {"cpr", "mv", "save", "notes"}
  BY DEF ShInv, CallInv, CmdSound, ShapeOK, CreateDst, At
<1>2. PICK r \in Results :
        /\ Create(cmd.q, r)
        /\ cmd' = IF r = -1 /\ cmd.name # "notes" THEN Fail ELSE GoTo("opendst")
  BY DEF CreateDst
<1>3. CASE cmd' = Fail
  BY <1>1, <1>3, CopyFail
<1>4. CASE cmd' = GoTo("opendst") /\ cmd.name \notin Copies
  BY <1>1, <1>4, GoToFacts, PlaceFacts, CopyRestsNext
<1>5. CASE cmd' = GoTo("opendst") /\ cmd.name \in Copies /\ r # -1
  <2>1. PICK q \in Paths : q = cmd.q
    BY <1>1
  <2>2. LeafEntry(q)' = NewEntry(q.leaf, FALSE, 0)
    BY <1>2, <1>5, <2>1, CreateEffect DEF ShInv
  <2>3. UNCHANGED handles
    BY <1>2, <1>5 DEF Create, Fails
  <2>4. /\ cmd'.at = "opendst" /\ cmd'.src = cmd.src /\ cmd'.dst = NoHandle
        /\ cmd'.name = cmd.name /\ cmd'.q = q
    BY <1>1, <1>5, <2>1, GoToFacts, PlaceFacts
  <2>5. handles[cmd.src].pos = 0
    BY <1>1, <1>5 DEF CopyInv, CopyStarts
  <2>6. LeafEntry(q)'.size = 0 /\ LeafEntry(q)'.head = 0
    BY <2>2 DEF NewEntry
  <2>7. CopyStarts'
    BY <2>3, <2>4, <2>5, <2>6 DEF CopyStarts, At
  <2>8. QED BY <2>4, <2>7 DEF CopyInv, CopyGoes
<1>6. QED BY <1>1, <1>2, <1>3, <1>4, <1>5 DEF Copies

LEMMA CopyOpenDst ==
  ASSUME ShInv, ShInv', CopyInv, OpenDst
  PROVE  CopyInv'
<1>1. /\ cmd \in CmdRec /\ cmd.at = "opendst" /\ cmd.dst = NoHandle /\ cmd.q \in Paths
  BY DEF ShInv, CallInv, CmdSound, ShapeOK, OpenDst, At
<1>2. PICK r \in Results : Open(cmd.q, r) /\ cmd' = OpenedDst(r)
  BY DEF OpenDst
<1>3. CASE r = -1
  BY <1>1, <1>2, <1>3, CopyFail DEF OpenedDst
<1>4. CASE r # -1 /\ cmd.name \notin Copies
  <2>1. cmd'.name = cmd.name
    BY <1>1, <1>2, <1>4 DEF OpenedDst, CmdRec
  <2>2. QED BY <1>4, <2>1, CopyRestsNext
<1>5. CASE r # -1 /\ cmd.name \in Copies
  <2>1. /\ r \in Handle /\ ~ handles[r].open /\ IsFile(cmd.q)
        /\ \A h \in Handle : h # r => handles'[h] = handles[h]
    BY <1>2, <1>5, OpenEffect
  <2>2. handles' = [handles EXCEPT ![r] = NewHandle(cmd.q)]
    BY <1>2, <1>5 DEF Open, Fails
  <2>3. cmd.src # NoHandle /\ cmd.src \in Handle /\ cmd.src # r
    BY <1>1, <1>5, <2>1, CopyFacts, HandleFacts
  <2>4. LeafEntry(cmd.q).size = 0 /\ LeafEntry(cmd.q).head = 0 /\ handles[cmd.src].pos = 0
    BY <1>1, <1>5, <2>1 DEF CopyInv, CopyStarts, At, IsFile
  <2>5. handles'[r] = NewHandle(cmd.q)
    BY <2>1, <2>2 DEF ShInv, VolInv, TypesOK
  <2>6. /\ handles'[r].pos = 0 /\ handles'[r].size = 0 /\ handles'[r].head = 0
        /\ handles'[cmd.src].pos = 0
    BY <2>1, <2>3, <2>4, <2>5 DEF NewHandle
  <2>7. cmd' = [cmd EXCEPT !.dst = r, !.at = "read"]
    <3>1. cmd.name # "save" /\ cmd.name # "notes"
      BY <1>5 DEF Copies
    <3>2. QED BY <1>2, <1>5, <3>1 DEF OpenedDst
  <2>8. cmd'.dst = r /\ cmd'.at = "read" /\ cmd'.src = cmd.src
    BY <1>1, <2>7 DEF CmdRec
  <2>9. Even'
    BY <2>6, <2>8 DEF Even, At
  <2>10. Spare({})'
    BY <2>6, <2>8 DEF Spare, Closed, At
  <2>11. CopyStarts' /\ CopyGoes'
    BY <2>8, <2>9, <2>10 DEF CopyStarts, CopyGoes, At
  <2>12. QED BY <2>11 DEF CopyInv
<1>6. QED BY <1>3, <1>4, <1>5

LEMMA CopyReadSrc ==
  ASSUME ShInv, ShInv', AllBacked, CopyInv, ReadSrc
  PROVE  CopyInv'
<1>1. cmd.at = "read" /\ cmd \in CmdRec
  BY DEF ReadSrc, At, ShInv, CallInv, CmdSound
<1>2. PICK r \in 0 .. Buffer : Read(cmd.src, Buffer, r) /\ cmd' = AfterRead(r)
  BY DEF ReadSrc
<1>3. UNCHANGED fat /\ handles' = [handles EXCEPT ![cmd.src].pos = @ + r] /\ r \in Nat
  BY <1>2, ResultFacts DEF Read
<1>4. \/ r = 0 /\ cmd' = GoTo("closesrc")
      \/ cmd.name = "cat" /\ cmd' = cmd
      \/ r # 0 /\ cmd' = [GoTo("write") EXCEPT !.got = r]
  BY <1>2 DEF AfterRead
<1>5. /\ cmd'.name = cmd.name /\ cmd'.src = cmd.src /\ cmd'.dst = cmd.dst
      /\ cmd'.at \in {"read", "write", "closesrc"}
      /\ r = 0 /\ cmd.name # "cat" => cmd'.at = "closesrc"
      /\ r # 0 /\ cmd.name # "cat" => cmd'.at = "write" /\ cmd'.got = r
  <2>1. CASE cmd.name = "cat" /\ cmd' = cmd
    BY <1>1, <2>1
  <2>2. CASE r = 0 /\ cmd' = GoTo("closesrc")
    BY <1>1, <2>2, GoToFacts, PlaceFacts
  <2>3. CASE r # 0 /\ cmd' = [GoTo("write") EXCEPT !.got = r]
    BY <1>1, <2>3, GoToFacts, PlaceFacts DEF CmdRec
  <2>4. QED BY <1>4, <2>1, <2>2, <2>3
<1>6. CASE cmd.name \notin Copies
  BY <1>5, <1>6, CopyRestsNext
<1>7. CASE cmd.name \in Copies /\ VolumeFull
  <2>1. VolumeFull'
    BY <1>3, <1>7, FullStays
  <2>2. QED BY <1>5, <2>1, CopyFull
<1>8. CASE cmd.name \in Copies /\ ~ VolumeFull
  <2>1. /\ cmd.src # NoHandle /\ cmd.dst # NoHandle /\ cmd.src \in Handle /\ cmd.dst \in Handle
        /\ cmd.dst # cmd.src /\ handles \in [Handle -> HandleRec]
        /\ handles[cmd.src].pos \in Nat /\ handles[cmd.src].size \in Nat
        /\ handles[cmd.src].pos <= handles[cmd.src].size
        /\ handles[cmd.src] \in HandleRec
    BY <1>1, <1>8, CopyFacts
  <2>2. Even /\ \E S : Spare(S)
    BY <1>8, <2>1 DEF CopyInv, CopyGoes
  <2>3. PICK S : Spare(S)
    BY <2>2
  <2>4. /\ handles'[cmd.dst] = handles[cmd.dst]
        /\ handles'[cmd.src].pos = handles[cmd.src].pos + r
        /\ handles'[cmd.src].size = handles[cmd.src].size
    BY <1>3, <2>1 DEF HandleRec
  <2>5. handles[cmd.dst].pos = handles[cmd.src].pos /\ handles[cmd.dst].size = handles[cmd.dst].pos
    BY <1>1, <2>2 DEF Even, At
  <2>6. Spare(S)'
    BY <1>3, <1>5, <2>3, <2>4, SpareSame
  <2>7. Even'
    <3>1. CASE r = 0
      <4>1. handles[cmd.src].pos = handles[cmd.src].size
        BY <1>2, <2>1, <3>1, ReadsAll DEF ShInv, VolInv
      <4>2. cmd'.at = "closesrc"
        BY <1>5, <1>8, <3>1 DEF Copies
      <4>3. QED BY <1>5, <2>4, <2>5, <4>1, <4>2 DEF Even, At
    <3>2. CASE r # 0
      <4>1. cmd'.at = "write" /\ cmd'.got = r
        BY <1>5, <1>8, <3>2 DEF Copies
      <4>2. QED BY <1>5, <2>4, <2>5, <4>1 DEF Even, At
    <3>3. QED BY <3>1, <3>2
  <2>8. CopyGoes' /\ CopyStarts'
    BY <1>5, <2>6, <2>7 DEF CopyGoes, CopyStarts, At
  <2>9. QED BY <2>8 DEF CopyInv
<1>9. QED BY <1>6, <1>7, <1>8

(* A copy that goes on inside fs_write. *)
LEMMA CopyWriting ==
  ASSUME NEW S, Spare(S)', cmd'.at = "writing",
         handles'[cmd'.dst].pos + call'.left = handles'[cmd'.src].pos,
         handles'[cmd'.dst].size <= handles'[cmd'.dst].pos,
         call'.total + call'.left = cmd'.got, call'.pc = "loop"
  PROVE  CopyInv'
BY DEF CopyInv, CopyStarts, CopyGoes, Even, At

(* A cluster of the data area is taken. *)
LEMMA SpareGrows ==
  ASSUME TypesOK, NEW S, Spare(S), NEW c \in Data, c \in AllocChoice, NEW at,
         at = c \/ (at \in S /\ fat[at] = Eof),
         fat' = [fat EXCEPT ![at] = c, ![c] = Eof],
         cmd'.dst = cmd.dst, call'.at = c,
         handles'[cmd.dst].head \in {c, handles[cmd.dst].head}
  PROVE  Spare(S \cup {c})'
<1>1. /\ S \subseteq Data /\ Data \subseteq Cluster /\ c \in Cluster /\ at \in Cluster
      /\ Eof \notin Cluster
  <2>1. Data \subseteq Cluster /\ Eof \notin Cluster
    BY ConstAssumption DEF Data, Cluster, Eof
  <2>2. S \subseteq Data
    BY DEF Spare
  <2>3. QED BY <2>1, <2>2
<1>2. \A d \in Cluster : fat'[d] = IF d = c THEN Eof ELSE IF d = at THEN c ELSE fat[d]
  BY <1>1 DEF TypesOK
<1>3. Closed(S \cup {c})'
  <2>1. \A d \in S : fat[d] \in Cluster => fat[d] \in S
    BY DEF Spare, Closed
  <2>2. fat'[c] = Eof /\ c \notin {Eof}
    BY <1>1, <1>2
  <2>3. \A d \in S : fat'[d] \in Cluster => fat'[d] \in S \cup {c}
    BY <1>1, <1>2, <2>1
  <2>4. \A d \in S \cup {c} : fat'[d] \in Cluster => fat'[d] \in S \cup {c}
    BY <1>1, <2>2, <2>3
  <2>5. QED BY <2>4 DEF Closed
<1>4. S \cup {c} \in SUBSET Data
  BY <1>1
<1>5. handles'[cmd.dst].head # 0 => handles'[cmd.dst].head \in S \cup {c}
  BY DEF Spare
<1>6. QED BY <1>3, <1>4, <1>5 DEF Spare

LEMMA FatGrows ==
  ASSUME TypesOK, NEW c \in Cluster, NEW at \in Cluster,
         fat' = [fat EXCEPT ![at] = c, ![c] = Eof]
  PROVE  \A d \in Cluster : fat[d] # FreeCl => fat'[d] # FreeCl
BY ConstAssumption DEF TypesOK, Cluster, Eof, FreeCl

LEMMA CopyEnterWrite ==
  ASSUME ShInv, ShInv', CopyInv, EnterWrite
  PROVE  CopyInv'
<1>1. /\ cmd.at = "write" /\ cmd \in CmdRec /\ TypesOK
      /\ handles \in [Handle -> HandleRec] /\ cmd.dst \in Handle
  BY WritingFacts DEF EnterWrite, At
<1>2. PICK r \in Results :
        /\ WriteEnter(cmd.dst, cmd.got, r)
        /\ cmd' = IF r = -1 THEN AfterWrite(r) ELSE GoTo("writing")
  BY DEF EnterWrite
<1>3. /\ cmd'.name = cmd.name /\ cmd'.src = cmd.src /\ cmd'.dst = cmd.dst
      /\ cmd'.got = cmd.got /\ cmd'.at \notin {"create", "opendst"}
      /\ r # -1 => cmd'.at = "writing"
  BY <1>1, <1>2, AfterWriteFacts, GoToFacts, PlaceFacts
<1>4. CASE cmd.name \notin Copies
  BY <1>3, <1>4, CopyRestsNext
<1>5. CASE r = -1
  <2>1. AllocChoice = {} /\ UNCHANGED fat
    BY <1>2, <1>5 DEF WriteEnter
  <2>2. VolumeFull'
    BY <2>1, AllocLeast, FullStays
  <2>3. QED BY <1>3, <2>2, CopyFull
<1>6. ASSUME cmd.name \in Copies, r # -1, UNCHANGED <<fat, handles>>, handles[cmd.dst].head # 0,
             StartWrite(cmd.dst, cmd.got, handles[cmd.dst].head)
      PROVE  CopyInv'
  <2>1. CASE VolumeFull
    BY <1>3, <1>6, <2>1, CopyFull, FullStays
  <2>2. CASE ~ VolumeFull
    <3>1. cmd.src # NoHandle /\ cmd.dst # NoHandle
      BY <1>1, <1>6, CopyFacts
    <3>2. Even /\ \E S : Spare(S)
      BY <1>6, <2>2, <3>1 DEF CopyInv, CopyGoes
    <3>3. PICK S : Spare(S)
      BY <3>2
    <3>4. /\ call'.at = handles[cmd.dst].head /\ call'.left = cmd.got /\ call'.total = 0
          /\ call'.pc = "loop"
      BY <1>6 DEF StartWrite
    <3>5. Spare(S)'
      BY <1>3, <1>6, <3>3, <3>4, SpareSame DEF Spare
    <3>6. handles[cmd.dst].pos \in Nat /\ cmd.got \in Nat
      BY <1>6, <3>1, CopyFacts
    <3>7. QED BY <1>1, <1>3, <1>6, <3>2, <3>4, <3>5, <3>6, CopyWriting DEF Even, At
  <2>3. QED BY <2>1, <2>2
<1>7. ASSUME cmd.name \in Copies, r # -1, NEW c \in AllocChoice,
             fat' = [fat EXCEPT ![c] = Eof], handles' = [handles EXCEPT ![cmd.dst].head = c],
             StartWrite(cmd.dst, cmd.got, c)
      PROVE  CopyInv'
  <2>1. c \in Cluster /\ fat' = [fat EXCEPT ![c] = c, ![c] = Eof]
    BY <1>1, <1>7 DEF AllocChoice, TypesOK
  <2>2. \A d \in Cluster : fat[d] # FreeCl => fat'[d] # FreeCl
    BY <1>1, <2>1, FatGrows
  <2>3. CASE VolumeFull
    BY <1>3, <2>2, <2>3, CopyFull, FullStays
  <2>4. CASE ~ VolumeFull
    <3>1. c \in Data
      BY <1>7, <2>4, AllocLeast
    <3>2. cmd.src # NoHandle /\ cmd.dst # NoHandle /\ cmd.src \in Handle /\ cmd.src # cmd.dst
      BY <1>1, <1>7, CopyFacts
    <3>3. Even /\ \E S : Spare(S)
      BY <1>7, <2>4, <3>2 DEF CopyInv, CopyGoes
    <3>4. PICK S : Spare(S)
      BY <3>3
    <3>5. call'.at = c /\ call'.left = cmd.got /\ call'.total = 0 /\ call'.pc = "loop"
      BY <1>7 DEF StartWrite
    <3>6. /\ handles'[cmd.dst].head = c /\ handles'[cmd.dst].pos = handles[cmd.dst].pos
          /\ handles'[cmd.dst].size = handles[cmd.dst].size
          /\ handles'[cmd.src].pos = handles[cmd.src].pos
      BY <1>1, <1>7, <3>2 DEF HandleRec
    <3>7. Spare(S \cup {c})'
      BY <1>1, <1>3, <1>7, <2>1, <3>1, <3>4, <3>5, <3>6, SpareGrows
    <3>8. handles[cmd.dst].pos \in Nat /\ cmd.got \in Nat
      BY <1>7, <3>2, CopyFacts
    <3>9. QED BY <1>1, <1>3, <1>7, <3>3, <3>5, <3>6, <3>7, <3>8, CopyWriting DEF Even, At
  <2>5. QED BY <2>3, <2>4
<1>8. QED BY <1>2, <1>4, <1>5, <1>6, <1>7 DEF WriteEnter

(* The write of a copy that goes on: what it holds. *)
LEMMA CopyInWriteFacts ==
  ASSUME ShInv, CopyInv, cmd.at = "writing", cmd.name \in Copies, ~ VolumeFull
  PROVE  /\ cmd.src \in Handle /\ cmd.dst \in Handle /\ cmd.src # cmd.dst
         /\ cmd.src # NoHandle /\ cmd.dst # NoHandle
         /\ handles \in [Handle -> HandleRec] /\ handles[cmd.dst] \in HandleRec
         /\ handles[cmd.dst].pos \in Nat /\ handles[cmd.dst].size \in Nat
         /\ handles[cmd.dst].pos + call.left = handles[cmd.src].pos
         /\ handles[cmd.dst].size <= handles[cmd.dst].pos
         /\ call.total + call.left = cmd.got /\ call.pc = "loop"
         /\ call \in CallRec /\ call.h = cmd.dst /\ handles[cmd.dst].head # 0
         /\ call.at \in Cluster /\ fat[call.at] # FreeCl
         /\ \E S : Spare(S)
<1>1. cmd.src # NoHandle /\ cmd.dst # NoHandle
  BY CopyFacts
<1>2. Even /\ \E S : Spare(S)
  BY <1>1 DEF CopyInv, CopyGoes
<1>3. TypesOK /\ WriteOK /\ CmdSound
  BY DEF ShInv, VolInv, Apart, CallInv
<1>4. call \in CallRec /\ call.h = cmd.dst /\ call # Idle
  BY <1>3 DEF TypesOK, CmdSound, At
<1>5. QED BY <1>1, <1>2, <1>3, <1>4, CopyFacts DEF Even, At, WriteOK

LEMMA CopyHop ==
  ASSUME ShInv, ShInv', CopyInv, cmd.at = "writing", cmd.name \in Copies, ~ VolumeFull,
         UNCHANGED cmd, WriteHop
  PROVE  CopyInv'
<1>1. /\ cmd.src \in Handle /\ cmd.dst \in Handle /\ cmd.src # cmd.dst
      /\ handles[cmd.dst].pos + call.left = handles[cmd.src].pos
      /\ handles[cmd.dst].size <= handles[cmd.dst].pos
      /\ call.total + call.left = cmd.got /\ call.pc = "loop"
      /\ call \in CallRec /\ call.at \in Cluster /\ TypesOK
  BY CopyInWriteFacts DEF ShInv, VolInv
<1>2. PICK S : Spare(S)
  BY CopyInWriteFacts
<1>3. UNCHANGED <<handles, cmd>> /\ call.at \in S
  BY <1>2 DEF WriteHop, Spare, At
<1>4. CASE FollowLink
  <2>1. UNCHANGED fat /\ call' = [call EXCEPT !.at = fat[call.at], !.hop = @ + 1]
    BY <1>4 DEF FollowLink
  <2>2. /\ call'.at = fat[call.at] /\ call'.left = call.left /\ call'.total = call.total
        /\ call'.pc = call.pc
    BY <1>1, <2>1 DEF CallRec
  <2>3. call'.at \in Cluster
    BY <1>1, <2>2 DEF ShInv, VolInv, Apart, WriteOK
  <2>4. call'.at \in S
    BY <1>2, <1>3, <2>2, <2>3 DEF Spare, Closed
  <2>5. Spare(S)'
    BY <1>2, <1>3, <2>1, <2>4, SpareSame
  <2>6. QED BY <1>1, <1>3, <2>2, <2>5, CopyWriting
<1>5. ASSUME NEW c \in AllocChoice, fat[call.at] = Eof,
             fat' = [fat EXCEPT ![call.at] = c, ![c] = Eof],
             call' = [call EXCEPT !.at = c, !.hop = @ + 1]
      PROVE  CopyInv'
  <2>1. c \in Data
    BY AllocLeast
  <2>2. /\ call'.at = c /\ call'.left = call.left /\ call'.total = call.total
        /\ call'.pc = call.pc
    BY <1>1, <1>5 DEF CallRec
  <2>3. Spare(S \cup {c})'
    BY <1>1, <1>2, <1>3, <1>5, <2>1, <2>2, SpareGrows
  <2>4. QED BY <1>1, <1>3, <2>2, <2>3, CopyWriting
<1>6. CASE AllocChoice = {}
  BY <1>6, AllocLeast
<1>7. QED BY <1>4, <1>5, <1>6 DEF WriteHop

LEMMA CopyChunk ==
  ASSUME ShInv, ShInv', CopyInv, cmd.at = "writing", cmd.name \in Copies, ~ VolumeFull,
         UNCHANGED cmd, WriteChunk
  PROVE  CopyInv'
<1>1. /\ cmd.src \in Handle /\ cmd.dst \in Handle /\ cmd.src # cmd.dst
      /\ handles \in [Handle -> HandleRec] /\ handles[cmd.dst] \in HandleRec
      /\ handles[cmd.dst].pos \in Nat /\ handles[cmd.dst].size \in Nat
      /\ handles[cmd.dst].pos + call.left = handles[cmd.src].pos
      /\ handles[cmd.dst].size <= handles[cmd.dst].pos
      /\ call.total + call.left = cmd.got /\ call.pc = "loop"
      /\ call \in CallRec /\ call.h = cmd.dst /\ handles[cmd.dst].head # 0
      /\ call.left \in Nat /\ call.total \in Nat
  BY CopyInWriteFacts DEF CallRec
<1>2. PICK S : Spare(S)
  BY CopyInWriteFacts
<1>3. Transfer(call.at)
  BY <1>2 DEF Transfer, Readable, Spare, At
<1> DEFINE room  == ClusterUnits - InCluster
           chunk == IF room > call.left THEN call.left ELSE room
<1>4. /\ handles' = [handles EXCEPT ![call.h].pos = @ + chunk]
      /\ call' = [call EXCEPT !.left = @ - chunk, !.total = @ + chunk,
                              !.at = handles[call.h].head, !.hop = 0]
      /\ UNCHANGED fat
  BY <1>3 DEF WriteChunk
<1>5. InCluster \in 0 .. ClusterUnits - 1
  BY <1>1, ConstAssumption DEF InCluster
<1>6. chunk \in Nat
  BY <1>1, <1>5, ConstAssumption
<1> HIDE DEF chunk
<1>7. /\ call'.left = call.left - chunk /\ call'.total = call.total + chunk
      /\ call'.at = handles[cmd.dst].head /\ call'.pc = call.pc
  BY <1>1, <1>4 DEF CallRec
<1>8. /\ handles'[cmd.dst].pos = handles[cmd.dst].pos + chunk
      /\ handles'[cmd.dst].size = handles[cmd.dst].size
      /\ handles'[cmd.dst].head = handles[cmd.dst].head
      /\ handles'[cmd.src].pos = handles[cmd.src].pos
  BY <1>1, <1>4 DEF HandleRec
<1>9. Spare(S)'
  BY <1>1, <1>2, <1>4, <1>7, <1>8, SpareSame DEF Spare
<1>10. handles'[cmd.dst].pos + call'.left = handles[cmd.src].pos
       /\ call'.total + call'.left = cmd.got
       /\ handles'[cmd.dst].size <= handles'[cmd.dst].pos
  BY <1>1, <1>6, <1>7, <1>8
<1>11. QED BY <1>1, <1>7, <1>8, <1>9, <1>10, CopyWriting

LEMMA CopyLeave ==
  ASSUME ShInv, ShInv', CopyInv, cmd.at = "writing", cmd.name \in Copies, ~ VolumeFull,
         NEW r \in Results, WriteLeave(r), cmd' = AfterWrite(r)
  PROVE  CopyInv'
<1>1. /\ cmd.src \in Handle /\ cmd.dst \in Handle /\ cmd.src # cmd.dst
      /\ handles \in [Handle -> HandleRec] /\ handles[cmd.dst] \in HandleRec
      /\ handles[cmd.dst].pos \in Nat /\ handles[cmd.dst].size \in Nat
      /\ handles[cmd.dst].pos + call.left = handles[cmd.src].pos
      /\ handles[cmd.dst].size <= handles[cmd.dst].pos
      /\ call.total + call.left = cmd.got /\ call.pc = "loop"
      /\ call \in CallRec /\ call.h = cmd.dst /\ cmd \in CmdRec
      /\ call.left \in Nat /\ call.total \in Nat
  BY CopyInWriteFacts DEF CallRec, ShInv, CallInv, CmdSound
<1>2. PICK S : Spare(S)
  BY CopyInWriteFacts
<1>3. call.left = 0 /\ r = call.total /\ UNCHANGED fat
  BY <1>1 DEF WriteLeave
<1>4. r = cmd.got
  BY <1>1, <1>3
<1>5. handles' = [handles EXCEPT ![call.h].size = NewSize(handles[call.h])]
  BY DEF WriteLeave
<1>6. NewSize(handles[cmd.dst]) = handles[cmd.dst].pos
  BY <1>1 DEF NewSize
<1>7. /\ handles'[cmd.dst].size = handles[cmd.dst].pos
      /\ handles'[cmd.dst].pos = handles[cmd.dst].pos
      /\ handles'[cmd.dst].head = handles[cmd.dst].head
      /\ handles'[cmd.src] = handles[cmd.src]
  BY <1>1, <1>5, <1>6 DEF HandleRec
<1>8. cmd'.at = "read" /\ cmd'.dst = cmd.dst /\ cmd'.src = cmd.src
  <2>1. cmd.name # "save" /\ cmd.name # "notes"
    BY DEF Copies
  <2>2. AfterWrite(r) = GoTo("read")
    BY <1>4, <2>1 DEF AfterWrite
  <2>3. QED BY <1>1, <2>2, GoToFacts, PlaceFacts
<1>9. Spare(S)'
  BY <1>2, <1>3, <1>7, <1>8, SpareSame
<1>10. Even'
  BY <1>1, <1>3, <1>7, <1>8 DEF Even, At
<1>11. CopyStarts' /\ CopyGoes'
  BY <1>8, <1>9, <1>10 DEF CopyStarts, CopyGoes, At
<1>12. QED BY <1>11 DEF CopyInv

LEMMA CopyInWrite ==
  ASSUME ShInv, ShInv', CopyInv, InWrite
  PROVE  CopyInv'
<1>1. cmd.at = "writing"
  BY DEF InWrite, At
<1>2. cmd'.name = cmd.name /\ cmd'.at \notin {"create", "opendst"}
  BY <1>1, AfterWriteFacts DEF InWrite
<1>3. CASE cmd.name \notin Copies
  BY <1>2, <1>3, CopyRestsNext
<1>4. CASE VolumeFull
  <2>1. TypesOK
    BY DEF ShInv, VolInv
  <2>2. \A c \in Cluster : fat[c] # FreeCl => fat'[c] # FreeCl
    <3>1. ASSUME NEW c \in AllocChoice, fat' = [fat EXCEPT ![call.at] = c, ![c] = Eof]
          PROVE  \A d \in Cluster : fat[d] # FreeCl => fat'[d] # FreeCl
      BY <2>1, <3>1, ConstAssumption DEF TypesOK, Cluster, Eof, FreeCl, AllocChoice
    <3>2. CASE UNCHANGED fat
      BY <3>2
    <3>3. QED BY <3>1, <3>2 DEF InWrite, WriteHop, FollowLink, WriteChunk, WriteLeave
  <2>3. QED BY <1>2, <1>4, <2>2, FullStays, CopyFull
<1>5. CASE cmd.name \in Copies /\ ~ VolumeFull
  BY <1>1, <1>5, CopyHop, CopyChunk, CopyLeave DEF InWrite
<1>6. QED BY <1>3, <1>4, <1>5

LEMMA CopyPrompt ==
  ASSUME ShInv, ShInv', Prompt
  PROVE  CopyInv'
<1>1. cmd.at = "prompt" /\ \A p \in Paths : p \in PathType
  BY ConstAssumption DEF Prompt, At
<1>2. NoPath \in PathType
  BY DEF NoPath, PathType, Leaf
<1>3. ASSUME UNCHANGED cmd
      PROVE  CopyInv'
  BY <1>1, <1>3, CopyRestsNext
<1>4. ASSUME NEW n \in {"cat", "cpr", "mv"}, NEW p \in PathType, NEW q \in PathType,
             cmd' = Begin(n, "open", p, q)
      PROVE  CopyInv'
  <2>1. Fresh(cmd', n, "open", p, q)
    BY <1>4, BeginFresh DEF Commands, Places
  <2>2. QED BY <2>1, CopyRestsNext DEF Fresh
<1>5. ASSUME NEW q \in Paths, NEW n, StartSave(q, n)
      PROVE  CopyInv'
  <2>1. Fresh(Begin("save", "unlink", NoPath, q), "save", "unlink", NoPath, q)
    BY <1>1, <1>2, BeginFresh DEF Commands, Places
  <2>2. cmd'.name = "save"
    BY <1>5, <2>1 DEF StartSave, Fresh, CmdRec
  <2>3. QED BY <2>2, CopyRestsNext DEF Copies
<1>6. ASSUME NEW q \in Paths, NEW n, StartNotes(q, n)
      PROVE  CopyInv'
  <2>1. Fresh(Begin("notes", "create", NoPath, q), "notes", "create", NoPath, q)
    BY <1>1, <1>2, BeginFresh DEF Commands, Places
  <2>2. cmd'.name = "notes"
    BY <1>6, <2>1 DEF StartNotes, Fresh, CmdRec
  <2>3. QED BY <2>2, CopyRestsNext DEF Copies
<1>7. ASSUME NEW p \in Paths, NEW q \in Paths, StartCat(p) \/ StartCpr(p, q) \/ StartMv(p, q)
      PROVE  CopyInv'
  <2>1. CASE StartCat(p)
    BY <1>1, <1>2, <1>4, <2>1 DEF StartCat
  <2>2. CASE StartCpr(p, q)
    BY <1>1, <1>4, <2>2 DEF StartCpr
  <2>3. CASE StartMv(p, q)
    BY <1>1, <1>3, <1>4, <2>3 DEF StartMv
  <2>4. QED BY <1>7, <2>1, <2>2, <2>3
<1>8. QED BY <1>3, <1>5, <1>6, <1>7 DEF Prompt, Direct

(* Steps of a command that copies nothing, or has closed a handle. *)
LEMMA CopyOther ==
  ASSUME ShInv, ShInv',
         UnlinkOld \/ NextLine \/ CloseSrc \/ CloseDst \/ RemoveOld
  PROVE  CopyInv'
<1>1. cmd \in CmdRec /\ ShapeOK
  BY DEF ShInv, CallInv, CmdSound
<1>2. CASE UnlinkOld
  <2>1. cmd.name = "save"
    BY <1>1, <1>2 DEF UnlinkOld, ShapeOK, At
  <2>2. cmd'.name = cmd.name
    BY <1>1, <1>2, GoToFacts, PlaceFacts DEF UnlinkOld, CmdRec
  <2>3. QED BY <2>1, <2>2, CopyRestsNext DEF Copies
<1>3. CASE NextLine
  <2>1. cmd.name = "save"
    BY <1>1, <1>3 DEF NextLine, ShapeOK, At
  <2>2. cmd'.name = cmd.name
    <3>1. GoTo("closedst").name = cmd.name /\ GoTo("write").name = cmd.name
      BY <1>1, GoToFacts, PlaceFacts
    <3>2. ASSUME NEW n \in 1 .. MaxUnits, cmd' = [GoTo("write") EXCEPT !.got = n, !.left = @ - n]
          PROVE  cmd'.name = GoTo("write").name
      <4>1. GoTo("write") \in CmdRec
        BY <1>1, GoToFacts, PlaceFacts
      <4>2. QED BY <3>2, <4>1 DEF CmdRec
    <3>3. QED BY <1>3, <3>1, <3>2 DEF NextLine
  <2>3. QED BY <2>1, <2>2, CopyRestsNext DEF Copies
<1>4. CASE CloseSrc
  <2>1. cmd.name # "none"
    BY <1>1, <1>4 DEF CloseSrc, ShapeOK, At
  <2>2. cmd'.at \in {"closedst", "prompt", "remove"}
    BY <1>1, <1>4, <2>1, GoToFacts, PlaceFacts, ReturnsFacts DEF CloseSrc, CmdRec, Fresh
  <2>3. QED BY <2>2, CopyRestsNext
<1>5. CASE CloseDst
  <2>1. cmd.name # "none"
    BY <1>1, <1>5 DEF CloseDst, ShapeOK, At
  <2>2. cmd'.at \in {"prompt", "remove"}
    BY <1>1, <1>5, <2>1, ReturnsFacts DEF CloseDst, CmdRec, Fresh
  <2>3. QED BY <2>2, CopyRestsNext
<1>6. CASE RemoveOld
  BY <1>6, NoCmdFresh, CopyRestsNext DEF RemoveOld, Fresh
<1>7. QED BY <1>2, <1>3, <1>4, <1>5, <1>6

LEMMA CopyStutter ==
  ASSUME CopyInv, UNCHANGED shvars
  PROVE  CopyInv'
<1>1. UNCHANGED <<fat, table, up, cwd, handles, call, cmd>>
  BY DEF shvars
<1>2. VolumeFull' <=> VolumeFull
  BY <1>1 DEF VolumeFull
<1>3. \A S : Spare(S)' <=> Spare(S)
  BY <1>1 DEF Spare, Closed, At
<1>4. Even' <=> Even
  BY <1>1 DEF Even, At
<1>5. \A q \in Paths : /\ LeafFound(q)' <=> LeafFound(q)
                      /\ LeafEntry(q)' = LeafEntry(q)
  <2> TAKE q \in Paths
  <2>1. /\ LeafFound(q)' <=> LeafFound(q)
        /\ Parent(q)' = Parent(q) /\ LeafSlot(q)' = LeafSlot(q)
    BY <1>1, LookupSame
  <2>2. /\ LeafEntry(q) = table[Parent(q)][LeafSlot(q)]
        /\ LeafEntry(q)' = table'[Parent(q)'][LeafSlot(q)']
    BY DEF LeafEntry, EntryOf, LeafSlot
  <2>3. QED BY <1>1, <2>1, <2>2
<1>6. CopyStarts' <=> CopyStarts
  BY <1>1, <1>5 DEF CopyStarts, At
<1>7. QED BY <1>1, <1>2, <1>3, <1>4, <1>6 DEF CopyInv, CopyGoes

LEMMA CopyNext == ShInv /\ ShInv' /\ AllBacked /\ CopyInv /\ [ShCalls]_shvars => CopyInv'
BY CopyPrompt, CopyOther, CopyOpenSrc, CopyCreateDst, CopyOpenDst, CopyReadSrc,
   CopyEnterWrite, CopyInWrite, CopyStutter DEF ShCalls, Run

(* A copy of cmd_cpr or cmd_mv that gets as far as closing its two files   *)
(* is as long as its source, unless the volume is full: no short read of   *)
(* fs_read and no short write of fs_write ends the loop early for any      *)
(* other reason.  That a read comes back short at the end alone is         *)
(* SizesBacked.                                                            *)
THEOREM CopiesComplete == ShSpec => []CopyComplete
<1>1. ShInit => CopyInv
  BY NoCmdFresh DEF ShInit, Fresh, CopyInv, Copies
<1>2. ShInv /\ CopyInv => CopyWhole
  <2> SUFFICES ASSUME ShInv, CopyInv, At("closesrc"), cmd.dst # NoHandle
               PROVE  handles[cmd.dst].size = handles[cmd.src].size \/ VolumeFull
    BY DEF CopyWhole
  <2>1. cmd.name \in Copies /\ cmd.src # NoHandle
    BY DEF ShInv, CallInv, CmdSound, ShapeOK, At, Copies
  <2>2. QED BY <2>1 DEF CopyInv, CopyGoes, Even
<1>3. ShSpec => [](~ astray => AllBacked)
  BY CommandsImplementVolume, SizesBacked, PTL DEF SizeBacked
<1>4. ShSpec => [](~ astray => CopyWhole)
  BY ShInitInv, ShNextInv, CopyNext, OnlyShCalls, <1>1, <1>2, <1>3, PTL DEF ShSpec
<1>5. QED BY <1>4, PTL DEF CopyComplete

-----------------------------------------------------------------------------
(* A text that is no longer than the file it replaces is saved.  The       *)
(* removed file's clusters are enough for it and nobody else takes one:    *)
(* an injection says so, from the clusters still to be written into the    *)
(* free ones of the data area, and each allocation uses up one of its      *)
(* values at most.                                                         *)

(* No entry stands in a cluster that cannot be read. *)
UsedReadable == \A d \in DirIds, s \in Slots : Used(d, s) => d = Root \/ Readable(d)

Saving == cmd.name = "save" /\ cmd.old > 0 /\ cmd.text <= cmd.old

(* The clusters of the removed file were numbered 0 .. Last. *)
Last == (cmd.old - 1) \div ClusterUnits

(* Clusters n .. Last can still be had. *)
Reserves(n, g) ==
  /\ g \in [n .. Last -> Data]
  /\ \A i \in n .. Last : fat[g[i]] = FreeCl
  /\ \A i, j \in n .. Last : g[i] = g[j] => i = j
Reserve(n) == \E g : Reserves(n, g)

(* The chain of the new file: f[0] .. f[n - 1]. *)
Stored(f, n) ==
  /\ f \in [0 .. n - 1 -> Data]
  /\ handles[cmd.dst].head = IF n = 0 THEN 0 ELSE f[0]
  /\ \A i \in 0 .. n - 1 : fat[f[i]] = IF i = n - 1 THEN Eof ELSE f[i + 1]
  /\ At("writing") => call.hop \in 0 .. n - 1 /\ call.at = f[call.hop]

TextStored ==
  LET d    == handles[cmd.dst]
      done == cmd.text - cmd.left
  IN  /\ At("more")     => d.pos = done /\ d.size = d.pos
      /\ At("write")    => d.pos + cmd.got = done /\ d.size = d.pos
      /\ At("writing")  => d.pos + call.left = done /\ d.size <= d.pos /\ call.pc = "loop"
      /\ At("closedst") => d.size = cmd.text

EntryReady ==
  \A q \in Paths : q = cmd.q =>
    /\ At("create")  => CreateSlots(q) # {}
    /\ At("opendst") => IsFile(q) /\ LeafEntry(q).size = 0 /\ LeafEntry(q).head = 0

Chained == \E n \in 0 .. Last + 1 : Reserve(n) /\ \E f : Stored(f, n)

ClustersReady ==
  /\ cmd.at \in {"create", "opendst"} => Reserve(0)
  /\ cmd.at \in {"more", "write", "writing"} => Chained

SaveInv ==
  cmd.name = "save" =>
    /\ At("unlink") => cmd.old = 0
    /\ cmd.at \in {"unlink", "create", "opendst"} => cmd.left = cmd.text
    /\ Saving => EntryReady /\ TextStored /\ ClustersReady

(* Every step keeps UsedReadable. *)
LEMMA ReadableStays ==
  ASSUME UsedReadable, \A d \in DirIds, s \in Slots : Used(d, s)' => Used(d, s) \/ d = Root \/ Readable(d)
  PROVE  UsedReadable'
BY DEF UsedReadable, Readable, Root, Data

LEMMA ReadableSame ==
  ASSUME UsedReadable, UNCHANGED table
  PROVE  UsedReadable'
BY ReadableStays DEF Used

LEMMA ReadableFails ==
  ASSUME UsedReadable, NEW r, Fails(r)
  PROVE  UsedReadable'
BY ReadableSame DEF Fails, vars

LEMMA ReadableRemove ==
  ASSUME TypesOK, UsedReadable, NEW p, LeafFound(p), MarkDeleted(Parent(p), LeafSlot(p))
  PROVE  UsedReadable'
<1>1. Parent(p) \in DirIds /\ LeafSlot(p) \in Slots
  BY LeafFoundFacts
<1>2. \A d \in DirIds, s \in Slots : Used(d, s)' => Used(d, s)
  BY <1>1 DEF MarkDeleted, DeletedEntry, EndEntry, TypesOK, Used
<1>3. QED BY <1>2, ReadableStays

(* dir_add_entry writes into a directory it can read. *)
LEMMA ReadableAdd ==
  ASSUME UsedReadable, NEW t \in [DirIds -> [Slots -> Dirent]], NEW p, NEW e,
         Parent(p) \in DirIds, NEW s \in AddSlots(Parent(p), t[Parent(p)]),
         \A d \in DirIds, x \in Slots : t[d][x].st = "used" => Used(d, x),
         table' = [t EXCEPT ![Parent(p)][s] = e]
  PROVE  UsedReadable'
<1>1. s \in Slots /\ (Parent(p) = Root \/ Readable(Parent(p)))
  BY DEF AddSlots
<1>2. \A d \in DirIds, x \in Slots : table'[d][x].st = "used" => t[d][x].st = "used" \/ d = Parent(p)
  BY <1>1
<1>3. QED BY <1>1, <1>2, ReadableStays DEF Used

LEMMA ReadableCreate ==
  ASSUME TypesOK, UsedReadable, NEW p \in Paths, NEW r, Create(p, r)
  PROVE  UsedReadable'
<1>1. ASSUME NEW s \in CreateSlots(p),
             table' = [table EXCEPT ![Parent(p)][s] = NewEntry(p.leaf, FALSE, 0)]
      PROVE  UsedReadable'
  <2>1. s \in AddSlots(Parent(p), table[Parent(p)]) /\ Parent(p) \in DirIds
    BY <1>1, ParentType DEF CreateSlots, CanCreate
  <2>2. QED BY <1>1, <2>1, ReadableAdd DEF TypesOK, Used
<1>2. QED BY <1>1, ReadableFails DEF Create

LEMMA ReadableMkdir ==
  ASSUME TypesOK, UsedReadable, NEW p \in Paths, NEW r, Mkdir(p, r)
  PROVE  UsedReadable'
<1>1. ASSUME CanCreate(p), NEW c \in Cluster, MkdirInto(p, c, r)
      PROVE  UsedReadable'
  <2>1. PICK t : t = [table EXCEPT ![c] = EmptyTable]
    OBVIOUS
  <2>2. c \in DirIds /\ Parent(p) \in DirIds
    BY <1>1, ClusterFacts, ParentType DEF CanCreate
  <2>3. t \in [DirIds -> [Slots -> Dirent]]
    BY <2>1, <2>2, RecordTypes DEF TypesOK
  <2>4. \A d \in DirIds, x \in Slots : t[d][x].st = "used" => Used(d, x)
    BY <2>1, <2>2 DEF TypesOK, EmptyTable, EndEntry, Used
  <2>5. CASE table' = t
    BY <2>4, <2>5, ReadableStays DEF Used
  <2>6. ASSUME NEW s \in AddSlots(Parent(p), t[Parent(p)]),
               table' = [t EXCEPT ![Parent(p)][s] = NewEntry(p.leaf, TRUE, c)]
        PROVE  UsedReadable'
    BY <2>2, <2>3, <2>4, <2>6, ReadableAdd
  <2>7. QED BY <1>1, <2>1, <2>5, <2>6 DEF MkdirInto
<1>2. QED BY <1>1, ReadableSame, ReadableFails DEF Mkdir, AllocChoice

LEMMA ReadableRename ==
  ASSUME TypesOK, UsedReadable, NEW p, NEW q, NEW r, Rename(p, q, r)
  PROVE  UsedReadable'
<1>1. CASE /\ CanRename(p, q)
           /\ table' = [table EXCEPT ![Parent(p)][LeafSlot(p)].name = q.leaf]
  <2>1. Parent(p) \in DirIds /\ LeafSlot(p) \in Slots
    BY <1>1, LeafFoundFacts DEF CanRename
  <2>2. \A d \in DirIds, s \in Slots : table'[d][s].st = table[d][s].st
    BY <1>1, <2>1 DEF TypesOK, Dirent
  <2>3. QED BY <2>2, ReadableStays DEF Used
<1>2. QED BY <1>1, ReadableFails DEF Rename

LEMMA ReadableWrite ==
  ASSUME TypesOK, UsedReadable, WriteChunk \/ \E r \in Results : WriteLeave(r)
  PROVE  UsedReadable'
<1>1. CASE WriteChunk
  <2>1. call.at \in DirIds
    BY DEF TypesOK, CallRec
  <2>2. CASE table' = [table EXCEPT ![call.at] = EmptyTable]
    <3>1. \A d \in DirIds, s \in Slots : Used(d, s)' => Used(d, s)
      BY <2>1, <2>2 DEF TypesOK, EmptyTable, EndEntry, Used
    <3>2. QED BY <3>1, ReadableStays
  <2>3. QED BY <1>1, <2>2, ReadableSame DEF WriteChunk
<1>2. ASSUME NEW r \in Results, WriteLeave(r)
      PROVE  UsedReadable'
  <2>1. PICK d, s, h, n : table' = [table EXCEPT ![d][s].head = h, ![d][s].size = n]
    BY <1>2 DEF WriteLeave
  <2>2. \A x \in DirIds, y \in Slots : table'[x][y].st = table[x][y].st
    BY <2>1 DEF TypesOK, Dirent
  <2>3. QED BY <2>2, ReadableStays DEF Used
<1>3. QED BY <1>1, <1>2

LEMMA ReadableNext == TypesOK /\ UsedReadable /\ [Calls]_vars => UsedReadable'
<1> SUFFICES ASSUME TypesOK, UsedReadable, [Calls]_vars PROVE UsedReadable'
  OBVIOUS
<1>1. CASE UNCHANGED vars
  BY <1>1, ReadableSame DEF vars
<1>2. CASE WriteHop
  BY <1>2, ReadableSame DEF WriteHop
<1>3. ASSUME NEW r \in Results, NEW p \in Paths, DirCall(p, r)
      PROVE  UsedReadable'
  <2>1. CASE Chdir(p, r)
    BY <2>1, ReadableSame, ReadableFails DEF Chdir
  <2>2. CASE Rmdir(p, r)
    BY <2>2, ReadableRemove, ReadableFails DEF Rmdir, CanRmdir
  <2>3. QED BY <1>3, <2>1, <2>2, ReadableMkdir, ReadableRename DEF DirCall
<1>4. ASSUME NEW r \in Results, NEW p \in Paths, FileCall(p, r)
      PROVE  UsedReadable'
  <2>1. CASE Unlink(p, r)
    BY <2>1, ReadableRemove, ReadableFails DEF Unlink, IsFile
  <2>2. CASE Open(p, r)
    BY <2>2, ReadableSame, ReadableFails DEF Open
  <2>3. QED BY <1>4, <2>1, <2>2, ReadableCreate DEF FileCall
<1>5. ASSUME NEW r \in Results, NEW h \in Handle, HandleCall(h, r)
      PROVE  UsedReadable'
  BY <1>5, ReadableSame DEF HandleCall, Close, Read, WriteEnter
<1>6. QED BY <1>1, <1>2, <1>3, <1>4, <1>5, ReadableWrite DEF Calls

LEMMA LastNat ==
  ASSUME cmd.old \in Nat, cmd.old > 0
  PROVE  /\ Last \in Nat
         /\ \A x \in Nat : x < cmd.old => x \div ClusterUnits \in 0 .. Last
<1>1. cmd.old - 1 \in Nat
  OBVIOUS
<1>2. Last \in Nat
  BY <1>1, Division DEF Last
<1>3. ASSUME NEW x \in Nat, x < cmd.old
      PROVE  x \div ClusterUnits \in 0 .. Last
  <2>1. x <= cmd.old - 1
    BY <1>3
  <2>2. x \div ClusterUnits <= Last /\ x \div ClusterUnits \in Nat
    BY <1>1, <2>1, Division DEF Last
  <2>3. QED BY <1>2, <2>2
<1>4. QED BY <1>2, <1>3

(* While a cluster is reserved, alloc_cluster finds one in the data area. *)
LEMMA ReserveAlloc ==
  ASSUME Last \in Nat, NEW n \in 0 .. Last, Reserve(n)
  PROVE  AllocChoice # {} /\ AllocChoice \subseteq Data
<1>1. PICK g : Reserves(n, g)
  BY DEF Reserve
<1>2. n \in n .. Last
  OBVIOUS
<1>3. ~ VolumeFull
  BY <1>1, <1>2 DEF Reserves, VolumeFull
<1>4. QED BY <1>3, AllocLeast

LEMMA ReserveTakes ==
  ASSUME Last \in Nat, NEW n \in 0 .. Last, Reserve(n), cmd'.old = cmd.old,
         NEW c \in Data, \A x \in Data : fat[x] = FreeCl /\ x # c => fat'[x] = FreeCl
  PROVE  Reserve(n + 1)'
<1>1. PICK g : Reserves(n, g)
  BY DEF Reserve
<1>0. PICK f : f = [i \in n + 1 .. Last |-> IF g[i] = c THEN g[n] ELSE g[i]]
  OBVIOUS
<1>2. Last' = Last
  BY DEF Last
<1>3. n \in n .. Last /\ \A i \in n + 1 .. Last : i \in n .. Last /\ i # n
  OBVIOUS
<1>4. /\ g \in [n .. Last -> Data]
      /\ \A i \in n .. Last : fat[g[i]] = FreeCl
      /\ \A i, j \in n .. Last : g[i] = g[j] => i = j
  BY <1>1 DEF Reserves
<1>5. \A i \in n + 1 .. Last : f[i] \in Data /\ f[i] # c /\ fat[f[i]] = FreeCl
  BY <1>0, <1>3, <1>4
<1>6. \A i, j \in n + 1 .. Last : f[i] = f[j] => i = j
  <2> SUFFICES ASSUME NEW i \in n + 1 .. Last, NEW j \in n + 1 .. Last, f[i] = f[j]
               PROVE  i = j
    OBVIOUS
  <2>1. i \in n .. Last /\ j \in n .. Last /\ i # n /\ j # n /\ n \in n .. Last
    BY <1>3
  <2>2. g[i] # g[n] /\ g[j] # g[n]
    BY <1>4, <2>1
  <2>3. g[i] = g[j]
    <3>1. f[i] = IF g[i] = c THEN g[n] ELSE g[i]
      BY <1>0
    <3>2. f[j] = IF g[j] = c THEN g[n] ELSE g[j]
      BY <1>0
    <3>3. QED BY <2>2, <3>1, <3>2
  <2>4. QED BY <1>4, <2>1, <2>3
<1>7. f \in [n + 1 .. Last -> Data]
  BY <1>0, <1>5
<1>8. \A i \in n + 1 .. Last : fat'[f[i]] = FreeCl
  BY <1>5
<1>9. Reserves(n + 1, f)'
  <2>1. f \in [n + 1 .. Last' -> Data] /\ \A i \in n + 1 .. Last' : fat'[f[i]] = FreeCl
    BY <1>2, <1>7, <1>8
  <2>2. \A i, j \in n + 1 .. Last' : f[i] = f[j] => i = j
    BY <1>2, <1>6
  <2>3. QED BY <2>1, <2>2, Zenon DEF Reserves
<1>10. QED BY <1>9 DEF Reserve

LEMMA ReserveKeeps ==
  ASSUME NEW n, Reserve(n), UNCHANGED fat, cmd'.old = cmd.old
  PROVE  Reserve(n)'
<1>1. PICK g : Reserves(n, g)
  BY DEF Reserve
<1>2. Last' = Last
  BY DEF Last
<1>3. Reserves(n, g)'
  BY <1>1, <1>2 DEF Reserves
<1>4. QED BY <1>3 DEF Reserve

(* A walk from the head of a chain meets no cluster twice. *)
LEMMA WalkInjective ==
  ASSUME TypesOK, ChainsOK, NEW c, IsHead(c), NEW k \in Nat,
         \A i \in 0 .. k : After(c, i) \in Cluster
  PROVE  \A i, j \in 0 .. k : After(c, i) = After(c, j) => i = j
<1> DEFINE S == {i \in 0 .. k : \E j \in 0 .. k : i < j /\ After(c, i) = After(c, j)}
<1>1. ASSUME S # {} PROVE FALSE
  <2>1. S \in SUBSET Nat
    OBVIOUS
  <2>2. PICK i \in S : \A m \in S : i <= m
    BY <1>1, <2>1, LeastElement
  <2>3. PICK j \in 0 .. k : i < j /\ After(c, i) = After(c, j)
    OBVIOUS
  <2>4. i \in 0 .. k /\ j - 1 \in 0 .. k /\ j - 1 \in Nat /\ j = (j - 1) + 1
    BY <2>3
  <2>5. After(c, j) = fat[After(c, j - 1)] /\ After(c, j - 1) \in Cluster
    <3>1. After(c, (j - 1) + 1) = Link(After(c, j - 1))
      BY <2>4, AfterLinks
    <3>2. QED BY <2>4, <3>1 DEF Link
  <2>6. CASE i = 0
    <3>1. After(c, i) = c
      BY <2>6, AfterLinks
    <3>2. QED BY <2>3, <2>5, <3>1 DEF IsHead
  <2>7. CASE i # 0
    <3>1. i - 1 \in 0 .. k /\ i - 1 \in Nat /\ i = (i - 1) + 1 /\ i - 1 < j - 1
      BY <2>3, <2>4, <2>7
    <3>2. After(c, i) = fat[After(c, i - 1)] /\ After(c, i - 1) \in Cluster
      <4>1. After(c, (i - 1) + 1) = Link(After(c, i - 1))
        BY <3>1, AfterLinks
      <4>2. QED BY <3>1, <4>1 DEF Link
    <3>3. After(c, i) \in Cluster
      BY <2>4
    <3>4. After(c, i - 1) = After(c, j - 1)
      BY <2>3, <2>5, <3>2, <3>3 DEF ChainsOK
    <3>5. i - 1 \in S
      BY <2>4, <3>1, <3>4
    <3>6. QED BY <2>2, <3>1, <3>5
  <2>8. QED BY <2>6, <2>7
<1>2. \A i, j \in 0 .. k : After(c, i) = After(c, j) => ~ (i < j)
  BY <1>1
<1>3. SUFFICES ASSUME NEW i \in 0 .. k, NEW j \in 0 .. k, After(c, i) = After(c, j)
               PROVE  i = j
  OBVIOUS
<1>4. ~ (i < j) /\ ~ (j < i)
  BY <1>2, <1>3
<1>5. QED BY <1>4

(* The clusters that fs_unlink frees can be had again. *)
LEMMA ReserveMade ==
  ASSUME TypesOK, ChainsOK, NEW c, IsHead(c), FreeChain(c),
         NEW n \in Nat, n > 0, Backed(c, n), cmd'.old = n
  PROVE  Reserve(0)'
<1>1. PICK k \in Nat : k = (n - 1) \div ClusterUnits
  <2>1. n - 1 \in Nat
    OBVIOUS
  <2>2. QED BY <2>1, Division
<1>2. Last' = k
  BY <1>1 DEF Last
<1>0. PICK g : g = [i \in 0 .. k |-> After(c, i)]
  OBVIOUS
<1>3. \A i \in 0 .. k : After(c, i) \in Data /\ After(c, i) \in Cluster
  BY <1>1, ClusterFacts DEF Backed, Readable
<1>4. \A i \in 0 .. k : After(c, i) \in ChainOf(c)
  BY <1>3, WalkInChain
<1>5. \A i \in 0 .. k : fat'[After(c, i)] = FreeCl
  BY <1>3, <1>4 DEF FreeChain
<1>6. \A i, j \in 0 .. k : After(c, i) = After(c, j) => i = j
  BY <1>3, WalkInjective
<1>7. g \in [0 .. k -> Data] /\ \A i \in 0 .. k : g[i] = After(c, i)
  BY <1>0, <1>3
<1>8. Reserves(0, g)'
  <2>1. g \in [0 .. Last' -> Data] /\ \A i \in 0 .. Last' : fat'[g[i]] = FreeCl
    BY <1>2, <1>5, <1>7
  <2>2. \A i, j \in 0 .. Last' : g[i] = g[j] => i = j
    BY <1>2, <1>6, <1>7
  <2>3. QED BY <2>1, <2>2, Zenon DEF Reserves
<1>9. QED BY <1>8 DEF Reserve

(* A path leads to the same directory as long as every lookup on the way   *)
(* comes out the same.                                                     *)
LEMMA ParentKept ==
  ASSUME TypesOK, NEW p, NEW d, d = Parent(p), d # NoDir, IsName(p),
         UNCHANGED <<up, cwd>>,
         \A x \in DirIds : /\ Found(x, DotDot)' <=> Found(x, DotDot)
                           /\ Found(x, DotDot) => EntryOf(x, DotDot)' = EntryOf(x, DotDot),
         NEW n, \A x \in DirIds, m \in Leaf : x # d \/ m # n =>
           /\ Found(x, m)' <=> Found(x, m)
           /\ Found(x, m) => EntryOf(x, m)' = EntryOf(x, m),
         p.via \in Leaf,
         p.via = n => ~ (Found(d, n) /\ EntryOf(d, n).dir)
  PROVE  Parent(p)' = d
<1>1. p.leaf # DotDot /\ d \in DirIds
  BY ParentType, ConstAssumption DEF IsName
<1>2. PICK x \in DirIds : x = Start(p) /\ x = Start(p)'
  BY ClusterFacts DEF Start, TypesOK
<1>3. d = Step(x, p.via)
  BY <1>1, <1>2 DEF Parent
<1>4. Above(x)' = Above(x)
  BY <1>2 DEF Above
<1>5. Step(x, p.via)' = Step(x, p.via)
  <2>1. CASE p.via = Dot \/ p.via = Blank
    BY <2>1 DEF Step, Dot, DotDot, Blank
  <2>2. CASE p.via = DotDot
    BY <1>4, <2>2 DEF Step
  <2>3. CASE p.via # Dot /\ p.via # Blank /\ p.via # DotDot
    <3>1. Step(x, p.via) = IF Found(x, p.via) /\ EntryOf(x, p.via).dir
                           THEN EntryOf(x, p.via).head ELSE NoDir
      BY <2>3 DEF Step
    <3>2. x # d \/ p.via # n
      BY <1>3, <3>1
    <3>3. /\ Found(x, p.via)' <=> Found(x, p.via)
          /\ Found(x, p.via) => EntryOf(x, p.via)' = EntryOf(x, p.via)
      BY <1>2, <3>2
    <3>4. Step(x, p.via)' = IF Found(x, p.via)' /\ (EntryOf(x, p.via)').dir
                            THEN (EntryOf(x, p.via)').head ELSE NoDir
      BY <2>3 DEF Step
    <3>5. QED BY <3>1, <3>3, <3>4
  <2>4. QED BY <2>1, <2>2, <2>3
<1>6. Step(Start(p), p.via)' = Step(x, p.via)'
  BY <1>2 DEF Step, Above, Found, EntryOf, SlotOf, Hits
<1>7. QED BY <1>1, <1>3, <1>5, <1>6 DEF Parent

LEMMA RemoveEffect ==
  ASSUME TypesOK, NEW d \in DirIds, NEW s \in Slots, MarkDeleted(d, s)
  PROVE  /\ \A y \in DirIds, t \in Slots : ~ (y = d /\ t = s) => table'[y][t] = table[y][t]
         /\ table'[d][s].st = "del"
BY DEF MarkDeleted, DeletedEntry, EndEntry, TypesOK

(* The removal of an entry is seen by lookups of its name alone. *)
LEMMA RemoveKeepsEntry ==
  ASSUME TypesOK, NEW d \in DirIds, NEW s \in Slots, Used(d, s),
         NEW n, table[d][s].name = n, MarkDeleted(d, s),
         NEW x \in DirIds, NEW m, x # d \/ m # n
  PROVE  /\ Found(x, m)' <=> Found(x, m)
         /\ Found(x, m) => EntryOf(x, m)' = EntryOf(x, m)
<1>1. /\ \A y \in DirIds, t \in Slots : ~ (y = d /\ t = s) => table'[y][t] = table[y][t]
      /\ table'[d][s].st = "del"
  BY RemoveEffect
<1>2. \A t \in Slots : /\ table'[x][t].st = "end" <=> table[x][t].st = "end"
                       /\ (Used(x, t)' /\ table'[x][t].name = m) <=>
                          (Used(x, t) /\ table[x][t].name = m)
  <2> TAKE t \in Slots
  <2>1. CASE x = d /\ t = s
    BY <1>1, <2>1 DEF Used
  <2>2. CASE ~ (x = d /\ t = s)
    BY <1>1, <2>2 DEF Used
  <2>3. QED BY <2>1, <2>2
<1>3. \A u \in Slots : \A t \in 1 .. u - 1 : t \in Slots
  BY ConstAssumption DEF Slots
<1>4. \A u \in Slots : u \in Hits(x, m)' <=> u \in Hits(x, m)
  BY <1>2, <1>3 DEF Hits
<1>5. Hits(x, m)' = Hits(x, m)
  BY <1>4 DEF Hits
<1>6. \A t \in Hits(x, m) : table'[x][t] = table[x][t]
  <2> TAKE t \in Hits(x, m)
  <2>1. t \in Slots /\ table[x][t].name = m
    BY DEF Hits
  <2>2. QED BY <1>1, <2>1
<1>7. Found(x, m)' <=> Found(x, m)
  BY <1>5 DEF Found
<1>8. SlotOf(x, m)' = SlotOf(x, m)
  BY <1>5 DEF SlotOf
<1>9. Found(x, m) => SlotOf(x, m) \in Hits(x, m)
  BY DEF Found, SlotOf
<1>10. QED BY <1>6, <1>7, <1>8, <1>9 DEF EntryOf

(* When fs_unlink has removed a file, fs_create finds the name and a place *)
(* for it again.                                                           *)
LEMMA UnlinkReady ==
  ASSUME TypesOK, TypesOK', Orderly, UsedReadable, NEW q \in Paths, IsFile(q),
         MarkDeleted(Parent(q), LeafSlot(q)), UNCHANGED <<up, cwd>>
  PROVE  CreateSlots(q)' # {}
<1>1. PICK d, s : d = Parent(q) /\ s = LeafSlot(q)
  OBVIOUS
<1>2. /\ LeafFound(q) /\ d \in DirIds /\ s \in Slots /\ Used(d, s)
      /\ LeafEntry(q) = table[d][s] /\ ~ table[d][s].dir
      /\ Found(d, q.leaf) /\ EntryOf(d, q.leaf) = table[d][s] /\ q.leaf \in Names
  BY <1>1, LeafFoundFacts DEF IsFile, LeafFound, IsName, LeafEntry
<1>3. table[d][s].name = q.leaf
  BY <1>1, <1>2, FoundFacts DEF LeafSlot
<1>4. MarkDeleted(d, s)
  BY <1>1
<1>5. Parent(q)' = d
  <2>1. \A x \in DirIds, m \in Leaf : x # d \/ m # q.leaf =>
          /\ Found(x, m)' <=> Found(x, m)
          /\ Found(x, m) => EntryOf(x, m)' = EntryOf(x, m)
    BY <1>2, <1>3, <1>4, RemoveKeepsEntry
  <2>2. DotDot # q.leaf /\ DotDot \in Leaf /\ q.via \in Leaf
    BY <1>2, ConstAssumption DEF Leaf, PathType
  <2>3. IsName(q) /\ d # NoDir
    BY <1>2, ClusterFacts DEF IsName
  <2>4. QED BY <1>1, <1>2, <2>1, <2>2, <2>3, ParentKept
<1>6. /\ \A y \in DirIds, t \in Slots : ~ (y = d /\ t = s) => table'[y][t] = table[y][t]
      /\ table'[d][s].st = "del"
  BY <1>2, <1>4, RemoveEffect
<1>7. Hits(d, q.leaf)' = {}
  <2>1. ASSUME NEW t \in Slots, Used(d, t)', table'[d][t].name = q.leaf
        PROVE  FALSE
    <3>1. t # s /\ Used(d, t) /\ table[d][t].name = q.leaf
      BY <1>2, <1>6, <2>1 DEF Used
    <3>2. SlotOf(d, q.leaf) = t /\ SlotOf(d, q.leaf) = s
      BY <1>2, <1>3, <3>1, FoundIffUsed
    <3>3. QED BY <3>1, <3>2
  <2>2. QED BY <2>1 DEF Hits
<1>8. CanCreate(q)'
  <2>1. ~ Found(d, q.leaf)'
    BY <1>7 DEF Found
  <2>2. Found(Parent(q), q.leaf)' <=> Found(d, q.leaf)'
    BY <1>5 DEF Found, Hits
  <2>3. IsName(q)' /\ Parent(q)' # NoDir
    BY <1>2, <1>5, ClusterFacts DEF IsName
  <2>4. QED BY <2>1, <2>2, <2>3 DEF CanCreate, LeafFound
<1>9. \E t \in Slots : t \in AddSlots(d, table'[d])
  <2> DEFINE U == {t \in Slots : table'[d][t].st # "used"}
  <2>1. U \in SUBSET Nat /\ s \in U
    BY <1>2, <1>6, ClusterFacts
  <2>2. PICK t \in U : \A u \in U : t <= u
    BY <2>1, LeastElement
  <2>3. \A u \in 1 .. t - 1 : u \in Slots /\ ~ (t <= u)
    BY ConstAssumption DEF Slots
  <2>4. d = Root \/ Readable(d)
    BY <1>2 DEF UsedReadable
  <2>5. QED BY <2>2, <2>3, <2>4 DEF AddSlots
<1>10. CreateSlots(q)' = AddSlots(d, table'[d])
  <2>1. CreateSlots(q)' = AddSlots(Parent(q)', table'[Parent(q)'])
    BY <1>8 DEF CreateSlots, AddSlots, Readable
  <2>2. QED BY <1>5, <2>1
<1>11. QED BY <1>9, <1>10

LEMMA SaveRests ==
  ASSUME cmd'.name # "save"
  PROVE  SaveInv'
BY DEF SaveInv

(* A save that is past its preparations. *)
LEMMA SaveGoes ==
  ASSUME cmd'.at \in {"more", "write", "writing", "closedst"},
         Saving' => TextStored' /\ (cmd'.at = "closedst" \/ Chained')
  PROVE  SaveInv'
BY DEF SaveInv, EntryReady, ClustersReady, At

LEMMA GoToOld ==
  ASSUME cmd \in CmdRec, NEW place
  PROVE  GoTo(place).old = cmd.old
BY DEF GoTo, CmdRec

(* What stays as it is while a text is saved. *)
TextSame == cmd'.name = cmd.name /\ cmd'.old = cmd.old /\ cmd'.text = cmd.text /\ cmd'.q = cmd.q

LEMMA SavingSame ==
  ASSUME TextSame
  PROVE  Saving' <=> Saving
BY DEF TextSame, Saving

LEMMA SavePrompt ==
  ASSUME ShInv, Prompt
  PROVE  SaveInv'
<1>1. cmd.at = "prompt" /\ cmd.name = "none" /\ \A p \in Paths : p \in PathType
  BY ConstAssumption DEF Prompt, At, ShInv, CallInv, ShapeOK
<1>2. NoPath \in PathType
  BY DEF NoPath, PathType, Leaf
<1>3. ASSUME UNCHANGED cmd
      PROVE  SaveInv'
  BY <1>1, <1>3, SaveRests
<1>4. ASSUME NEW n \in {"cat", "cpr", "mv"}, NEW p \in PathType, NEW q \in PathType,
             cmd' = Begin(n, "open", p, q)
      PROVE  SaveInv'
  <2>1. Fresh(cmd', n, "open", p, q)
    BY <1>4, BeginFresh DEF Commands, Places
  <2>2. QED BY <2>1, SaveRests DEF Fresh
<1>5. ASSUME NEW q \in Paths, NEW n, StartSave(q, n)
      PROVE  SaveInv'
  <2>1. PICK b : b = Begin("save", "unlink", NoPath, q)
    OBVIOUS
  <2>2. b.at = "unlink" /\ b.old = 0 /\ b.name = "save"
    BY <2>1 DEF Begin, NoCmd
  <2>3. b \in CmdRec
    BY <1>1, <1>2, <2>1, BeginFresh DEF Commands, Places, Fresh
  <2>4. cmd' = [b EXCEPT !.text = n, !.left = n]
    BY <1>5, <2>1 DEF StartSave
  <2>5. cmd'.at = "unlink" /\ cmd'.old = 0 /\ cmd'.left = n /\ cmd'.text = n
    BY <2>2, <2>3, <2>4 DEF CmdRec
  <2>6. QED BY <2>5 DEF SaveInv, Saving, At
<1>6. ASSUME NEW q \in Paths, NEW n, StartNotes(q, n)
      PROVE  SaveInv'
  <2>1. Fresh(Begin("notes", "create", NoPath, q), "notes", "create", NoPath, q)
    BY <1>1, <1>2, BeginFresh DEF Commands, Places
  <2>2. cmd'.name = "notes"
    BY <1>6, <2>1 DEF StartNotes, Fresh, CmdRec
  <2>3. QED BY <2>2, SaveRests
<1>7. ASSUME NEW p \in Paths, NEW q \in Paths, StartCat(p) \/ StartCpr(p, q) \/ StartMv(p, q)
      PROVE  SaveInv'
  <2>1. CASE StartCat(p)
    BY <1>1, <1>2, <1>4, <2>1 DEF StartCat
  <2>2. CASE StartCpr(p, q)
    BY <1>1, <1>4, <2>2 DEF StartCpr
  <2>3. CASE StartMv(p, q)
    BY <1>1, <1>3, <1>4, <2>3 DEF StartMv
  <2>4. QED BY <1>7, <2>1, <2>2, <2>3
<1>8. QED BY <1>3, <1>5, <1>6, <1>7 DEF Prompt, Direct

(* The steps no save takes, and the one that ends it. *)
LEMMA SaveOther ==
  ASSUME ShInv, OpenSrc \/ ReadSrc \/ CloseSrc \/ CloseDst \/ RemoveOld
  PROVE  SaveInv'
<1>1. cmd \in CmdRec /\ ShapeOK
  BY DEF ShInv, CallInv, CmdSound
<1>2. CASE OpenSrc
  <2>1. cmd.name \in {"cat", "cpr", "mv"}
    BY <1>1, <1>2 DEF OpenSrc, ShapeOK, At
  <2>2. Returns.name # "save" /\ Returns \in CmdRec
    BY <1>1, <2>1, ReturnsFacts DEF Fresh
  <2>3. cmd'.name # "save"
    <3>1. PICK r \in Results :
             cmd' = IF r = -1 THEN Returns
                    ELSE [GoTo(IF cmd.name = "cat" THEN "read" ELSE "create") EXCEPT !.src = r]
      BY <1>2 DEF OpenSrc
    <3>2. PICK w : w = GoTo(IF cmd.name = "cat" THEN "read" ELSE "create")
      OBVIOUS
    <3>3. w \in CmdRec /\ w.name = cmd.name
      BY <1>1, <3>2, GoToFacts, PlaceFacts
    <3>4. cmd' = Returns \/ cmd' = [w EXCEPT !.src = r]
      BY <3>1, <3>2
    <3>5. cmd' = [w EXCEPT !.src = r] => cmd'.name = w.name
      BY <3>3 DEF CmdRec
    <3>6. QED BY <2>1, <2>2, <3>3, <3>4, <3>5
  <2>4. QED BY <2>3, SaveRests
<1>3. CASE ReadSrc
  <2>1. cmd.name \in {"cat", "cpr", "mv"}
    BY <1>1, <1>3 DEF ReadSrc, ShapeOK, At
  <2>2. cmd'.name = cmd.name
    <3>1. PICK r \in 0 .. Buffer : cmd' = AfterRead(r)
      BY <1>3 DEF ReadSrc
    <3>2. PICK w, v : w = GoTo("write") /\ v = GoTo("closesrc")
      OBVIOUS
    <3>3. w \in CmdRec /\ w.name = cmd.name /\ v.name = cmd.name
      BY <1>1, <3>2, GoToFacts, PlaceFacts
    <3>4. cmd' = v \/ cmd' = cmd \/ cmd' = [w EXCEPT !.got = r]
      BY <3>1, <3>2 DEF AfterRead
    <3>5. cmd' = [w EXCEPT !.got = r] => cmd'.name = w.name
      BY <3>3 DEF CmdRec
    <3>6. QED BY <3>3, <3>4, <3>5
  <2>3. QED BY <2>1, <2>2, SaveRests
<1>4. CASE CloseSrc
  <2>1. cmd.name \in {"cat", "cpr", "mv"}
    BY <1>1, <1>4 DEF CloseSrc, ShapeOK, At
  <2>2. Returns.name # "save" /\ Returns \in CmdRec
    BY <1>1, <2>1, ReturnsFacts DEF Fresh
  <2>3. cmd'.name # "save"
    BY <1>1, <1>4, <2>1, <2>2, GoToFacts, PlaceFacts DEF CloseSrc, CmdRec
  <2>4. QED BY <2>3, SaveRests
<1>5. CASE CloseDst
  <2>1. cmd.name \in {"cpr", "mv", "save", "notes"}
    BY <1>1, <1>5 DEF CloseDst, ShapeOK, At
  <2>2. Returns.name # "save" /\ Returns \in CmdRec
    BY <1>1, <2>1, ReturnsFacts DEF Fresh
  <2>3. cmd' = [Returns EXCEPT !.dst = NoHandle]
    BY <1>5 DEF CloseDst
  <2>4. cmd'.name # "save"
    BY <2>2, <2>3 DEF CmdRec
  <2>5. QED BY <2>4, SaveRests
<1>6. CASE RemoveOld
  BY <1>6, NoCmdFresh, SaveRests DEF RemoveOld, Fresh
<1>7. QED BY <1>2, <1>3, <1>4, <1>5, <1>6

LEMMA SaveUnlinkOld ==
  ASSUME ShInv, ShInv', UsedReadable, AllBacked, SaveInv, UnlinkOld
  PROVE  SaveInv'
<1>1. /\ cmd \in CmdRec /\ cmd.at = "unlink" /\ cmd.name = "save" /\ cmd.q \in Paths
      /\ cmd.left = cmd.text /\ TypesOK /\ TypesOK' /\ Orderly /\ ChainsOK /\ EntriesOK
  BY DEF ShInv, VolInv, Apart, CallInv, CmdSound, ShapeOK, SaveInv, UnlinkOld, At
<1>2. PICK q \in Paths : q = cmd.q
  BY <1>1
<1>3. PICK n : n = IF IsFile(q) THEN LeafEntry(q).size ELSE 0
  OBVIOUS
<1>4. PICK r \in Results : Unlink(q, r)
  BY <1>2 DEF UnlinkOld
<1>5. /\ cmd'.at = "create" /\ cmd'.name = "save" /\ cmd'.q = q
      /\ cmd'.left = cmd'.text /\ cmd'.old = n
  <2>1. PICK w : w = GoTo("create")
    OBVIOUS
  <2>2. /\ w \in CmdRec /\ w.at = "create" /\ w.name = "save" /\ w.q = q
        /\ w.left = w.text
    BY <1>1, <1>2, <2>1, GoToFacts, PlaceFacts
  <2>3. cmd' = [w EXCEPT !.old = n]
    BY <1>2, <1>3, <2>1 DEF UnlinkOld
  <2>4. QED BY <2>2, <2>3 DEF CmdRec
<1>6. ASSUME n > 0
      PROVE  CreateSlots(q)' # {} /\ Reserve(0)'
  <2>1. IsFile(q) /\ n = LeafEntry(q).size
    BY <1>3, <1>6
  <2>2. PICK d, s : d = Parent(q) /\ s = LeafSlot(q)
    OBVIOUS
  <2>3. /\ d \in DirIds /\ s \in Slots /\ Used(d, s) /\ LeafEntry(q) = table[d][s]
        /\ table[d][s].size \in Nat
    BY <1>1, <2>1, <2>2, LeafFoundFacts DEF IsFile
  <2>4. PICK c : c = table[d][s].head
    OBVIOUS
  <2>5. Backed(c, n) /\ n \in Nat
    BY <2>1, <2>3, <2>4 DEF AllBacked
  <2>6. c \in Data /\ c # 0
    <3>1. After(c, 0) = c
      BY AfterLinks
    <3>2. 0 \in 0 .. (n - 1) \div ClusterUnits
      <4>1. n - 1 \in Nat
        BY <1>6, <2>5
      <4>2. QED BY <4>1, Division
    <3>3. Readable(After(c, 0))
      BY <1>6, <2>5, <3>2 DEF Backed
    <3>4. QED BY <3>1, <3>3, ClusterFacts DEF Readable
  <2>7. IsHead(c)
    BY <1>1, <2>3, <2>4, <2>6 DEF EntriesOK
  <2>8. FreeChain(c) /\ MarkDeleted(Parent(q), LeafSlot(q)) /\ UNCHANGED <<up, cwd>>
    BY <1>4, <2>1, <2>3, <2>4, <2>6 DEF Unlink
  <2>9. Reserve(0)'
    BY <1>1, <1>5, <1>6, <2>5, <2>7, <2>8, ReserveMade
  <2>10. CreateSlots(q)' # {}
    BY <1>1, <2>1, <2>8, UnlinkReady
  <2>11. QED BY <2>9, <2>10
<1>7. n > 0 => EntryReady' /\ TextStored' /\ ClustersReady'
  <2>1. CASE n > 0
    <3>1. \A x \in Paths : x = cmd'.q => CreateSlots(x)' # {}
      BY <1>5, <1>6, <2>1
    <3>2. QED BY <1>5, <1>6, <2>1, <3>1 DEF EntryReady, TextStored, ClustersReady, At
  <2>2. QED BY <2>1
<1>8. QED BY <1>5, <1>7 DEF SaveInv, Saving, At

(* A save: what it holds, wherever it is. *)
LEMMA SavingFacts ==
  ASSUME ShInv, SaveInv, Saving
  PROVE  /\ cmd \in CmdRec /\ cmd.name = "save" /\ cmd.q \in Paths /\ cmd.src = NoHandle
         /\ cmd.text <= cmd.old /\ cmd.old > 0
         /\ cmd.text \in Nat /\ cmd.left \in Nat /\ cmd.old \in Nat /\ cmd.got \in Nat
         /\ cmd.left <= cmd.text
         /\ TypesOK /\ Apart /\ Orderly /\ ShapeOK /\ CmdSound /\ OnlyOpen /\ RoomOK
         /\ EntryReady /\ TextStored /\ ClustersReady
BY DEF ShInv, VolInv, CallInv, CmdSound, ShapeOK, RoomOK, SaveInv, Saving, CmdRec

(* A command that cannot go on and has nothing open. *)
LEMMA FailRests ==
  ASSUME cmd \in CmdRec, cmd.name = "save", cmd.src = NoHandle, cmd' = Fail
  PROVE  SaveInv'
<1>1. cmd' = Returns
  BY DEF Fail
<1>2. Returns.name # "save"
  BY ReturnsFacts DEF Fresh
<1>3. QED BY <1>1, <1>2, SaveRests

LEMMA FoundByName ==
  \A y \in DirIds, n \in Names, t \in Slots :
    (TypesOK /\ Orderly /\ Used(y, t) /\ table[y][t].name = n) => Found(y, n)
BY FoundIffUsed

LEMMA SaveCreateDst ==
  ASSUME ShInv, ShInv', SaveInv, CreateDst
  PROVE  SaveInv'
<1>1. cmd \in CmdRec /\ cmd.at = "create"
  BY DEF ShInv, CallInv, CmdSound, CreateDst, At
<1>2. PICK q : q = cmd.q
  OBVIOUS
<1>3. PICK r \in Results :
        /\ Create(q, r)
        /\ cmd' = IF r = -1 /\ cmd.name # "notes" THEN Fail ELSE GoTo("opendst")
  BY <1>2 DEF CreateDst
<1>4. cmd' = Fail \/ cmd' = GoTo("opendst")
  BY <1>3
<1>5. CASE cmd.name # "save"
  <2>1. Fail.name # "save"
    <3>1. cmd.name # "none"
      BY <1>1 DEF ShInv, CallInv, ShapeOK, At
    <3>2. QED BY <1>1, <1>5, <3>1, ReturnsFacts, GoToFacts, PlaceFacts DEF Fail, Fresh
  <2>2. cmd'.name # "save"
    BY <1>1, <1>4, <1>5, <2>1, GoToFacts, PlaceFacts
  <2>3. QED BY <2>2, SaveRests
<1>6. ASSUME cmd.name = "save", ~ Saving
      PROVE  SaveInv'
  <2>1. CASE cmd' = Fail
    <3>1. cmd.src = NoHandle
      BY <1>6 DEF ShInv, CallInv, ShapeOK
    <3>2. QED BY <1>1, <1>6, <2>1, <3>1, FailRests
  <2>2. CASE cmd' = GoTo("opendst")
    <3>1. /\ cmd'.at = "opendst" /\ cmd'.left = cmd.left /\ TextSame
      BY <1>1, <2>2, GoToFacts, GoToOld, PlaceFacts DEF TextSame
    <3>2. cmd.left = cmd.text
      BY <1>1, <1>6 DEF SaveInv
    <3>3. ~ Saving'
      BY <1>6, <3>1, SavingSame
    <3>4. QED BY <3>1, <3>2, <3>3 DEF SaveInv, TextSame, At
  <2>3. QED BY <1>4, <2>1, <2>2
<1>7. ASSUME Saving
      PROVE  SaveInv'
  <2>1. q \in Paths /\ cmd.name = "save" /\ cmd.left = cmd.text
    BY <1>1, <1>2, <1>7, SavingFacts DEF SaveInv
  <2>2. CreateSlots(q) # {} /\ Reserve(0)
    BY <1>1, <1>2, <1>7, <2>1, SavingFacts DEF EntryReady, ClustersReady, At
  <2>3. r = 0 /\ r # -1 /\ UNCHANGED fat
    <3>1. r = 0 /\ UNCHANGED <<fat, up, cwd, handles, call>>
      BY <1>3, <2>2, Zenon DEF Create
    <3>2. QED BY <3>1
  <2>4. cmd' = GoTo("opendst")
    BY <1>3, <2>3
  <2>5. cmd'.at = "opendst" /\ cmd'.left = cmd.left /\ TextSame
    BY <1>1, <2>4, GoToFacts, GoToOld, PlaceFacts DEF TextSame
  <2>6. VolInv' /\ TypesOK' /\ Orderly'
    BY DEF ShInv, VolInv
  <2>7. /\ Parent(q)' \in DirIds /\ LeafSlot(q)' \in Slots
        /\ LeafEntry(q)' = NewEntry(q.leaf, FALSE, 0)
    BY <1>3, <2>1, <2>3, <2>6, CreateEffect
  <2>8. q.leaf \in Names
    BY <2>2 DEF CreateSlots, CanCreate, IsName
  <2>9. LeafFound(q)'
    <3>1. PICK d, s : d = Parent(q)' /\ s = LeafSlot(q)'
      OBVIOUS
    <3>2. LeafEntry(q)' = table'[d][s]
      BY <3>1 DEF LeafEntry, EntryOf, LeafSlot
    <3>3. Used(d, s)' /\ table'[d][s].name = q.leaf
      BY <2>7, <3>2 DEF NewEntry, Used
    <3>4. Found(d, q.leaf)'
      <4>1. (\A y \in DirIds, n \in Names, t \in Slots :
               (TypesOK /\ Orderly /\ Used(y, t) /\ table[y][t].name = n) => Found(y, n))'
        BY FoundByName, PTL
      <4>2. QED BY <2>6, <2>7, <2>8, <3>1, <3>3, <4>1
    <3>5. Found(Parent(q), q.leaf)' <=> Found(d, q.leaf)'
      BY <3>1 DEF Found, Hits
    <3>6. IsName(q)' /\ Parent(q)' # NoDir
      BY <2>7, <2>8, ClusterFacts DEF IsName
    <3>7. QED BY <3>4, <3>5, <3>6 DEF LeafFound
  <2>10. IsFile(q)' /\ LeafEntry(q)'.size = 0 /\ LeafEntry(q)'.head = 0
    BY <2>7, <2>9 DEF IsFile, NewEntry
  <2>11. Reserve(0)'
    BY <2>2, <2>3, <2>5, ReserveKeeps DEF TextSame
  <2>12. EntryReady'
    <3>1. cmd'.q = q
      BY <1>2, <2>5 DEF TextSame
    <3>2. \A x \in Paths : x = cmd'.q => IsFile(x)' /\ LeafEntry(x)'.size = 0 /\ LeafEntry(x)'.head = 0
      BY <2>10, <3>1
    <3>3. QED BY <2>5, <3>2 DEF EntryReady, At
  <2>13. TextStored' /\ ClustersReady'
    BY <2>5, <2>11 DEF TextStored, ClustersReady, At
  <2>14. QED BY <2>1, <2>5, <2>12, <2>13 DEF SaveInv, TextSame, At
<1>8. QED BY <1>5, <1>6, <1>7

LEMMA SaveOpenDst ==
  ASSUME ShInv, SaveInv, OpenDst
  PROVE  SaveInv'
<1>1. cmd \in CmdRec /\ cmd.at = "opendst"
  BY DEF ShInv, CallInv, CmdSound, OpenDst, At
<1>2. PICK q : q = cmd.q
  OBVIOUS
<1>3. PICK r \in Results : Open(q, r) /\ cmd' = OpenedDst(r)
  BY <1>2 DEF OpenDst
<1>4. r = -1 => cmd' = Fail
  BY <1>3 DEF OpenedDst
<1>5. r # -1 => /\ cmd'.at # "opendst" /\ cmd'.at # "unlink" /\ cmd'.at # "create"
                /\ cmd.name = "save" => cmd'.at = "more"
                /\ cmd'.dst = r /\ cmd'.left = cmd.left /\ TextSame
  <2>1. ASSUME r # -1
        PROVE  \E place \in {"more", "write", "read"} :
                 /\ cmd' = [cmd EXCEPT !.dst = r, !.at = place]
                 /\ cmd.name = "save" => place = "more"
    <3>1. cmd' = [cmd EXCEPT !.dst = r, !.at = CASE cmd.name = "save"  -> "more"
                                                 [] cmd.name = "notes" -> "write"
                                                 [] OTHER              -> "read"]
      BY <1>3, <2>1 DEF OpenedDst
    <3>2. CASE cmd.name = "save"
      BY <3>1, <3>2
    <3>3. CASE cmd.name = "notes"
      BY <3>1, <3>3
    <3>4. CASE cmd.name # "save" /\ cmd.name # "notes"
      BY <3>1, <3>4
    <3>5. QED BY <3>2, <3>3, <3>4
  <2>2. ASSUME r # -1, NEW place \in {"more", "write", "read"},
               cmd' = [cmd EXCEPT !.dst = r, !.at = place]
        PROVE  cmd'.at = place /\ cmd'.dst = r /\ cmd'.left = cmd.left /\ TextSame
    BY <1>1, <2>2 DEF CmdRec, TextSame
  <2>3. QED BY <2>1, <2>2
<1>6. CASE cmd.name # "save"
  <2>1. Fail.name # "save"
    <3>1. cmd.name # "none"
      BY <1>1 DEF ShInv, CallInv, ShapeOK, At
    <3>2. QED BY <1>1, <1>6, <3>1, ReturnsFacts, GoToFacts, PlaceFacts DEF Fail, Fresh
  <2>2. cmd'.name # "save"
    BY <1>4, <1>5, <1>6, <2>1 DEF TextSame
  <2>3. QED BY <2>2, SaveRests
<1>7. ASSUME cmd.name = "save", ~ Saving
      PROVE  SaveInv'
  <2>1. CASE r = -1
    <3>1. cmd.src = NoHandle
      BY <1>7 DEF ShInv, CallInv, ShapeOK
    <3>2. QED BY <1>1, <1>4, <1>7, <2>1, <3>1, FailRests
  <2>2. CASE r # -1
    BY <1>5, <1>7, <2>2, SavingSame, SaveGoes
  <2>3. QED BY <2>1, <2>2
<1>8. ASSUME Saving
      PROVE  SaveInv'
  <2>1. q \in Paths /\ cmd.name = "save" /\ cmd.left = cmd.text /\ cmd.old > 0 /\ cmd.old \in Nat
        /\ cmd.text \in Nat
    BY <1>1, <1>2, <1>8, SavingFacts DEF SaveInv
  <2>2. IsFile(q) /\ LeafEntry(q).size = 0 /\ LeafEntry(q).head = 0 /\ Reserve(0)
    BY <1>1, <1>2, <1>8, <2>1, SavingFacts DEF EntryReady, ClustersReady, At
  <2>3. FreeHandles # {}
    <3>1. cmd.src = NoHandle /\ cmd.dst = NoHandle
      BY <1>1, <2>1 DEF ShInv, CallInv, ShapeOK, At
    <3>2. \A h \in Handle : ~ handles[h].open
      BY <3>1, NothingOpen DEF ShInv, CallInv, NoneOpen
    <3>3. 0 \in Handle /\ \A g \in Handle : ~ (g < 0)
      BY ConstAssumption DEF Handle
    <3>4. QED BY <3>2, <3>3 DEF FreeHandles
  <2>4. /\ r \in FreeHandles /\ handles' = [handles EXCEPT ![r] = NewHandle(q)]
        /\ UNCHANGED <<fat, call>>
    BY <1>3, <2>2, <2>3 DEF Open
  <2>5. r \in Handle /\ r # -1
    BY <2>4, ResultFacts DEF FreeHandles, NoHandle
  <2>6. cmd'.at = "more" /\ cmd'.dst = r /\ cmd'.left = cmd.left /\ TextSame
    BY <1>5, <2>1, <2>5
  <2>7. /\ handles'[r].head = 0 /\ handles'[r].size = 0 /\ handles'[r].pos = 0
    <3>1. handles'[r] = NewHandle(q)
      BY <2>4, <2>5 DEF ShInv, VolInv, TypesOK
    <3>2. QED BY <2>2, <3>1 DEF NewHandle
  <2>8. TextStored'
    BY <2>1, <2>6, <2>7 DEF TextStored, TextSame, At
  <2>9. Chained'
    <3>1. Last' = Last /\ Last \in Nat
      BY <2>1, <2>6, LastNat DEF Last, TextSame
    <3>2. Reserve(0)'
      BY <2>2, <2>4, <2>6, ReserveKeeps DEF TextSame
    <3>3. PICK f : f = [i \in 0 .. 0 - 1 |-> 2]
      OBVIOUS
    <3>4. Stored(f, 0)'
      <4>1. 0 .. 0 - 1 = {}
        OBVIOUS
      <4>2. f \in [0 .. 0 - 1 -> Data]
        BY <3>3, <4>1
      <4>3. QED BY <2>6, <2>7, <4>1, <4>2 DEF Stored, At
    <3>5. 0 \in 0 .. Last' + 1
      BY <3>1
    <3>6. QED BY <3>2, <3>4, <3>5 DEF Chained
  <2>10. QED BY <2>6, <2>8, <2>9, SaveGoes
<1>9. QED BY <1>6, <1>7, <1>8

LEMMA SaveNextLine ==
  ASSUME ShInv, SaveInv, NextLine
  PROVE  SaveInv'
<1>1. cmd \in CmdRec /\ cmd.at = "more" /\ UNCHANGED <<fat, handles, call>>
  BY DEF ShInv, CallInv, CmdSound, NextLine, At, vars
<1>2. PICK v, w : v = GoTo("closedst") /\ w = GoTo("write")
  OBVIOUS
<1>3. /\ v \in CmdRec /\ v.at = "closedst" /\ v.name = cmd.name /\ v.dst = cmd.dst
      /\ v.text = cmd.text /\ v.q = cmd.q /\ v.old = cmd.old /\ v.left = cmd.left
      /\ w \in CmdRec /\ w.at = "write" /\ w.name = cmd.name /\ w.dst = cmd.dst
      /\ w.text = cmd.text /\ w.q = cmd.q /\ w.old = cmd.old /\ w.left = cmd.left
  BY <1>1, <1>2, GoToFacts, GoToOld, PlaceFacts
<1>4. ASSUME cmd.left = 0, cmd' = v
      PROVE  SaveInv'
  <2>1. cmd'.at = "closedst" /\ cmd'.dst = cmd.dst /\ TextSame
    BY <1>3, <1>4 DEF TextSame
  <2>2. ASSUME Saving
        PROVE  TextStored'
    <3>1. handles[cmd.dst].size = cmd.text
      BY <1>1, <1>4, <2>2, SavingFacts DEF TextStored, At
    <3>2. QED BY <1>1, <2>1, <3>1 DEF TextStored, TextSame, At
  <2>3. QED BY <2>1, <2>2, SavingSame, SaveGoes
<1>5. ASSUME NEW n \in 1 .. MaxUnits, n <= cmd.left, cmd' = [w EXCEPT !.got = n, !.left = @ - n]
      PROVE  SaveInv'
  <2>1. /\ cmd'.at = "write" /\ cmd'.dst = cmd.dst /\ TextSame
        /\ cmd'.got = n /\ cmd'.left = cmd.left - n
    BY <1>3, <1>5 DEF TextSame, CmdRec
  <2>2. ASSUME Saving
        PROVE  TextStored' /\ Chained'
    <3>1. /\ handles[cmd.dst].pos = cmd.text - cmd.left
          /\ handles[cmd.dst].size = handles[cmd.dst].pos
          /\ cmd.text \in Nat /\ cmd.left \in Nat /\ n \in Nat
      BY <1>1, <2>2, SavingFacts, ConstAssumption DEF TextStored, At
    <3>2. handles[cmd.dst].pos + n = cmd.text - (cmd.left - n)
      BY <3>1
    <3>3. TextStored'
      BY <1>1, <2>1, <3>1, <3>2 DEF TextStored, TextSame, At
    <3>4. Chained
      BY <1>1, <2>2, SavingFacts DEF ClustersReady
    <3>5. PICK k \in 0 .. Last + 1 : Reserve(k) /\ \E f : Stored(f, k)
      BY <3>4 DEF Chained
    <3>6. PICK f : Stored(f, k)
      BY <3>5
    <3>7. Reserve(k)' /\ Last' = Last
      BY <1>1, <2>1, <3>5, ReserveKeeps DEF TextSame, Last
    <3>8. Stored(f, k)'
      BY <1>1, <2>1, <3>6 DEF Stored, At
    <3>9. QED BY <3>3, <3>5, <3>7, <3>8 DEF Chained
  <2>3. QED BY <2>1, <2>2, SavingSame, SaveGoes
<1>6. QED BY <1>2, <1>4, <1>5 DEF NextLine

LEMMA ChainedStays ==
  ASSUME NEW k \in 0 .. Last + 1, NEW f, Reserve(k)', Stored(f, k)', TextSame
  PROVE  Chained'
BY DEF Chained, TextSame, Last

LEMMA SaveEnterWrite ==
  ASSUME ShInv, SaveInv, EnterWrite
  PROVE  SaveInv'
<1>1. /\ cmd.at = "write" /\ cmd \in CmdRec /\ TypesOK
      /\ handles \in [Handle -> HandleRec] /\ cmd.dst \in Handle
  BY WritingFacts DEF EnterWrite, At
<1>2. PICK r \in Results :
        /\ WriteEnter(cmd.dst, cmd.got, r)
        /\ cmd' = IF r = -1 THEN AfterWrite(r) ELSE GoTo("writing")
  BY DEF EnterWrite
<1>3. r # -1 => /\ cmd'.at = "writing" /\ cmd'.dst = cmd.dst /\ cmd'.left = cmd.left
                /\ cmd'.got = cmd.got /\ TextSame
  <2>1. r # -1 => cmd' = GoTo("writing")
    BY <1>2
  <2>2. QED BY <1>1, <2>1, GoToFacts, GoToOld, PlaceFacts DEF TextSame
<1>4. CASE cmd.name # "save"
  <2>1. cmd'.name = cmd.name
    BY <1>1, <1>2, AfterWriteFacts, GoToFacts, PlaceFacts
  <2>2. QED BY <1>4, <2>1, SaveRests
<1>5. ASSUME cmd.name = "save", ~ Saving
      PROVE  SaveInv'
  <2>1. CASE r # -1
    BY <1>3, <1>5, <2>1, SavingSame, SaveGoes
  <2>2. CASE r = -1
    <3>1. cmd' = GoTo("more")
      BY <1>2, <1>5, <2>2 DEF AfterWrite
    <3>2. cmd'.at = "more" /\ TextSame
      BY <1>1, <3>1, GoToFacts, GoToOld, PlaceFacts DEF TextSame
    <3>3. QED BY <1>5, <3>2, SavingSame, SaveGoes
  <2>3. QED BY <2>1, <2>2
<1>6. ASSUME Saving
      PROVE  SaveInv'
  <2>1. /\ cmd.text \in Nat /\ cmd.left \in Nat /\ cmd.old \in Nat /\ cmd.old > 0
        /\ cmd.got \in Nat /\ ClustersReady /\ TextStored
    BY <1>6, SavingFacts
  <2>2. Last \in Nat
    BY <2>1, LastNat
  <2>3. PICK k \in 0 .. Last + 1 : Reserve(k) /\ \E f : Stored(f, k)
    BY <1>1, <2>1 DEF ClustersReady, Chained
  <2>4. PICK f : Stored(f, k)
    BY <2>3
  <2>5. /\ f \in [0 .. k - 1 -> Data] /\ handles[cmd.dst].head = IF k = 0 THEN 0 ELSE f[0]
        /\ \A i \in 0 .. k - 1 : fat[f[i]] = IF i = k - 1 THEN Eof ELSE f[i + 1]
    BY <2>4 DEF Stored
  <2>6. handles[cmd.dst].head = 0 <=> k = 0
    <3>1. CASE k = 0
      BY <2>5, <3>1
    <3>2. CASE k # 0
      <4>1. 0 \in 0 .. k - 1
        BY <2>2, <3>2
      <4>2. QED BY <2>5, <3>2, <4>1, ClusterFacts
    <3>3. QED BY <3>1, <3>2
  <2>7. /\ handles[cmd.dst].pos + cmd.got = cmd.text - cmd.left
        /\ handles[cmd.dst].size = handles[cmd.dst].pos
        /\ handles[cmd.dst].pos \in Nat
    BY <1>1, <2>1 DEF TextStored, At, HandleRec
  <2>8. k = 0 => AllocChoice # {} /\ AllocChoice \subseteq Data
    BY <2>2, <2>3, ReserveAlloc
  <2>9. r # -1
    BY <1>2, <2>6, <2>8 DEF WriteEnter
  <2>10. ASSUME StartWrite(cmd.dst, cmd.got, handles'[cmd.dst].head),
                handles'[cmd.dst].pos = handles[cmd.dst].pos,
                handles'[cmd.dst].size = handles[cmd.dst].size
         PROVE  TextStored'
    <3>1. call'.left = cmd.got /\ call'.pc = "loop"
      BY <2>10 DEF StartWrite
    <3>2. QED BY <1>3, <2>7, <2>9, <2>10, <3>1 DEF TextStored, TextSame, At
  <2>11. ASSUME UNCHANGED <<fat, handles>>, handles[cmd.dst].head # 0,
                StartWrite(cmd.dst, cmd.got, handles[cmd.dst].head)
         PROVE  SaveInv'
    <3>1. k # 0 /\ 0 \in 0 .. k - 1
      BY <2>2, <2>6, <2>11
    <3>2. call'.hop = 0 /\ call'.at = handles[cmd.dst].head
      BY <2>11 DEF StartWrite
    <3>3. Reserve(k)'
      BY <1>3, <2>3, <2>9, <2>11, ReserveKeeps DEF TextSame
    <3>4. Stored(f, k)'
      BY <1>3, <2>5, <2>9, <2>11, <3>1, <3>2 DEF Stored
    <3>5. Chained'
      BY <1>3, <2>9, <3>3, <3>4, ChainedStays
    <3>6. TextStored'
      BY <2>10, <2>11
    <3>7. QED BY <1>3, <2>9, <3>5, <3>6, SaveGoes
  <2>12. ASSUME NEW c \in AllocChoice, handles[cmd.dst].head = 0, fat' = [fat EXCEPT ![c] = Eof],
                handles' = [handles EXCEPT ![cmd.dst].head = c], StartWrite(cmd.dst, cmd.got, c)
         PROVE  SaveInv'
    <3>1. k = 0 /\ c \in Data /\ c \in Cluster
      BY <2>6, <2>8, <2>12, ClusterFacts
    <3>2. /\ handles'[cmd.dst].head = c /\ handles'[cmd.dst].pos = handles[cmd.dst].pos
          /\ handles'[cmd.dst].size = handles[cmd.dst].size
      BY <1>1, <2>12 DEF HandleRec
    <3>3. \A x \in Cluster : fat'[x] = IF x = c THEN Eof ELSE fat[x]
      BY <1>1, <2>12 DEF TypesOK
    <3>4. Reserve(0 + 1)'
      <4>1. 0 \in 0 .. Last /\ Reserve(0)
        BY <2>2, <2>3, <3>1
      <4>2. \A x \in Data : fat[x] = FreeCl /\ x # c => fat'[x] = FreeCl
        BY <3>3, ClusterFacts
      <4>3. QED BY <1>3, <2>2, <2>9, <3>1, <4>1, <4>2, ReserveTakes DEF TextSame
    <3>5. call'.hop = 0 /\ call'.at = c
      BY <2>12 DEF StartWrite
    <3>6. PICK g : g = [i \in 0 .. 0 |-> c]
      OBVIOUS
    <3>7. Stored(g, 1)'
      <4>1. g \in [0 .. 1 - 1 -> Data] /\ \A i \in 0 .. 1 - 1 : i = 0 /\ g[i] = c
        BY <3>1, <3>6
      <4>2. \A i \in 0 .. 1 - 1 : fat'[g[i]] = IF i = 1 - 1 THEN Eof ELSE g[i + 1]
        BY <3>1, <3>3, <4>1
      <4>3. handles'[cmd'.dst].head = g[0] /\ call'.hop \in 0 .. 1 - 1 /\ call'.at = g[call'.hop]
        BY <1>3, <2>9, <3>2, <3>5, <3>6
      <4>4. QED BY <4>1, <4>2, <4>3 DEF Stored
    <3>8. Chained'
      <4>1. 1 \in 0 .. Last + 1 /\ Reserve(1)'
        BY <2>2, <3>4
      <4>2. QED BY <1>3, <2>9, <3>7, <4>1, ChainedStays
    <3>9. TextStored'
      BY <2>10, <2>12, <3>2
    <3>10. QED BY <1>3, <2>9, <3>8, <3>9, SaveGoes
  <2>13. QED BY <1>2, <2>9, <2>11, <2>12 DEF WriteEnter
<1>7. QED BY <1>4, <1>5, <1>6

(* The fs_write of a save: where it stands. *)
LEMMA SaveWriteFacts ==
  ASSUME ShInv, SaveInv, Saving, cmd.at = "writing"
  PROVE  /\ cmd \in CmdRec /\ cmd.name = "save" /\ cmd.dst \in Handle /\ TypesOK
         /\ handles \in [Handle -> HandleRec] /\ handles[cmd.dst] \in HandleRec
         /\ handles[cmd.dst].pos \in Nat /\ handles[cmd.dst].size \in Nat
         /\ call \in CallRec /\ call.h = cmd.dst /\ call.left \in Nat /\ call.hop \in Nat
         /\ call.pc = "loop"
         /\ handles[cmd.dst].pos + call.left = cmd.text - cmd.left
         /\ handles[cmd.dst].size <= handles[cmd.dst].pos
         /\ cmd.text \in Nat /\ cmd.left \in Nat /\ Last \in Nat
         /\ call.left > 0 => ClusterIdx \in 0 .. Last
         /\ Chained
<1>1. /\ cmd \in CmdRec /\ cmd.name = "save" /\ TypesOK /\ CmdSound
      /\ cmd.text <= cmd.old /\ cmd.old > 0 /\ cmd.old \in Nat
      /\ cmd.text \in Nat /\ cmd.left \in Nat /\ TextStored /\ ClustersReady
  BY SavingFacts
<1>2. /\ handles \in [Handle -> HandleRec] /\ cmd.dst \in Handle
      /\ handles[cmd.dst] \in HandleRec
      /\ handles[cmd.dst].pos \in Nat /\ handles[cmd.dst].size \in Nat
  BY WritingFacts DEF HandleRec
<1>3. call \in CallRec /\ call.h = cmd.dst /\ call.left \in Nat /\ call.hop \in Nat
  BY <1>1 DEF TypesOK, CmdSound, At, CallRec
<1>4. /\ call.pc = "loop" /\ handles[cmd.dst].pos + call.left = cmd.text - cmd.left
      /\ handles[cmd.dst].size <= handles[cmd.dst].pos
  BY <1>1 DEF TextStored, At
<1>5. Last \in Nat
  BY <1>1, LastNat
<1>6. call.left > 0 => ClusterIdx \in 0 .. Last
  <2>1. call.left > 0 => handles[cmd.dst].pos < cmd.old
    BY <1>1, <1>2, <1>3, <1>4
  <2>2. QED BY <1>1, <1>2, <1>3, <2>1, LastNat DEF ClusterIdx
<1>7. Chained
  BY <1>1 DEF ClustersReady
<1>8. QED BY <1>1, <1>2, <1>3, <1>4, <1>5, <1>6, <1>7

(* The chain is followed to its end and no further than the text goes; a   *)
(* cluster that is appended is one of those the old file had.              *)
LEMMA SaveHop ==
  ASSUME ShInv, SaveInv, Saving, cmd.at = "writing", UNCHANGED cmd, WriteHop
  PROVE  SaveInv'
<1>1. /\ cmd \in CmdRec /\ cmd.dst \in Handle /\ call \in CallRec /\ TypesOK
      /\ call.left > 0 /\ call.hop < ClusterIdx /\ ClusterIdx \in 0 .. Last /\ Last \in Nat
      /\ handles[cmd.dst].pos + call.left = cmd.text - cmd.left
      /\ handles[cmd.dst].size <= handles[cmd.dst].pos /\ call.pc = "loop"
      /\ UNCHANGED handles /\ Chained
  BY SaveWriteFacts DEF WriteHop
<1>2. PICK k \in 0 .. Last + 1 : Reserve(k) /\ \E f : Stored(f, k)
  BY <1>1 DEF Chained
<1>3. PICK f : Stored(f, k)
  BY <1>2
<1>4. /\ f \in [0 .. k - 1 -> Data] /\ handles[cmd.dst].head = IF k = 0 THEN 0 ELSE f[0]
      /\ \A i \in 0 .. k - 1 : fat[f[i]] = IF i = k - 1 THEN Eof ELSE f[i + 1]
      /\ call.hop \in 0 .. k - 1 /\ call.at = f[call.hop]
  BY <1>3 DEF Stored, At
<1>5. PICK h : h = call.hop
  OBVIOUS
<1>6. TextSame /\ cmd'.at = "writing" /\ cmd'.dst = cmd.dst
  BY DEF TextSame
<1>7. ASSUME call'.left = call.left, call'.pc = call.pc
      PROVE  TextStored'
  BY <1>1, <1>6, <1>7 DEF TextStored, TextSame, At
<1>8. h # k - 1 => h + 1 \in 0 .. k - 1 /\ fat[call.at] = f[h + 1] /\ fat[call.at] # Eof
  <2>1. ASSUME h # k - 1
        PROVE  h + 1 \in 0 .. k - 1 /\ fat[call.at] = f[h + 1]
    BY <1>2, <1>4, <1>5, <2>1
  <2>2. \A i \in 0 .. k - 1 : f[i] # Eof
    BY <1>4, ClusterFacts
  <2>3. QED BY <2>1, <2>2
<1>9. h = k - 1 => fat[call.at] = Eof
  BY <1>4, <1>5
<1>10. CASE fat[call.at] # Eof
  <2>1. /\ call' = [call EXCEPT !.at = fat[call.at], !.hop = @ + 1] /\ UNCHANGED fat
    BY <1>10 DEF WriteHop, FollowLink
  <2>2. h + 1 \in 0 .. k - 1 /\ fat[call.at] = f[h + 1]
    BY <1>8, <1>9, <1>10
  <2>3. /\ call'.at = f[h + 1] /\ call'.hop = h + 1
        /\ call'.left = call.left /\ call'.pc = call.pc
    BY <1>1, <1>5, <2>1, <2>2 DEF CallRec
  <2>4. Reserve(k)'
    BY <1>2, <1>6, <2>1, ReserveKeeps DEF TextSame
  <2>5. Stored(f, k)'
    BY <1>1, <1>4, <1>6, <2>1, <2>2, <2>3 DEF Stored
  <2>6. Chained'
    BY <1>6, <2>4, <2>5, ChainedStays
  <2>7. QED BY <1>6, <1>7, <2>3, <2>6, SaveGoes
<1>11. CASE fat[call.at] = Eof
  <2>1. h = k - 1 /\ k \in 1 .. Last /\ k - 1 \in 0 .. k - 1
    <3>1. h = k - 1
      BY <1>8, <1>11
    <3>2. QED BY <1>1, <1>2, <1>4, <1>5, <3>1
  <2>2. AllocChoice # {} /\ AllocChoice \subseteq Data
    BY <1>1, <1>2, <2>1, ReserveAlloc
  <2>3. PICK c \in AllocChoice : /\ fat' = [fat EXCEPT ![call.at] = c, ![c] = Eof]
                                 /\ call' = [call EXCEPT !.at = c, !.hop = @ + 1]
    BY <1>11, <2>2 DEF WriteHop
  <2>4. /\ call'.at = c /\ call'.hop = k /\ call'.left = call.left /\ call'.pc = call.pc
    <3>1. /\ call'.at = c /\ call'.hop = call.hop + 1
          /\ call'.left = call.left /\ call'.pc = call.pc
      BY <1>1, <2>3 DEF CallRec
    <3>2. call.hop + 1 = k
      BY <1>5, <2>1
    <3>3. QED BY <3>1, <3>2
  <2>5. c \in Data /\ c \in Cluster /\ fat[c] = FreeCl /\ call.at \in Cluster /\ call.at # c
    BY <1>4, <1>11, <2>2, <2>3, ClusterFacts DEF AllocChoice
  <2>6. \A x \in Cluster : fat'[x] = IF x = c THEN Eof ELSE IF x = call.at THEN c ELSE fat[x]
    BY <1>1, <2>3, <2>5 DEF TypesOK
  <2>7. Reserve(k + 1)'
    <3>1. \A x \in Data : fat[x] = FreeCl /\ x # c => fat'[x] = FreeCl
      BY <1>11, <2>6, ClusterFacts
    <3>2. k \in 0 .. Last
      BY <2>1
    <3>3. QED BY <1>1, <1>2, <2>5, <3>1, <3>2, ReserveTakes
  <2>8. PICK g : g = [i \in 0 .. k |-> IF i = k THEN c ELSE f[i]]
    OBVIOUS
  <2>9. /\ g[k] = c /\ \A i \in 0 .. k - 1 : g[i] = f[i] /\ i \in 0 .. k /\ i # k
        /\ g \in [0 .. (k + 1) - 1 -> Data]
    <3>1. k \in 0 .. k /\ (k + 1) - 1 = k /\ \A i \in 0 .. k : i # k => i \in 0 .. k - 1
      BY <2>1
    <3>2. \A i \in 0 .. k - 1 : g[i] = f[i] /\ i \in 0 .. k /\ i # k
      BY <2>1, <2>8
    <3>3. \A i \in 0 .. k : g[i] \in Data
      BY <1>4, <2>5, <2>8, <3>1
    <3>4. g \in [0 .. k -> Data]
      BY <2>8, <3>3
    <3>5. QED BY <2>8, <3>1, <3>2, <3>4
  <2>10. \A i \in 0 .. k - 1 : f[i] \in Cluster /\ f[i] # c
    <3>1. \A i \in 0 .. k - 1 : f[i] \in Cluster /\ fat[f[i]] # FreeCl
      <4> TAKE i \in 0 .. k - 1
      <4>1. CASE i = k - 1
        BY <1>4, <4>1, ClusterFacts
      <4>2. CASE i # k - 1
        <5>1. i + 1 \in 0 .. k - 1 /\ fat[f[i]] = f[i + 1]
          BY <1>4, <2>1, <4>2
        <5>2. QED BY <1>4, <5>1, ClusterFacts
      <4>3. QED BY <4>1, <4>2
    <3>2. QED BY <2>5, <3>1
  <2>11. \A i \in 0 .. (k + 1) - 1 : fat'[g[i]] = IF i = (k + 1) - 1 THEN Eof ELSE g[i + 1]
    <3> SUFFICES ASSUME NEW i \in 0 .. k
                 PROVE  fat'[g[i]] = IF i = k THEN Eof ELSE g[i + 1]
      BY <2>1
    <3>1. CASE i = k
      BY <2>5, <2>6, <2>9, <3>1
    <3>2. CASE i = k - 1
      <4>1. g[i] = call.at /\ g[i + 1] = c /\ i # k
        BY <1>4, <1>5, <2>1, <2>9, <3>2
      <4>2. QED BY <2>5, <2>6, <4>1
    <3>3. CASE i # k /\ i # k - 1
      <4>1. i \in 0 .. k - 1 /\ i + 1 \in 0 .. k - 1
        BY <2>1, <3>3
      <4>2. fat[f[i]] = f[i + 1] /\ f[i] \in Cluster /\ f[i] # c /\ f[i + 1] \in Cluster
        BY <1>4, <2>10, <3>3, <4>1
      <4>3. f[i] # call.at
        BY <1>11, <4>2, ClusterFacts
      <4>4. g[i] = f[i] /\ g[i + 1] = f[i + 1]
        BY <2>9, <4>1
      <4>5. QED BY <2>6, <3>3, <4>2, <4>3, <4>4
    <3>4. QED BY <3>1, <3>2, <3>3
  <2>12. Stored(g, k + 1)'
    <3>1. handles'[cmd'.dst].head = g[0] /\ k + 1 # 0
      <4>1. handles[cmd.dst].head = f[0] /\ 0 \in 0 .. k - 1
        BY <1>4, <2>1
      <4>2. QED BY <1>1, <1>6, <2>1, <2>9, <4>1
    <3>2. call'.hop \in 0 .. (k + 1) - 1 /\ call'.at = g[call'.hop]
      BY <2>1, <2>4, <2>9
    <3>3. QED BY <2>9, <2>11, <3>1, <3>2 DEF Stored
  <2>13. Chained'
    <3>1. k + 1 \in 0 .. Last + 1
      BY <1>1, <2>1
    <3>2. QED BY <1>6, <2>7, <2>12, <3>1, ChainedStays
  <2>14. QED BY <1>6, <1>7, <2>4, <2>13, SaveGoes
<1>12. QED BY <1>10, <1>11

LEMMA SaveChunk ==
  ASSUME ShInv, SaveInv, Saving, cmd.at = "writing", UNCHANGED cmd, WriteChunk
  PROVE  SaveInv'
<1>1. /\ cmd.dst \in Handle /\ handles \in [Handle -> HandleRec]
      /\ handles[cmd.dst] \in HandleRec
      /\ handles[cmd.dst].pos \in Nat /\ handles[cmd.dst].size \in Nat
      /\ call \in CallRec /\ call.h = cmd.dst /\ call.left \in Nat
      /\ handles[cmd.dst].pos + call.left = cmd.text - cmd.left
      /\ handles[cmd.dst].size <= handles[cmd.dst].pos /\ call.pc = "loop" /\ Chained
      /\ cmd.text \in Nat /\ cmd.left \in Nat /\ Last \in Nat
  BY SaveWriteFacts
<1>2. PICK k \in 0 .. Last + 1 : Reserve(k) /\ \E f : Stored(f, k)
  BY <1>1 DEF Chained
<1>3. PICK f : Stored(f, k)
  BY <1>2
<1>4. /\ f \in [0 .. k - 1 -> Data] /\ handles[cmd.dst].head = IF k = 0 THEN 0 ELSE f[0]
      /\ \A i \in 0 .. k - 1 : fat[f[i]] = IF i = k - 1 THEN Eof ELSE f[i + 1]
      /\ call.hop \in 0 .. k - 1 /\ call.at = f[call.hop]
  BY <1>3 DEF Stored, At
<1>5. Transfer(call.at)
  BY <1>4 DEF Transfer, Readable
<1> DEFINE room  == ClusterUnits - InCluster
           chunk == IF room > call.left THEN call.left ELSE room
<1>6. /\ handles' = [handles EXCEPT ![call.h].pos = @ + chunk]
      /\ call' = [call EXCEPT !.left = @ - chunk, !.total = @ + chunk,
                              !.at = handles[call.h].head, !.hop = 0]
      /\ UNCHANGED fat
  BY <1>5 DEF WriteChunk
<1>7. chunk \in Nat
  <2>1. InCluster \in 0 .. ClusterUnits - 1
    BY <1>1, ConstAssumption DEF InCluster
  <2>2. QED BY <1>1, <2>1, ConstAssumption
<1> HIDE DEF chunk
<1>8. /\ call'.left = call.left - chunk /\ call'.at = handles[cmd.dst].head
      /\ call'.pc = call.pc /\ call'.hop = 0
  BY <1>1, <1>6 DEF CallRec
<1>9. /\ handles'[cmd.dst].pos = handles[cmd.dst].pos + chunk
      /\ handles'[cmd.dst].size = handles[cmd.dst].size
      /\ handles'[cmd.dst].head = handles[cmd.dst].head
  BY <1>1, <1>6 DEF HandleRec
<1>10. TextSame /\ cmd'.at = "writing" /\ cmd'.dst = cmd.dst
  BY DEF TextSame
<1>11. handles'[cmd.dst].pos + call'.left = cmd.text - cmd.left
       /\ handles'[cmd.dst].size <= handles'[cmd.dst].pos
  BY <1>1, <1>7, <1>8, <1>9
<1>12. TextStored'
  BY <1>1, <1>8, <1>10, <1>11 DEF TextStored, TextSame, At
<1>13. Reserve(k)'
  BY <1>2, <1>6, ReserveKeeps
<1>14. Stored(f, k)'
  <2>1. k # 0 /\ 0 \in 0 .. k - 1
    BY <1>1, <1>2, <1>4
  <2>2. QED BY <1>4, <1>6, <1>8, <1>9, <1>10, <2>1 DEF Stored
<1>15. Chained'
  BY <1>10, <1>13, <1>14, ChainedStays
<1>16. QED BY <1>10, <1>12, <1>15, SaveGoes

LEMMA SaveLeave ==
  ASSUME ShInv, SaveInv, Saving, cmd.at = "writing",
         NEW r, WriteLeave(r), cmd' = AfterWrite(r)
  PROVE  SaveInv'
<1>1. /\ cmd \in CmdRec /\ cmd.name = "save"
      /\ cmd.dst \in Handle /\ handles \in [Handle -> HandleRec]
      /\ handles[cmd.dst] \in HandleRec
      /\ handles[cmd.dst].pos \in Nat /\ handles[cmd.dst].size \in Nat
      /\ call.h = cmd.dst /\ call.left \in Nat
      /\ handles[cmd.dst].pos + call.left = cmd.text - cmd.left
      /\ handles[cmd.dst].size <= handles[cmd.dst].pos /\ call.pc = "loop" /\ Chained
      /\ Last \in Nat
  BY SaveWriteFacts
<1>2. PICK k \in 0 .. Last + 1 : Reserve(k) /\ \E f : Stored(f, k)
  BY <1>1 DEF Chained
<1>3. PICK f : Stored(f, k)
  BY <1>2
<1>4. /\ call.left = 0 /\ UNCHANGED fat
      /\ handles' = [handles EXCEPT ![call.h].size = NewSize(handles[call.h])]
  BY <1>1 DEF WriteLeave
<1>5. NewSize(handles[cmd.dst]) = handles[cmd.dst].pos
  BY <1>1 DEF NewSize
<1>6. /\ handles'[cmd.dst].size = handles[cmd.dst].pos
      /\ handles'[cmd.dst].pos = handles[cmd.dst].pos
      /\ handles'[cmd.dst].head = handles[cmd.dst].head
  BY <1>1, <1>4, <1>5 DEF HandleRec
<1>7. cmd' = GoTo("more")
  BY <1>1 DEF AfterWrite
<1>8. cmd'.at = "more" /\ cmd'.dst = cmd.dst /\ cmd'.left = cmd.left /\ TextSame
  BY <1>1, <1>7, GoToFacts, GoToOld, PlaceFacts DEF TextSame
<1>9. handles'[cmd.dst].pos = cmd.text - cmd.left
  BY <1>1, <1>4, <1>6
<1>10. TextStored'
  BY <1>6, <1>8, <1>9 DEF TextStored, TextSame, At
<1>11. Reserve(k)'
  BY <1>2, <1>4, <1>8, ReserveKeeps DEF TextSame
<1>12. Stored(f, k)'
  BY <1>3, <1>4, <1>6, <1>8 DEF Stored, At
<1>13. Chained'
  BY <1>8, <1>11, <1>12, ChainedStays
<1>14. QED BY <1>8, <1>10, <1>13, SaveGoes

LEMMA SaveInWrite ==
  ASSUME ShInv, SaveInv, InWrite
  PROVE  SaveInv'
<1>1. cmd.at = "writing" /\ cmd \in CmdRec
  BY DEF InWrite, At, ShInv, CallInv, CmdSound
<1>2. CASE cmd.name # "save"
  <2>1. cmd'.name = cmd.name
    BY <1>1, AfterWriteFacts DEF InWrite
  <2>2. QED BY <1>2, <2>1, SaveRests
<1>3. ASSUME cmd.name = "save", ~ Saving
      PROVE  SaveInv'
  <2>1. cmd'.at \in {"more", "writing"} /\ TextSame
    <3>1. CASE UNCHANGED cmd
      BY <1>1, <3>1 DEF TextSame
    <3>2. CASE cmd' = GoTo("more")
      BY <1>1, <3>2, GoToFacts, GoToOld, PlaceFacts DEF TextSame
    <3>3. UNCHANGED cmd \/ cmd' = GoTo("more")
      BY <1>3 DEF InWrite, AfterWrite
    <3>4. QED BY <3>1, <3>2, <3>3
  <2>2. QED BY <1>3, <2>1, SavingSame, SaveGoes
<1>4. CASE Saving
  BY <1>1, <1>4, SaveHop, SaveChunk, SaveLeave DEF InWrite
<1>5. QED BY <1>2, <1>3, <1>4 DEF Saving

LEMMA SaveStutter ==
  ASSUME SaveInv, UNCHANGED shvars
  PROVE  SaveInv'
<1>1. UNCHANGED <<fat, table, up, cwd, handles, call, cmd>>
  BY DEF shvars
<1>2. TextSame
  BY <1>1 DEF TextSame
<1>3. Last' = Last
  BY <1>1 DEF Last
<1>4. \A n : Reserve(n) => Reserve(n)'
  BY <1>1, ReserveKeeps
<1>5. \A f, n : Stored(f, n) => Stored(f, n)'
  BY <1>1 DEF Stored, At
<1>6. Chained => Chained'
  BY <1>3, <1>4, <1>5 DEF Chained
<1>7. ClustersReady => ClustersReady'
  BY <1>1, <1>4, <1>6 DEF ClustersReady
<1>8. TextStored => TextStored'
  BY <1>1 DEF TextStored, At
<1>9. EntryReady => EntryReady'
  <2>1. \A q \in Paths : /\ LeafFound(q)' <=> LeafFound(q)
                        /\ Parent(q)' = Parent(q)
                        /\ LeafEntry(q)' = LeafEntry(q)
    <3> TAKE q \in Paths
    <3>1. /\ LeafFound(q)' <=> LeafFound(q)
          /\ Parent(q)' = Parent(q) /\ LeafSlot(q)' = LeafSlot(q)
      BY <1>1, LookupSame
    <3>2. /\ LeafEntry(q) = table[Parent(q)][LeafSlot(q)]
          /\ LeafEntry(q)' = table'[Parent(q)'][LeafSlot(q)']
      BY DEF LeafEntry, EntryOf, LeafSlot
    <3>3. QED BY <1>1, <3>1, <3>2
  <2>2. ASSUME NEW q \in Paths
        PROVE  (IsFile(q)' <=> IsFile(q)) /\ CreateSlots(q)' = CreateSlots(q)
    <3>1. /\ LeafFound(q)' <=> LeafFound(q)
          /\ Parent(q)' = Parent(q) /\ LeafEntry(q)' = LeafEntry(q)
      BY <2>1
    <3>2. CanCreate(q)' <=> CanCreate(q)
      BY <3>1 DEF CanCreate, IsName
    <3>3. AddSlots(Parent(q), table[Parent(q)])' = AddSlots(Parent(q), table[Parent(q)])
      BY <1>1, <3>1 DEF AddSlots, Readable
    <3>4. QED BY <3>1, <3>2, <3>3 DEF IsFile, CreateSlots
  <2>3. QED BY <1>1, <2>1, <2>2 DEF EntryReady, At
<1>10. QED BY <1>1, <1>2, <1>7, <1>8, <1>9, SavingSame DEF SaveInv, At

LEMMA SaveNext ==
  ShInv /\ ShInv' /\ UsedReadable /\ AllBacked /\ SaveInv /\ [ShCalls]_shvars => SaveInv'
BY SavePrompt, SaveOther, SaveUnlinkOld, SaveCreateDst, SaveOpenDst, SaveNextLine,
   SaveEnterWrite, SaveInWrite, SaveStutter DEF ShCalls, Run

(* save_file removes the old file with fs_unlink, creates it anew and      *)
(* writes the text with fs_write, whose results it does not look at.  A    *)
(* text no longer than the old file is saved whole all the same, however   *)
(* full the volume is: the entry and the clusters the removal gave back    *)
(* are there for it until the handle is closed.                            *)
THEOREM SavesFit == ShSpec => []SaveFits
<1>1. ShInit => SaveInv /\ UsedReadable
  BY NoCmdFresh DEF ShInit, Init, Fresh, SaveInv, UsedReadable, Used, EmptyTable, EndEntry
<1>2. ShInv /\ UsedReadable /\ [ShCalls]_shvars => UsedReadable'
  <2>1. ShInv /\ [ShCalls]_shvars => TypesOK /\ [Calls]_vars
    BY SimStep DEF ShInv, VolInv
  <2>2. QED BY <2>1, ReadableNext
<1>3. ShInv /\ SaveInv => SavedWhole
  <2> SUFFICES ASSUME ShInv, SaveInv, Saving
               PROVE  /\ cmd.at \in {"create", "opendst", "more", "write", "writing", "closedst"}
                      /\ At("closedst") => handles[cmd.dst].size = cmd.text
    BY DEF SavedWhole, Saving
  <2>1. cmd \in CmdRec /\ cmd.name = "save" /\ ShapeOK /\ TextStored /\ cmd.old > 0
    BY SavingFacts
  <2>2. cmd.at \notin {"prompt", "unlink", "open", "read", "closesrc", "remove"}
    <3>1. cmd.at # "unlink"
      BY <2>1 DEF SaveInv, At
    <3>2. QED BY <2>1, <3>1 DEF ShapeOK, At
  <2>3. QED BY <2>1, <2>2 DEF CmdRec, Places, TextStored
<1>4. ShSpec => [](~ astray => AllBacked)
  BY CommandsImplementVolume, SizesBacked, PTL DEF SizeBacked
<1>5. ShSpec => [](~ astray => SavedWhole)
  BY ShInitInv, ShNextInv, SaveNext, OnlyShCalls, <1>1, <1>2, <1>3, <1>4, PTL DEF ShSpec
<1>6. QED BY <1>5, PTL DEF SaveFits

=============================================================================
