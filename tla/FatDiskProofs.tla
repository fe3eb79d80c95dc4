---------------------------- MODULE FatDiskProofs ----------------------------
(***************************************************************************)
(* The order in which fat.c writes the FATs and the directory, for every   *)
(* set of files, size of the FAT and number of entries in a sector, and    *)
(* whatever the bounds on calls and failures: DiskKeeps holds.             *)
(*                                                                         *)
(* All is said of Fat, the FAT as fat_get shows it, which a flush and a    *)
(* load leave as it is.  Basic holds with failing transfers too: a cluster *)
(* that is linked to is in use, from one place only.  Kept holds as long   *)
(* as none fails: each file has a path, in Fat and on the disk.            *)
(***************************************************************************)
EXTENDS FatDisk, FiniteSetTheorems, WellFoundedInduction, TLAPS

(* A FAT volume has a cluster to offer, and a FAT sector holds entries.    *)
Sizes == /\ LastCluster \in Nat /\ LastCluster >= 2
         /\ PerSector \in Nat \ {0}
         /\ MaxLen \in Nat

-----------------------------------------------------------------------------
(* Induction over the numbers, from least elements. *)

LEMMA LeastElement ==
  ASSUME NEW S \in SUBSET Nat, S # {}
  PROVE  \E n \in S : \A m \in S : n <= m
<1> DEFINE R == OpToRel(<, Nat)
<1>1. IsWellFoundedOn(R, Nat)
  BY NatLessThanWellFounded
<1>2. \A a, b \in Nat : a < b => <<a, b>> \in R
  BY Zenon DEF OpToRel
<1> HIDE DEF R
<1>3. PICK n \in S : \A m \in S : <<m, n>> \notin R
  BY <1>1, WFMin
<1>4. \A m \in S : ~ (m < n)
  BY <1>2, <1>3
<1>5. QED BY <1>4, SMT

LEMMA Induction ==
  ASSUME NEW S \in SUBSET Nat, 0 \in S, \A n \in S : n + 1 \in S
  PROVE  \A n \in Nat : n \in S
<1> SUFFICES ASSUME Nat \ S # {} PROVE FALSE
  OBVIOUS
<1>1. PICK n \in Nat \ S : \A m \in Nat \ S : n <= m
  <2>1. Nat \ S \in SUBSET Nat
    OBVIOUS
  <2> QED BY <2>1, LeastElement
<1>2. n # 0 /\ n - 1 \in Nat
  OBVIOUS
<1>3. n - 1 \in S
  BY <1>1, <1>2
<1>4. (n - 1) + 1 = n
  OBVIOUS
<1>5. QED BY <1>1, <1>3, <1>4

-----------------------------------------------------------------------------
(* Sectors and clusters. *)

LEMMA ClusterFacts ==
  ASSUME Sizes
  PROVE  /\ \A c \in Clusters : /\ c \in Nat /\ c # 0 /\ c # Eof /\ c <= LastCluster
                                /\ Sector(c) \in Nat /\ Sector(c) # NoSector
         /\ Eof \in Nat /\ Eof # 0 /\ 0 \notin Clusters /\ Eof \notin Clusters
         /\ 2 \in Clusters /\ LastCluster \in Clusters
         /\ \A c \in Clusters : c # LastCluster => c + 1 \in Clusters
<1>1. ASSUME NEW c \in Clusters
      PROVE  Sector(c) \in Nat /\ Sector(c) # NoSector
  <2>1. /\ PerSector \in Nat /\ PerSector > 0 /\ LastCluster \in Nat /\ c \in Nat
        /\ c <= LastCluster
    BY DEF Sizes, Clusters
  <2>2. \A m \in Nat : /\ m \div PerSector \in Nat
                       /\ PerSector * (m \div PerSector) <= m
                       /\ m < PerSector * (m \div PerSector + 1)
    BY <2>1, SMT
  <2>3. c \div PerSector <= LastCluster \div PerSector
    <3> DEFINE a == c \div PerSector
               b == LastCluster \div PerSector
    <3>1. a \in Nat /\ b \in Nat /\ PerSector * a < PerSector * (b + 1)
      BY <2>1, <2>2
    <3> HIDE DEF a, b
    <3>2. a <= b
      <4>1. a < b + 1
        BY <2>1, <3>1, SMT
      <4> QED BY <3>1, <4>1
    <3> QED BY <3>2 DEF a, b
  <2> QED BY <2>1, <2>2, <2>3 DEF Sector, NoSector
<1>2. QED BY <1>1 DEF Clusters, Eof, Sizes

-----------------------------------------------------------------------------
(* The clusters of a chain. *)

Entries == [Clusters -> Clusters \cup {0, Eof}]

Walks(at, fat, c, N) ==
  /\ at[0] = c
  /\ \A n \in 1 .. N : at[n] = IF at[n - 1] \in Clusters THEN fat[at[n - 1]] ELSE at[n - 1]

LEMMA WalkExists ==
  ASSUME NEW fat, NEW c, NEW N \in Nat
  PROVE  \E at : /\ at = [n \in 0 .. N |-> at[n]]
                 /\ Walks(at, fat, c, N)
<1> DEFINE Upto(n) == \E at : /\ at = [k \in 0 .. n |-> at[k]]
                             /\ Walks(at, fat, c, n)
           S == {n \in Nat : Upto(n)}
<1>1. 0 \in S
  <2> DEFINE g == [k \in 0 .. 0 |-> c]
  <2>1. g = [k \in 0 .. 0 |-> g[k]] /\ Walks(g, fat, c, 0)
    BY DEF Walks
  <2> HIDE DEF g
  <2>2. Upto(0)
    BY <2>1, Zenon
  <2> QED BY <2>2
<1>2. ASSUME NEW n \in S
      PROVE  n + 1 \in S
  <2>1. n \in Nat
    OBVIOUS
  <2>2. PICK at : at = [k \in 0 .. n |-> at[k]] /\ Walks(at, fat, c, n)
    OBVIOUS
  <2> DEFINE next == IF at[n] \in Clusters THEN fat[at[n]] ELSE at[n]
             g == [k \in 0 .. n + 1 |-> IF k = n + 1 THEN next ELSE at[k]]
  <2>3. g = [k \in 0 .. n + 1 |-> g[k]]
    OBVIOUS
  <2>4. Walks(g, fat, c, n + 1)
    <3>1. g[n + 1] = next /\ \A k \in 0 .. n : g[k] = at[k]
      BY <2>1
    <3>2. ASSUME NEW k \in 1 .. n + 1
          PROVE  g[k] = IF g[k - 1] \in Clusters THEN fat[g[k - 1]] ELSE g[k - 1]
      <4>1. k - 1 \in 0 .. n /\ g[k - 1] = at[k - 1]
        BY <2>1, <3>1
      <4>2. CASE k = n + 1
        BY <2>1, <3>1, <4>1, <4>2
      <4>3. CASE k \in 1 .. n
        <5>1. at[k] = IF at[k - 1] \in Clusters THEN fat[at[k - 1]] ELSE at[k - 1]
          BY <2>2, <4>3 DEF Walks
        <5>2. g[k] = at[k]
          BY <2>1, <3>1, <4>3
        <5> HIDE DEF g
        <5> QED BY <4>1, <5>1, <5>2
      <4> QED BY <2>1, <4>2, <4>3
    <3>3. g[0] = c
      BY <2>1, <2>2, <3>1 DEF Walks
    <3> HIDE DEF g
    <3> QED BY <3>2, <3>3 DEF Walks
  <2> HIDE DEF g
  <2>5. Upto(n + 1)
    BY <2>3, <2>4, Zenon
  <2> QED BY <2>1, <2>5
<1> HIDE DEF Upto
<1>3. N \in S
  <2>1. S \in SUBSET Nat
    OBVIOUS
  <2> HIDE DEF S
  <2> QED BY <1>1, <1>2, <2>1, Induction
<1>4. Upto(N)
  BY <1>3
<1>5. QED BY <1>4 DEF Upto

LEMMA StepsFacts ==
  ASSUME Sizes, NEW fat, NEW c
  PROVE  Walks(Steps(fat, c), fat, c, LastCluster)
<1> DEFINE Is(at) == at = [n \in 0 .. LastCluster |->
              IF n = 0 THEN c ELSE IF at[n - 1] \in Clusters THEN fat[at[n - 1]] ELSE at[n - 1]]
<1>1. Steps(fat, c) = CHOOSE at : Is(at)
  BY DEF Steps
<1>2. \E at : Is(at)
  <2>1. PICK at : at = [n \in 0 .. LastCluster |-> at[n]] /\ Walks(at, fat, c, LastCluster)
    BY WalkExists DEF Sizes
  <2> DEFINE g == [n \in 0 .. LastCluster |->
              IF n = 0 THEN c ELSE IF at[n - 1] \in Clusters THEN fat[at[n - 1]] ELSE at[n - 1]]
  <2>2. ASSUME NEW n \in 0 .. LastCluster
        PROVE  at[n] = g[n]
    <3>1. CASE n = 0
      BY <2>1, <3>1 DEF Walks, Sizes
    <3>2. CASE n \in 1 .. LastCluster
      <4>1. at[n] = IF at[n - 1] \in Clusters THEN fat[at[n - 1]] ELSE at[n - 1]
        BY <2>1, <3>2 DEF Walks
      <4> QED BY <3>2, <4>1 DEF Sizes
    <3> QED BY <3>1, <3>2 DEF Sizes
  <2>3. at = g
    <3> HIDE DEF g
    <3>1. g = [n \in 0 .. LastCluster |-> g[n]]
      BY DEF g
    <3>2. [n \in 0 .. LastCluster |-> at[n]] = [n \in 0 .. LastCluster |-> g[n]]
      BY <2>2
    <3> QED BY <2>1, <3>1, <3>2, Zenon
  <2> QED BY <2>3, Zenon
<1>3. Is(Steps(fat, c))
  <2> HIDE DEF Is
  <2> QED BY <1>1, <1>2
<1>4. QED BY <1>3 DEF Walks, Sizes

(* A chain goes on with the next link only.                                *)
LEMMA ChainOn ==
  ASSUME Sizes, NEW fat, NEW c, NEW S,
         c \in Clusters => c \in S,
         \A a \in Clusters : a \in S /\ fat[a] \in Clusters => fat[a] \in S
  PROVE  Chain(fat, c) \subseteq S
<1> DEFINE at == Steps(fat, c)
           T == {n \in Nat : n <= LastCluster /\ at[n] \in Clusters => at[n] \in S}
<1>1. Walks(at, fat, c, LastCluster)
  BY StepsFacts
<1>2. Chain(fat, c) = {at[n] : n \in 0 .. LastCluster} \cap Clusters
  BY DEF Chain
<1> HIDE DEF at
<1>3. 0 \in T
  BY <1>1 DEF Walks
<1>4. ASSUME NEW n \in T
      PROVE  n + 1 \in T
  <2> SUFFICES ASSUME n + 1 <= LastCluster, at[n + 1] \in Clusters PROVE at[n + 1] \in S
    OBVIOUS
  <2>1. n \in Nat /\ n + 1 \in 1 .. LastCluster /\ (n + 1) - 1 = n /\ n <= LastCluster
    BY DEF Sizes
  <2>2. at[n + 1] = IF at[n] \in Clusters THEN fat[at[n]] ELSE at[n]
    BY <1>1, <2>1 DEF Walks
  <2>3. at[n] \in Clusters => at[n] \in S
    BY <2>1
  <2> QED BY <2>2, <2>3
<1>5. \A n \in Nat : n \in T
  <2>1. T \in SUBSET Nat
    OBVIOUS
  <2> HIDE DEF T
  <2> QED BY <1>3, <1>4, <2>1, Induction
<1>6. QED BY <1>2, <1>5 DEF Sizes

LEMMA ChainBack ==
  ASSUME Sizes, NEW fat, NEW c, NEW x \in Chain(fat, c)
  PROVE  x \in Clusters /\ (x = c \/ \E y \in Chain(fat, c) : fat[y] = x)
<1> DEFINE at == Steps(fat, c)
<1>1. Walks(at, fat, c, LastCluster)
  BY StepsFacts
<1>2. Chain(fat, c) = {at[n] : n \in 0 .. LastCluster} \cap Clusters
  BY DEF Chain
<1> HIDE DEF at
<1>3. PICK n \in 0 .. LastCluster : x = at[n]
  BY <1>2
<1>4. CASE n = 0
  BY <1>1, <1>2, <1>3, <1>4 DEF Walks
<1>5. CASE n \in 1 .. LastCluster
  <2>1. n - 1 \in 0 .. LastCluster
    BY <1>5 DEF Sizes
  <2>2. x = IF at[n - 1] \in Clusters THEN fat[at[n - 1]] ELSE at[n - 1]
    BY <1>1, <1>3, <1>5 DEF Walks
  <2>3. at[n - 1] \in Chain(fat, c) /\ fat[at[n - 1]] = x
    BY <1>2, <2>1, <2>2
  <2> QED BY <1>2, <2>3
<1>6. QED BY <1>3, <1>4, <1>5 DEF Sizes

(* Where no cluster is linked to from two places, chains that begin where  *)
(* none links to have nothing in common.                                   *)
LEMMA ChainsApart ==
  ASSUME Sizes, NEW fat, NEW a, NEW b,
         \A x, y \in Clusters : fat[x] \in Clusters /\ fat[x] = fat[y] => x = y,
         \A x \in Clusters : fat[x] \in Clusters => fat[x] # a /\ fat[x] # b,
         a = b => a \notin Clusters
  PROVE  Chain(fat, a) \cap Chain(fat, b) = {}
<1> DEFINE S == Clusters \ Chain(fat, b)
<1>1. a \in Clusters => a \in S
  <2> SUFFICES ASSUME a \in Clusters, a \in Chain(fat, b) PROVE FALSE
    OBVIOUS
  <2>1. PICK y \in Chain(fat, b) : fat[y] = a
    BY ChainBack
  <2>2. y \in Clusters
    BY ChainBack
  <2> QED BY <2>1, <2>2
<1>2. ASSUME NEW x \in Clusters, x \in S, fat[x] \in Clusters
      PROVE  fat[x] \in S
  <2> SUFFICES ASSUME fat[x] \in Chain(fat, b) PROVE FALSE
    BY <1>2
  <2>1. PICK y \in Chain(fat, b) : fat[y] = fat[x]
    BY <1>2, ChainBack
  <2>2. y \in Clusters
    BY ChainBack
  <2> QED BY <1>2, <2>1, <2>2
<1>3. Chain(fat, a) \subseteq S
  <2> HIDE DEF S
  <2> QED BY <1>1, <1>2, ChainOn
<1>4. QED BY <1>3

-----------------------------------------------------------------------------
(* The paths of the files. *)

(* p is the chain of c, cluster by cluster, and n its length.              *)
Path(fat, c, n, p) ==
  /\ p \in [0 .. n - 1 -> Clusters]
  /\ c = IF n = 0 THEN 0 ELSE p[0]
  /\ \A i \in 0 .. n - 1 : fat[p[i]] = IF i = n - 1 THEN Eof ELSE p[i + 1]
  /\ \A i, j \in 0 .. n - 1 : p[i] = p[j] => i = j

LEMMA PathKept ==
  ASSUME NEW fat, NEW new, NEW c, NEW n, NEW p, Path(fat, c, n, p),
         \A i \in 0 .. n - 1 : new[p[i]] = fat[p[i]]
  PROVE  Path(new, c, n, p)
BY DEF Path

-----------------------------------------------------------------------------
(* The invariant with failing transfers. *)

Places == {"off", "idle", "walk", "scan", "link", "mark", "data", "free", "clear", "dir",
           "flush", "done"}
Writing == do.pc \in {"walk", "scan", "link", "mark", "data"}
Freeing == do.pc \in {"free", "clear"}

Dirs == [Files -> [is : BOOLEAN, first : Clusters \cup {0}, size : 0 .. MaxLen]]

DoType ==
  /\ do \in [what : {"none", "create", "write", "unlink"}, f : Files \cup {NoCall.f},
             pc : Places, c : Clusters \cup {0}, before : Clusters \cup {0}, left : Int,
             grown : BOOLEAN]
  /\ do.pc \notin {"off", "idle"} => do.f \in Files
  /\ Writing => do.what = "write"
  /\ Freeing => do.what = "unlink"
  /\ do.pc \in {"dir", "flush"} => do.what # "none"

Types ==
  /\ fat1 \in Entries /\ fat2 \in Entries /\ cbuf \in Entries
  /\ disk \in Dirs /\ root \in Dirs
  /\ csec \in {Sector(c) : c \in Clusters} \cup {NoSector}
  /\ cdirty \in BOOLEAN /\ half \in BOOLEAN /\ inRoot \in BOOLEAN
  /\ cut \in BOOLEAN /\ orphan \in BOOLEAN /\ fails \in Nat
  /\ DoType

(* The cache is clean or dirty, and what a clean one holds is on the disk. *)
CacheOK ==
  /\ cdirty => csec # NoSector
  /\ half => cdirty
  /\ ~cdirty \/ half => \A c \in Clusters : Sector(c) = csec => cbuf[c] = fat1[c]

(* No cluster links to c, and no entry begins there.                       *)
NoPred(c) == \A a \in Clusters : Fat[a] # c
NoHead(c) == \A f \in Files : Dir[f].first # c
Used(c)   == c \in Clusters /\ Fat[c] # 0

Linked ==
  /\ \A a, b \in Clusters : Fat[a] \in Clusters /\ Fat[a] = Fat[b] => a = b
  /\ \A a \in Clusters : Fat[a] \in Clusters => Used(Fat[a])
  /\ \A f \in Files : Dir[f].first # 0 => NoPred(Dir[f].first)
  /\ \A f, g \in Files : Dir[f].first = Dir[g].first /\ Dir[f].first # 0 => f = g

(* Only a file that is being removed, or could not be, begins with a free  *)
(* cluster.                                                                *)
Removing(f) == do.f = f /\ do.what = "unlink" /\ do.pc \in {"free", "clear", "dir"}

HeadsUsed ==
  \A f \in Files : Dir[f].first = 0 \/ Used(Dir[f].first) \/ orphan \/ Removing(f)

Doing ==
  /\ do.pc = "off" => disk = root
  /\ do.what \in {"create", "write"} => ~orphan
  /\ Writing => Dir[do.f].size < MaxLen
  /\ do.pc = "dir" /\ do.what = "write" => Dir[do.f].size < MaxLen
  /\ do.pc \in {"walk", "mark"} => Used(do.c) /\ Dir[do.f].first # 0
  /\ do.pc = "scan" => do.c \in Clusters
  /\ do.pc \in {"scan", "link"} =>
       IF do.before = 0 THEN do.pc = "scan" /\ Dir[do.f].first = 0
       ELSE Used(do.before) /\ Dir[do.f].first # 0
  /\ do.pc = "link" => Used(do.c) /\ Fat[do.c] = Eof /\ NoPred(do.c) /\ NoHead(do.c)
                       /\ do.before # do.c
  /\ do.pc = "data" \/ (do.pc = "dir" /\ do.what = "write") =>
       /\ do.c \in Clusters
       /\ Dir[do.f].first = 0 => do.before = 0 /\ Used(do.c) /\ NoPred(do.c) /\ NoHead(do.c)
  /\ Freeing => /\ do.c \in Clusters /\ NoPred(do.c)
                /\ \A g \in Files : g # do.f => Dir[g].first # do.c

Basic == Types /\ CacheOK /\ Linked /\ HeadsUsed /\ Doing

-----------------------------------------------------------------------------
(* The invariant as long as no transfer fails. *)

(* The call has not touched a FAT sector.                                  *)
Untouched == do.pc \in {"off", "idle", "done"} \/ (do.pc = "scan" /\ do.before = 0)
             \/ (do.pc = "dir" /\ do.what = "create")

Synced ==
  /\ inRoot => disk = root
  /\ \A c \in Clusters : (half /\ Sector(c) = csec) \/ fat2[c] = fat1[c]
  /\ \A f \in Files : ~Dir[f].is => Dir[f].first = 0
  /\ do.grown => do.pc \in {"dir", "flush", "done"}
  /\ do.pc # "clear" /\ (do.pc = "free" => Dir[do.f].first # 0)
  /\ Untouched \/ (do.pc = "dir" /\ do.what = "unlink" /\ Dir[do.f].first = 0) => ~cdirty

Busy(f) == do.pc \notin {"off", "idle"} /\ f = do.f

(* Where the chain of a file begins, as far as the call has come.          *)
Begin(f) ==
  IF ~Busy(f) \/ do.pc \in {"flush", "done"} THEN Dir[f].first
  ELSE IF do.pc = "dir" THEN Entry.first
  ELSE IF do.pc = "free" \/ (do.pc = "data" /\ Dir[f].first = 0) THEN do.c
  ELSE Dir[f].first

(* The path of the file the call is about.                                 *)
Course(n, p) ==
  LET size == Dir[do.f].size IN
  /\ do.pc \in {"flush", "done"} => n = size
  /\ do.pc = "dir" => n = Entry.size
  /\ do.pc = "walk" => n = size /\ do.left \in 1 .. size /\ do.c = p[size - do.left]
  /\ do.pc = "scan" => /\ n = size
                       /\ IF size = 0 THEN do.before = 0
                          ELSE do.before = p[size - 1] /\ do.left = 1
  /\ do.pc = "link" => n = size /\ size > 0 /\ do.before = p[size - 1] /\ do.left = 1
  /\ do.pc = "mark" => n = size + 1 /\ size > 0 /\ do.c = p[size] /\ do.left = 1
  /\ do.pc = "data" => n = size + 1
  /\ do.pc = "free" => n > 0

(* The path of any other: the first FAT has it too, and nothing leads into *)
(* it from outside.                                                        *)
Settled(f, n, p) ==
  /\ n = Dir[f].size
  /\ \A i \in 0 .. n - 1 : fat1[p[i]] = Fat[p[i]]
  /\ \A i \in 0 .. n - 1, a \in Clusters : fat1[a] = p[i] => \E j \in 0 .. n - 1 : a = p[j]
  /\ \A i \in 0 .. n - 1, g \in Files : Dir[g].first = p[i] => g = f

Laid(n, p) ==
  /\ n \in [Files -> Nat]
  /\ \A f \in Files : Path(Fat, Begin(f), n[f], p[f])
  /\ \A f, g \in Files : \A i \in 0 .. n[f] - 1, j \in 0 .. n[g] - 1 : p[f][i] = p[g][j] => f = g
  /\ \A c \in Clusters : Fat[c] # 0 =>
       \/ do.pc = "link" /\ c = do.c
       \/ \E f \in Files : \E i \in 0 .. n[f] - 1 : p[f][i] = c
  /\ \A f \in Files : ~Busy(f) => Settled(f, n[f], p[f])
  /\ do.pc \notin {"off", "idle"} => Course(n[do.f], p[do.f])

Kept == fails = 0 => Synced /\ \E n, p : Laid(n, p)

FdInv == Basic /\ Kept

-----------------------------------------------------------------------------
(* What the steps do to Fat. *)

LEMMA FatType ==
  ASSUME Types
  PROVE  Fat \in Entries /\ \A c \in Clusters : Fat[c] = IF Sector(c) = csec THEN cbuf[c] ELSE fat1[c]
BY DEF Types, Entries, Fat

LEMMA DirType ==
  ASSUME Types
  PROVE  /\ Dir \in Dirs
         /\ \A f \in Files : /\ Dir[f] \in [is : BOOLEAN, first : Clusters \cup {0}, size : 0 .. MaxLen]
                             /\ Dir[f].first \in Clusters \cup {0}
                             /\ Dir[f].size \in 0 .. MaxLen
BY DEF Types, Dirs, Dir

LEMMA CallTypes ==
  ASSUME Types
  PROVE  /\ do \in [what : {"none", "create", "write", "unlink"}, f : Files \cup {NoCall.f},
                    pc : Places, c : Clusters \cup {0}, before : Clusters \cup {0}, left : Int,
                    grown : BOOLEAN]
         /\ do.pc \notin {"off", "idle"} => do.f \in Files
         /\ do.c \in Clusters \cup {0} /\ do.before \in Clusters \cup {0} /\ do.left \in Int
         /\ do.pc \in Places /\ do.what \in {"none", "create", "write", "unlink"}
         /\ do.grown \in BOOLEAN
BY DEF Types, DoType

(* A flush and a load leave Fat as it is. *)
LEMMA FatKept ==
  ASSUME Sizes, Types, CacheOK,
         \/ Flush1 \/ Flush2 \/ Load
         \/ UNCHANGED cache /\ UNCHANGED fat1
         \/ /\ ~cdirty /\ csec' = NoSector /\ UNCHANGED <<cbuf, cdirty, half>> /\ UNCHANGED fat1
  PROVE  Fat' = Fat /\ CacheOK'
<1>1. \A c \in Clusters : Sector(c) # NoSector
  BY ClusterFacts
<1>2. CASE Flush1
  <2>1. ASSUME NEW c \in Clusters
        PROVE  /\ fat1'[c] = IF Sector(c) = csec THEN cbuf[c] ELSE fat1[c]
               /\ cbuf'[c] = cbuf[c]
    BY <1>2 DEF Flush1
  <2>2. csec' = csec /\ cdirty' = cdirty /\ cdirty /\ half'
    BY <1>2 DEF Flush1, Flushing
  <2>3. Fat' = Fat
    BY <2>1, <2>2 DEF Fat
  <2> QED BY <2>1, <2>2, <2>3 DEF CacheOK
<1>3. CASE Flush2
  <2>1. csec' = csec /\ cbuf' = cbuf /\ fat1' = fat1 /\ half /\ ~half' /\ ~cdirty'
    BY <1>3 DEF Flush2
  <2> QED BY <2>1 DEF Fat, CacheOK
<1>4. CASE Load
  <2>1. cbuf' = fat1 /\ fat1' = fat1 /\ cdirty' = cdirty /\ half' = half /\ ~cdirty
    BY <1>4 DEF Load, store
  <2> QED BY <2>1 DEF Fat, CacheOK
<1>5. CASE UNCHANGED cache /\ UNCHANGED fat1
  BY <1>5 DEF Fat, CacheOK, cache
<1>6. CASE /\ ~cdirty /\ csec' = NoSector /\ UNCHANGED <<cbuf, cdirty, half>> /\ UNCHANGED fat1
  BY <1>1, <1>6 DEF Fat, CacheOK
<1>7. QED BY <1>2, <1>3, <1>4, <1>5, <1>6

(* fat_set in the sector that is loaded. *)
LEMMA FatSet ==
  ASSUME Sizes, Types, CacheOK, NEW x \in Clusters, NEW v, NEW d, Sector(x) = csec, ~half, Set(x, v, d)
  PROVE  /\ Fat' = [Fat EXCEPT ![x] = v] /\ Fat[x] = cbuf[x] /\ CacheOK'
         /\ cdirty' /\ do' = d /\ UNCHANGED <<store, csec, half, fails, rest>>
<1>1. cbuf' = [cbuf EXCEPT ![x] = v] /\ csec' = csec /\ fat1' = fat1 /\ cdirty' /\ half' = half
  BY DEF Set, store
<1>2. \A c \in Clusters : cbuf'[c] = IF c = x THEN v ELSE cbuf[c]
  BY <1>1 DEF Types, Entries
<1>3. Fat' = [c \in Clusters |-> IF c = x THEN v ELSE Fat[c]]
  BY <1>1, <1>2 DEF Fat
<1>4. Fat' = [Fat EXCEPT ![x] = v]
  BY <1>3 DEF Fat
<1>5. csec # NoSector
  BY ClusterFacts
<1>6. QED BY <1>1, <1>4, <1>5 DEF Fat, CacheOK, Set

LEMMA LoadedFacts ==
  ASSUME Sizes, Loaded
  PROVE  /\ ~half /\ csec # NoSector
         /\ do.pc \in {"walk", "scan", "mark", "free", "clear"} => csec = Sector(do.c)
         /\ do.pc = "link" => csec = Sector(do.before)
BY DEF Loaded, Needs

-----------------------------------------------------------------------------
(* Basic, step by step. *)

LEMMA LinkedSet ==
  ASSUME Sizes, Types, Linked, NEW x \in Clusters, NEW v \in Clusters \cup {0, Eof},
         Fat' = [Fat EXCEPT ![x] = v], Dir' = Dir,
         v = 0 => NoPred(x),
         v \in Clusters => Used(v) /\ NoPred(v) /\ NoHead(v)
  PROVE  Linked'
<1>1. \A c \in Clusters : Fat'[c] = IF c = x THEN v ELSE Fat[c]
  BY FatType DEF Entries
<1>2. 0 \notin Clusters /\ Eof \notin Clusters
  BY ClusterFacts
<1>3. ASSUME NEW a \in Clusters, NEW b \in Clusters, Fat'[a] \in Clusters, Fat'[a] = Fat'[b]
      PROVE  a = b
  BY <1>1, <1>2, <1>3 DEF Linked, NoPred
<1>4. ASSUME NEW a \in Clusters, Fat'[a] \in Clusters
      PROVE  Fat'[Fat'[a]] # 0
  BY <1>1, <1>2, <1>4 DEF Linked, NoPred, Used
<1>5. ASSUME NEW f \in Files, Dir[f].first # 0, NEW a \in Clusters
      PROVE  Fat'[a] # Dir[f].first
  <2>1. Dir[f].first \in Clusters
    BY <1>5, DirType
  <2> QED BY <1>1, <1>2, <1>5, <2>1 DEF Linked, NoPred, NoHead
<1>6. QED BY <1>3, <1>4, <1>5 DEF Linked, NoPred, Used

LEMMA LinkedSame ==
  ASSUME Fat' = Fat, Dir' = Dir
  PROVE  /\ Linked => Linked'
         /\ \A c : /\ Used(c)' <=> Used(c)
                   /\ NoPred(c)' <=> NoPred(c)
                   /\ NoHead(c)' <=> NoHead(c)
BY DEF Linked, NoPred, NoHead, Used

(* The cache moves: the call stands where it stood. *)
LEMMA BasicCache ==
  ASSUME Sizes, Basic, Flush1 \/ Flush2 \/ Load
  PROVE  Basic'
<1>1. Fat' = Fat /\ CacheOK'
  BY FatKept DEF Basic
<1>2. UNCHANGED <<disk, root, do, inRoot, dcalls, cut, orphan>>
  BY DEF Flush1, Flush2, Load, store, rest
<1>3. Types'
  <2>1. Types
    BY DEF Basic
  <2>2. fat1' \in Entries /\ fat2' \in Entries /\ cbuf' \in Entries
    BY <2>1 DEF Flush1, Flush2, Load, Types, Entries, store
  <2>3. csec' \in {Sector(c) : c \in Clusters} \cup {NoSector}
    <3>1. CASE Load
      <4>1. do.c \in Clusters \/ do.pc \notin {"walk", "scan", "mark", "free", "clear"}
        BY DEF Basic, Doing, Used, Freeing
      <4>2. do.before \in Clusters \/ do.pc # "link"
        BY DEF Basic, Doing, Used
      <4> QED BY <3>1, <4>1, <4>2 DEF Load, Needs
    <3> QED BY <2>1, <3>1 DEF Flush1, Flush2, Types
  <2>4. fails' \in Nat
    BY <2>1 DEF Flush1, Flush2, Load, Types, MayFail
  <2>5. cdirty' \in BOOLEAN /\ half' \in BOOLEAN
    BY <2>1, Zenon DEF Flush1, Flush2, Load, Types
  <2> QED BY <1>2, <2>1, <2>2, <2>3, <2>4, <2>5 DEF Types, DoType, Writing, Freeing
<1>4. Dir' = Dir
  BY <1>2 DEF Dir
<1>5. Linked' /\ HeadsUsed' /\ Doing'
  BY <1>1, <1>2, <1>4, LinkedSame DEF Basic, HeadsUsed, Removing, Doing, Writing, Freeing
<1>6. QED BY <1>1, <1>3, <1>5 DEF Basic

(* The call goes on without a change of the FAT or the directory. *)
LEMMA BasicGo ==
  ASSUME Sizes, Basic, Fat' = Fat, CacheOK', UNCHANGED store,
         cbuf' = cbuf, cdirty' = cdirty, half' = half, csec' \in {csec, NoSector}, fails' \in Nat,
         UNCHANGED <<inRoot, orphan>>, cut' \in BOOLEAN,
         DoType', Doing',
         \A f \in Files : Removing(f) => Removing(f)'
  PROVE  Basic'
<1>1. Dir' = Dir
  BY DEF Dir, store
<1>2. Types'
  BY DEF Basic, Types, store
<1>3. Linked'
  BY <1>1, LinkedSame DEF Basic
<1>4. HeadsUsed'
  BY <1>1, LinkedSame DEF Basic, HeadsUsed
<1>5. QED BY <1>2, <1>3, <1>4 DEF Basic


LEMMA TypeStepped ==
  ASSUME Types, do.f \in Files, do.what = "write", do'.pc \in {"data", "walk"}, NEW c \in Clusters,
         do' = [do EXCEPT !.c = c, !.left = do.left - 1, !.pc = do'.pc]
  PROVE  DoType'
<1>1. PICK l \in Int : l = do.left - 1
  BY CallTypes
<1>2. PICK q \in Places : q = do'.pc
  BY DEF Places
<1>3. do' = [do EXCEPT !.c = c, !.left = l, !.pc = q]
  BY <1>1, <1>2
<1>4. do' \in [what : {"none", "create", "write", "unlink"}, f : Files \cup {NoCall.f},
               pc : Places, c : Clusters \cup {0}, before : Clusters \cup {0}, left : Int,
               grown : BOOLEAN]
  BY <1>3, CallTypes
<1>5. do'.f = do.f /\ do'.what = do.what
  BY <1>3, CallTypes
<1>6. QED BY <1>4, <1>5 DEF DoType, Writing, Freeing

LEMMA BasicWalk ==
  ASSUME Sizes, Basic, Walk
  PROVE  Basic'
<1>1. do.pc = "walk" /\ do' = WalkFrom(cbuf[do.c]) /\ UNCHANGED <<store, cache, fails, rest>>
  BY DEF Walk, Go
<1>2. Used(do.c) /\ Dir[do.f].first # 0 /\ cbuf[do.c] = Fat[do.c]
  BY <1>1, LoadedFacts, FatType DEF Basic, Doing, Walk, Used
<1>3. Fat' = Fat /\ CacheOK' /\ Dir' = Dir
  BY <1>1, FatKept DEF Basic, store, Dir, rest
<1>4. Fat[do.c] \in Clusters => Used(Fat[do.c])
  BY <1>2 DEF Basic, Linked, Used
<1>5. Fat[do.c] \in Clusters \/ Fat[do.c] = Eof
  BY <1>2, FatType DEF Basic, Used, Entries
<1>6. do.f \in Files /\ do.what = "write" /\ Dir[do.f].size < MaxLen /\ ~orphan /\ do.left \in Int
  BY <1>1 DEF Basic, Types, DoType, Doing, Writing
<1>7. CASE Fat[do.c] = Eof
  <2>1. do' = [do EXCEPT !.pc = "scan", !.c = 2, !.before = do.c]
    BY <1>1, <1>2, <1>7 DEF WalkFrom
  <2>2. do'.pc = "scan" /\ do'.c = 2 /\ do'.before = do.c /\ do'.f = do.f /\ do'.what = do.what
    BY <2>1, CallTypes DEF Basic
  <2>3. 2 \in Clusters /\ do.c # 0
    BY <1>2, ClusterFacts DEF Used
  <2>4. DoType'
    BY <1>2, <1>6, <2>1, <2>2, <2>3 DEF Basic, Types, DoType, Writing, Freeing, Places, Used
  <2>5. Doing'
    BY <1>2, <1>3, <1>6, <2>2, <2>3, LinkedSame, <1>1 DEF Doing, Writing, Freeing, rest
  <2>6. QED BY <1>1, <1>3, <2>4, <2>5, BasicGo DEF Basic, Types, store, cache, rest, Removing
<1>8. CASE Fat[do.c] # Eof
  <2>1. do' = Stepped(Fat[do.c])
    BY <1>1, <1>2, <1>8 DEF WalkFrom
  <2>2. Used(Fat[do.c])
    BY <1>4, <1>5, <1>8
  <2>3. /\ do'.pc \in {"data", "walk"} /\ do'.c = Fat[do.c] /\ do'.f = do.f /\ do'.what = do.what
        /\ do'.before = do.before
    BY <2>1, CallTypes DEF Basic, Stepped
  <2>4. DoType'
    <3>1. PICK c \in Clusters : c = Fat[do.c]
      BY <2>2 DEF Used
    <3>2. do' = [do EXCEPT !.c = c, !.left = do.left - 1, !.pc = do'.pc]
      BY <2>1, <2>3, <3>1, CallTypes DEF Basic, Stepped
    <3>3. do'.pc \in Places
      BY <2>3 DEF Places
    <3> QED BY <1>6, <2>3, <3>2, <3>3, TypeStepped DEF Basic
  <2>5. Doing'
    BY <1>2, <1>3, <1>6, <2>2, <2>3, LinkedSame, <1>1 DEF Doing, Writing, Freeing, rest, Used
  <2>6. QED BY <1>1, <1>3, <2>4, <2>5, BasicGo DEF Basic, Types, store, cache, rest, Removing
<1>9. QED BY <1>7, <1>8

LEMMA BasicData ==
  ASSUME Sizes, Basic, Data
  PROVE  Basic'
<1>1. do.pc = "data" /\ UNCHANGED <<store, cache, rest>> /\ fails' \in Nat
  BY DEF Data, Basic, Types, MayFail
<1>2. /\ do' = [do EXCEPT !.pc = "dir", !.grown = TRUE] \/ do' = [do EXCEPT !.pc = "dir"]
      /\ do'.pc = "dir" /\ do'.c = do.c /\ do'.f = do.f /\ do'.what = do.what
      /\ do'.before = do.before
  BY CallTypes DEF Data, Basic
<1>3. Fat' = Fat /\ CacheOK' /\ Dir' = Dir
  BY <1>1, FatKept DEF Basic, store, Dir, rest
<1>4. do.f \in Files /\ do.what = "write" /\ Dir[do.f].size < MaxLen /\ ~orphan
  BY <1>1 DEF Basic, Types, DoType, Doing, Writing
<1>5. DoType'
  BY <1>2, <1>4 DEF Basic, Types, DoType, Writing, Freeing, Places
<1>6. Doing'
  BY <1>1, <1>2, <1>3, <1>4, LinkedSame DEF Basic, Doing, Writing, Freeing, rest
<1>7. QED BY <1>1, <1>2, <1>3, <1>4, <1>5, <1>6, BasicGo DEF Basic, Types, store, cache, rest, Removing

LEMMA BasicReturn ==
  ASSUME Sizes, Basic, Return
  PROVE  Basic'
<1>1. do.pc \in {"done", "flush"} /\ do' = NoCall /\ UNCHANGED <<store, cache, fails, rest>>
  BY DEF Return
<1>2. Fat' = Fat /\ CacheOK' /\ Dir' = Dir
  BY <1>1, FatKept DEF Basic, store, Dir, rest
<1>3. DoType' /\ Doing'
  BY <1>1 DEF NoCall, DoType, Writing, Freeing, Places, Doing
<1>4. QED BY <1>1, <1>2, <1>3, BasicGo DEF Basic, Types, store, cache, rest, Removing

LEMMA BasicPowerCut ==
  ASSUME Sizes, Basic, PowerCut
  PROVE  Basic'
<1>1. cut' = TRUE /\ UNCHANGED <<store, cache, do, fails, inRoot, orphan>>
  BY DEF PowerCut
<1>2. Fat' = Fat /\ CacheOK' /\ Dir' = Dir
  BY <1>1, FatKept DEF Basic, store, Dir
<1>3. DoType' /\ Doing'
  BY <1>1, <1>2, LinkedSame DEF store, Basic, Types, DoType, Writing, Freeing, Doing
<1>4. QED BY <1>1, <1>2, <1>3, BasicGo DEF Basic, Types, store, cache, Removing


(* The steps of fs_write and fs_unlink that set an entry of the FAT.       *)
LEMMA BasicSet ==
  ASSUME Sizes, Basic, NEW x \in Clusters, NEW v \in Clusters \cup {0, Eof}, NEW d,
         Sector(x) = csec, ~half, Set(x, v, d),
         v = 0 => NoPred(x),
         v \in Clusters => Used(v) /\ NoPred(v) /\ NoHead(v),
         DoType', Doing',
         \A f \in Files : Removing(f) => Removing(f)',
         v = 0 => \A f \in Files : Dir[f].first = x => Removing(f)
  PROVE  Basic'
<1>1. /\ Fat' = [Fat EXCEPT ![x] = v] /\ CacheOK'
      /\ cdirty' /\ UNCHANGED <<store, csec, half, fails, rest>>
  BY FatSet DEF Basic
<1>2. Dir' = Dir
  BY <1>1 DEF Dir, store, rest
<1>3. Linked'
  BY <1>1, <1>2, LinkedSet DEF Basic
<1>4. HeadsUsed'
  <2>1. \A c \in Clusters : Fat'[c] = IF c = x THEN v ELSE Fat[c]
    BY <1>1, FatType DEF Basic, Entries
  <2>2. Eof # 0 /\ 0 \notin Clusters
    BY ClusterFacts
  <2>3. ASSUME NEW f \in Files
        PROVE  Dir[f].first = 0 \/ Used(Dir[f].first)' \/ orphan \/ Removing(f)'
    BY <1>2, <2>1, <2>2 DEF Basic, HeadsUsed, Used
  <2> QED BY <1>1, <1>2, <2>3 DEF HeadsUsed, rest
<1>5. cbuf' \in Entries
  BY DEF Set, Basic, Types, Entries
<1>6. Types'
  BY <1>1, <1>5 DEF Basic, Types, store, rest, Set
<1>7. QED BY <1>1, <1>3, <1>4, <1>6 DEF Basic

(* Where Set leaves the other clusters. *)
LEMMA SetEffect ==
  ASSUME Sizes, Basic, NEW x \in Clusters, NEW v \in Clusters \cup {0, Eof}, NEW d,
         Sector(x) = csec, ~half, Set(x, v, d)
  PROVE  /\ \A c \in Clusters : Fat'[c] = IF c = x THEN v ELSE Fat[c]
         /\ Dir' = Dir /\ do' = d /\ orphan' = orphan
         /\ \A c : NoHead(c)' <=> NoHead(c)
         /\ \A c : Used(c) /\ (c = x => v # 0) => Used(c)'
         /\ \A c : NoPred(c) /\ v # c => NoPred(c)'
<1>1. /\ Fat' = [Fat EXCEPT ![x] = v]
      /\ do' = d /\ UNCHANGED <<store, csec, half, fails, rest>>
  BY FatSet DEF Basic
<1>2. \A c \in Clusters : Fat'[c] = IF c = x THEN v ELSE Fat[c]
  BY <1>1, FatType DEF Basic, Entries
<1>3. Dir' = Dir
  BY <1>1 DEF Dir, store, rest
<1>4. QED BY <1>1, <1>2, <1>3 DEF NoHead, Used, NoPred, rest

LEMMA BasicScan ==
  ASSUME Sizes, Basic, Scan
  PROVE  Basic'
<1>1. /\ do.pc = "scan" /\ do.c \in Clusters /\ csec = Sector(do.c) /\ ~half
      /\ cbuf[do.c] = Fat[do.c]
  BY LoadedFacts, FatType DEF Basic, Doing, Scan
<1>2. /\ do.f \in Files /\ do.what = "write" /\ Dir[do.f].size < MaxLen /\ ~orphan
      /\ IF do.before = 0 THEN Dir[do.f].first = 0 ELSE Used(do.before) /\ Dir[do.f].first # 0
  BY <1>1 DEF Basic, Types, DoType, Doing, Writing
<1>3. CASE Fat[do.c] = 0
  <2>1. Set(do.c, Eof, [do EXCEPT !.pc = IF do.before = 0 THEN "data" ELSE "link"])
    BY <1>1, <1>3 DEF Scan
  <2>2. NoPred(do.c) /\ NoHead(do.c)
    <3>1. NoPred(do.c)
      BY <1>1, <1>3 DEF Basic, Linked, Used, NoPred
    <3>2. NoHead(do.c)
      BY <1>1, <1>2, <1>3, ClusterFacts DEF Basic, HeadsUsed, Used, NoHead, Removing
    <3> QED BY <3>1, <3>2
  <2>3. /\ \A c \in Clusters : Fat'[c] = IF c = do.c THEN Eof ELSE Fat[c]
        /\ Dir' = Dir /\ orphan' = orphan
        /\ do' = [do EXCEPT !.pc = IF do.before = 0 THEN "data" ELSE "link"]
        /\ \A c : NoHead(c)' <=> NoHead(c)
        /\ \A c : Used(c) /\ (c = do.c => Eof # 0) => Used(c)'
        /\ \A c : NoPred(c) /\ Eof # c => NoPred(c)'
    <3>1. PICK d : d = [do EXCEPT !.pc = IF do.before = 0 THEN "data" ELSE "link"]
      OBVIOUS
    <3>2. Set(do.c, Eof, d) /\ Eof \in Clusters \cup {0, Eof}
      BY <2>1, <3>1
    <3> QED BY <1>1, <3>1, <3>2, SetEffect
  <2>4. /\ do'.pc = IF do.before = 0 THEN "data" ELSE "link"
        /\ do'.c = do.c /\ do'.before = do.before /\ do'.f = do.f /\ do'.what = do.what
    BY <2>3, CallTypes DEF Basic
  <2>5. DoType'
    BY <1>2, <2>3, <2>4, CallTypes DEF Basic, DoType, Writing, Freeing, Places
  <2>6. Used(do.c)' /\ NoPred(do.c)' /\ NoHead(do.c)' /\ do.before # do.c
        /\ (do.before # 0 => Used(do.before)')
    BY <1>1, <1>2, <1>3, <2>2, <2>3, ClusterFacts DEF Used
  <2>7. Fat'[do.c] = Eof
    BY <1>1, <2>3
  <2>8. Doing'
    BY <1>1, <1>2, <2>3, <2>4, <2>6, <2>7 DEF Doing, Writing, Freeing, Used, NoPred, NoHead
  <2> QED BY <1>1, <1>2, <2>1, <2>5, <2>8, BasicSet, ClusterFacts DEF Removing
<1>4. CASE Fat[do.c] # 0
  <2>1. do' = ScanOn /\ UNCHANGED <<store, cache, fails, rest>>
    BY <1>1, <1>4 DEF Scan, Go
  <2>2. Fat' = Fat /\ CacheOK' /\ Dir' = Dir
    BY <2>1, FatKept DEF Basic, store, Dir, rest
  <2>3. /\ do'.f = do.f /\ do'.what = do.what /\ do'.before = do.before
        /\ \/ do'.pc = "scan" /\ do'.c = do.c + 1 /\ do.c # LastCluster
           \/ do'.c = do.c /\ do'.pc = IF do.before = 0 THEN "done" ELSE "dir"
    BY <1>1, <2>1, CallTypes DEF Basic, ScanOn
  <2>4. do'.c \in Clusters
    BY <1>1, <2>3, ClusterFacts
  <2>5. DoType'
    BY <1>2, <2>1, <2>3, <2>4, CallTypes DEF Basic, DoType, Writing, Freeing, Places, ScanOn
  <2>6. Doing'
    BY <1>1, <1>2, <2>1, <2>2, <2>3, <2>4, LinkedSame DEF Basic, Doing, Writing, Freeing, rest, Used
  <2> QED BY <1>1, <2>1, <2>2, <2>3, <2>5, <2>6, BasicGo DEF Basic, Types, store, cache, rest, Removing
<1>5. QED BY <1>3, <1>4

LEMMA BasicLink ==
  ASSUME Sizes, Basic, Link
  PROVE  Basic'
<1>1. do.pc = "link" /\ Loaded /\ Set(do.before, do.c, [do EXCEPT !.pc = "mark"])
  BY DEF Link
<1>2. /\ Used(do.before) /\ Dir[do.f].first # 0 /\ Used(do.c) /\ NoPred(do.c) /\ NoHead(do.c)
      /\ do.f \in Files /\ do.what = "write" /\ Dir[do.f].size < MaxLen /\ ~orphan
  BY <1>1 DEF Basic, Types, DoType, Doing, Writing
<1>3. do.before \in Clusters /\ do.c \in Clusters /\ csec = Sector(do.before) /\ ~half
  BY <1>1, <1>2, LoadedFacts DEF Used
<1>4. /\ Dir' = Dir /\ orphan' = orphan /\ do' = [do EXCEPT !.pc = "mark"]
      /\ \A c : Used(c) /\ (c = do.before => do.c # 0) => Used(c)'
  BY <1>1, <1>3, SetEffect
<1>5. /\ do'.pc = "mark" /\ do'.c = do.c /\ do'.before = do.before /\ do'.f = do.f
      /\ do'.what = do.what
  BY <1>4, CallTypes DEF Basic
<1>6. DoType'
  BY <1>2, <1>4, <1>5, CallTypes DEF Basic, DoType, Writing, Freeing, Places
<1>7. Used(do.c)'
  BY <1>2, <1>3, <1>4, ClusterFacts
<1>8. Doing'
  BY <1>2, <1>4, <1>5, <1>7 DEF Doing, Writing, Freeing, Used
<1>9. QED BY <1>1, <1>2, <1>3, <1>6, <1>8, BasicSet, ClusterFacts DEF Removing

LEMMA BasicMark ==
  ASSUME Sizes, Basic, Mark
  PROVE  Basic'
<1>1. do.pc = "mark" /\ Loaded /\ Set(do.c, Eof, Stepped(do.c))
  BY DEF Mark
<1>2. /\ Dir[do.f].first # 0 /\ Used(do.c)
      /\ do.f \in Files /\ do.what = "write" /\ Dir[do.f].size < MaxLen /\ ~orphan
  BY <1>1 DEF Basic, Types, DoType, Doing, Writing
<1>3. do.c \in Clusters /\ csec = Sector(do.c) /\ ~half
  BY <1>1, <1>2, LoadedFacts DEF Used
<1>4. /\ Dir' = Dir /\ orphan' = orphan /\ do' = Stepped(do.c)
      /\ \A c : Used(c) /\ (c = do.c => Eof # 0) => Used(c)'
  BY <1>1, <1>3, SetEffect
<1>5. /\ do'.pc \in {"data", "walk"} /\ do'.c = do.c /\ do'.f = do.f /\ do'.what = do.what
      /\ do'.before = do.before
  BY <1>4, CallTypes DEF Basic, Stepped
<1>6. DoType'
  <2>1. PICK c \in Clusters : c = do.c
    BY <1>3
  <2>2. do' = [do EXCEPT !.c = c, !.left = do.left - 1, !.pc = do'.pc]
    BY <1>4, <1>5, <2>1, CallTypes DEF Basic, Stepped
  <2> QED BY <1>2, <1>5, <2>2, TypeStepped DEF Basic
<1>7. Used(do.c)'
  BY <1>2, <1>3, <1>4, <1>5, ClusterFacts
<1>8. Doing'
  BY <1>2, <1>3, <1>4, <1>5, <1>7 DEF Doing, Writing, Freeing, Used
<1>9. QED BY <1>1, <1>2, <1>3, <1>6, <1>8, BasicSet, ClusterFacts DEF Removing


(* free_chain clears a cluster that nothing links to; the next one, if it  *)
(* knows it, was linked to from there alone.                               *)
LEMMA BasicFree ==
  ASSUME Sizes, Basic, Free \/ Clear
  PROVE  Basic'
<1>1. PICK next : /\ Set(do.c, 0, FreeOn(next)) /\ Loaded /\ Freeing
                  /\ next = Eof \/ next = cbuf[do.c]
  BY DEF Free, Clear, Freeing
<1>2. /\ do.c \in Clusters /\ NoPred(do.c) /\ \A g \in Files : g # do.f => Dir[g].first # do.c
      /\ do.f \in Files /\ do.what = "unlink"
  BY <1>1 DEF Basic, Types, DoType, Doing, Freeing
<1>3. csec = Sector(do.c) /\ ~half /\ cbuf[do.c] = Fat[do.c]
  BY <1>1, <1>2, LoadedFacts, FatType DEF Basic, Freeing
<1>4. /\ Dir' = Dir /\ orphan' = orphan /\ do' = FreeOn(next)
      /\ \A c \in Clusters : Fat'[c] = IF c = do.c THEN 0 ELSE Fat[c]
  <2>1. PICK d : d = FreeOn(next)
    OBVIOUS
  <2> QED BY <1>1, <1>2, <1>3, <2>1, SetEffect
<1>5. /\ do'.f = do.f /\ do'.what = do.what
      /\ IF next \in Clusters THEN do'.c = next /\ do'.pc = do.pc
         ELSE do'.c = do.c /\ do'.pc = "dir"
  BY <1>4, CallTypes DEF Basic, FreeOn
<1>6. DoType'
  <2>1. PICK c \in Clusters, q \in {"free", "clear", "dir"} :
          do' = [do EXCEPT !.c = c, !.pc = q] /\ (q = "dir" \/ q = do.pc)
    <3>1. CASE next \in Clusters
      <4>1. do' = [do EXCEPT !.c = next, !.pc = do.pc]
        BY <1>4, <3>1, CallTypes DEF Basic, FreeOn
      <4> QED BY <1>1, <3>1, <4>1 DEF Freeing
    <3>2. CASE next \notin Clusters
      <4>1. do' = [do EXCEPT !.c = do.c, !.pc = "dir"]
        BY <1>4, <3>2, CallTypes DEF Basic, FreeOn
      <4> QED BY <1>2, <4>1
    <3> QED BY <3>1, <3>2
  <2> QED BY <1>2, <2>1, CallTypes DEF Basic, DoType, Writing, Freeing, Places
<1>7. ASSUME next \in Clusters
      PROVE  NoPred(next)' /\ \A g \in Files : Dir[g].first # next
  <2>1. next = Fat[do.c]
    BY <1>1, <1>3, <1>7, ClusterFacts
  <2>2. \A a \in Clusters : Fat[a] = next => a = do.c
    BY <1>2, <1>7, <2>1 DEF Basic, Linked
  <2>3. \A a \in Clusters : Fat'[a] # next
    BY <1>4, <1>7, <2>2, ClusterFacts
  <2>4. \A g \in Files : Dir[g].first # 0 => Dir[g].first # next
    BY <1>2, <2>1 DEF Basic, Linked, NoPred
  <2> QED BY <1>7, <2>3, <2>4, ClusterFacts DEF NoPred
<1>8. Doing'
  <2>1. Writing' \/ do'.pc \in {"off", "walk", "mark", "scan", "link", "data"} => FALSE
    BY <1>1, <1>5 DEF Writing, Freeing
  <2>2. Freeing' => /\ do'.c \in Clusters /\ NoPred(do.c)'
                    /\ \A g \in Files : g # do'.f => Dir'[g].first # do'.c
    BY <1>4, <1>5, <1>7 DEF Freeing, NoPred
  <2> QED BY <1>2, <1>5, <2>1, <2>2 DEF Doing, NoPred
<1>9. \A f \in Files : Removing(f) => Removing(f)'
  BY <1>1, <1>2, <1>5 DEF Removing, Freeing
<1>10. \A f \in Files : Dir[f].first = do.c => Removing(f)
  BY <1>1, <1>2 DEF Removing, Freeing
<1>11. QED
  <2>1. PICK d : d = FreeOn(next)
    OBVIOUS
  <2> QED BY <1>1, <1>2, <1>3, <1>6, <1>8, <1>9, <1>10, <2>1, BasicSet, ClusterFacts

(* A transfer of the FAT fails, and the call goes on. *)
LEMMA BasicFails ==
  ASSUME Sizes, Basic, AccessFails
  PROVE  Basic'
<1>1. UNCHANGED <<store, rest>> /\ fails' \in Nat
  BY DEF AccessFails, MayFail, Basic, Types
<1>2. /\ cbuf' = cbuf /\ cdirty' = cdirty /\ half' = half /\ csec' \in {csec, NoSector}
      /\ UNCHANGED cache \/ (~cdirty /\ csec' = NoSector)
  BY DEF AccessFails, cache
<1>3. Fat' = Fat /\ CacheOK'
  <2>1. UNCHANGED fat1
    BY <1>1 DEF store
  <2> QED BY <1>2, <2>1, FatKept DEF Basic
<1>4. Dir' = Dir /\ orphan' = orphan
  BY <1>1 DEF store, Dir, rest
<1>5. do.pc \in {"walk", "scan", "link", "mark", "free", "clear", "flush"}
  <2>1. Flushing \/ Needs # NoSector
    BY DEF AccessFails
  <2> QED BY <2>1 DEF Flushing, Needs
<1>6. do' = CASE do.pc = "walk" -> WalkFrom(Eof)
               [] do.pc = "scan" -> ScanOn
               [] do.pc = "link" -> [do EXCEPT !.pc = "mark"]
               [] do.pc = "mark" -> Stepped(do.c)
               [] do.pc = "free" -> [do EXCEPT !.pc = "clear"]
               [] do.pc = "clear" -> FreeOn(Eof)
               [] do.pc = "flush" -> [do EXCEPT !.pc = "done"]
  BY DEF AccessFails
<1>7. do.f \in Files /\ (Writing => do.what = "write" /\ Dir[do.f].size < MaxLen /\ ~orphan)
      /\ (Freeing => do.what = "unlink")
  BY <1>5 DEF Basic, Types, DoType, Doing
<1>8. CASE do.pc = "walk"
  <2>1. do' = [do EXCEPT !.pc = "scan", !.c = 2, !.before = do.c]
    BY <1>6, <1>8 DEF WalkFrom
  <2>2. do'.pc = "scan" /\ do'.c = 2 /\ do'.before = do.c /\ do'.f = do.f /\ do'.what = do.what
    BY <2>1, CallTypes DEF Basic
  <2>3. 2 \in Clusters /\ Used(do.c) /\ do.c # 0 /\ do.c \in Clusters /\ Dir[do.f].first # 0
    BY <1>8, ClusterFacts DEF Used, Basic, Doing
  <2>4. DoType'
    BY <1>7, <1>8, <2>1, <2>2, <2>3, CallTypes DEF Basic, DoType, Writing, Freeing, Places
  <2>5. Doing'
    BY <1>3, <1>4, <1>7, <1>8, <2>2, <2>3, LinkedSame DEF Doing, Writing, Freeing
  <2> QED BY <1>1, <1>2, <1>3, <1>8, <2>4, <2>5, BasicGo DEF Basic, Types, rest, Removing
<1>9. CASE do.pc = "scan"
  <2>1. do' = ScanOn /\ do.c \in Clusters
    BY <1>6, <1>9 DEF Basic, Doing
  <2>2. /\ do'.f = do.f /\ do'.what = do.what /\ do'.before = do.before
        /\ \/ do'.pc = "scan" /\ do'.c = do.c + 1 /\ do.c # LastCluster
           \/ do'.c = do.c /\ do'.pc = IF do.before = 0 THEN "done" ELSE "dir"
    BY <1>9, <2>1, CallTypes DEF Basic, ScanOn
  <2>3. do'.c \in Clusters
    BY <2>1, <2>2, ClusterFacts
  <2>4. DoType'
    BY <1>7, <1>9, <2>1, <2>2, <2>3, CallTypes DEF Basic, DoType, Writing, Freeing, Places, ScanOn
  <2>5. Doing'
    BY <1>3, <1>4, <1>7, <1>9, <2>2, <2>3, LinkedSame DEF Basic, Doing, Writing, Freeing, Used
  <2> QED BY <1>1, <1>2, <1>3, <1>9, <2>4, <2>5, BasicGo DEF Basic, Types, rest, Removing
<1>10. CASE do.pc = "link"
  <2>1. do' = [do EXCEPT !.pc = "mark"]
    BY <1>6, <1>10
  <2>2. do'.pc = "mark" /\ do'.c = do.c /\ do'.before = do.before /\ do'.f = do.f /\ do'.what = do.what
    BY <2>1, CallTypes DEF Basic
  <2>3. Used(do.c) /\ Dir[do.f].first # 0
    BY <1>10 DEF Basic, Doing
  <2>4. DoType'
    BY <1>7, <1>10, <2>1, <2>2, CallTypes DEF Basic, DoType, Writing, Freeing, Places
  <2>5. Doing'
    BY <1>3, <1>4, <1>7, <1>10, <2>2, <2>3, LinkedSame DEF Doing, Writing, Freeing
  <2> QED BY <1>1, <1>2, <1>3, <1>10, <2>4, <2>5, BasicGo DEF Basic, Types, rest, Removing
<1>11. CASE do.pc = "mark"
  <2>1. do' = Stepped(do.c) /\ Used(do.c) /\ Dir[do.f].first # 0
    BY <1>6, <1>11 DEF Basic, Doing
  <2>2. /\ do'.pc \in {"data", "walk"} /\ do'.c = do.c /\ do'.f = do.f /\ do'.what = do.what
        /\ do'.before = do.before
    BY <2>1, CallTypes DEF Basic, Stepped
  <2>3. DoType'
    <3>1. PICK c \in Clusters : c = do.c
      BY <2>1 DEF Used
    <3>2. do' = [do EXCEPT !.c = c, !.left = do.left - 1, !.pc = do'.pc]
      BY <2>1, <2>2, <3>1, CallTypes DEF Basic, Stepped
    <3> QED BY <1>7, <1>11, <2>2, <3>2, TypeStepped DEF Basic, Writing
  <2>4. Doing'
    BY <1>3, <1>4, <1>7, <1>11, <2>1, <2>2, LinkedSame DEF Doing, Writing, Freeing, Used
  <2> QED BY <1>1, <1>2, <1>3, <1>11, <2>3, <2>4, BasicGo DEF Basic, Types, rest, Removing
<1>12. CASE Freeing
  <2>1. do'.pc \in {"clear", "dir"} /\ do'.c = do.c /\ do'.f = do.f /\ do'.what = do.what
        /\ do' = [do EXCEPT !.pc = do'.pc]
    BY <1>6, <1>12, ClusterFacts, CallTypes DEF Basic, Freeing, FreeOn
  <2>2. DoType'
    <3>1. PICK q \in {"clear", "dir"} : q = do'.pc
      BY <2>1
    <3>2. do' = [do EXCEPT !.pc = q]
      BY <2>1, <3>1
    <3> QED BY <1>7, <1>12, <3>2, CallTypes DEF Basic, DoType, Writing, Freeing, Places
  <2>3. Doing'
    BY <1>3, <1>4, <1>7, <1>12, <2>1, LinkedSame DEF Basic, Doing, Writing, Freeing
  <2>4. \A f \in Files : Removing(f) => Removing(f)'
    BY <2>1 DEF Removing
  <2> QED BY <1>1, <1>2, <1>3, <2>2, <2>3, <2>4, BasicGo DEF Basic, Types, rest
<1>13. CASE do.pc = "flush"
  <2>1. do' = [do EXCEPT !.pc = "done"]
    BY <1>6, <1>13
  <2>2. do'.pc = "done" /\ do'.f = do.f /\ do'.what = do.what
    BY <2>1, CallTypes DEF Basic
  <2>3. DoType'
    BY <1>7, <2>1, <2>2, CallTypes DEF Basic, DoType, Writing, Freeing, Places
  <2>4. Doing'
    BY <1>4, <2>2 DEF Basic, Doing, Writing, Freeing
  <2> QED BY <1>1, <1>2, <1>3, <1>13, <2>3, <2>4, BasicGo DEF Basic, Types, rest, Removing
<1>14. QED BY <1>5, <1>8, <1>9, <1>10, <1>11, <1>12, <1>13 DEF Freeing


(* The entry of a file is replaced. *)
LEMMA BasicEntry ==
  ASSUME Sizes, Basic, NEW f \in Files, NEW e, f = do.f, do.pc = "dir",
         e \in [is : BOOLEAN, first : Clusters \cup {0}, size : 0 .. MaxLen],
         Dir' = [Dir EXCEPT ![f] = e] \/ Dir' = Dir,
         e.first # 0 => e.first = Dir[f].first
                        \/ (Used(e.first) /\ NoPred(e.first) /\ NoHead(e.first)),
         UNCHANGED <<fat1, fat2>>, UNCHANGED cache, inRoot' = inRoot, cut' = cut, fails' \in Nat,
         disk' \in Dirs, root' \in Dirs,
         orphan' = orphan \/ (orphan' = TRUE /\ do.what = "unlink"),
         do.what = "unlink" =>
           e.first = 0 /\ (Dir' = [Dir EXCEPT ![f] = e] \/ orphan' = TRUE \/ Dir[f].first = 0),
         do' = [do EXCEPT !.pc = "done"] \/ do' = [do EXCEPT !.pc = "flush"]
  PROVE  Basic'
<1>1. /\ do.what \in {"create", "write", "unlink"} /\ orphan' \in BOOLEAN
      /\ do.what \in {"create", "write"} => ~orphan
  BY CallTypes, Zenon DEF Basic, Types, DoType, Doing
<1>2. /\ do'.pc \in {"flush", "done"} /\ do'.f = do.f /\ do'.what = do.what /\ do'.c = do.c
  BY CallTypes DEF Basic
<1>3. Fat' = Fat /\ CacheOK'
  BY FatKept DEF Basic
<1>4. Types'
  <2>1. DoType'
    BY <1>1, <1>2, CallTypes DEF Basic, DoType, Writing, Freeing, Places
  <2> QED BY <1>1, <2>1 DEF Basic, Types, cache
<1>5. \A g \in Files : Dir'[g] = IF g = f /\ Dir' # Dir THEN e ELSE Dir[g]
  BY DirType DEF Basic, Dirs
<1>6. e.first \in Clusters \cup {0} /\ \A g \in Files : Dir[g].first \in Clusters \cup {0}
  BY DirType DEF Basic
<1>7. Linked'
  <2>1. \A a, b \in Clusters : Fat'[a] \in Clusters /\ Fat'[a] = Fat'[b] => a = b
    BY <1>3 DEF Basic, Linked
  <2>2. \A a \in Clusters : Fat'[a] \in Clusters => Used(Fat[a])'
    BY <1>3 DEF Basic, Linked, Used
  <2>3. ASSUME NEW g \in Files, Dir'[g].first # 0
        PROVE  NoPred(Dir[g].first)'
    BY <1>3, <1>5, <2>3 DEF Basic, Linked, NoPred
  <2>4. ASSUME NEW g \in Files, NEW h \in Files, Dir'[g].first = Dir'[h].first, Dir'[g].first # 0
        PROVE  g = h
    BY <1>5, <2>4 DEF Basic, Linked, NoHead
  <2> QED BY <2>1, <2>2, <2>3, <2>4 DEF Linked
<1>8. HeadsUsed'
  <2>1. ASSUME NEW g \in Files, Dir'[g].first # 0, ~orphan'
        PROVE  Used(Dir[g].first)'
    <3>1. CASE Dir'[g] = Dir[g] /\ (g # f \/ do.what # "unlink")
      BY <1>1, <1>3, <2>1, <3>1 DEF Basic, HeadsUsed, Used, Removing
    <3>2. CASE Dir'[g] = e /\ g = f /\ do.what # "unlink"
      BY <1>1, <1>3, <2>1, <3>2 DEF Basic, HeadsUsed, Used, Removing
    <3>3. CASE g = f /\ do.what = "unlink"
      BY <1>5, <2>1, <3>3, DirType DEF Basic, Dirs
    <3> QED BY <1>5, <3>1, <3>2, <3>3
  <2> QED BY <2>1 DEF HeadsUsed
<1>9. Doing'
  BY <1>1, <1>2 DEF Doing, Writing, Freeing
<1>10. QED BY <1>3, <1>4, <1>7, <1>8, <1>9 DEF Basic

(* The entry a call writes. *)
LEMMA EntryFacts ==
  ASSUME Sizes, Basic, do.pc = "dir"
  PROVE  /\ do.f \in Files
         /\ Entry \in [is : BOOLEAN, first : Clusters \cup {0}, size : 0 .. MaxLen]
         /\ Entry.first # 0 => Entry.first = Dir[do.f].first
                               \/ (Used(Entry.first) /\ NoPred(Entry.first) /\ NoHead(Entry.first))
         /\ do.what = "unlink" => Entry.first = 0
         /\ do.what \in {"create", "write", "unlink"}
<1>1. do.f \in Files /\ do.what \in {"create", "write", "unlink"}
  BY CallTypes DEF Basic, Types, DoType
<1>2. CASE do.what = "create"
  BY <1>1, <1>2 DEF Entry, Sizes
<1>3. CASE do.what = "unlink"
  BY <1>1, <1>3 DEF Entry, NoEntry, Sizes
<1>4. CASE do.what = "write"
  <2>1. PICK old \in [is : BOOLEAN, first : Clusters \cup {0}, size : 0 .. MaxLen] : old = Dir[do.f]
    BY <1>1, DirType DEF Basic
  <2>2. Entry = [is |-> TRUE, first |-> IF old.first = 0 /\ do.before = 0 THEN do.c ELSE old.first,
                 size |-> old.size + (IF do.grown THEN 1 ELSE 0)]
    BY <1>4, <2>1 DEF Entry
  <2>3. do.c \in Clusters /\ old.size < MaxLen
        /\ (old.first = 0 => do.before = 0 /\ Used(do.c) /\ NoPred(do.c) /\ NoHead(do.c))
    BY <1>4, <2>1 DEF Basic, Doing
  <2>4. old.size + (IF do.grown THEN 1 ELSE 0) \in 0 .. MaxLen
    BY <2>1, <2>3 DEF Sizes
  <2> QED BY <1>1, <1>4, <2>1, <2>2, <2>3, <2>4
<1>5. QED BY <1>1, <1>2, <1>3, <1>4

LEMMA BasicDir ==
  ASSUME Sizes, Basic, DirUpdate \/ DirFails
  PROVE  Basic'
<1>1. do.pc = "dir"
  BY DEF DirUpdate, DirFails
<1>2. PICK e : e = Entry
  OBVIOUS
<1>3. PICK f \in Files : f = do.f
  BY <1>1, EntryFacts
<1>4. Dir \in Dirs /\ disk \in Dirs /\ root \in Dirs /\ inRoot \in BOOLEAN
  BY DirType DEF Basic, Types
<1>5. /\ e \in [is : BOOLEAN, first : Clusters \cup {0}, size : 0 .. MaxLen]
      /\ e.first # 0 => e.first = Dir[f].first
                        \/ (Used(e.first) /\ NoPred(e.first) /\ NoHead(e.first))
      /\ do.what = "unlink" => e.first = 0
  BY <1>1, <1>2, <1>3, EntryFacts
<1>6. \A d \in Dirs : [d EXCEPT ![f] = e] \in Dirs
  BY <1>5 DEF Dirs
<1>7. CASE DirUpdate
  <2>1. /\ disk' = [Dir EXCEPT ![f] = e] /\ root' = IF inRoot THEN [Dir EXCEPT ![f] = e] ELSE root
        /\ UNCHANGED <<fat1, fat2>> /\ UNCHANGED cache
        /\ inRoot' = inRoot /\ cut' = cut /\ orphan' = orphan /\ fails' = fails
        /\ do' = [do EXCEPT !.pc = "done"] \/ do' = [do EXCEPT !.pc = "flush"]
    BY <1>2, <1>3, <1>7 DEF DirUpdate, rest
  <2>2. Dir' = [Dir EXCEPT ![f] = e] /\ disk' \in Dirs /\ root' \in Dirs /\ fails' \in Nat
    BY <1>4, <1>6, <2>1 DEF Dir, Basic, Types
  <2> QED BY <1>1, <1>3, <1>5, <2>1, <2>2, BasicEntry
<1>8. CASE DirFails
  <2>1. /\ disk' = disk /\ root' = IF inRoot THEN [root EXCEPT ![f] = e] ELSE root
        /\ UNCHANGED <<fat1, fat2>> /\ UNCHANGED cache
        /\ inRoot' = inRoot /\ cut' = cut /\ fails' \in Nat
        /\ orphan' = (orphan \/ (~inRoot /\ do.what = "unlink" /\ Dir[f].first # 0))
        /\ do' = [do EXCEPT !.pc = "done"] \/ do' = [do EXCEPT !.pc = "flush"]
    BY <1>2, <1>3, <1>8 DEF DirFails, MayFail, Basic, Types
  <2>2. /\ disk' \in Dirs /\ root' \in Dirs
        /\ IF inRoot THEN Dir' = [Dir EXCEPT ![f] = e] ELSE Dir' = Dir
    BY <1>4, <1>6, <2>1 DEF Dir
  <2>3. orphan \in BOOLEAN
    BY DEF Basic, Types
  <2>4. orphan' = orphan \/ (orphan' = TRUE /\ do.what = "unlink")
    BY <2>1, <2>3, Zenon
  <2> QED BY <1>1, <1>3, <1>5, <2>1, <2>2, <2>4, BasicEntry
<1>9. QED BY <1>7, <1>8

(* A call begins, and the volume is mounted. *)
Begins(what, f, pc, c) ==
  \/ what = "create" /\ pc = "dir" /\ c = 0 /\ ~Dir[f].is
  \/ /\ what = "write" /\ Dir[f].is /\ Dir[f].size < MaxLen
     /\ IF Dir[f].first = 0 THEN pc = "scan" /\ c = 2
        ELSE c = Dir[f].first /\ pc = IF Dir[f].size = 0 THEN "data" ELSE "walk"
  \/ what = "unlink" /\ c = Dir[f].first /\ pc = IF Dir[f].first = 0 THEN "dir" ELSE "free"

LEMMA CallBegins ==
  ASSUME FsCreate \/ FsWrite \/ FsUnlink
  PROVE  \E f \in Files : \E what, pc, c : Call(what, f, pc, c) /\ Begins(what, f, pc, c)
<1>1. CASE FsCreate
  <2>1. PICK f \in Files : ~Dir[f].is /\ Call("create", f, "dir", 0)
    BY <1>1 DEF FsCreate
  <2>2. Begins("create", f, "dir", 0)
    BY <2>1 DEF Begins
  <2> QED BY <2>1, <2>2, Zenon
<1>2. CASE FsWrite
  <2>1. PICK f \in Files :
          /\ Dir[f].is /\ Dir[f].size < MaxLen
          /\ IF Dir[f].first = 0 THEN Call("write", f, "scan", 2)
             ELSE IF Dir[f].size = 0 THEN Call("write", f, "data", Dir[f].first)
             ELSE Call("write", f, "walk", Dir[f].first)
    BY <1>2 DEF FsWrite
  <2>2. \E pc, c : Call("write", f, pc, c) /\ Begins("write", f, pc, c)
    BY <2>1 DEF Begins
  <2> QED BY <2>2, Zenon
<1>3. CASE FsUnlink
  <2>1. PICK f \in Files :
          Call("unlink", f, IF Dir[f].first = 0 THEN "dir" ELSE "free", Dir[f].first)
    BY <1>3 DEF FsUnlink
  <2>2. Begins("unlink", f, IF Dir[f].first = 0 THEN "dir" ELSE "free", Dir[f].first)
    BY DEF Begins
  <2> QED BY <2>1, <2>2, Zenon
<1>4. QED BY <1>1, <1>2, <1>3

LEMMA BasicCall ==
  ASSUME Sizes, Basic, FsCreate \/ FsWrite \/ FsUnlink
  PROVE  Basic'
<1>1. PICK f \in Files : \E what, pc, c : Call(what, f, pc, c) /\ Begins(what, f, pc, c)
  BY CallBegins, Zenon
<1> PICK what, pc, c : Call(what, f, pc, c) /\ Begins(what, f, pc, c)
  BY <1>1
<1>2. /\ do.pc = "idle" /\ ~orphan /\ UNCHANGED <<store, cache, inRoot, fails, cut, orphan>>
      /\ do' = [what |-> what, f |-> f, pc |-> pc, c |-> c, before |-> 0, left |-> Dir[f].size, grown |-> FALSE]
  BY <1>1 DEF Call
<1>3. Fat' = Fat /\ CacheOK' /\ Dir' = Dir
  BY <1>2, FatKept DEF Basic, store, Dir
<1>4. c \in Clusters \cup {0} /\ Dir[f].size \in Int /\ 2 \in Clusters
  BY <1>1, DirType, ClusterFacts DEF Begins, Basic, Sizes
<1>5. DoType'
  BY <1>1, <1>2, <1>4 DEF Begins, DoType, Writing, Freeing, Places
<1>6. Dir[f].first # 0 => Used(Dir[f].first) /\ NoPred(Dir[f].first)
                          /\ \A g \in Files : g # f => Dir[g].first # Dir[f].first
  BY <1>2 DEF Basic, HeadsUsed, Linked, Removing
<1>7. Doing'
  BY <1>1, <1>2, <1>3, <1>4, <1>6, LinkedSame DEF Begins, Doing, Writing, Freeing, Used
<1>8. QED BY <1>2, <1>3, <1>5, <1>7, BasicGo DEF Basic, Types, store, cache, Removing

LEMMA BasicMounted ==
  ASSUME Sizes, Basic, Mounted
  PROVE  Basic'
<1>1. /\ do.pc = "off" /\ do' = NoCall /\ inRoot' \in BOOLEAN
      /\ UNCHANGED <<store, cache, dcalls, fails, cut, orphan>>
  BY DEF Mounted
<1>2. disk = root
  BY <1>1 DEF Basic, Doing
<1>3. Fat' = Fat /\ CacheOK' /\ Dir' = Dir
  BY <1>1, <1>2, FatKept DEF Basic, store, Dir
<1>4. Types'
  BY <1>1 DEF NoCall, DoType, Writing, Freeing, Places, Basic, Types, store, cache
<1>5. Linked' /\ HeadsUsed' /\ Doing'
  BY <1>1, <1>3, LinkedSame DEF NoCall, Basic, HeadsUsed, Removing, Doing, Writing, Freeing
<1>6. QED BY <1>3, <1>4, <1>5 DEF Basic


LEMMA BasicInit ==
  ASSUME Sizes, Init
  PROVE  Basic
<1>1. /\ fat1 = [c \in Clusters |-> 0] /\ fat2 = fat1 /\ cbuf = fat1
      /\ disk = [f \in Files |-> NoEntry] /\ root = disk /\ inRoot = TRUE
      /\ csec = NoSector /\ cdirty = FALSE /\ half = FALSE
      /\ do = [NoCall EXCEPT !.pc = "off"] /\ fails = 0 /\ cut = FALSE /\ orphan = FALSE
  BY DEF Init
<1>2. do.what = "none" /\ do.f = NoCall.f /\ do.pc = "off"
  BY <1>1 DEF NoCall
<1>3. DoType
  <2>1. PICK g : g = NoCall.f
    OBVIOUS
  <2>2. do = [what |-> "none", f |-> g, pc |-> "off", c |-> 0, before |-> 0, left |-> 0,
              grown |-> FALSE]
    BY <1>1, <2>1 DEF NoCall
  <2> QED BY <2>1, <2>2 DEF DoType, Writing, Freeing, Places
<1>4. disk \in Dirs
  BY <1>1 DEF Dirs, NoEntry, Sizes
<1>5. Types
  BY <1>1, <1>3, <1>4 DEF Types, Entries
<1>6. CacheOK
  BY <1>1 DEF CacheOK
<1>7. \A c \in Clusters : Fat[c] = 0
  BY <1>1 DEF Fat
<1>8. \A f \in Files : Dir[f].first = 0
  BY <1>1 DEF Dir, NoEntry
<1>9. Linked /\ HeadsUsed
  BY <1>7, <1>8, ClusterFacts DEF Linked, HeadsUsed
<1>10. Doing
  BY <1>1, <1>2 DEF Doing, Writing, Freeing
<1>11. QED BY <1>5, <1>6, <1>9, <1>10 DEF Basic

LEMMA BasicStutter ==
  ASSUME Sizes, Basic, UNCHANGED fdVars
  PROVE  Basic'
<1>1. UNCHANGED <<store, cache, do, fails, inRoot, orphan, cut>>
  BY DEF fdVars, store, cache
<1>2. Fat' = Fat /\ CacheOK' /\ Dir' = Dir
  BY <1>1, FatKept DEF Basic, store, Dir
<1>3. DoType' /\ Doing'
  BY <1>1, <1>2, LinkedSame DEF store, Basic, Types, DoType, Writing, Freeing, Doing
<1>4. QED BY <1>1, <1>2, <1>3, BasicGo DEF Basic, Types, store, cache, Removing

LEMMA BasicNext == Sizes /\ Basic /\ [Next]_fdVars => Basic'
BY BasicStutter, BasicMounted, BasicCache, BasicFails, BasicCall, BasicWalk, BasicScan, BasicLink,
   BasicMark, BasicFree, BasicData, BasicDir, BasicReturn, BasicPowerCut DEF Next

-----------------------------------------------------------------------------
(* What Basic is for. *)

LEMMA BasicTypes == Sizes /\ Basic => TypeOK
<1> SUFFICES ASSUME Sizes, Basic PROVE TypeOK
  OBVIOUS
<1>1. \A c \in Clusters : {fat1[c], fat2[c], cbuf[c]} \subseteq Clusters \cup {0, Eof}
  BY DEF Basic, Types, Entries
<1>2. \A f \in Files : Dir[f].size <= MaxLen
  BY DirType DEF Basic, Sizes
<1>3. QED BY <1>1, <1>2 DEF Basic, Types, CacheOK, TypeOK

LEMMA BasicApart == Sizes /\ Basic => \A f, g \in Files : Apart(Fat, Dir, f, g)
<1> SUFFICES ASSUME Sizes, Basic, NEW f \in Files, NEW g \in Files, f # g
             PROVE  Chain(Fat, Dir[f].first) \cap Chain(Fat, Dir[g].first) = {}
  BY DEF Apart
<1>1. PICK a, b : a = Dir[f].first /\ b = Dir[g].first
  OBVIOUS
<1>2. \A x, y \in Clusters : Fat[x] \in Clusters /\ Fat[x] = Fat[y] => x = y
  BY DEF Basic, Linked
<1>3. \A x \in Clusters : Fat[x] \in Clusters => Fat[x] # a /\ Fat[x] # b
  BY <1>1, ClusterFacts DEF Basic, Linked, NoPred
<1>4. a = b => a \notin Clusters
  BY <1>1, ClusterFacts DEF Basic, Linked
<1>5. Chain(Fat, a) \cap Chain(Fat, b) = {}
  BY <1>2, <1>3, <1>4, ChainsApart
<1>6. QED BY <1>1, <1>5

-----------------------------------------------------------------------------
(* A path is the chain. *)

LEMMA PathShort ==
  ASSUME Sizes, NEW fat, NEW c, NEW n \in Nat, NEW p, Path(fat, c, n, p)
  PROVE  n < LastCluster
<1>1. p \in Injection(0 .. n - 1, Clusters)
  BY DEF Path, Injection, IsInjective
<1>2. IsFiniteSet(Clusters) /\ Cardinality(Clusters) = LastCluster - 1
  BY FS_Interval DEF Clusters, Sizes
<1>3. Cardinality(0 .. n - 1) = n
  BY FS_Interval
<1>4. Cardinality(0 .. n - 1) <= Cardinality(Clusters)
  BY <1>1, <1>2, FS_Injection
<1>5. QED BY <1>2, <1>3, <1>4 DEF Sizes

LEMMA PathSteps ==
  ASSUME Sizes, NEW fat, NEW c, NEW n \in Nat, NEW p, Path(fat, c, n, p)
  PROVE  \A k \in 0 .. LastCluster :
           Steps(fat, c)[k] = IF k < n THEN p[k] ELSE IF n = 0 THEN 0 ELSE Eof
<1> DEFINE at == Steps(fat, c)
           Is(k) == at[k] = IF k < n THEN p[k] ELSE IF n = 0 THEN 0 ELSE Eof
           T == {k \in Nat : k <= LastCluster => Is(k)}
<1>1. Walks(at, fat, c, LastCluster)
  BY StepsFacts
<1> HIDE DEF at
<1>2. Is(0)
  BY <1>1 DEF Walks, Path
<1>3. ASSUME NEW k \in Nat, k + 1 <= LastCluster, Is(k)
      PROVE  Is(k + 1)
  <2>1. k + 1 \in 1 .. LastCluster /\ (k + 1) - 1 = k
    BY <1>3 DEF Sizes
  <2>2. at[k + 1] = IF at[k] \in Clusters THEN fat[at[k]] ELSE at[k]
    BY <1>1, <2>1 DEF Walks
  <2>3. CASE k < n
    <3>1. k \in 0 .. n - 1 /\ at[k] = p[k] /\ p[k] \in Clusters
      BY <1>3, <2>3 DEF Path
    <3>2. fat[p[k]] = IF k = n - 1 THEN Eof ELSE p[k + 1]
      BY <3>1 DEF Path
    <3> QED BY <2>2, <2>3, <3>1, <3>2
  <2>4. CASE ~ (k < n)
    BY <1>3, <2>2, <2>4, ClusterFacts
  <2> QED BY <2>3, <2>4
<1> HIDE DEF Is
<1>4. 0 \in T
  BY <1>2
<1>5. ASSUME NEW k \in T
      PROVE  k + 1 \in T
  BY <1>3 DEF Sizes
<1>6. \A k \in Nat : k \in T
  <2>1. T \in SUBSET Nat
    OBVIOUS
  <2> HIDE DEF T
  <2> QED BY <1>4, <1>5, <2>1, Induction
<1>7. \A k \in 0 .. LastCluster : Is(k)
  BY <1>6 DEF Sizes
<1>8. QED BY <1>7 DEF Is, at

LEMMA PathChain ==
  ASSUME Sizes, NEW fat, NEW c, NEW n \in Nat, NEW p, Path(fat, c, n, p)
  PROVE  /\ Chain(fat, c) = {p[i] : i \in 0 .. n - 1}
         /\ Cardinality(Chain(fat, c)) = n
         /\ Steps(fat, c)[LastCluster] = IF n = 0 THEN 0 ELSE Eof
<1>1. n < LastCluster /\ LastCluster \in Nat
  BY PathShort DEF Sizes
<1>2. \A k \in 0 .. LastCluster :
        Steps(fat, c)[k] = IF k < n THEN p[k] ELSE IF n = 0 THEN 0 ELSE Eof
  BY PathSteps
<1>3. p \in [0 .. n - 1 -> Clusters]
  BY DEF Path
<1>4. Chain(fat, c) = {p[i] : i \in 0 .. n - 1}
  <2>1. ASSUME NEW x \in Chain(fat, c)
        PROVE  \E i \in 0 .. n - 1 : x = p[i]
    <3>1. PICK k \in 0 .. LastCluster : x = Steps(fat, c)[k] /\ x \in Clusters
      BY DEF Chain
    <3>2. k < n
      BY <1>1, <1>2, <3>1, ClusterFacts
    <3> QED BY <1>1, <1>2, <3>1, <3>2
  <2>2. ASSUME NEW i \in 0 .. n - 1
        PROVE  p[i] \in Chain(fat, c)
    <3>1. i \in 0 .. LastCluster /\ i < n
      BY <1>1
    <3>2. Steps(fat, c)[i] = p[i] /\ p[i] \in Clusters
      BY <1>2, <1>3, <3>1
    <3> QED BY <3>1, <3>2 DEF Chain
  <2> QED BY <2>1, <2>2
<1>5. Cardinality(Chain(fat, c)) = n
  <2>1. p \in Surjection(0 .. n - 1, Chain(fat, c))
    BY <1>3, <1>4 DEF Surjection
  <2>2. p \in Injection(0 .. n - 1, Chain(fat, c))
    BY <1>3, <1>4 DEF Path, Injection, IsInjective
  <2>3. IsFiniteSet(0 .. n - 1) /\ Cardinality(0 .. n - 1) = n
    BY FS_Interval
  <2> QED BY <2>1, <2>2, <2>3, FS_Surjection
<1>6. QED BY <1>1, <1>2, <1>4, <1>5

-----------------------------------------------------------------------------
(* Kept, step by step. *)

LEMMA LaidFacts ==
  ASSUME Sizes, Basic, NEW n, NEW p, Laid(n, p), NEW f \in Files
  PROVE  /\ n[f] \in Nat
         /\ \A i \in 0 .. n[f] - 1 :
              /\ p[f][i] \in Clusters /\ Fat[p[f][i]] # 0
              /\ Fat[p[f][i]] = IF i = n[f] - 1 THEN Eof ELSE p[f][i + 1]
              /\ i # n[f] - 1 => i + 1 \in 0 .. n[f] - 1
         /\ Begin(f) = IF n[f] = 0 THEN 0 ELSE p[f][0]
<1>1. n[f] \in Nat /\ Path(Fat, Begin(f), n[f], p[f])
  BY DEF Laid
<1>2. ASSUME NEW i \in 0 .. n[f] - 1
      PROVE  i # n[f] - 1 => i + 1 \in 0 .. n[f] - 1
  BY <1>1
<1>3. QED BY <1>1, <1>2, ClusterFacts DEF Path

(* Nothing leads into a path from outside. *)
LEMMA LaidBack ==
  ASSUME Sizes, Basic, NEW n, NEW p, Laid(n, p), NEW f \in Files, NEW i \in 0 .. n[f] - 1,
         NEW a \in Clusters, Fat[a] = p[f][i]
  PROVE  \E j \in 0 .. n[f] - 1 : a = p[f][j]
<1>1. p[f][i] \in Clusters /\ Fat[a] # 0 /\ Fat[a] # Eof
  BY LaidFacts, ClusterFacts
<1>2. ~ (do.pc = "link" /\ a = do.c)
  BY <1>1 DEF Basic, Doing
<1>3. PICK g \in Files : \E j \in 0 .. n[g] - 1 : p[g][j] = a
  BY <1>1, <1>2 DEF Laid
<1>4. PICK j \in 0 .. n[g] - 1 : p[g][j] = a
  BY <1>3
<1>5. j + 1 \in 0 .. n[g] - 1 /\ p[g][j + 1] = p[f][i]
  BY <1>1, <1>4, LaidFacts
<1>6. g = f
  BY <1>5 DEF Laid
<1>7. QED BY <1>4, <1>6

(* A step of the call about b leaves the paths of the others alone.        *)
LEMMA LaidStep ==
  ASSUME Sizes, Basic, NEW n, NEW p, Laid(n, p), NEW b \in Files, b = do.f,
         do.pc \notin {"off", "idle"}, do'.pc \notin {"off", "idle"}, do'.f = do.f, fat1' = fat1,
         NEW m \in Nat, NEW q, Path(Fat, Begin(b), m, q)', Course(m, q)',
         \A f \in Files : f # b => Dir'[f] = Dir[f],
         Dir'[b].first \in {0, Dir[b].first} \/ (m > 0 /\ Dir'[b].first = q[0]),
         \A f \in Files : f # b => \A i \in 0 .. n[f] - 1 :
           Fat'[p[f][i]] = Fat[p[f][i]] /\ \A j \in 0 .. m - 1 : q[j] # p[f][i],
         \A c \in Clusters : Fat'[c] # 0 =>
           \/ do'.pc = "link" /\ c = do'.c
           \/ \E i \in 0 .. m - 1 : q[i] = c
           \/ \E f \in Files : f # b /\ \E i \in 0 .. n[f] - 1 : p[f][i] = c
  PROVE  \E k, r : Laid(k, r)'
<1>1. PICK k : k = [f \in Files |-> IF f = b THEN m ELSE n[f]]
  OBVIOUS
<1>2. PICK r : r = [f \in Files |-> IF f = b THEN q ELSE p[f]]
  OBVIOUS
<1>3. k \in [Files -> Nat] /\ k[b] = m /\ r[b] = q
      /\ \A f \in Files : f # b => k[f] = n[f] /\ r[f] = p[f]
  BY <1>1, <1>2 DEF Laid
<1>4. ASSUME NEW f \in Files, f # b
      PROVE  /\ ~Busy(f) /\ ~Busy(f)' /\ Begin(f) = Dir[f].first /\ Begin(f)' = Dir[f].first
             /\ Path(Fat, Begin(f), n[f], p[f])
             /\ Settled(f, n[f], p[f])
  BY <1>4 DEF Laid, Busy, Begin
<1>5. ASSUME NEW f \in Files
      PROVE  Path(Fat, Begin(f), k[f], r[f])'
  <2>1. CASE f = b
    BY <1>3, <2>1
  <2>2. CASE f # b
    <3>1. PICK fat, c : fat = Fat' /\ c = Dir[f].first
      OBVIOUS
    <3>2. Path(Fat, c, n[f], p[f]) /\ \A i \in 0 .. n[f] - 1 : fat[p[f][i]] = Fat[p[f][i]]
      BY <1>4, <2>2, <3>1
    <3>3. Path(fat, c, n[f], p[f])
      BY <3>2, PathKept
    <3> QED BY <1>3, <1>4, <2>2, <3>1, <3>3
  <2> QED BY <2>1, <2>2
<1>6. ASSUME NEW f \in Files, NEW g \in Files, NEW i \in 0 .. k[f] - 1, NEW j \in 0 .. k[g] - 1,
             r[f][i] = r[g][j]
      PROVE  f = g
  <2>1. CASE f # b /\ g # b
    BY <1>3, <1>6, <2>1 DEF Laid
  <2>2. CASE f = b \/ g = b
    BY <1>3, <1>6, <2>2
  <2> QED BY <2>1, <2>2
<1>7. ASSUME NEW c \in Clusters, Fat'[c] # 0
      PROVE  \/ do'.pc = "link" /\ c = do'.c
             \/ \E f \in Files : \E i \in 0 .. k[f] - 1 : r[f][i] = c
  BY <1>3, <1>7
<1>8. ASSUME NEW f \in Files, ~Busy(f)'
      PROVE  Settled(f, k[f], r[f])'
  <2>1. f # b
    BY <1>8 DEF Busy
  <2>2. Settled(f, n[f], p[f]) /\ k[f] = n[f] /\ r[f] = p[f] /\ Dir'[f] = Dir[f]
    BY <1>3, <1>4, <2>1
  <2>3. ASSUME NEW i \in 0 .. n[f] - 1
        PROVE  fat1'[p[f][i]] = Fat'[p[f][i]]
    BY <2>1, <2>2 DEF Settled
  <2>4. ASSUME NEW i \in 0 .. n[f] - 1, NEW g \in Files, Dir'[g].first = p[f][i]
        PROVE  g = f
    <3>1. p[f][i] # 0
      BY LaidFacts, ClusterFacts
    <3>2. CASE Dir'[g].first = Dir[g].first
      <4>1. \A h \in Files : Dir[h].first = p[f][i] => h = f
        BY <2>2 DEF Settled
      <4> QED BY <2>4, <3>2, <4>1
    <3>3. CASE g = b /\ m > 0 /\ Dir'[b].first = q[0]
      BY <2>1, <2>4, <3>3
    <3> QED BY <2>4, <3>1, <3>2, <3>3
  <2> QED BY <2>2, <2>3, <2>4 DEF Settled
<1>9. Course(k[do.f], r[do.f])'
  BY <1>3
<1>10. Laid(k, r)'
  BY <1>3, <1>5, <1>6, <1>7, <1>8, <1>9 DEF Laid
<1>11. QED BY <1>10, Zenon


LEMMA LaidGo ==
  ASSUME Sizes, Basic, NEW n, NEW p, Laid(n, p),
         do.pc \notin {"off", "idle", "link"}, do'.pc \notin {"off", "idle"}, do'.f = do.f,
         Fat' = Fat, Dir' = Dir, fat1' = fat1,
         Begin(do.f)' = Begin(do.f), Course(n[do.f], p[do.f])'
  PROVE  \E k, r : Laid(k, r)'
<1>1. PICK b \in Files : b = do.f
  BY CallTypes DEF Basic
<1>2. PICK m \in Nat, q \in {p[b]} : m = n[b] /\ q = p[b]
  BY <1>1 DEF Laid
<1>3. Path(Fat, Begin(b), m, q)
  BY <1>1, <1>2 DEF Laid
<1>4. Path(Fat, Begin(b), m, q)' /\ Course(m, q)'
  BY <1>1, <1>2, <1>3 DEF Path
<1>5. \A f \in Files : f # b => \A i \in 0 .. n[f] - 1 : \A j \in 0 .. m - 1 : q[j] # p[f][i]
  BY <1>2 DEF Laid
<1>6. \A c \in Clusters : Fat'[c] # 0 =>
           \/ \E i \in 0 .. m - 1 : q[i] = c
           \/ \E f \in Files : f # b /\ \E i \in 0 .. n[f] - 1 : p[f][i] = c
  BY <1>2 DEF Laid
<1>7. QED BY <1>1, <1>4, <1>5, <1>6, LaidStep

LEMMA LaidSame ==
  ASSUME Sizes, Basic, NEW n, NEW p, Laid(n, p), Fat' = Fat,
         \A f \in Files : Begin(f)' = Begin(f),
         do.pc = "link" => do'.pc = "link" /\ do'.c = do.c,
         \A f \in Files : ~Busy(f)' => Settled(f, n[f], p[f])',
         do'.pc \notin {"off", "idle"} => Course(n[do.f], p[do.f])'
  PROVE  \E k, r : Laid(k, r)'
<1>1. \A f \in Files : Path(Fat, Begin(f), n[f], p[f])'
  BY DEF Laid
<1>2. Laid(n, p)'
  BY <1>1 DEF Laid
<1>3. QED BY <1>2, Zenon

LEMMA KeptWalk ==
  ASSUME Sizes, Basic, Kept, fails = 0, Walk
  PROVE  Kept'
<1>1. do.pc = "walk" /\ do' = WalkFrom(cbuf[do.c]) /\ UNCHANGED <<store, cache, fails, rest>>
  BY DEF Walk, Go
<1>2. cbuf[do.c] = Fat[do.c] /\ do.f \in Files /\ do.c \in Clusters /\ Dir[do.f].first # 0
  BY <1>1, LoadedFacts, FatType, CallTypes DEF Basic, Doing, Walk, Used
<1>3. Fat' = Fat /\ Dir' = Dir /\ fat1' = fat1
  BY <1>1, FatKept DEF Basic, store, Dir, rest
<1>4. Synced /\ ~do.grown
  BY <1>1 DEF Kept, Synced
<1>5. PICK n, p : Laid(n, p)
  BY DEF Kept
<1>6. PICK b \in Files : b = do.f
  BY <1>2
<1>7. PICK size \in Nat : size = Dir[b].size
  BY DirType DEF Basic, Sizes
<1>8. n[b] = size /\ do.left \in 1 .. size /\ do.c = p[b][size - do.left]
  BY <1>1, <1>5, <1>6, <1>7 DEF Laid, Course
<1>9. PICK i \in 0 .. size - 1 : i = size - do.left
  BY <1>8
<1>10. Fat[do.c] = IF i = size - 1 THEN Eof ELSE p[b][i + 1]
  BY <1>5, <1>6, <1>8, <1>9, LaidFacts
<1>11. i # size - 1 => p[b][i + 1] \in Clusters
  BY <1>5, <1>6, <1>8, <1>9, LaidFacts
<1>12. CASE i = size - 1
  <2>1. do' = [do EXCEPT !.pc = "scan", !.c = 2, !.before = do.c]
    BY <1>1, <1>2, <1>10, <1>12 DEF WalkFrom
  <2>2. /\ do'.pc = "scan" /\ do'.c = 2 /\ do'.before = do.c /\ do'.f = do.f /\ do'.left = do.left
        /\ do'.grown = do.grown
    BY <2>1, CallTypes DEF Basic
  <2>3. do.left = 1 /\ size # 0 /\ do.c # 0
    BY <1>2, <1>8, <1>9, <1>12, ClusterFacts
  <2>4. Course(n[do.f], p[do.f])'
    BY <1>3, <1>6, <1>7, <1>8, <2>2, <2>3 DEF Course
  <2>5. Begin(do.f)' = Begin(do.f)
    BY <1>1, <1>3, <2>2 DEF Begin, Busy
  <2>6. \E k, r : Laid(k, r)'
    BY <1>1, <1>3, <1>5, <2>2, <2>4, <2>5, LaidGo
  <2>7. Synced'
    BY <1>1, <1>3, <1>4, <2>2, <2>3 DEF Synced, Untouched, store, cache, rest
  <2> QED BY <2>6, <2>7 DEF Kept
<1>13. CASE i # size - 1
  <2>1. do' = Stepped(Fat[do.c])
    BY <1>1, <1>2, <1>10, <1>11, <1>13, ClusterFacts DEF WalkFrom
  <2>2. do.left # 1 /\ do.left - 1 \in 1 .. size /\ size - (do.left - 1) = i + 1
    BY <1>8, <1>9, <1>13
  <2>3. /\ do'.pc = "walk" /\ do'.c = Fat[do.c] /\ do'.f = do.f /\ do'.left = do.left - 1
        /\ do'.grown = do.grown
    BY <2>1, <2>2, CallTypes DEF Basic, Stepped
  <2>4. Course(n[do.f], p[do.f])'
    BY <1>3, <1>6, <1>7, <1>8, <1>10, <1>13, <2>2, <2>3 DEF Course
  <2>5. Begin(do.f)' = Begin(do.f)
    BY <1>1, <1>3, <2>3 DEF Begin, Busy
  <2>6. \E k, r : Laid(k, r)'
    BY <1>1, <1>3, <1>5, <2>3, <2>4, <2>5, LaidGo
  <2>7. Synced'
    BY <1>1, <1>3, <1>4, <2>3 DEF Synced, Untouched, store, cache, rest
  <2> QED BY <2>6, <2>7 DEF Kept
<1>14. QED BY <1>12, <1>13

LEMMA KeptData ==
  ASSUME Sizes, Basic, Kept, fails = 0, fails' = 0, Data
  PROVE  Kept'
<1>1. do.pc = "data" /\ do' = [do EXCEPT !.pc = "dir", !.grown = TRUE] /\ UNCHANGED <<store, cache, rest>>
  BY DEF Data, MayFail
<1>2. /\ do'.pc = "dir" /\ do'.c = do.c /\ do'.f = do.f /\ do'.what = do.what
      /\ do'.before = do.before /\ do'.grown
  BY <1>1, CallTypes DEF Basic
<1>3. Fat' = Fat /\ Dir' = Dir /\ fat1' = fat1
  BY <1>1, FatKept DEF Basic, store, Dir, rest
<1>4. do.what = "write" /\ do.f \in Files /\ (Dir[do.f].first = 0 => do.before = 0)
  BY <1>1 DEF Basic, Types, DoType, Doing, Writing
<1>5. PICK n, p : Laid(n, p)
  BY DEF Kept
<1>6. PICK old \in [is : BOOLEAN, first : Clusters \cup {0}, size : 0 .. MaxLen] : old = Dir[do.f]
  BY <1>4, DirType DEF Basic
<1>7. Entry' = [is |-> TRUE, first |-> IF old.first = 0 THEN do.c ELSE old.first,
                size |-> old.size + 1]
  BY <1>2, <1>3, <1>4, <1>6 DEF Entry
<1>8. n[do.f] = old.size + 1
  BY <1>1, <1>5, <1>6 DEF Laid, Course
<1>9. Entry'.first = (IF old.first = 0 THEN do.c ELSE old.first) /\ Entry'.size = old.size + 1
  BY <1>7
<1>10. Course(n[do.f], p[do.f])'
  BY <1>2, <1>8, <1>9 DEF Course
<1>11. Begin(do.f)' = Begin(do.f)
  BY <1>1, <1>2, <1>6, <1>9 DEF Begin, Busy
<1>12. \E k, r : Laid(k, r)'
  BY <1>1, <1>2, <1>3, <1>5, <1>10, <1>11, LaidGo
<1>13. Synced'
  BY <1>1, <1>2, <1>3, <1>4 DEF Kept, Synced, Untouched, store, cache, rest
<1>14. QED BY <1>12, <1>13 DEF Kept

(* What a step that sets the entry of x has to show.                       *)
SetOK(x, v, d, b, n, p, m, q) ==
  /\ x \in Clusters /\ v \in Clusters \cup {0, Eof}
  /\ Sector(x) = csec /\ ~half /\ Set(x, v, d)
  /\ b \in Files /\ b = do.f
  /\ do.pc \notin {"off", "idle"} /\ do'.f = do.f /\ do'.pc \notin {"off", "idle", "clear", "done"}
  /\ ~ (do'.pc = "scan" \/ (do'.pc = "dir" /\ do'.what = "create"))
  /\ do'.pc = "free" \/ (do'.pc = "dir" /\ do'.what = "unlink") => Dir[b].first # 0
  /\ do'.grown => do'.pc \in {"dir", "flush"}
  /\ m \in Nat /\ Path([Fat EXCEPT ![x] = v], Begin(b)', m, q) /\ Course(m, q)'
  /\ \A f \in Files : f # b => \A i \in 0 .. n[f] - 1 :
       x # p[f][i] /\ \A j \in 0 .. m - 1 : q[j] # p[f][i]
  /\ \A c \in Clusters :
       \/ c = x /\ v = 0
       \/ do'.pc = "link" /\ c = do'.c
       \/ \E i \in 0 .. m - 1 : q[i] = c
       \/ \E f \in Files : f # b /\ \E i \in 0 .. n[f] - 1 : p[f][i] = c
       \/ c # x /\ Fat[c] = 0

LEMMA KeptSet ==
  ASSUME Sizes, Basic, Kept, fails = 0, NEW n, NEW p, Laid(n, p),
         NEW x, NEW v, NEW d, NEW b, NEW m, NEW q, SetOK(x, v, d, b, n, p, m, q)
  PROVE  Kept'
<1>1. /\ Fat' = [Fat EXCEPT ![x] = v] /\ cdirty'
      /\ do' = d /\ UNCHANGED <<store, csec, half, fails, rest>>
  BY FatSet DEF Basic, SetOK
<1>2. Dir' = Dir /\ fat1' = fat1
  BY <1>1 DEF Dir, store, rest
<1>3. \A c \in Clusters : Fat'[c] = IF c = x THEN v ELSE Fat[c]
  BY <1>1, FatType DEF Basic, Entries
<1>4. Path(Fat, Begin(b), m, q)'
  BY <1>1 DEF Path, SetOK
<1>5. \A f \in Files : f # b => \A i \in 0 .. n[f] - 1 :
           Fat'[p[f][i]] = Fat[p[f][i]] /\ \A j \in 0 .. m - 1 : q[j] # p[f][i]
  BY <1>3, LaidFacts DEF SetOK
<1>6. \A c \in Clusters : Fat'[c] # 0 =>
           \/ do'.pc = "link" /\ c = do'.c
           \/ \E i \in 0 .. m - 1 : q[i] = c
           \/ \E f \in Files : f # b /\ \E i \in 0 .. n[f] - 1 : p[f][i] = c
  BY <1>3 DEF SetOK
<1>7. \E k, r : Laid(k, r)'
  <2>1. /\ b \in Files /\ b = do.f /\ do.pc \notin {"off", "idle"} /\ do'.pc \notin {"off", "idle"}
        /\ do'.f = do.f /\ m \in Nat /\ Course(m, q)'
    BY DEF SetOK
  <2> QED BY <1>2, <1>4, <1>5, <1>6, <2>1, LaidStep
<1>8. Synced'
  BY <1>1, <1>2 DEF Kept, Synced, Untouched, store, rest, SetOK
<1>9. QED BY <1>7, <1>8 DEF Kept

LEMMA KeptScan ==
  ASSUME Sizes, Basic, Kept, fails = 0, Scan
  PROVE  Kept'
<1>1. /\ do.pc = "scan" /\ do.c \in Clusters /\ csec = Sector(do.c) /\ ~half
      /\ cbuf[do.c] = Fat[do.c]
  BY LoadedFacts, FatType DEF Basic, Doing, Scan
<1>2. /\ do.f \in Files /\ do.what = "write"
      /\ IF do.before = 0 THEN Dir[do.f].first = 0 ELSE Used(do.before) /\ Dir[do.f].first # 0
  BY <1>1 DEF Basic, Types, DoType, Doing, Writing
<1>3. Synced /\ ~do.grown
  BY <1>1 DEF Kept, Synced
<1>4. PICK n, p : Laid(n, p)
  BY DEF Kept
<1>5. PICK b \in Files : b = do.f
  BY <1>2
<1>6. PICK size \in Nat : size = Dir[b].size
  BY DirType DEF Basic, Sizes
<1>7. /\ n[b] = size
      /\ IF size = 0 THEN do.before = 0 ELSE do.before = p[b][size - 1] /\ do.left = 1
  BY <1>1, <1>4, <1>5, <1>6 DEF Laid, Course
<1>8. do.before = 0 => size = 0
  <2> SUFFICES ASSUME size # 0 PROVE do.before \in Clusters
    BY ClusterFacts
  <2>1. size - 1 \in 0 .. n[b] - 1
    BY <1>7
  <2> QED BY <1>4, <1>7, <2>1, LaidFacts
<1>9. CASE Fat[do.c] = 0
  <2>1. Set(do.c, Eof, [do EXCEPT !.pc = IF do.before = 0 THEN "data" ELSE "link"])
    BY <1>1, <1>9 DEF Scan
  <2>2. PICK d : d = [do EXCEPT !.pc = IF do.before = 0 THEN "data" ELSE "link"]
    OBVIOUS
  <2>3. Set(do.c, Eof, d) /\ Eof \in Clusters \cup {0, Eof}
    BY <2>1, <2>2
  <2>4. do' = d /\ Dir' = Dir
    BY <1>1, <2>3, SetEffect, SMTT(30)
  <2>5. /\ do'.pc = IF do.before = 0 THEN "data" ELSE "link"
        /\ do'.c = do.c /\ do'.before = do.before /\ do'.f = do.f /\ do'.what = do.what
        /\ do'.left = do.left /\ do'.grown = do.grown
    BY <2>2, <2>4, CallTypes DEF Basic
  <2>6. \A f \in Files : \A i \in 0 .. n[f] - 1 : do.c # p[f][i]
    BY <1>4, <1>9, LaidFacts
  <2>7. \A c \in Clusters : [Fat EXCEPT ![do.c] = Eof][c] = IF c = do.c THEN Eof ELSE Fat[c]
    BY FatType DEF Basic, Entries
  <2>8. CASE do.before = 0
    <3>1. PICK m \in Nat : m = 1
      OBVIOUS
    <3>2. PICK q : q = [i \in 0 .. m - 1 |-> do.c]
      OBVIOUS
    <3>3. Begin(b)' = do.c
      BY <1>2, <1>5, <2>4, <2>5, <2>8 DEF Begin, Busy
    <3>4. Path([Fat EXCEPT ![do.c] = Eof], Begin(b)', m, q)
      BY <1>1, <2>7, <3>1, <3>2, <3>3 DEF Path
    <3>5. Course(m, q)'
      BY <1>5, <1>6, <1>8, <2>4, <2>5, <2>8, <3>1 DEF Course
    <3>6. 0 \in 0 .. m - 1 /\ \A j \in 0 .. m - 1 : q[j] = do.c
      BY <3>1, <3>2
    <3>7. n[b] = 0
      BY <1>7, <1>8, <2>8
    <3>8. \A c \in Clusters :
           \/ do'.pc = "link" /\ c = do'.c
           \/ \E i \in 0 .. m - 1 : q[i] = c
           \/ \E f \in Files : f # b /\ \E i \in 0 .. n[f] - 1 : p[f][i] = c
           \/ c # do.c /\ Fat[c] = 0
      <4> SUFFICES ASSUME NEW c \in Clusters, c # do.c, Fat[c] # 0
                   PROVE  \E f \in Files : f # b /\ \E i \in 0 .. n[f] - 1 : p[f][i] = c
        BY <3>6
      <4>1. PICK f \in Files : \E i \in 0 .. n[f] - 1 : p[f][i] = c
        BY <1>1, <1>4 DEF Laid
      <4> QED BY <3>7, <4>1
    <3>9. \A f \in Files : f # b => \A i \in 0 .. n[f] - 1 :
           do.c # p[f][i] /\ \A j \in 0 .. m - 1 : q[j] # p[f][i]
      BY <2>6, <3>6
    <3>10. /\ do.pc \notin {"off", "idle"} /\ do'.f = do.f
          /\ do'.pc \notin {"off", "idle", "clear", "done"}
          /\ ~ (do'.pc = "scan" \/ (do'.pc = "dir" /\ do'.what = "create"))
          /\ (do'.pc = "free" \/ (do'.pc = "dir" /\ do'.what = "unlink") => Dir[b].first # 0)
          /\ (do'.grown => do'.pc \in {"dir", "flush"})
      BY <1>1, <1>3, <2>5, <2>8
    <3>11. PICK x \in Clusters : x = do.c
      BY <1>1
    <3>12. SetOK(x, Eof, d, b, n, p, m, q)
      BY <1>1, <1>5, <2>3, <3>4, <3>5, <3>8, <3>9, <3>10, <3>11 DEF SetOK
    <3> QED BY <1>4, <3>12, KeptSet
  <2>9. CASE do.before # 0
    <3>1. PICK m \in Nat, q \in {p[b]} : m = n[b] /\ q = p[b]
      BY <1>4 DEF Laid
    <3>2. Begin(b)' = Begin(b)
      BY <1>1, <1>5, <2>4, <2>5, <2>9 DEF Begin, Busy
    <3>3. Path(Fat, Begin(b), m, q)
      BY <1>4, <3>1 DEF Laid
    <3>4. \A i \in 0 .. m - 1 : q[i] \in Clusters /\ do.c # q[i]
      BY <1>4, <2>6, <3>1, LaidFacts
    <3>5. Path([Fat EXCEPT ![do.c] = Eof], Begin(b)', m, q)
      BY <2>7, <3>2, <3>3, <3>4 DEF Path
    <3>6. Course(m, q)'
      BY <1>5, <1>6, <1>7, <2>4, <2>5, <2>9, <3>1 DEF Course
    <3>7. \A f \in Files : f # b => \A i \in 0 .. n[f] - 1 : \A j \in 0 .. m - 1 : q[j] # p[f][i]
      BY <1>4, <3>1 DEF Laid
    <3>8. \A c \in Clusters :
           \/ do'.pc = "link" /\ c = do'.c
           \/ \E i \in 0 .. m - 1 : q[i] = c
           \/ \E f \in Files : f # b /\ \E i \in 0 .. n[f] - 1 : p[f][i] = c
           \/ c # do.c /\ Fat[c] = 0
      <4> SUFFICES ASSUME NEW c \in Clusters, c # do.c, Fat[c] # 0
                   PROVE  \E f \in Files : \E i \in 0 .. n[f] - 1 : p[f][i] = c
        BY <2>5, <2>9, <3>1
      <4> QED BY <1>1, <1>4 DEF Laid
    <3>9. \A f \in Files : f # b => \A i \in 0 .. n[f] - 1 :
           do.c # p[f][i] /\ \A j \in 0 .. m - 1 : q[j] # p[f][i]
      BY <2>6, <3>7
    <3>10. /\ do.pc \notin {"off", "idle"} /\ do'.f = do.f
           /\ do'.pc \notin {"off", "idle", "clear", "done"}
           /\ ~ (do'.pc = "scan" \/ (do'.pc = "dir" /\ do'.what = "create"))
           /\ (do'.pc = "free" \/ (do'.pc = "dir" /\ do'.what = "unlink") => Dir[b].first # 0)
           /\ (do'.grown => do'.pc \in {"dir", "flush"})
      BY <1>1, <1>3, <2>5, <2>9
    <3>11. PICK x \in Clusters : x = do.c
      BY <1>1
    <3>12. SetOK(x, Eof, d, b, n, p, m, q)
      BY <1>1, <1>5, <2>3, <3>5, <3>6, <3>8, <3>9, <3>10, <3>11 DEF SetOK
    <3> QED BY <1>4, <3>12, KeptSet
  <2> QED BY <2>8, <2>9
<1>10. CASE Fat[do.c] # 0
  <2>1. do' = ScanOn /\ UNCHANGED <<store, cache, fails, rest>>
    BY <1>1, <1>10 DEF Scan, Go
  <2>2. Fat' = Fat /\ Dir' = Dir /\ fat1' = fat1
    BY <2>1, FatKept DEF Basic, store, Dir, rest
  <2>3. /\ do'.f = do.f /\ do'.what = do.what /\ do'.before = do.before
        /\ do'.left = do.left /\ do'.grown = do.grown
        /\ \/ do'.pc = "scan"
           \/ do'.c = do.c /\ do'.pc = IF do.before = 0 THEN "done" ELSE "dir"
    BY <1>1, <2>1, CallTypes DEF Basic, ScanOn
  <2>4. do'.pc = "dir" => Entry'.first = Dir[b].first /\ Entry'.size = size
    <3>1. PICK old \in [is : BOOLEAN, first : Clusters \cup {0}, size : 0 .. MaxLen] : old = Dir[b]
      BY DirType DEF Basic
    <3>2. do'.pc = "dir" => Entry' = [is |-> TRUE, first |-> old.first, size |-> old.size + 0]
      BY <1>2, <1>3, <1>5, <2>2, <2>3, <3>1 DEF Entry
    <3> QED BY <1>6, <3>1, <3>2
  <2>5. Course(n[do.f], p[do.f])'
    BY <1>2, <1>5, <1>6, <1>7, <1>8, <2>2, <2>3, <2>4 DEF Course
  <2>6. Begin(do.f)' = Begin(do.f)
    BY <1>1, <1>5, <2>2, <2>3, <2>4 DEF Begin, Busy
  <2>7. \E k, r : Laid(k, r)'
    BY <1>1, <1>4, <2>2, <2>3, <2>5, <2>6, LaidGo
  <2>8. Synced'
    BY <1>1, <1>2, <1>3, <2>1, <2>2, <2>3 DEF Synced, Untouched, store, cache, rest
  <2> QED BY <2>7, <2>8 DEF Kept
<1>11. QED BY <1>9, <1>10

(* The cluster alloc_cluster has taken is on no path yet. *)
LEMMA Detached ==
  ASSUME Sizes, Basic, do.pc = "link", NEW n, NEW p, Laid(n, p), NEW f \in Files,
         NEW i \in 0 .. n[f] - 1
  PROVE  do.c # p[f][i]
<1>1. NoPred(do.c) /\ NoHead(do.c)
  BY DEF Basic, Doing
<1>2. CASE i = 0
  <2>1. Begin(f) = p[f][0]
    BY <1>2, LaidFacts
  <2>2. Begin(f) = Dir[f].first
    BY DEF Begin, Busy
  <2> QED BY <1>1, <1>2, <2>1, <2>2 DEF NoHead
<1>3. CASE i # 0
  <2>1. n[f] \in Nat
    BY LaidFacts
  <2>2. i - 1 \in 0 .. n[f] - 1 /\ i - 1 # n[f] - 1 /\ (i - 1) + 1 = i
    BY <1>3, <2>1
  <2>3. PICK j \in 0 .. n[f] - 1 : j = i - 1
    BY <2>2
  <2>4. p[f][j] \in Clusters /\ Fat[p[f][j]] = p[f][j + 1]
    BY <2>2, <2>3, LaidFacts
  <2> QED BY <1>1, <2>2, <2>3, <2>4 DEF NoPred
<1>4. QED BY <1>2, <1>3

LEMMA KeptLink ==
  ASSUME Sizes, Basic, Kept, fails = 0, Link
  PROVE  Kept'
<1>1. do.pc = "link" /\ Loaded /\ Set(do.before, do.c, [do EXCEPT !.pc = "mark"])
  BY DEF Link
<1>2. /\ Dir[do.f].first # 0 /\ do.f \in Files /\ do.what = "write" /\ Fat[do.c] = Eof
      /\ do.before \in Clusters /\ do.c \in Clusters /\ do.before # do.c
  BY <1>1 DEF Basic, Types, DoType, Doing, Writing, Used
<1>3. csec = Sector(do.before) /\ ~half
  BY <1>1, LoadedFacts
<1>4. ~do.grown
  BY <1>1 DEF Kept, Synced
<1>5. PICK n, p : Laid(n, p)
  BY DEF Kept
<1>6. PICK b \in Files : b = do.f
  BY <1>2
<1>7. PICK size \in Nat : size = Dir[b].size
  BY DirType DEF Basic, Sizes
<1>8. n[b] = size /\ size > 0 /\ do.before = p[b][size - 1] /\ do.left = 1
  BY <1>1, <1>5, <1>6, <1>7 DEF Laid, Course
<1>9. PICK d : d = [do EXCEPT !.pc = "mark"]
  OBVIOUS
<1>10. PICK x \in Clusters, v \in Clusters : x = do.before /\ v = do.c
  BY <1>2
<1>11. Set(x, v, d) /\ Sector(x) = csec
  BY <1>1, <1>3, <1>9, <1>10
<1>12. do' = d /\ Dir' = Dir
  BY <1>3, <1>11, SetEffect
<1>13. /\ do'.pc = "mark" /\ do'.c = v /\ do'.before = do.before /\ do'.f = do.f
       /\ do'.what = do.what /\ do'.left = do.left /\ do'.grown = do.grown
  BY <1>9, <1>10, <1>12, CallTypes DEF Basic
<1>14. PICK m \in Nat : m = size + 1
  OBVIOUS
<1>15. PICK q : q = [i \in 0 .. m - 1 |-> IF i = size THEN v ELSE p[b][i]]
  OBVIOUS
<1>16. /\ size \in 0 .. m - 1 /\ q[size] = v
       /\ \A i \in 0 .. size - 1 : i \in 0 .. m - 1 /\ q[i] = p[b][i]
       /\ \A i \in 0 .. m - 1 : i = size \/ i \in 0 .. size - 1
  BY <1>14, <1>15
<1>17. \A f \in Files : \A i \in 0 .. n[f] - 1 : p[f][i] # v
  BY <1>1, <1>5, <1>10, Detached
<1>18. \A i \in 0 .. size - 1 : /\ p[b][i] \in Clusters
                                /\ i # size - 1 => Fat[p[b][i]] = p[b][i + 1] /\ i + 1 \in 0 .. size - 1
  BY <1>5, <1>8, LaidFacts
<1>19. \A i, j \in 0 .. size - 1 : p[b][i] = p[b][j] => i = j
  <2>1. Path(Fat, Begin(b), size, p[b])
    BY <1>5, <1>8 DEF Laid
  <2> QED BY <2>1 DEF Path
<1>20. \A c \in Clusters : [Fat EXCEPT ![x] = v][c] = IF c = x THEN v ELSE Fat[c]
  BY FatType DEF Basic, Entries
<1>21. Path([Fat EXCEPT ![x] = v], Begin(b)', m, q)
  <2>1. Begin(b)' = q[0]
    <3>1. Begin(b)' = Begin(b)
      BY <1>1, <1>6, <1>12, <1>13 DEF Begin, Busy
    <3>2. Begin(b) = p[b][0] /\ 0 \in 0 .. size - 1
      BY <1>5, <1>8, LaidFacts
    <3> QED BY <1>16, <3>1, <3>2
  <2>2. q \in [0 .. m - 1 -> Clusters]
    <3>1. ASSUME NEW i \in 0 .. m - 1
          PROVE  q[i] \in Clusters
      <4>1. CASE i = size
        BY <1>16, <4>1
      <4>2. CASE i \in 0 .. size - 1
        <5>1. q[i] = p[b][i]
          BY <1>16, <4>2
        <5>2. p[b][i] \in Clusters
          BY <1>18, <4>2
        <5> QED BY <5>1, <5>2
      <4> QED BY <1>16, <4>1, <4>2
    <3> QED BY <1>15, <3>1
  <2>3. ASSUME NEW i \in 0 .. m - 1
        PROVE  [Fat EXCEPT ![x] = v][q[i]] = IF i = m - 1 THEN Eof ELSE q[i + 1]
    <3>1. CASE i = size
      BY <1>2, <1>10, <1>14, <1>16, <1>20, <3>1
    <3>2. CASE i \in 0 .. size - 1 /\ i = size - 1
      <4>1. q[i] = x /\ i + 1 = size /\ i # m - 1
        BY <1>8, <1>10, <1>14, <1>16, <3>2
      <4> QED BY <1>16, <1>20, <4>1
    <3>3. CASE i \in 0 .. size - 1 /\ i # size - 1
      <4>1. i + 1 \in 0 .. size - 1 /\ size - 1 \in 0 .. size - 1 /\ i # m - 1
        BY <1>8, <1>14, <3>3
      <4>2. p[b][i] # x
        BY <1>8, <1>10, <1>19, <3>3, <4>1
      <4>3. q[i] = p[b][i] /\ q[i + 1] = p[b][i + 1] /\ Fat[p[b][i]] = p[b][i + 1] /\ p[b][i] \in Clusters
        <5>1. q[i] = p[b][i]
          BY <1>16, <3>3
        <5>4. p[b][i] \in Clusters /\ Fat[p[b][i]] = p[b][i + 1]
          BY <1>18, <3>3
        <5>2. PICK j \in 0 .. size - 1 : j = i + 1
          BY <4>1
        <5>3. q[j] = p[b][j]
          BY <1>16
        <5> QED BY <5>1, <5>2, <5>3, <5>4
      <4>4. [Fat EXCEPT ![x] = v][p[b][i]] = Fat[p[b][i]]
        BY <1>20, <4>2, <4>3
      <4> QED BY <4>1, <4>3, <4>4
    <3> QED BY <1>16, <3>1, <3>2, <3>3
  <2>4. ASSUME NEW i \in 0 .. m - 1, NEW j \in 0 .. m - 1, q[i] = q[j]
        PROVE  i = j
    BY <1>8, <1>16, <1>17, <1>19, <2>4
  <2>5. m # 0
    BY <1>14
  <2> QED BY <2>1, <2>2, <2>3, <2>4, <2>5 DEF Path
<1>22. Course(m, q)'
  <2>1. do'.left = 1 /\ Dir'[do'.f].size = size /\ do'.c = q[size] /\ m = size + 1 /\ size > 0
    BY <1>6, <1>7, <1>8, <1>12, <1>13, <1>14, <1>16
  <2> QED BY <1>13, <2>1 DEF Course
<1>23. \A f \in Files : f # b => \A i \in 0 .. n[f] - 1 :
         x # p[f][i] /\ \A j \in 0 .. m - 1 : q[j] # p[f][i]
  <2>1. \A f \in Files : f # b => \A i \in 0 .. n[f] - 1 : \A j \in 0 .. n[b] - 1 : p[b][j] # p[f][i]
    BY <1>5 DEF Laid
  <2>2. size - 1 \in 0 .. size - 1 /\ x = p[b][size - 1]
    BY <1>8, <1>10
  <2> QED BY <1>8, <1>16, <1>17, <2>1, <2>2
<1>24. \A c \in Clusters :
         \/ \E i \in 0 .. m - 1 : q[i] = c
         \/ \E f \in Files : f # b /\ \E i \in 0 .. n[f] - 1 : p[f][i] = c
         \/ c # x /\ Fat[c] = 0
  <2> SUFFICES ASSUME NEW c \in Clusters, ~ (\E i \in 0 .. m - 1 : q[i] = c),
                      ~ (\E f \in Files : f # b /\ \E i \in 0 .. n[f] - 1 : p[f][i] = c)
               PROVE  c # x /\ Fat[c] = 0
    OBVIOUS
  <2>1. c # x
    BY <1>8, <1>10, <1>16
  <2>2. Fat[c] # 0 => \E f \in Files : \E i \in 0 .. n[f] - 1 : p[f][i] = c
    BY <1>5, <1>10, <1>16 DEF Laid
  <2>3. ~ \E i \in 0 .. n[b] - 1 : p[b][i] = c
    BY <1>8, <1>16
  <2> QED BY <2>1, <2>2, <2>3
<1>25. SetOK(x, v, d, b, n, p, m, q)
  BY <1>1, <1>3, <1>4, <1>6, <1>11, <1>13, <1>21, <1>22, <1>23, <1>24 DEF SetOK
<1>26. QED BY <1>5, <1>25, KeptSet

LEMMA KeptMark ==
  ASSUME Sizes, Basic, Kept, fails = 0, Mark
  PROVE  Kept'
<1>1. do.pc = "mark" /\ Loaded /\ Set(do.c, Eof, Stepped(do.c))
  BY DEF Mark
<1>2. do.f \in Files /\ do.c \in Clusters /\ Dir[do.f].first # 0
  BY <1>1 DEF Basic, Types, DoType, Doing, Used
<1>3. csec = Sector(do.c) /\ ~half
  BY <1>1, LoadedFacts
<1>4. ~do.grown
  BY <1>1 DEF Kept, Synced
<1>5. PICK n, p : Laid(n, p)
  BY DEF Kept
<1>6. PICK b \in Files : b = do.f
  BY <1>2
<1>7. PICK size \in Nat : size = Dir[b].size
  BY DirType DEF Basic, Sizes
<1>8. n[b] = size + 1 /\ size > 0 /\ do.c = p[b][size] /\ do.left = 1
  BY <1>1, <1>5, <1>6, <1>7 DEF Laid, Course
<1>9. PICK d : d = Stepped(do.c)
  OBVIOUS
<1>10. PICK x \in Clusters, v \in {Eof} : x = do.c
  BY <1>2
<1>11. Set(x, v, d) /\ Sector(x) = csec
  BY <1>1, <1>3, <1>9, <1>10
<1>12. do' = d /\ Dir' = Dir
  BY <1>3, <1>11, SetEffect
<1>13. do'.pc = "data" /\ do'.c = do.c /\ do'.f = do.f /\ do'.grown = do.grown
  BY <1>8, <1>9, <1>12, CallTypes DEF Basic, Stepped
<1>14. PICK m \in Nat, q \in {p[b]} : m = n[b] /\ q = p[b]
  BY <1>5 DEF Laid
<1>15. size \in 0 .. n[b] - 1 /\ size = n[b] - 1 /\ Fat[x] = v
  <2>1. size \in 0 .. n[b] - 1 /\ size = n[b] - 1
    BY <1>8
  <2> QED BY <1>5, <1>8, <1>10, <2>1, LaidFacts
<1>16. [Fat EXCEPT ![x] = v] = Fat
  BY <1>15, FatType DEF Basic, Entries
<1>17. Begin(b)' = Begin(b)
  BY <1>1, <1>2, <1>6, <1>12, <1>13 DEF Begin, Busy
<1>18. Path([Fat EXCEPT ![x] = v], Begin(b)', m, q)
  BY <1>5, <1>14, <1>16, <1>17 DEF Laid
<1>19. Course(m, q)'
  BY <1>6, <1>7, <1>8, <1>12, <1>13, <1>14 DEF Course
<1>20. \A f \in Files : f # b => \A i \in 0 .. n[f] - 1 :
         x # p[f][i] /\ \A j \in 0 .. m - 1 : q[j] # p[f][i]
  <2>1. \A f \in Files : f # b => \A i \in 0 .. n[f] - 1 : \A j \in 0 .. n[b] - 1 : p[b][j] # p[f][i]
    BY <1>5 DEF Laid
  <2> QED BY <1>8, <1>10, <1>14, <1>15, <2>1
<1>21. \A c \in Clusters :
         \/ \E i \in 0 .. m - 1 : q[i] = c
         \/ \E f \in Files : f # b /\ \E i \in 0 .. n[f] - 1 : p[f][i] = c
         \/ c # x /\ Fat[c] = 0
  <2> SUFFICES ASSUME NEW c \in Clusters, c = x \/ Fat[c] # 0
               PROVE  \E f \in Files : \E i \in 0 .. n[f] - 1 : p[f][i] = c
    BY <1>14
  <2>1. Fat[c] # 0
    BY <1>15, ClusterFacts
  <2> QED BY <1>1, <1>5, <2>1 DEF Laid
<1>22. SetOK(x, v, d, b, n, p, m, q)
  BY <1>1, <1>3, <1>4, <1>6, <1>11, <1>13, <1>18, <1>19, <1>20, <1>21 DEF SetOK
<1>23. QED BY <1>5, <1>22, KeptSet

LEMMA KeptFree ==
  ASSUME Sizes, Basic, Kept, fails = 0, Free
  PROVE  Kept'
<1>1. do.pc = "free" /\ Loaded /\ Set(do.c, 0, FreeOn(cbuf[do.c]))
  BY DEF Free
<1>2. do.f \in Files /\ do.c \in Clusters /\ do.what = "unlink"
  BY <1>1 DEF Basic, Types, DoType, Doing, Freeing
<1>3. csec = Sector(do.c) /\ ~half /\ cbuf[do.c] = Fat[do.c]
  BY <1>1, <1>2, LoadedFacts, FatType DEF Basic
<1>4. ~do.grown
  BY <1>1 DEF Kept, Synced
<1>5. PICK n, p : Laid(n, p)
  BY DEF Kept
<1>6. PICK b \in Files : b = do.f
  BY <1>2
<1>7. n[b] \in Nat /\ n[b] > 0 /\ 0 \in 0 .. n[b] - 1
  <2>1. n[b] \in Nat /\ n[b] > 0
    BY <1>1, <1>5, <1>6 DEF Laid, Course
  <2> QED BY <2>1
<1>8. do.c = p[b][0] /\ Path(Fat, do.c, n[b], p[b])
  <2>1. Begin(b) = do.c
    BY <1>1, <1>6 DEF Begin, Busy
  <2> QED BY <1>5, <1>7, <2>1, LaidFacts DEF Laid
<1>9. Fat[do.c] = IF n[b] = 1 THEN Eof ELSE p[b][1]
  BY <1>5, <1>7, <1>8, LaidFacts
<1>10. PICK d : d = FreeOn(Fat[do.c])
  OBVIOUS
<1>11. PICK x \in Clusters, v \in {0} : x = do.c
  BY <1>2
<1>12. Set(x, v, d) /\ Sector(x) = csec
  BY <1>1, <1>3, <1>10, <1>11
<1>13. do' = d /\ Dir' = Dir
  BY <1>3, <1>12, SetEffect
<1>14. PICK m \in Nat : m = n[b] - 1
  BY <1>7
<1>15. PICK q : q = [i \in 0 .. m - 1 |-> p[b][i + 1]]
  OBVIOUS
<1>16. ASSUME NEW i \in 0 .. m - 1
       PROVE  /\ i + 1 \in 0 .. n[b] - 1 /\ q[i] = p[b][i + 1] /\ q[i] \in Clusters /\ q[i] # x
              /\ Fat[q[i]] = IF i = m - 1 THEN Eof ELSE q[i + 1]
  <2>1. PICK j \in 0 .. n[b] - 1 : j = i + 1
    BY <1>7, <1>14
  <2>2. q[i] = p[b][j]
    BY <1>15, <2>1
  <2>3. p[b][j] \in Clusters /\ Fat[p[b][j]] = IF j = n[b] - 1 THEN Eof ELSE p[b][j + 1]
    BY <1>5, LaidFacts
  <2>4. p[b][j] # p[b][0]
    BY <1>7, <1>8, <2>1 DEF Path
  <2>5. i # m - 1 => q[i + 1] = p[b][j + 1]
    BY <1>7, <1>14, <1>15, <2>1
  <2>6. i = m - 1 <=> j = n[b] - 1
    BY <1>7, <1>14, <2>1
  <2> QED BY <1>8, <1>11, <2>1, <2>2, <2>3, <2>4, <2>5, <2>6
<1>17. \A c \in Clusters : [Fat EXCEPT ![x] = v][c] = IF c = x THEN v ELSE Fat[c]
  BY FatType DEF Basic, Entries
<1>18. /\ do'.f = do.f /\ do'.what = do.what /\ do'.grown = do.grown
       /\ IF m = 0 THEN do'.pc = "dir" ELSE do'.pc = "free" /\ do'.c = q[0]
  <2>1. CASE m = 0
    <3>1. d = [do EXCEPT !.pc = "dir"]
      BY <1>7, <1>9, <1>10, <1>14, <2>1, ClusterFacts DEF FreeOn
    <3> QED BY <1>13, <2>1, <3>1, CallTypes DEF Basic
  <2>2. CASE m # 0
    <3>1. 0 \in 0 .. m - 1 /\ n[b] # 1
      BY <1>7, <1>14, <2>2
    <3>2. q[0] \in Clusters /\ Fat[do.c] = q[0]
      BY <1>9, <1>16, <3>1
    <3>3. d = [do EXCEPT !.c = q[0]]
      BY <1>10, <3>2 DEF FreeOn
    <3> QED BY <1>1, <1>13, <2>2, <3>3, CallTypes DEF Basic
  <2> QED BY <2>1, <2>2
<1>19. Begin(b)' = IF m = 0 THEN 0 ELSE q[0]
  <2>1. m = 0 => Entry'.first = 0
    BY <1>2, <1>18 DEF Entry, NoEntry
  <2> QED BY <1>6, <1>18, <2>1 DEF Begin, Busy
<1>20. Path([Fat EXCEPT ![x] = v], Begin(b)', m, q)
  <2>1. q \in [0 .. m - 1 -> Clusters]
    BY <1>15, <1>16
  <2>2. ASSUME NEW i \in 0 .. m - 1
        PROVE  [Fat EXCEPT ![x] = v][q[i]] = IF i = m - 1 THEN Eof ELSE q[i + 1]
    BY <1>16, <1>17
  <2>3. ASSUME NEW i \in 0 .. m - 1, NEW j \in 0 .. m - 1, q[i] = q[j]
        PROVE  i = j
    <3>1. i + 1 = j + 1
      BY <1>8, <1>16, <2>3 DEF Path
    <3> QED BY <3>1
  <2> QED BY <1>19, <2>1, <2>2, <2>3 DEF Path
<1>21. Course(m, q)'
  <2>1. do'.pc = "dir" => Entry'.size = m
    BY <1>2, <1>18 DEF Entry, NoEntry
  <2>2. do'.pc = "dir" \/ (do'.pc = "free" /\ m > 0)
    BY <1>18
  <2> QED BY <2>1, <2>2 DEF Course
<1>22. \A f \in Files : f # b => \A i \in 0 .. n[f] - 1 :
         x # p[f][i] /\ \A j \in 0 .. m - 1 : q[j] # p[f][i]
  <2>1. \A f \in Files : f # b => \A i \in 0 .. n[f] - 1 : \A j \in 0 .. n[b] - 1 : p[b][j] # p[f][i]
    BY <1>5 DEF Laid
  <2> QED BY <1>7, <1>8, <1>11, <1>16, <2>1
<1>23. \A c \in Clusters :
         \/ c = x
         \/ \E i \in 0 .. m - 1 : q[i] = c
         \/ \E f \in Files : f # b /\ \E i \in 0 .. n[f] - 1 : p[f][i] = c
         \/ c # x /\ Fat[c] = 0
  <2> SUFFICES ASSUME NEW c \in Clusters, c # x, Fat[c] # 0,
                      ~ (\E f \in Files : f # b /\ \E i \in 0 .. n[f] - 1 : p[f][i] = c)
               PROVE  \E i \in 0 .. m - 1 : q[i] = c
    OBVIOUS
  <2>1. PICK j \in 0 .. n[b] - 1 : p[b][j] = c
    BY <1>1, <1>5 DEF Laid
  <2>2. PICK i \in 0 .. m - 1 : j = i + 1
    <3>1. j # 0
      BY <1>8, <1>11, <2>1
    <3>2. j - 1 \in 0 .. m - 1 /\ j = (j - 1) + 1
      BY <1>7, <1>14, <3>1
    <3> QED BY <3>2
  <2> QED BY <1>16, <2>1, <2>2
<1>24. Dir[b].first # 0
  BY <1>1, <1>6 DEF Kept, Synced
<1>25. SetOK(x, v, d, b, n, p, m, q)
  BY <1>1, <1>2, <1>3, <1>4, <1>6, <1>12, <1>18, <1>20, <1>21, <1>22, <1>23, <1>24 DEF SetOK
<1>26. QED BY <1>5, <1>25, KeptSet

LEMMA KeptDir ==
  ASSUME Sizes, Basic, Kept, fails = 0, DirUpdate
  PROVE  Kept'
<1>1. do.pc = "dir" /\ UNCHANGED <<fat1, fat2, cache, fails, rest>>
  BY DEF DirUpdate
<1>2. PICK e : e = Entry
  OBVIOUS
<1>3. PICK b \in Files : b = do.f
  BY <1>1, EntryFacts
<1>4. /\ disk' = [Dir EXCEPT ![b] = e] /\ root' = IF inRoot THEN [Dir EXCEPT ![b] = e] ELSE root
      /\ do' = [do EXCEPT !.pc = IF do.what = "create" THEN "done" ELSE "flush"]
  BY <1>2, <1>3 DEF DirUpdate
<1>5. /\ do'.pc = (IF do.what = "create" THEN "done" ELSE "flush")
      /\ do'.f = do.f /\ do'.what = do.what
  BY <1>4, CallTypes DEF Basic
<1>6. Fat' = Fat /\ fat1' = fat1 /\ inRoot' = inRoot
  BY <1>1, FatKept DEF Basic, rest
<1>7. Dir' = [Dir EXCEPT ![b] = e] /\ (inRoot' => disk' = root')
  BY <1>4, <1>6 DEF Dir
<1>8. Dir'[b] = e /\ \A f \in Files : f # b => Dir'[f] = Dir[f]
  BY <1>7, DirType DEF Basic, Dirs
<1>9. PICK n, p : Laid(n, p)
  BY DEF Kept
<1>10. PICK m \in Nat, q \in {p[b]} : m = n[b] /\ q = p[b]
  BY <1>9 DEF Laid
<1>11. m = e.size /\ Begin(b) = e.first
  BY <1>1, <1>2, <1>3, <1>9, <1>10 DEF Laid, Course, Begin, Busy
<1>12. Begin(b)' = Begin(b)
  BY <1>5, <1>8, <1>11 DEF Begin
<1>13. Path(Fat, Begin(b), m, q)
  BY <1>9, <1>10 DEF Laid
<1>14. Path(Fat, Begin(b), m, q)'
  BY <1>6, <1>12, <1>13 DEF Path
<1>15. Course(m, q)'
  BY <1>3, <1>5, <1>8, <1>11 DEF Course
<1>16. Dir'[b].first = 0 \/ (m > 0 /\ Dir'[b].first = q[0])
  BY <1>8, <1>11, <1>13 DEF Path
<1>17. \A f \in Files : f # b => \A i \in 0 .. n[f] - 1 : \A j \in 0 .. m - 1 : q[j] # p[f][i]
  BY <1>9, <1>10 DEF Laid
<1>18. \A c \in Clusters : Fat'[c] # 0 =>
           \/ \E i \in 0 .. m - 1 : q[i] = c
           \/ \E f \in Files : f # b /\ \E i \in 0 .. n[f] - 1 : p[f][i] = c
  BY <1>1, <1>6, <1>9, <1>10 DEF Laid
<1>19. \E k, r : Laid(k, r)'
  <2>1. do.pc \notin {"off", "idle"} /\ do'.pc \notin {"off", "idle"} /\ do'.f = do.f
    BY <1>1, <1>5
  <2>2. \A f \in Files : f # b => \A i \in 0 .. n[f] - 1 :
          Fat'[p[f][i]] = Fat[p[f][i]] /\ \A j \in 0 .. m - 1 : q[j] # p[f][i]
    BY <1>6, <1>17
  <2> QED BY <1>3, <1>6, <1>8, <1>9, <1>14, <1>15, <1>16, <1>18, <2>1, <2>2, LaidStep
<1>20. \A f \in Files : ~Dir'[f].is => Dir'[f].first = 0
  <2>1. ~e.is => e.first = 0
    BY <1>2 DEF Entry, NoEntry
  <2>2. \A f \in Files : ~Dir[f].is => Dir[f].first = 0
    BY DEF Kept, Synced
  <2> QED BY <1>8, <2>1, <2>2
<1>21. ~cdirty' \/ do'.pc = "flush"
  BY <1>1, <1>5 DEF Kept, Synced, Untouched, cache
<1>22. Synced'
  BY <1>1, <1>5, <1>7, <1>20, <1>21 DEF Kept, Synced, Untouched, cache
<1>23. QED BY <1>19, <1>22 DEF Kept

(* The path of a file no call is about is settled once the first FAT has   *)
(* what Fat has.                                                           *)
LEMMA Settles ==
  ASSUME Sizes, Basic, NEW n, NEW p, Laid(n, p), NEW f \in Files, n[f] = Dir[f].size,
         NEW fat, \A c \in Clusters : fat[c] = Fat[c] \/ fat[c] = fat1[c],
         \A i \in 0 .. n[f] - 1 : fat[p[f][i]] = Fat[p[f][i]],
         Settled(f, n[f], p[f]) \/ \A c \in Clusters : fat[c] = Fat[c]
  PROVE  /\ \A i \in 0 .. n[f] - 1, a \in Clusters :
              fat[a] = p[f][i] => \E j \in 0 .. n[f] - 1 : a = p[f][j]
         /\ (\A g \in Files : g # f => Begin(g) = Dir[g].first) =>
              \A i \in 0 .. n[f] - 1, g \in Files : Dir[g].first = p[f][i] => g = f
<1>1. ASSUME NEW i \in 0 .. n[f] - 1, NEW a \in Clusters, fat[a] = p[f][i]
      PROVE  \E j \in 0 .. n[f] - 1 : a = p[f][j]
  <2>1. CASE fat[a] = Fat[a]
    <3>1. Fat[a] = p[f][i]
      BY <1>1, <2>1
    <3> QED BY <3>1, LaidBack
  <2>2. CASE fat[a] # Fat[a]
    BY <1>1, <2>2 DEF Settled
  <2> QED BY <2>1, <2>2
<1>2. ASSUME \A g \in Files : g # f => Begin(g) = Dir[g].first,
             NEW i \in 0 .. n[f] - 1, NEW g \in Files, Dir[g].first = p[f][i], g # f
      PROVE  FALSE
  <2>1. Begin(g) = p[f][i] /\ p[f][i] # 0
    BY <1>2, LaidFacts, ClusterFacts
  <2>2. n[g] \in Nat /\ n[g] # 0 /\ p[g][0] = p[f][i]
    BY <2>1, LaidFacts
  <2>3. 0 \in 0 .. n[g] - 1
    BY <2>2
  <2> QED BY <1>2, <2>2, <2>3 DEF Laid
<1>3. QED BY <1>1, <1>2

LEMMA KeptReturn ==
  ASSUME Sizes, Basic, Kept, fails = 0, Return
  PROVE  Kept'
<1>1. do.pc \in {"done", "flush"} /\ do' = NoCall /\ UNCHANGED <<store, cache, fails, rest>>
  BY DEF Return
<1>2. Fat' = Fat /\ Dir' = Dir /\ fat1' = fat1 /\ cdirty' = cdirty
  BY <1>1, FatKept DEF Basic, store, Dir, rest, cache
<1>3. ~cdirty
  BY DEF Return, Kept, Synced, Untouched
<1>4. \A c \in Clusters : fat1[c] = Fat[c]
  BY <1>3, FatType DEF Basic, CacheOK
<1>5. do'.pc = "idle" /\ ~do'.grown
  BY <1>1 DEF NoCall
<1>6. PICK n, p : Laid(n, p)
  BY DEF Kept
<1>7. do.f \in Files
  BY <1>1, CallTypes DEF Basic
<1>8. \A f \in Files : Begin(f) = Dir[f].first /\ Begin(f)' = Dir[f].first /\ n[f] = Dir[f].size
  BY <1>1, <1>2, <1>5, <1>6 DEF Begin, Busy, Laid, Settled, Course
<1>9. ASSUME NEW f \in Files
      PROVE  Settled(f, n[f], p[f])'
  <2>1. n[f] = Dir[f].size /\ \A i \in 0 .. n[f] - 1 : fat1[p[f][i]] = Fat[p[f][i]]
    BY <1>4, <1>6, <1>8, LaidFacts
  <2>2. /\ \A i \in 0 .. n[f] - 1, a \in Clusters :
              fat1[a] = p[f][i] => \E j \in 0 .. n[f] - 1 : a = p[f][j]
        /\ \A i \in 0 .. n[f] - 1, g \in Files : Dir[g].first = p[f][i] => g = f
    BY <1>4, <1>6, <1>8, <2>1, Settles
  <2> QED BY <1>2, <2>1, <2>2 DEF Settled
<1>10. \E k, r : Laid(k, r)'
  BY <1>1, <1>2, <1>5, <1>6, <1>8, <1>9, LaidSame
<1>11. Synced'
  BY <1>1, <1>2, <1>3, <1>5 DEF Kept, Synced, Untouched, store, cache, rest
<1>12. QED BY <1>10, <1>11 DEF Kept

LEMMA KeptCache ==
  ASSUME Sizes, Basic, Kept, fails = 0, fails' = 0, Flush1 \/ Flush2 \/ Load
  PROVE  Kept'
<1>1. Fat' = Fat /\ UNCHANGED <<disk, root, do, inRoot>>
  BY FatKept DEF Basic, Flush1, Flush2, Load, store, rest
<1>2. Dir' = Dir
  BY <1>1 DEF Dir
<1>3. PICK n, p : Laid(n, p)
  BY DEF Kept
<1>4. \A f \in Files : Begin(f)' = Begin(f)
  BY <1>1, <1>2 DEF Begin, Busy, Entry
<1>5. do'.pc \notin {"off", "idle"} => Course(n[do.f], p[do.f])'
  BY <1>1, <1>2, <1>3 DEF Laid, Course, Entry
<1>6. PICK fat : fat = fat1'
  OBVIOUS
<1>7. \A c \in Clusters : fat[c] = fat1[c] \/ fat[c] = Fat[c]
  BY <1>6, FatType DEF Basic, Flush1, Flush2, Load, store
<1>8. \A c \in Clusters : fat1[c] = Fat[c] => fat[c] = Fat[c]
  BY <1>7
<1>9. ASSUME NEW f \in Files, ~Busy(f)'
      PROVE  Settled(f, n[f], p[f])'
  <2>1. Settled(f, n[f], p[f])
    BY <1>1, <1>3, <1>9 DEF Laid, Busy
  <2>2. /\ n[f] = Dir[f].size /\ \A i \in 0 .. n[f] - 1 : fat[p[f][i]] = Fat[p[f][i]]
        /\ \A i \in 0 .. n[f] - 1, g \in Files : Dir[g].first = p[f][i] => g = f
    BY <1>3, <1>8, <2>1, LaidFacts DEF Settled
  <2>3. \A i \in 0 .. n[f] - 1, a \in Clusters :
              fat[a] = p[f][i] => \E j \in 0 .. n[f] - 1 : a = p[f][j]
    BY <1>3, <1>7, <2>1, <2>2, Settles
  <2> QED BY <1>1, <1>2, <1>6, <2>2, <2>3 DEF Settled
<1>10. \E k, r : Laid(k, r)'
  BY <1>1, <1>3, <1>4, <1>5, <1>9, LaidSame
<1>11. \A c \in Clusters : (half' /\ Sector(c) = csec') \/ fat2'[c] = fat1'[c]
  <2>1. \A c \in Clusters : (half /\ Sector(c) = csec) \/ fat2[c] = fat1[c]
    BY DEF Kept, Synced
  <2>2. CASE Flush1
    BY <2>1, <2>2 DEF Flush1
  <2>3. CASE Flush2
    <3>1. \A c \in Clusters : fat2'[c] = IF Sector(c) = csec THEN cbuf[c] ELSE fat2[c]
      BY <2>3 DEF Flush2, MayFail
    <3> QED BY <2>1, <2>3, <3>1 DEF Flush2, Basic, CacheOK
  <2>4. CASE Load
    BY <2>1, <2>4 DEF Load, Basic, CacheOK, store
  <2> QED BY <2>2, <2>3, <2>4
<1>12. ~cdirty => ~cdirty'
  BY DEF Flush1, Flush2, Load
<1>13. Synced'
  BY <1>1, <1>2, <1>11, <1>12 DEF Kept, Synced, Untouched
<1>14. QED BY <1>10, <1>13 DEF Kept

(* Disk and memory stay as they are, and no call is under way, or the same. *)
LEMMA KeptStill ==
  ASSUME Sizes, Basic, Kept, fails = 0, UNCHANGED <<store, cache>>, Dir' = Dir,
         (do' = do /\ inRoot' = inRoot) \/ (do.pc = "off" /\ do' = NoCall)
  PROVE  Kept'
<1>1. fat1' = fat1 /\ Fat' = Fat
  BY FatKept DEF Basic, store
<1>2. PICK n, p : Laid(n, p)
  BY DEF Kept
<1>3. do' = do \/ (do.pc = "off" /\ do'.pc = "idle" /\ ~do'.grown)
  BY DEF NoCall
<1>4. \A f \in Files : Begin(f)' = Begin(f) /\ (Busy(f)' <=> Busy(f))
  BY <1>3 DEF Begin, Busy, Entry
<1>5. do'.pc \notin {"off", "idle"} => Course(n[do.f], p[do.f])'
  BY <1>2, <1>3 DEF Laid, Course, Entry
<1>6. \A f \in Files : ~Busy(f)' => Settled(f, n[f], p[f])'
  BY <1>1, <1>2, <1>4 DEF Laid, Settled
<1>7. \E k, r : Laid(k, r)'
  BY <1>1, <1>2, <1>3, <1>4, <1>5, <1>6, LaidSame
<1>8. Synced'
  <2>1. inRoot' => disk' = root'
    BY DEF Kept, Synced, Basic, Doing, store
  <2> QED BY <1>3, <2>1 DEF Kept, Synced, Untouched, store, cache
<1>9. QED BY <1>7, <1>8 DEF Kept

LEMMA KeptCall ==
  ASSUME Sizes, Basic, Kept, fails = 0, FsCreate \/ FsWrite \/ FsUnlink
  PROVE  Kept'
<1>1. PICK b \in Files : \E what, pc, c : Call(what, b, pc, c) /\ Begins(what, b, pc, c)
  BY CallBegins, Zenon
<1> PICK what, pc, c : Call(what, b, pc, c) /\ Begins(what, b, pc, c)
  BY <1>1
<1>2. /\ do.pc = "idle" /\ ~orphan /\ UNCHANGED <<store, cache, inRoot, fails, cut, orphan>>
      /\ do' = [what |-> what, f |-> b, pc |-> pc, c |-> c, before |-> 0, left |-> Dir[b].size, grown |-> FALSE]
  BY <1>1 DEF Call
<1>3. Fat' = Fat /\ Dir' = Dir /\ fat1' = fat1
  BY <1>2, FatKept DEF Basic, store, Dir
<1>4. PICK n, p : Laid(n, p)
  BY DEF Kept
<1>5. \A f \in Files : Settled(f, n[f], p[f]) /\ Begin(f) = Dir[f].first
  BY <1>2, <1>4 DEF Laid, Busy, Begin
<1>6. PICK size \in Nat : size = Dir[b].size
  BY DirType DEF Basic, Sizes
<1>7. n[b] = size /\ Dir[b].first = IF size = 0 THEN 0 ELSE p[b][0]
  BY <1>4, <1>5, <1>6, LaidFacts DEF Settled
<1>8. size # 0 => p[b][0] \in Clusters /\ p[b][0] # 0
  <2> SUFFICES ASSUME size # 0 PROVE 0 \in 0 .. n[b] - 1
    BY <1>4, LaidFacts, ClusterFacts
  <2> QED BY <1>7
<1>9. /\ do'.what = what /\ do'.f = b /\ do'.pc = pc /\ do'.c = c /\ do'.before = 0
      /\ do'.left = size /\ ~do'.grown
  BY <1>2, <1>6
<1>10. \/ pc = "dir" /\ what \in {"create", "unlink"} /\ size = 0
       \/ pc = "scan" /\ what = "write" /\ size = 0
       \/ pc \in {"walk", "free"} /\ size # 0 /\ c = p[b][0]
  <2>1. ~Dir[b].is => Dir[b].first = 0
    BY DEF Kept, Synced
  <2>2. CASE what = "create"
    BY <1>1, <1>7, <1>8, <2>1, <2>2 DEF Begins
  <2>3. CASE what # "create"
    BY <1>1, <1>6, <1>7, <1>8, <2>3 DEF Begins
  <2> QED BY <2>2, <2>3
<1>11. pc = "dir" => Entry'.first = 0 /\ Entry'.size = 0
  BY <1>9, <1>10 DEF Entry, NoEntry
<1>12. Course(n[b], p[b])'
  BY <1>3, <1>6, <1>7, <1>9, <1>10, <1>11 DEF Course
<1>13. \A f \in Files : Begin(f)' = Begin(f)
  BY <1>3, <1>5, <1>7, <1>8, <1>9, <1>10, <1>11 DEF Begin, Busy
<1>14. \A f \in Files : Settled(f, n[f], p[f])'
  BY <1>3, <1>5 DEF Settled
<1>15. \E k, r : Laid(k, r)'
  <2>1. Course(n[do.f], p[do.f])'
    BY <1>9, <1>12
  <2> QED BY <1>2, <1>3, <1>4, <1>13, <1>14, <2>1, LaidSame
<1>16. Synced'
  <2>1. pc = "free" => Dir[b].first # 0
    BY <1>7, <1>8, <1>10
  <2> QED BY <1>2, <1>3, <1>9, <1>10, <2>1 DEF Kept, Synced, Untouched, store, cache
<1>17. QED BY <1>15, <1>16 DEF Kept

LEMMA KeptFails ==
  ASSUME Basic, fails = 0, AccessFails \/ DirFails
  PROVE  Kept'
<1>1. fails' = fails + 1
  BY DEF AccessFails, DirFails, MayFail
<1>2. QED BY <1>1 DEF Kept

LEMMA KeptNext == Sizes /\ Basic /\ Kept /\ [Next]_fdVars => Kept'
<1> SUFFICES ASSUME Sizes, Basic, Kept, [Next]_fdVars, fails' = 0 PROVE Kept'
  BY DEF Kept
<1>1. fails = 0
  BY DEF Next, fdVars, Mounted, Flush1, Flush2, Load, AccessFails, FsCreate, FsWrite, FsUnlink, Call,
     Walk, Scan, Link, Mark, Free, Clear, Data, DirUpdate, DirFails, Return, PowerCut, Go, Set,
     MayFail, Basic, Types
<1>2. CASE Mounted \/ PowerCut \/ UNCHANGED fdVars
  <2>1. UNCHANGED <<store, cache>> /\ Dir' = Dir
    BY <1>2 DEF Mounted, PowerCut, fdVars, store, cache, Dir, Basic, Doing
  <2>2. (do' = do /\ inRoot' = inRoot) \/ (do.pc = "off" /\ do' = NoCall)
    BY <1>2 DEF Mounted, PowerCut, fdVars
  <2> QED BY <1>1, <2>1, <2>2, KeptStill
<1>3. CASE Clear
  BY <1>1, <1>3 DEF Clear, Kept, Synced
<1>4. QED
  BY <1>1, <1>2, <1>3, KeptCache, KeptCall, KeptFails, KeptWalk, KeptScan, KeptLink, KeptMark, KeptFree,
     KeptData, KeptDir, KeptReturn DEF Next

LEMMA KeptInit == Sizes /\ Init => Kept
<1> SUFFICES ASSUME Sizes, Init PROVE Kept
  OBVIOUS
<1>1. /\ \A c \in Clusters : fat1[c] = 0
      /\ fat2 = fat1 /\ disk = root /\ csec = NoSector /\ cdirty = FALSE /\ half = FALSE
      /\ \A f \in Files : disk[f] = NoEntry
  BY DEF Init
<1>2. do.pc = "off" /\ do.grown = FALSE
  BY DEF Init, NoCall
<1>3. \A c \in Clusters : Fat[c] = 0
  BY <1>1, ClusterFacts DEF Fat
<1>4. \A f \in Files : Dir[f].first = 0 /\ Dir[f].size = 0 /\ Begin(f) = 0 /\ ~Busy(f)
  BY <1>1, <1>2 DEF Dir, NoEntry, Begin, Busy
<1>5. PICK n : n = [f \in Files |-> 0]
  OBVIOUS
<1>6. PICK e : e = [i \in 0 .. 0 - 1 |-> 0]
  OBVIOUS
<1>7. PICK p : p = [f \in Files |-> e]
  OBVIOUS
<1>8. \A f \in Files : n[f] = 0 /\ p[f] = e
  BY <1>5, <1>7
<1>9. Path(Fat, 0, 0, e)
  BY <1>6 DEF Path
<1>10. \A f \in Files : Path(Fat, Begin(f), n[f], p[f])
  BY <1>4, <1>8, <1>9
<1>11. \A f \in Files : Settled(f, n[f], p[f])
  BY <1>4, <1>8 DEF Settled
<1>12. Laid(n, p)
  BY <1>2, <1>3, <1>5, <1>8, <1>10, <1>11 DEF Laid
<1>13. Synced
  BY <1>1, <1>2, <1>4 DEF Synced
<1>14. QED BY <1>12, <1>13, Zenon DEF Kept

-----------------------------------------------------------------------------
(* What the runs check follows. *)

(* A path is a whole file. *)
LEMMA PathWhole ==
  ASSUME Sizes, NEW fat, NEW e, NEW n \in Nat, NEW p, e.size = n, Path(fat, e.first, n, p)
  PROVE  Whole(fat, e)
<1>1. n # 0 => p[0] \in Clusters
  BY DEF Path
<1>2. n = 0 => e.first = 0
  BY DEF Path
<1>3. QED BY <1>2, PathChain DEF Whole

(* When a file is settled, its chain on the disk is its path, and no other *)
(* chain joins it.                                                         *)
LEMMA SettledKept ==
  ASSUME Sizes, FdInv, fails = 0, NEW f \in Files, ~Busy(f)
  PROVE  Whole(fat1, disk[f]) /\ \A g \in Files : Apart(fat1, disk, f, g)
<1>1. PICK n, p : Laid(n, p)
  BY DEF FdInv, Kept
<1>2. PICK m \in Nat, q \in {p[f]} : m = n[f] /\ q = p[f]
  BY <1>1 DEF Laid
<1>3. disk = Dir
  BY DEF FdInv, Kept, Synced, Dir
<1>4. Settled(f, m, q) /\ Path(Fat, Dir[f].first, m, q)
  BY <1>1, <1>2 DEF Laid, Begin
<1>5. Path(fat1, Dir[f].first, m, q)
  BY <1>4 DEF Path, Settled
<1>6. Whole(fat1, disk[f])
  BY <1>3, <1>4, <1>5, PathWhole DEF Settled
<1>7. PICK fat, c : fat = fat1 /\ c = Dir[f].first
  OBVIOUS
<1>8. Chain(fat, c) = {q[i] : i \in 0 .. m - 1}
  <2>1. Path(fat, c, m, q)
    BY <1>5, <1>7
  <2> QED BY <2>1, PathChain
<1>9. ASSUME NEW g \in Files, g # f
      PROVE  Chain(fat, c) \cap Chain(fat1, Dir[g].first) = {}
  <2>1. PICK a : a = Dir[g].first
    OBVIOUS
  <2>2. PICK S : S = Clusters \ {q[i] : i \in 0 .. m - 1}
    OBVIOUS
  <2>3. a \in Clusters => a \in S
    BY <1>4, <1>9, <2>1, <2>2 DEF Settled
  <2>4. \A x \in Clusters : x \in S /\ fat[x] \in Clusters => fat[x] \in S
    BY <1>4, <1>7, <2>2 DEF Settled
  <2>5. Chain(fat, a) \subseteq S
    BY <2>3, <2>4, ChainOn
  <2> QED BY <1>7, <1>8, <2>1, <2>2, <2>5
<1>10. QED BY <1>3, <1>6, <1>7, <1>9 DEF Apart

LEMMA FdComplete == Sizes /\ FdInv => CallsComplete
<1> SUFFICES ASSUME Sizes, FdInv, do.pc = "idle", fails = 0
             PROVE  /\ ~cdirty /\ fat1 = fat2 /\ (inRoot => disk = root)
                    /\ \A f \in Files : Whole(fat1, disk[f])
                    /\ \A f, g \in Files : Apart(fat1, disk, f, g)
                    /\ {c \in Clusters : fat1[c] # 0} = UNION {Chain(fat1, disk[f].first) : f \in Files}
  BY DEF CallsComplete
<1>1. Synced /\ ~cdirty /\ ~half
  BY DEF FdInv, Kept, Synced, Untouched, Basic, CacheOK
<1>2. fat1 = fat2
  BY <1>1 DEF Synced, FdInv, Basic, Types, Entries
<1>3. \A f \in Files : Whole(fat1, disk[f]) /\ \A g \in Files : Apart(fat1, disk, f, g)
  BY SettledKept DEF Busy
<1>4. disk = Dir /\ (inRoot => disk = root)
  BY <1>1 DEF Synced, Dir
<1>5. \A c \in Clusters : fat1[c] = Fat[c]
  BY <1>1, FatType DEF FdInv, Basic, CacheOK
<1>6. Fat = fat1
  BY <1>5 DEF FdInv, Basic, Types, Entries, Fat
<1>7. PICK n, p : Laid(n, p)
  BY DEF FdInv, Kept
<1>8. ASSUME NEW f \in Files
      PROVE  Chain(fat1, disk[f].first) = {p[f][i] : i \in 0 .. n[f] - 1}
  <2>1. n[f] \in Nat /\ Path(fat1, disk[f].first, n[f], p[f])
    BY <1>4, <1>6, <1>7 DEF Laid, Begin, Busy
  <2> QED BY <2>1, PathChain
<1>9. ASSUME NEW c \in Clusters, fat1[c] # 0
      PROVE  \E f \in Files : c \in Chain(fat1, disk[f].first)
  <2>1. PICK f \in Files : \E i \in 0 .. n[f] - 1 : p[f][i] = c
    BY <1>6, <1>7, <1>9 DEF Laid
  <2> QED BY <1>8, <2>1
<1>10. ASSUME NEW f \in Files, NEW c \in Chain(fat1, disk[f].first)
       PROVE  c \in Clusters /\ fat1[c] # 0
  <2>1. PICK i \in 0 .. n[f] - 1 : c = p[f][i]
    BY <1>8
  <2> QED BY <1>6, <1>7, <2>1, LaidFacts DEF FdInv
<1>11. {c \in Clusters : fat1[c] # 0} = UNION {Chain(fat1, disk[f].first) : f \in Files}
  BY <1>9, <1>10
<1>12. QED BY <1>1, <1>2, <1>3, <1>4, <1>11

LEMMA FdKeeps == Sizes /\ FdInv => DiskKeeps
<1> SUFFICES ASSUME Sizes, FdInv PROVE DiskKeeps
  OBVIOUS
<1>1. CallsComplete
  BY FdComplete
<1>2. CutHurtsOne
  BY SettledKept DEF CutHurtsOne, Busy
<1>3. NeverShared
  BY BasicApart DEF NeverShared, FdInv
<1>4. QED BY <1>1, <1>2, <1>3 DEF DiskKeeps

(* The FATs hold links, ends and free entries, the cache a sector of them, *)
(* and a file at most MaxLen clusters, in every state of the program       *)
(* (fat_cache_load, fat_set, store_dir), whatever transfers fail.          *)
THEOREM DiskTypes == Sizes /\ Spec => []TypeOK
<1> SUFFICES ASSUME Sizes PROVE Spec => []TypeOK
  OBVIOUS
<1>1. Init => Basic
  BY BasicInit
<1>2. Basic /\ [Next]_fdVars => Basic'
  BY BasicNext
<1>3. Basic => TypeOK
  BY BasicTypes
<1>4. QED BY <1>1, <1>2, <1>3, PTL DEF Spec

(* For FATs of any size and any sectors of them, any files, and any number *)
(* of calls and failures: a call of fs_write or fs_unlink that meets no    *)
(* failure leaves FATs and directory in step, a power cut damages only the *)
(* file of the call it interrupts, and two files never share a cluster.    *)
THEOREM DiskStaysWhole == Sizes /\ Spec => []DiskKeeps
<1> SUFFICES ASSUME Sizes PROVE Spec => []DiskKeeps
  OBVIOUS
<1>1. Init => FdInv
  BY BasicInit, KeptInit DEF FdInv
<1>2. FdInv /\ [Next]_fdVars => FdInv'
  BY BasicNext, KeptNext DEF FdInv
<1>3. FdInv => DiskKeeps
  BY FdKeeps
<1>4. QED BY <1>1, <1>2, <1>3, PTL DEF Spec

=============================================================================
