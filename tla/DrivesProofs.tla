---------------------------- MODULE DrivesProofs ----------------------------
(***************************************************************************)
(* Disks, views, letters and setup for every number of disks, slots, views *)
(* and letters and all contents of the tables: the types, one active       *)
(* partition per table, where an automatic partition is put, and that a    *)
(* reported installation is one.                                           *)
(*                                                                         *)
(* The scans of the tables and of the disks are recursive functions;       *)
(* RecursionExists and RecursionStays say that such a function exists and  *)
(* that its values stay in a set.                                          *)
(***************************************************************************)
EXTENDS Drives, FiniteSetTheorems, WellFoundedInduction, TLAPS

-----------------------------------------------------------------------------
(* Least elements, and functions defined by recursion on their argument. *)

LEMMA LeastElement ==
  ASSUME NEW S \in SUBSET Nat, S # {}
  PROVE  \E n \in S : \A m \in S : n <= m
<1> DEFINE R == OpToRel(<, Nat)
<1>1. IsWellFoundedOn(R, Nat)
  BY NatLessThanWellFounded
<1>2. \A a, b \in Nat : a < b => <<a, b>> \in R
  BY Zenon DEF OpToRel
<1> HIDE DEF R
<1>3. PICK n \in S : \A m \in S : <<m, n>> \notin R
  BY <1>1, WFMin
<1>4. \A m \in S : ~ (m < n)
  BY <1>2, <1>3
<1>5. QED BY <1>4, SMT

LEMMA GreatestElement ==
  ASSUME NEW S \in SUBSET Nat, S # {}, NEW b \in Nat, \A n \in S : n <= b
  PROVE  \E n \in S : \A m \in S : m <= n
<1> DEFINE T == {k \in Nat : b - k \in S}
<1>1. T \in SUBSET Nat /\ T # {}
  <2>1. PICK n \in S : n \in Nat /\ n <= b
    OBVIOUS
  <2>2. b - n \in Nat /\ b - (b - n) = n
    BY <2>1
  <2>3. b - n \in T
    BY <2>1, <2>2
  <2> QED BY <2>3
<1>2. PICK k \in T : \A j \in T : k <= j
  BY <1>1, LeastElement
<1>3. b - k \in S /\ k \in Nat
  BY <1>2
<1>4. ASSUME NEW m \in S
      PROVE  m <= b - k
  <2>1. m \in Nat /\ m <= b /\ b - m \in Nat /\ b - (b - m) = m
    OBVIOUS
  <2>2. b - m \in T
    BY <2>1
  <2>3. k <= b - m
    BY <1>2, <2>2
  <2> QED BY <1>3, <2>1, <2>3
<1>5. QED BY <1>3, <1>4

LEMMA Induction ==
  ASSUME NEW S \in SUBSET Nat, 0 \in S, \A n \in S : n + 1 \in S
  PROVE  \A n \in Nat : n \in S
<1> SUFFICES ASSUME Nat \ S # {} PROVE FALSE
  OBVIOUS
<1>1. PICK n \in Nat \ S : \A m \in Nat \ S : n <= m
  <2>1. Nat \ S \in SUBSET Nat
    OBVIOUS
  <2> QED BY <2>1, LeastElement
<1>2. n # 0 /\ n - 1 \in Nat
  OBVIOUS
<1>3. n - 1 \in S
  BY <1>1, <1>2
<1>4. (n - 1) + 1 = n
  OBVIOUS
<1>5. QED BY <1>1, <1>3, <1>4

Iterates(g, a, N, F) == g[0] = a /\ \A k \in 1 .. N : g[k] = F[k][g[k - 1]]

LEMMA RecursionExists ==
  ASSUME NEW S, NEW a, a \in S, NEW N, N \in Nat, NEW F, F \in [1 .. N -> [S -> S]]
  PROVE  \E g : g \in [0 .. N -> S] /\ Iterates(g, a, N, F)
<1> DEFINE Upto(n) == \E g \in [0 .. n -> S] : g[0] = a /\ \A k \in 1 .. n : g[k] = F[k][g[k - 1]]
           T == {n \in Nat : n <= N => Upto(n)}
<1>1. 0 \in T
  <2> DEFINE g == [i \in 0 .. 0 |-> a]
  <2>1. g \in [0 .. 0 -> S] /\ g[0] = a /\ 1 .. 0 = {}
    OBVIOUS
  <2> HIDE DEF g
  <2>2. Upto(0)
    BY <2>1, Zenon
  <2> QED BY <2>2
<1>2. ASSUME NEW n \in T
      PROVE  n + 1 \in T
  <2> SUFFICES ASSUME n + 1 <= N PROVE Upto(n + 1)
    OBVIOUS
  <2>1. n \in Nat /\ n <= N /\ n + 1 \in 1 .. N
    <3> HIDE DEF Upto
    <3> QED OBVIOUS
  <2>2. PICK g \in [0 .. n -> S] : g[0] = a /\ \A k \in 1 .. n : g[k] = F[k][g[k - 1]]
    <3>1. n <= N => Upto(n)
      <4> HIDE DEF Upto
      <4> QED OBVIOUS
    <3> QED BY <2>1, <3>1, Zenon
  <2> DEFINE h == [i \in 0 .. n + 1 |-> IF i = n + 1 THEN F[n + 1][g[n]] ELSE g[i]]
  <2>3. F[n + 1] \in [S -> S] /\ g[n] \in S
    BY <2>1, <2>2
  <2>4. h \in [0 .. n + 1 -> S]
    <3>1. ASSUME NEW i \in 0 .. n + 1
          PROVE  (IF i = n + 1 THEN F[n + 1][g[n]] ELSE g[i]) \in S
      BY <2>1, <2>2, <2>3
    <3> QED BY <3>1
  <2>5. h[0] = a
    BY <2>1, <2>2
  <2>6. ASSUME NEW k \in 1 .. n + 1
        PROVE  h[k] = F[k][h[k - 1]]
    <3>1. CASE k = n + 1
      <4>1. h[k] = F[n + 1][g[n]] /\ h[k - 1] = g[n]
        BY <2>1, <3>1
      <4> QED BY <3>1, <4>1
    <3>2. CASE k # n + 1
      <4>1. k \in 1 .. n /\ k - 1 \in 0 .. n /\ k - 1 # n + 1
        BY <2>1, <3>2
      <4>2. h[k] = g[k] /\ h[k - 1] = g[k - 1]
        BY <2>1, <3>2, <4>1
      <4> QED BY <2>2, <4>1, <4>2
    <3> QED BY <3>1, <3>2
  <2> QED BY <2>4, <2>5, <2>6
<1> HIDE DEF Upto
<1>3. T \in SUBSET Nat
  OBVIOUS
<1> HIDE DEF T
<1>4. N \in T
  BY <1>1, <1>2, <1>3, Induction
<1>5. Upto(N)
  BY <1>4 DEF T
<1>6. QED BY <1>5 DEF Upto, Iterates

LEMMA RecursionStays ==
  ASSUME NEW S, NEW N \in Nat, NEW f, f[0] \in S,
         \A k \in 1 .. N : f[k - 1] \in S => f[k] \in S
  PROVE  f[N] \in S
<1> DEFINE T == {n \in Nat : n <= N => f[n] \in S}
<1>1. 0 \in T
  OBVIOUS
<1>2. ASSUME NEW n \in T
      PROVE  n + 1 \in T
  <2> SUFFICES ASSUME n + 1 <= N PROVE f[n + 1] \in S
    OBVIOUS
  <2>1. n + 1 \in 1 .. N /\ (n + 1) - 1 = n /\ f[n] \in S
    OBVIOUS
  <2> QED BY <2>1
<1>3. T \in SUBSET Nat
  OBVIOUS
<1> HIDE DEF T
<1>4. N \in T
  BY <1>1, <1>2, <1>3, Induction
<1>5. QED BY <1>4 DEF T

LEMMA LeastChosen ==
  ASSUME NEW S \in SUBSET Nat, S # {}
  PROVE  (CHOOSE n \in S : \A m \in S : n <= m) \in S
BY LeastElement, Zenon

-----------------------------------------------------------------------------
(* The kinds of the values, as they are kept from step to step. *)

GoodView == {NoView} \cup {e \in [parent : Raw, idx : Slots, start : Nat, count : Nat] :
                             /\ e.start >= 1 /\ e.count >= 1
                             /\ e.start + e.count <= DiskUnits[e.parent]}
ViewTables  == [Views -> GoodView]
DiskTables  == [Raw -> [Slots -> Entry]]
GoodVolume  == {v \in Volume : v.whole \subseteq v.files}
DiskVolumes == [Locs -> GoodVolume]

LEMMA ConstFacts ==
  /\ NRaw \in Nat \ {0} /\ NSlots \in Nat \ {0} /\ NViews \in Nat \ {0}
  /\ NLetters \in Nat \ {0} /\ MaxOps \in Nat \ {0}
  /\ DiskUnits \in [Raw -> Nat \ {0}]
  /\ Raw \subseteq Nat /\ Views \subseteq Nat /\ Raw \cap Views = {}
  /\ NoDisk \notin Ids
  /\ \A d \in Raw : \A n \in 0 .. DiskUnits[d] - 1 : <<d, n>> \in Locs
  /\ \A d \in Raw : <<d, 0>> \in Locs
  /\ \A d, n : <<d, n>> \in Locs => d \in Raw /\ n \in Nat
<1>1. /\ NRaw \in Nat \ {0} /\ NSlots \in Nat \ {0} /\ NViews \in Nat \ {0}
      /\ NLetters \in Nat \ {0} /\ MaxOps \in Nat \ {0}
      /\ DiskUnits \in [Raw -> Nat \ {0}]
  BY DrivesAssumption
<1>2. Raw \subseteq Nat /\ Views \subseteq Nat /\ Raw \cap Views = {} /\ NoDisk \notin Ids
  BY <1>1 DEF Raw, Views, Ids, NoDisk
<1>3. \A d \in Raw : DiskUnits[d] \in Nat \ {0}
  BY <1>1
<1>4. ASSUME NEW d \in Raw, NEW n \in 0 .. DiskUnits[d] - 1
      PROVE  <<d, n>> \in Locs
  <2>1. <<d, n>> \in {d} \X (0 .. DiskUnits[d] - 1)
    OBVIOUS
  <2> QED BY <2>1, Zenon DEF Locs
<1>5. \A d \in Raw : 0 \in 0 .. DiskUnits[d] - 1
  BY <1>3
<1>6. ASSUME NEW d, NEW n, <<d, n>> \in Locs
      PROVE  d \in Raw /\ n \in Nat
  <2>1. PICK b \in Raw : <<d, n>> \in {b} \X (0 .. DiskUnits[b] - 1)
    BY <1>6 DEF Locs
  <2>2. d = b /\ n \in 0 .. DiskUnits[b] - 1
    BY <2>1
  <2> QED BY <1>3, <2>2
<1>7. QED BY <1>1, <1>2, <1>4, <1>5, <1>6

LEMMA RegisterType ==
  ASSUME NEW vw \in ViewTables, NEW d \in Raw, NEW i \in Slots, NEW e \in Entry
  PROVE  Register(vw, d, i, e) \in ViewTables
<1> DEFINE free == {v \in Views : vw[v] = NoView}
           v == CHOOSE n \in free : \A m \in free : n <= m
           new == [parent |-> d, idx |-> i, start |-> e.start, count |-> e.count]
           bad == \/ free = {} \/ e.start = 0 \/ e.start >= DiskUnits[d]
                  \/ e.count = 0 \/ e.start + e.count > DiskUnits[d]
<1>1. Register(vw, d, i, e) = IF bad THEN vw ELSE [vw EXCEPT ![v] = new]
  BY Zenon DEF Register
<1>2. ASSUME ~bad PROVE v \in Views /\ new \in GoodView
  <2>1. free \in SUBSET Nat /\ free # {} /\ free \subseteq Views
    BY <1>2, ConstFacts
  <2>2. v \in Views
    <3> HIDE DEF free
    <3> QED BY <2>1, LeastChosen, Zenon
  <2>3. e.start \in Nat /\ e.count \in Nat /\ DiskUnits[d] \in Nat
    BY ConstFacts DEF Entry
  <2>4. new \in GoodView
    BY <1>2, <2>3 DEF GoodView
  <2> QED BY <2>2, <2>4
<1> HIDE DEF v, new, bad
<1>3. QED BY <1>1, <1>2 DEF ViewTables

LEMMA ScanDiskType ==
  ASSUME NEW vw \in ViewTables, NEW im, NEW t \in DiskTables, NEW d \in Raw
  PROVE  ScanDisk(vw, im, t, d) \in ViewTables
<1> DEFINE step(i, x) == IF t[d][i].type THEN Register(x, d, i, t[d][i]) ELSE x
           G(f) == [i \in 0 .. NSlots |-> IF i = 0 THEN vw ELSE step(i, f[i - 1])]
           walk == CHOOSE f : f = G(f)
<1>1. ScanDisk(vw, im, t, d) = IF HasTable(im, t, d) THEN walk[NSlots] ELSE vw
  BY Zenon DEF ScanDisk
<1>2. NSlots \in Nat
  BY ConstFacts
<1>3. ASSUME NEW i \in 1 .. NSlots, NEW x \in ViewTables
      PROVE  step(i, x) \in ViewTables
  <2>1. i \in Slots /\ t[d][i] \in Entry
    BY DEF DiskTables, Slots
  <2> QED BY <2>1, RegisterType
<1> HIDE DEF step
<1>5. PICK F \in [1 .. NSlots -> [ViewTables -> ViewTables]] :
         \A i \in 1 .. NSlots, x \in ViewTables : F[i][x] = step(i, x)
  <2> DEFINE E == [i \in 1 .. NSlots |-> [x \in ViewTables |-> step(i, x)]]
  <2>1. E \in [1 .. NSlots -> [ViewTables -> ViewTables]]
    BY <1>3
  <2>2. \A i \in 1 .. NSlots, x \in ViewTables : E[i][x] = step(i, x)
    OBVIOUS
  <2> HIDE DEF E
  <2> QED BY <2>1, <2>2
<1>6. \E f : f = G(f)
  <2>1. PICK g \in [0 .. NSlots -> ViewTables] : g[0] = vw /\ \A k \in 1 .. NSlots : g[k] = F[k][g[k - 1]]
    <3>1. PICK g : g \in [0 .. NSlots -> ViewTables] /\ Iterates(g, vw, NSlots, F)
      BY <1>2, <1>5, RecursionExists
    <3> QED BY <3>1 DEF Iterates
  <2>2. ASSUME NEW i \in 0 .. NSlots
        PROVE  g[i] = IF i = 0 THEN vw ELSE step(i, g[i - 1])
    <3>1. CASE i = 0
      BY <2>1, <3>1
    <3>2. CASE i # 0
      <4>1. i \in 1 .. NSlots /\ i - 1 \in 0 .. NSlots
        BY <1>2, <3>2
      <4>2. g[i - 1] \in ViewTables
        BY <2>1, <4>1
      <4> QED BY <1>5, <2>1, <3>2, <4>1, <4>2
    <3> QED BY <3>1, <3>2
  <2>3. g = G(g)
    BY <2>1, <2>2
  <2> QED BY <2>3
<1>7. walk = G(walk)
  <2> HIDE DEF G
  <2> QED BY <1>6
<1> HIDE DEF walk
<1>8. walk[0] = vw /\ \A k \in 1 .. NSlots : walk[k] = step(k, walk[k - 1])
  <2>1. \A k \in 0 .. NSlots : walk[k] = IF k = 0 THEN vw ELSE step(k, walk[k - 1])
    BY <1>7, Zenon
  <2>2. 0 \in 0 .. NSlots /\ \A k \in 1 .. NSlots : k \in 0 .. NSlots /\ k # 0
    BY <1>2
  <2> QED BY <2>1, <2>2
<1>9. walk[NSlots] \in ViewTables
  <2>1. \A k \in 1 .. NSlots : walk[k - 1] \in ViewTables => walk[k] \in ViewTables
    BY <1>3, <1>8
  <2> QED BY <1>2, <1>8, <2>1, RecursionStays
<1>10. QED BY <1>1, <1>9

LEMMA ScanTablesType ==
  ASSUME NEW im, NEW t \in DiskTables
  PROVE  ScanTables(im, t) \in ViewTables
<1> DEFINE none == [v \in Views |-> NoView]
           step(k, x) == ScanDisk(x, im, t, k - 1)
           G(f) == [k \in 0 .. NRaw |-> IF k = 0 THEN none ELSE step(k, f[k - 1])]
           walk == CHOOSE f : f = G(f)
<1>1. ScanTables(im, t) = walk[NRaw]
  BY Zenon DEF ScanTables
<1>2. NRaw \in Nat
  BY ConstFacts
<1>3. none \in ViewTables
  BY DEF ViewTables, GoodView
<1>4. ASSUME NEW k \in 1 .. NRaw, NEW x \in ViewTables
      PROVE  step(k, x) \in ViewTables
  <2>1. k - 1 \in Raw
    BY <1>2 DEF Raw
  <2> QED BY <2>1, ScanDiskType
<1> HIDE DEF step, none
<1>5. PICK F \in [1 .. NRaw -> [ViewTables -> ViewTables]] :
         \A k \in 1 .. NRaw, x \in ViewTables : F[k][x] = step(k, x)
  <2> DEFINE E == [k \in 1 .. NRaw |-> [x \in ViewTables |-> step(k, x)]]
  <2>1. E \in [1 .. NRaw -> [ViewTables -> ViewTables]]
    BY <1>4
  <2>2. \A k \in 1 .. NRaw, x \in ViewTables : E[k][x] = step(k, x)
    OBVIOUS
  <2> HIDE DEF E
  <2> QED BY <2>1, <2>2
<1>6. \E f : f = G(f)
  <2>1. PICK g \in [0 .. NRaw -> ViewTables] : g[0] = none /\ \A k \in 1 .. NRaw : g[k] = F[k][g[k - 1]]
    <3>1. PICK g : g \in [0 .. NRaw -> ViewTables] /\ Iterates(g, none, NRaw, F)
      BY <1>2, <1>3, <1>5, RecursionExists
    <3> QED BY <3>1 DEF Iterates
  <2>2. ASSUME NEW k \in 0 .. NRaw
        PROVE  g[k] = IF k = 0 THEN none ELSE step(k, g[k - 1])
    <3>1. CASE k = 0
      BY <2>1, <3>1
    <3>2. CASE k # 0
      <4>1. k \in 1 .. NRaw /\ k - 1 \in 0 .. NRaw
        BY <1>2, <3>2
      <4>2. g[k - 1] \in ViewTables
        BY <2>1, <4>1
      <4> QED BY <1>5, <2>1, <3>2, <4>1, <4>2
    <3> QED BY <3>1, <3>2
  <2>3. g = G(g)
    BY <2>1, <2>2
  <2> QED BY <2>3
<1>7. walk = G(walk)
  <2> HIDE DEF G
  <2> QED BY <1>6
<1> HIDE DEF walk
<1>8. walk[0] = none /\ \A k \in 1 .. NRaw : walk[k] = step(k, walk[k - 1])
  <2>1. \A k \in 0 .. NRaw : walk[k] = IF k = 0 THEN none ELSE step(k, walk[k - 1])
    BY <1>7, Zenon
  <2>2. 0 \in 0 .. NRaw /\ \A k \in 1 .. NRaw : k \in 0 .. NRaw /\ k # 0
    BY <1>2
  <2> QED BY <2>1, <2>2
<1>9. walk[NRaw] \in ViewTables
  <2>1. \A k \in 1 .. NRaw : walk[k - 1] \in ViewTables => walk[k] \in ViewTables
    BY <1>4, <1>8
  <2> QED BY <1>2, <1>3, <1>8, <2>1, RecursionStays
<1>10. QED BY <1>1, <1>9

-----------------------------------------------------------------------------
(* Mounts. GoodMount holds of what is mounted before and after fs_mount.     *)

GoodMount(m) ==
    /\ m.drive \in [Letters -> Ids \cup {NoDisk}]
    /\ m.half \subseteq Letters /\ \A L \in m.half : m.drive[L] # NoDisk
    /\ m.current \in 0 .. NLetters

LEMMA WhereLoc ==
  ASSUME NEW vw \in ViewTables, NEW id, Present(vw, id)
  PROVE  id \in Ids /\ Where(vw, id) \in Locs
<1>1. CASE id \in Raw
  <2>1. <<id, 0>> \in Locs
    BY <1>1, ConstFacts
  <2> QED BY <1>1, <2>1, Zenon DEF Where, Ids
<1>2. CASE id \notin Raw
  <2>1. id \in Views /\ vw[id] # NoView /\ vw[id] \in GoodView
    BY <1>2 DEF Present, ViewTables
  <2>2. /\ vw[id].parent \in Raw /\ vw[id].start \in Nat /\ vw[id].count \in Nat
        /\ vw[id].count >= 1 /\ vw[id].start + vw[id].count <= DiskUnits[vw[id].parent]
    BY <2>1 DEF GoodView
  <2>3. DiskUnits[vw[id].parent] \in Nat
    BY <2>2, ConstFacts
  <2>4. vw[id].start \in 0 .. DiskUnits[vw[id].parent] - 1
    BY <2>2, <2>3
  <2>5. <<vw[id].parent, vw[id].start>> \in Locs
    BY <2>2, <2>4, ConstFacts
  <2> QED BY <1>2, <2>1, <2>5, Zenon DEF Where, Ids
<1>3. QED BY <1>1, <1>2

LEMMA NotWhere ==
  ASSUME NEW vw, NEW id, ~Present(vw, id)
  PROVE  Where(vw, id) = NoLoc
BY Zenon DEF Where

LEMMA VolAtType ==
  ASSUME NEW vw \in ViewTables, NEW id, NEW im, NEW vo \in DiskVolumes
  PROVE  VolAt(im, vo, Where(vw, id)) \in GoodVolume
<1>1. NoVol \in GoodVolume
  BY DEF NoVol, GoodVolume, Volume
<1>2. Where(vw, id) # NoLoc => Where(vw, id) \in Locs
  BY WhereLoc, NotWhere
<1>3. QED BY <1>1, <1>2 DEF VolAt, DiskVolumes

LEMMA MountType ==
  ASSUME NEW m, GoodMount(m), NEW L \in Letters, NEW v \in Volume, NEW id \in Ids
  PROVE  /\ GoodMount(Mount(m, L, v, id))
         /\ Mount(m, L, v, id).ok \in BOOLEAN
         /\ Mount(m, L, v, id).ok => Mount(m, L, v, id).drive[L] = id
         /\ \A K \in Letters \ {L} : Mount(m, L, v, id).drive[K] = m.drive[K]
<1> DEFINE n == Mount(m, L, v, id)
<1>1. /\ n.drive = [m.drive EXCEPT ![L] = IF v.kind = "none" THEN NoDisk ELSE id]
      /\ n.half = IF v.kind = "torn" THEN m.half \cup {L} ELSE m.half \ {L}
      /\ n.current = IF v.kind = "fat" /\ m.current = 0 THEN L ELSE m.current
      /\ n.ok = (v.kind = "fat")
  BY DEF Mount
<1>2. id # NoDisk
  BY ConstFacts
<1>3. Letters \subseteq 0 .. NLetters
  BY ConstFacts DEF Letters
<1> HIDE DEF n
<1>4. QED BY <1>1, <1>2, <1>3 DEF GoodMount, n

LEMMA UnmountType ==
  ASSUME NEW m, GoodMount(m), NEW Ls
  PROVE  GoodMount(Unmount(m, Ls))
BY DEF GoodMount, Unmount

Mounts == {m \in [drive : [Letters -> Ids \cup {NoDisk}], half : SUBSET Letters,
                  current : 0 .. NLetters, ok : BOOLEAN] : GoodMount(m)}
Walks  == [m : Mounts, n : 0 .. NLetters]

LEMMA MountIn ==
  ASSUME NEW m \in Mounts, NEW L \in Letters, NEW v \in Volume, NEW id \in Ids
  PROVE  Mount(m, L, v, id) \in Mounts
<1>1. GoodMount(m)
  BY DEF Mounts
<1>2. GoodMount(Mount(m, L, v, id))
  BY <1>1, MountType
<1>3. Mount(m, L, v, id) \in [drive : [Letters -> Ids \cup {NoDisk}], half : SUBSET Letters,
                             current : 0 .. NLetters, ok : BOOLEAN]
  <2>1. /\ Mount(m, L, v, id).drive \in [Letters -> Ids \cup {NoDisk}]
        /\ Mount(m, L, v, id).half \in SUBSET Letters
        /\ Mount(m, L, v, id).current \in 0 .. NLetters
    BY <1>2 DEF GoodMount
  <2> QED BY <2>1 DEF Mount
<1>4. QED BY <1>2, <1>3 DEF Mounts

LEMMA MountNextType ==
  ASSUME NEW acc \in Walks, NEW id, NEW im, NEW t, NEW vw \in ViewTables, NEW vo \in DiskVolumes
  PROVE  MountNext(acc, id, im, t, vw, vo) \in Walks
<1> DEFINE m == acc.m
           here == acc.n + 1
           free == {L \in here .. NLetters : m.drive[L] = NoDisk}
           L0 == CHOOSE L \in free : \A K \in free : L <= K
           v == VolAt(im, vo, Where(vw, id))
           m1 == Mount(m, L0, v, id)
           stays == \/ acc.n >= NLetters \/ ~Present(vw, id) \/ m.drive[here] = id
                    \/ (id \in Raw /\ HasTable(im, t, id))
<1>1. MountNext(acc, id, im, t, vw, vo) =
        IF stays THEN acc
        ELSE IF free = {} THEN [acc EXCEPT !.n = NLetters]
        ELSE [m |-> m1, n |-> IF m1.ok THEN L0 ELSE L0 - 1]
  BY Zenon DEF MountNext
<1>2. m \in Mounts /\ acc.n \in 0 .. NLetters /\ NLetters \in Nat
  BY ConstFacts DEF Walks
<1>3. [acc EXCEPT !.n = NLetters] \in Walks
  BY <1>2 DEF Walks
<1>4. ASSUME ~stays, free # {}
      PROVE  [m |-> m1, n |-> IF m1.ok THEN L0 ELSE L0 - 1] \in Walks
  <2>1. free \in SUBSET Nat /\ free \subseteq Letters
    BY <1>2 DEF Letters
  <2>2. L0 \in Letters
    <3> HIDE DEF free
    <3> QED BY <1>4, <2>1, LeastChosen, Zenon
  <2>3. id \in Ids
    BY <1>4, WhereLoc
  <2>4. v \in Volume
    BY VolAtType DEF GoodVolume
  <2> HIDE DEF L0, v, m
  <2>5. m1 \in Mounts
    BY <1>2, <2>2, <2>3, <2>4, MountIn
  <2>6. L0 \in 0 .. NLetters /\ L0 - 1 \in 0 .. NLetters
    BY <1>2, <2>2 DEF Letters
  <2> HIDE DEF m1
  <2> QED BY <2>5, <2>6 DEF Walks
<1> HIDE DEF stays, free, m1, L0
<1>5. QED BY <1>1, <1>3, <1>4

LEMMA MountAllType ==
  ASSUME NEW m0 \in Mounts, NEW im, NEW t, NEW vw \in ViewTables, NEW vo \in DiskVolumes
  PROVE  MountAll(m0, im, t, vw, vo) \in Mounts
<1> DEFINE N == NRaw + NViews
           first == [m |-> m0, n |-> 0]
           step(k, x) == MountNext(x, k - 1, im, t, vw, vo)
           G(f) == [k \in 0 .. N |-> IF k = 0 THEN first ELSE step(k, f[k - 1])]
           walk == CHOOSE f : f = G(f)
<1>1. MountAll(m0, im, t, vw, vo) = walk[N].m
  BY Zenon DEF MountAll
<1>2. N \in Nat
  BY ConstFacts
<1>3. first \in Walks
  BY ConstFacts DEF Walks
<1>4. ASSUME NEW k \in 1 .. N, NEW x \in Walks
      PROVE  step(k, x) \in Walks
  BY MountNextType
<1> HIDE DEF step, first, N
<1>5. PICK F \in [1 .. N -> [Walks -> Walks]] :
         \A k \in 1 .. N, x \in Walks : F[k][x] = step(k, x)
  <2> DEFINE E == [k \in 1 .. N |-> [x \in Walks |-> step(k, x)]]
  <2>1. E \in [1 .. N -> [Walks -> Walks]]
    BY <1>4
  <2>2. \A k \in 1 .. N, x \in Walks : E[k][x] = step(k, x)
    OBVIOUS
  <2> HIDE DEF E
  <2> QED BY <2>1, <2>2
<1>6. \E f : f = G(f)
  <2>1. PICK g \in [0 .. N -> Walks] : g[0] = first /\ \A k \in 1 .. N : g[k] = F[k][g[k - 1]]
    <3>1. PICK g : g \in [0 .. N -> Walks] /\ Iterates(g, first, N, F)
      BY <1>2, <1>3, <1>5, RecursionExists
    <3> QED BY <3>1 DEF Iterates
  <2>2. ASSUME NEW k \in 0 .. N
        PROVE  g[k] = IF k = 0 THEN first ELSE step(k, g[k - 1])
    <3>1. CASE k = 0
      BY <2>1, <3>1
    <3>2. CASE k # 0
      <4>1. k \in 1 .. N /\ k - 1 \in 0 .. N
        BY <1>2, <3>2
      <4>2. g[k - 1] \in Walks
        BY <2>1, <4>1
      <4> QED BY <1>5, <2>1, <3>2, <4>1, <4>2
    <3> QED BY <3>1, <3>2
  <2>3. g = G(g)
    BY <2>1, <2>2
  <2> QED BY <2>3
<1>7. walk = G(walk)
  <2> HIDE DEF G
  <2> QED BY <1>6
<1> HIDE DEF walk
<1>8. walk[0] = first /\ \A k \in 1 .. N : walk[k] = step(k, walk[k - 1])
  <2>1. \A k \in 0 .. N : walk[k] = IF k = 0 THEN first ELSE step(k, walk[k - 1])
    BY <1>7, Zenon
  <2>2. 0 \in 0 .. N /\ \A k \in 1 .. N : k \in 0 .. N /\ k # 0
    BY <1>2
  <2> QED BY <2>1, <2>2
<1>9. walk[N] \in Walks
  <2>1. \A k \in 1 .. N : walk[k - 1] \in Walks => walk[k] \in Walks
    BY <1>4, <1>8
  <2> QED BY <1>2, <1>3, <1>8, <2>1, RecursionStays
<1>10. QED BY <1>1, <1>9 DEF Walks

-----------------------------------------------------------------------------
(* mbr_largest_free: the gaps between the partitions. *)

LEMMA TakenFacts ==
  ASSUME NEW t \in DiskTables, NEW d \in Raw
  PROVE  /\ \A r \in Taken(t, d) : r[1] \in Nat /\ r[2] \in Nat /\ r[2] >= 1
         /\ \A r \in Taken(t, d) : r[1] = 0 \/ \E i \in Used(t, d) : r[1] = t[d][i].start
         /\ \A i \in Used(t, d) : \E r \in Taken(t, d) :
               r[1] = t[d][i].start /\ r[2] = t[d][i].start + t[d][i].count
<1> DEFINE span(i) == <<t[d][i].start, t[d][i].start + t[d][i].count>>
<1>1. ASSUME NEW i \in Used(t, d)
      PROVE  /\ span(i)[1] = t[d][i].start /\ span(i)[2] = t[d][i].start + t[d][i].count
             /\ span(i)[1] \in Nat /\ span(i)[2] \in Nat /\ span(i)[2] >= 1
  <2>1. t[d][i] \in Entry /\ t[d][i].count > 0
    BY DEF Used, DiskTables
  <2>2. t[d][i].start \in Nat /\ t[d][i].count \in Nat
    BY <2>1 DEF Entry
  <2> QED BY <2>1, <2>2
<1>2. <<0, 1>>[1] = 0 /\ <<0, 1>>[2] = 1
  OBVIOUS
<1> HIDE DEF span
<1>3. Taken(t, d) = {<<0, 1>>} \cup {span(i) : i \in Used(t, d)}
  BY DEF Taken, span
<1>4. QED BY <1>1, <1>2, <1>3

LEMMA GapFacts ==
  ASSUME NEW S, NEW to \in Nat, NEW g \in Gap(S, to),
         \A r \in S : r[1] \in Nat /\ r[2] \in Nat /\ r[2] >= 1
  PROVE  /\ g.start \in Nat /\ g.count \in Nat /\ g.start >= 1 /\ g.count >= 1
         /\ g.start + g.count = to
         /\ \A q \in S : q[2] <= g.start
         /\ g = [start |-> g.start, count |-> g.count]
<1>1. PICK r \in S : /\ r[2] < to /\ (\A q \in S : q[2] <= r[2])
                     /\ g = [start |-> r[2], count |-> to - r[2]]
  BY DEF Gap
<1>2. g.start = r[2] /\ g.count = to - r[2]
  BY <1>1
<1>3. r[2] \in Nat /\ r[2] >= 1 /\ \A q \in S : q[2] <= r[2]
  BY <1>1
<1>4. r[2] < to
  BY <1>1
<1> DEFINE x == r[2]
<1> HIDE DEF x
<1>5. x \in Nat /\ x >= 1 /\ x < to /\ g.start = x /\ g.count = to - x
  BY <1>2, <1>3, <1>4 DEF x
<1>6. g.start \in Nat /\ g.count \in Nat /\ g.start >= 1 /\ g.count >= 1 /\ g.start + g.count = to
  BY <1>5
<1>7. QED BY <1>1, <1>2, <1>3, <1>6

(* What mbr_largest_free may answer with: no partition reaches into a gap,   *)
(* and a gap ends at the end of the disk or where a partition begins.        *)
LEMMA GapsFree ==
  ASSUME NEW t \in DiskTables, NEW d \in Raw, NEW g \in Gaps(t, d)
  PROVE  /\ g.start \in Nat /\ g.count \in Nat /\ g.start >= 1 /\ g.count >= 1
         /\ g.start + g.count = DiskUnits[d] \/ \E j \in Used(t, d) : g.start + g.count = t[d][j].start
         /\ \A j \in Used(t, d) : \/ t[d][j].start + t[d][j].count <= g.start
                                  \/ g.start + g.count <= t[d][j].start
<1>1. DiskUnits[d] \in Nat
  BY ConstFacts
<1>2. CASE g \in Gap(Taken(t, d), DiskUnits[d])
  <2>1. /\ g.start \in Nat /\ g.count \in Nat /\ g.start >= 1 /\ g.count >= 1
        /\ g.start + g.count = DiskUnits[d]
        /\ \A q \in Taken(t, d) : q[2] <= g.start
    BY <1>1, <1>2, TakenFacts, GapFacts
  <2>2. \A j \in Used(t, d) : t[d][j].start + t[d][j].count <= g.start
    BY <2>1, TakenFacts
  <2> QED BY <2>1, <2>2
<1>3. CASE \E s \in Taken(t, d) : g \in Gap({r \in Taken(t, d) : Before(r, s)}, s[1])
  <2>1. PICK s \in Taken(t, d) : g \in Gap({r \in Taken(t, d) : Before(r, s)}, s[1])
    BY <1>3
  <2> DEFINE S == {r \in Taken(t, d) : Before(r, s)}
  <2>2. s[1] \in Nat /\ \A r \in S : r[1] \in Nat /\ r[2] \in Nat /\ r[2] >= 1
    BY TakenFacts
  <2>3. /\ g.start \in Nat /\ g.count \in Nat /\ g.start >= 1 /\ g.count >= 1
        /\ g.start + g.count = s[1]
        /\ \A q \in S : q[2] <= g.start
    <3> HIDE DEF S
    <3>1. g \in Gap(S, s[1])
      BY <2>1 DEF S
    <3> QED BY <2>2, <3>1, GapFacts
  <2>4. s[1] # 0
    BY <2>3
  <2>5. \E j \in Used(t, d) : g.start + g.count = t[d][j].start
    BY <2>3, <2>4, TakenFacts
  <2>6. ASSUME NEW j \in Used(t, d)
        PROVE  \/ t[d][j].start + t[d][j].count <= g.start
               \/ g.start + g.count <= t[d][j].start
    <3>1. PICK q \in Taken(t, d) : q[1] = t[d][j].start /\ q[2] = t[d][j].start + t[d][j].count
      BY TakenFacts
    <3>2. q[1] \in Nat
      BY TakenFacts
    <3>3. Before(q, s) => q[2] <= g.start
      BY <2>3
    <3>4. ~Before(q, s) => s[1] <= q[1]
      BY <2>2, <3>2 DEF Before
    <3> QED BY <2>3, <3>1, <3>3, <3>4
  <2> QED BY <2>3, <2>5, <2>6
<1>4. \/ g \in Gap(Taken(t, d), DiskUnits[d])
      \/ \E s \in Taken(t, d) : g \in Gap({r \in Taken(t, d) : Before(r, s)}, s[1])
  <2> DEFINE before(s) == Gap({r \in Taken(t, d) : Before(r, s)}, s[1])
             last == Gap(Taken(t, d), DiskUnits[d])
  <2>1. g \in (UNION {before(s) : s \in Taken(t, d)}) \cup last
    BY DEF Gaps
  <2>2. g \in last \/ \E s \in Taken(t, d) : g \in before(s)
    <3> HIDE DEF before, last
    <3> SUFFICES ASSUME g \notin last PROVE \E s \in Taken(t, d) : g \in before(s)
      OBVIOUS
    <3> DEFINE all == {before(s) : s \in Taken(t, d)}
    <3>1. g \in UNION all
      BY <2>1
    <3>2. \A X \in all : \E s \in Taken(t, d) : X = before(s)
      OBVIOUS
    <3> HIDE DEF all
    <3>3. PICK X \in all : g \in X
      BY <3>1
    <3> QED BY <3>2, <3>3
  <2> QED BY <2>2
<1>5. QED BY <1>2, <1>3, <1>4

LEMMA SlotsBounded ==
  ASSUME NEW e \in [Slots -> Nat]
  PROVE  \E b \in Nat : \A i \in Slots : e[i] <= b
<1> DEFINE Upto(n) == \E b \in Nat : \A i \in 1 .. n : e[i] <= b
           T == {n \in Nat : n <= NSlots => Upto(n)}
<1>1. NSlots \in Nat
  BY ConstFacts
<1>2. 0 \in T
  <2>1. 1 .. 0 = {}
    OBVIOUS
  <2> QED BY <2>1
<1>3. ASSUME NEW n \in T
      PROVE  n + 1 \in T
  <2> SUFFICES ASSUME n + 1 <= NSlots PROVE Upto(n + 1)
    OBVIOUS
  <2>1. n \in Nat /\ n <= NSlots /\ n + 1 \in Slots
    <3> HIDE DEF Upto
    <3> QED BY <1>1 DEF Slots
  <2>2. PICK b \in Nat : \A i \in 1 .. n : e[i] <= b
    <3>1. n <= NSlots => Upto(n)
      <4> HIDE DEF Upto
      <4> QED OBVIOUS
    <3> QED BY <2>1, <3>1, Zenon
  <2>3. e[n + 1] \in Nat
    BY <2>1
  <2>4. \A i \in 1 .. n + 1 : i \in 1 .. n \/ i = n + 1
    BY <2>1
  <2>5. \A i \in 1 .. n + 1 : e[i] \in Nat
    BY <1>1, <2>1 DEF Slots
  <2>6. \A i \in 1 .. n + 1 : e[i] <= b + e[n + 1]
    BY <2>2, <2>3, <2>4, <2>5
  <2> QED BY <2>3, <2>6
<1> HIDE DEF Upto
<1>4. T \in SUBSET Nat
  OBVIOUS
<1> HIDE DEF T
<1>5. NSlots \in T
  BY <1>1, <1>2, <1>3, <1>4, Induction
<1>6. Upto(NSlots)
  BY <1>5 DEF T
<1>7. QED BY <1>6 DEF Upto, Slots

LEMMA LargestFreeIn ==
  ASSUME NEW t \in DiskTables, NEW d \in Raw, NEW im
  PROVE  LET g == LargestFree(im, t, d) IN
         /\ g.start \in Nat /\ g.count \in Nat
         /\ ~HasTable(im, t, d) /\ g.count >= 1 => g.start = 1 /\ g.start + g.count = DiskUnits[d]
         /\ HasTable(im, t, d) /\ g.count >= 1 => g \in Gaps(t, d)
<1> DEFINE G == Gaps(t, d)
           Best(g) == \A h \in G : h.count < g.count \/ (h.count = g.count /\ g.start <= h.start)
<1>1. DiskUnits[d] \in Nat \ {0}
  BY ConstFacts
<1>2. CASE ~HasTable(im, t, d)
  BY <1>1, <1>2 DEF LargestFree
<1>3. CASE HasTable(im, t, d) /\ G = {}
  BY <1>3 DEF LargestFree
<1>4. CASE HasTable(im, t, d) /\ G # {}
  <2>1. \A g \in G : g.start \in Nat /\ g.count \in Nat
    BY GapsFree
  <2>2. PICK b \in Nat : \A i \in Slots : t[d][i].start <= b
    <3> DEFINE e == [i \in Slots |-> t[d][i].start]
    <3>1. e \in [Slots -> Nat]
      BY DEF DiskTables, Entry
    <3>2. PICK b \in Nat : \A i \in Slots : e[i] <= b
      <4> HIDE DEF e
      <4> QED BY <3>1, SlotsBounded
    <3> QED BY <3>2
  <2>3. ASSUME NEW g \in G
        PROVE  g.count <= b + DiskUnits[d]
    <3>1. /\ g.start \in Nat /\ g.count \in Nat
          /\ g.start + g.count = DiskUnits[d] \/ \E j \in Used(t, d) : g.start + g.count = t[d][j].start
      BY GapsFree
    <3>2. CASE g.start + g.count = DiskUnits[d]
      BY <1>1, <3>1, <3>2
    <3>3. CASE \E j \in Used(t, d) : g.start + g.count = t[d][j].start
      <4>1. PICK j \in Used(t, d) : g.start + g.count = t[d][j].start
        BY <3>3
      <4>2. t[d][j].start \in Nat /\ t[d][j].start <= b
        BY <2>2 DEF Used, DiskTables, Entry
      <4> QED BY <1>1, <3>1, <4>1, <4>2
    <3> QED BY <3>1, <3>2, <3>3
  <2> HIDE DEF G
  <2> DEFINE Counts == {g.count : g \in G}
  <2>4. PICK c \in Counts : \A n \in Counts : n <= c
    <3>1. Counts \in SUBSET Nat /\ Counts # {} /\ b + DiskUnits[d] \in Nat
          /\ \A n \in Counts : n <= b + DiskUnits[d]
      BY <1>1, <1>4, <2>1, <2>3
    <3> HIDE DEF Counts
    <3> QED BY <3>1, GreatestElement
  <2> DEFINE Starts == {g.start : g \in {h \in G : h.count = c}}
  <2>5. PICK s \in Starts : \A n \in Starts : s <= n
    <3>1. Starts \in SUBSET Nat /\ Starts # {}
      BY <2>1, <2>4
    <3> HIDE DEF Starts
    <3> QED BY <3>1, LeastElement
  <2>6. PICK g \in G : g.count = c /\ g.start = s
    BY <2>5
  <2>7. Best(g)
    <3>1. ASSUME NEW h \in G
          PROVE  h.count < g.count \/ (h.count = g.count /\ g.start <= h.start)
      <4>1. h.count \in Nat /\ g.count \in Nat /\ h.count <= c
        BY <2>1, <2>4
      <4>2. h.count = c => s <= h.start
        BY <2>5
      <4> QED BY <2>6, <4>1, <4>2
    <3> QED BY <3>1
  <2> DEFINE x == CHOOSE f \in G : Best(f)
  <2>8. x \in G
    <3> HIDE DEF Best
    <3> QED BY <2>7
  <2>9. LargestFree(im, t, d) = x
    BY <1>4, Zenon DEF LargestFree, G
  <2> HIDE DEF x
  <2>10. x.start \in Nat /\ x.count \in Nat
    BY <2>1, <2>8
  <2> QED BY <1>4, <2>8, <2>9, <2>10 DEF G
<1>5. QED BY <1>2, <1>3, <1>4

-----------------------------------------------------------------------------
(* The types: one lemma per operation on the disks, then one step per action. *)

WizardStates == [pc : Places, target : Ids \cup {NoDisk}, letter : Letters, try : 0 .. 3,
                 fails : BOOLEAN, bootrc : BOOLEAN]

DisksTyped ==
    /\ table \in DiskTables /\ isMbr \in SUBSET Raw
    /\ vol \in DiskVolumes /\ view \in ViewTables
    /\ Mounted \in Mounts

Typed == DisksTyped /\ inst \in WizardStates /\ ops \in 0 .. MaxOps

LEMMA TypedOK == Typed <=> TypeOK
<1>1. Mounted \in Mounts <=> /\ drive \in [Letters -> Ids \cup {NoDisk}]
                             /\ half \subseteq Letters /\ \A L \in half : drive[L] # NoDisk
                             /\ current \in 0 .. NLetters
  BY DEF Mounted, Mounts, GoodMount
<1>2. vol \in DiskVolumes <=> vol \in [Locs -> Volume] /\ \A l \in Locs : vol[l].whole \subseteq vol[l].files
  BY DEF DiskVolumes, GoodVolume
<1>3. view \in ViewTables <=>
        /\ view \in [Views -> {NoView} \cup [parent : Raw, idx : Slots, start : Nat, count : Nat]]
        /\ \A v \in Views : view[v] # NoView =>
              /\ view[v].start >= 1 /\ view[v].count >= 1
              /\ view[v].start + view[v].count <= DiskUnits[view[v].parent]
  <2> DEFINE R == [parent : Raw, idx : Slots, start : Nat, count : Nat]
             fits(e) == e.start >= 1 /\ e.count >= 1 /\ e.start + e.count <= DiskUnits[e.parent]
  <2>1. GoodView = {NoView} \cup {e \in R : fits(e)}
    BY DEF GoodView
  <2> HIDE DEF R, fits
  <2>2. view \in ViewTables <=> view \in [Views -> {NoView} \cup R]
                                 /\ \A v \in Views : view[v] # NoView => fits(view[v])
    BY <2>1 DEF ViewTables
  <2> QED BY <2>2 DEF R, fits
<1>4. QED BY <1>1, <1>2, <1>3 DEF Typed, DisksTyped, TypeOK, DiskTables, WizardStates

LEMMA SetMountedType ==
  ASSUME NEW m \in Mounts, SetMounted(m)
  PROVE  Mounted' \in Mounts
<1>1. /\ drive' \in [Letters -> Ids \cup {NoDisk}]
      /\ half' \subseteq Letters /\ \A L \in half' : drive'[L] # NoDisk
      /\ current' \in 0 .. NLetters
  BY DEF SetMounted, Mounts, GoodMount
<1>2. QED BY <1>1 DEF Mounted, Mounts, GoodMount

LEMMA RescanType ==
  ASSUME NEW m \in Mounts, NEW im, NEW t \in DiskTables, NEW vo \in DiskVolumes,
         Rescan(m, im, t, vo)
  PROVE  view' \in ViewTables /\ Mounted' \in Mounts
<1>1. view' \in ViewTables
  BY ScanTablesType DEF Rescan
<1>2. PICK n : n = MountAll(m, im, t, view', vo)
  OBVIOUS
<1>3. n \in Mounts
  BY <1>1, <1>2, MountAllType
<1>4. SetMounted(n)
  BY <1>2 DEF Rescan
<1>5. QED BY <1>1, <1>3, <1>4, SetMountedType

LEMMA UnmountIn ==
  ASSUME NEW m \in Mounts, NEW Ls
  PROVE  Unmount(m, Ls) \in Mounts
<1>1. GoodMount(m)
  BY DEF Mounts
<1>2. GoodMount(Unmount(m, Ls))
  BY <1>1, UnmountType
<1>3. QED BY <1>2 DEF Mounts, GoodMount, Unmount

LEMMA FormattedType ==
  ASSUME NEW vo \in DiskVolumes, NEW loc, NEW o \in FormatOutcomes
  PROVE  Formatted(vo, loc, o) \in DiskVolumes
<1>1. o.kind # "same" => [NewVol EXCEPT !.kind = o.kind] \in GoodVolume
  <2>1. o.kind \in {"fat", "torn", "same"}
    BY DEF FormatOutcomes
  <2>2. NoVol \in Volume /\ NoVol.whole = {}
    BY DEF NoVol, Volume
  <2>3. NewVol \in Volume /\ NewVol.whole = {}
    BY <2>2 DEF NewVol, Volume
  <2> QED BY <2>1, <2>3 DEF GoodVolume, Volume
<1>2. QED BY <1>1 DEF Formatted, DiskVolumes

LEMMA FreeEntry ==
  /\ Free \in Entry
  /\ \A t \in DiskTables, d \in Raw :
        [t EXCEPT ![d] = [i \in Slots |-> Free]] \in DiskTables
BY DEF Free, Entry, DiskTables

LEMMA CreatedType ==
  ASSUME NEW im, NEW t \in DiskTables, NEW d \in Raw, NEW i, NEW span, NEW active \in BOOLEAN,
         span.start \in Nat, span.count \in Nat
  PROVE  Created(im, t, d, i, span, active) \in [Slots -> Entry]
<1> DEFINE base == IF HasTable(im, t, d) THEN t[d] ELSE [j \in Slots |-> Free]
           new == [type |-> TRUE, start |-> span.start, count |-> span.count, boot |-> active]
           e(j) == IF j = i THEN new ELSE IF active THEN [base[j] EXCEPT !.boot = FALSE] ELSE base[j]
<1>1. base \in [Slots -> Entry]
  BY FreeEntry DEF DiskTables
<1>2. new \in Entry
  BY DEF Entry
<1> HIDE DEF base, new
<1>3. ASSUME NEW j \in Slots
      PROVE  e(j) \in Entry
  <2>1. base[j] \in Entry
    BY <1>1
  <2>2. [base[j] EXCEPT !.boot = FALSE] \in Entry
    BY <2>1 DEF Entry
  <2> QED BY <1>2, <2>1, <2>2
<1>4. Created(im, t, d, i, span, active) = [j \in Slots |-> e(j)]
  BY DEF Created, base, new
<1> HIDE DEF e
<1>5. QED BY <1>3, <1>4

LEMMA ActivatedType ==
  ASSUME NEW t \in DiskTables, NEW d \in Raw, NEW i
  PROVE  Activated(t, d, i) \in DiskTables
<1>1. ASSUME NEW j \in Slots
      PROVE  [t[d][j] EXCEPT !.boot = (j = i)] \in Entry
  <2>1. t[d][j] \in Entry
    BY DEF DiskTables
  <2> QED BY <2>1 DEF Entry
<1>2. [j \in Slots |-> [t[d][j] EXCEPT !.boot = (j = i)]] \in [Slots -> Entry]
  BY <1>1
<1>3. QED BY <1>2 DEF Activated, DiskTables

LEMMA WroteType ==
  ASSUME vol \in DiskVolumes, NEW f \in Files, NEW how
  PROVE  Wrote(f, how) \in DiskVolumes
<1> DEFINE w(v) == [kind |-> v.kind,
                    files |-> IF how = "none" THEN v.files \ {f} ELSE v.files \cup {f},
                    whole |-> IF how = "whole" THEN v.whole \cup {f} ELSE v.whole \ {f},
                    stage1 |-> v.stage1]
<1>1. PICK c : c = Target
  OBVIOUS
<1>2. ASSUME NEW l \in Locs
      PROVE  Wrote(f, how)[l] \in GoodVolume
  <2>1. vol[l] \in GoodVolume
    BY DEF DiskVolumes
  <2>2. w(vol[l]) \in GoodVolume
    BY <2>1 DEF GoodVolume, Volume
  <2>3. CASE l = c
    <3>1. Wrote(f, how)[l] = [[vol[l] EXCEPT !.files = IF how = "none" THEN @ \ {f} ELSE @ \cup {f}]
                                     EXCEPT !.whole = IF how = "whole" THEN @ \cup {f} ELSE @ \ {f}]
      BY <1>1, <2>3 DEF Wrote, DiskVolumes
    <3>2. Wrote(f, how)[l] = w(vol[l])
      BY <2>1, <3>1 DEF GoodVolume, Volume
    <3> QED BY <2>2, <3>2
  <2>4. CASE l # c
    <3>1. Wrote(f, how)[l] = vol[l]
      BY <1>1, <2>4 DEF Wrote, DiskVolumes
    <3> QED BY <2>1, <3>1
  <2> QED BY <2>3, <2>4
<1>3. Wrote(f, how) = [l \in Locs |-> Wrote(f, how)[l]]
  BY DEF Wrote, DiskVolumes
<1>4. QED BY <1>2, <1>3, Zenon DEF DiskVolumes

LEMMA AddPartType ==
  ASSUME DisksTyped, NEW d \in Raw, NEW span, NEW always \in BOOLEAN,
         span.start \in Nat, span.count \in Nat,
         AddPart(d, span, always, Mounted)
  PROVE  DisksTyped'
<1> DEFINE t0 == InitTable(table, d)
           im == isMbr \cup {d}
           free == {i \in Slots : ~t0[d][i].type}
           slot == CHOOSE i \in free : \A j \in free : i <= j
           active == always \/ \A i \in Slots : ~t0[d][i].boot
           t1 == [t0 EXCEPT ![d] = Created(im, t0, d, slot, span, active)]
<1>1. isMbr' = im /\ vol' = vol
  BY Zenon DEF AddPart
<1>2. isMbr' \in SUBSET Raw /\ vol' \in DiskVolumes
  BY <1>1 DEF DisksTyped
<1>3. t0 \in DiskTables
  BY FreeEntry DEF InitTable, DisksTyped
<1>4. \/ table' = t0 /\ UNCHANGED <<view, drive, half, current>>
      \/ table' = t1 /\ Rescan(Mounted, im, table', vol)
  BY Zenon DEF AddPart
<1>5. CASE table' = t0 /\ UNCHANGED <<view, drive, half, current>>
  BY <1>2, <1>3, <1>5 DEF DisksTyped, Mounted
<1>6. CASE table' = t1 /\ Rescan(Mounted, im, table', vol)
  <2>1. active \in BOOLEAN
    OBVIOUS
  <2>2. Created(im, t0, d, slot, span, active) \in [Slots -> Entry]
    <3> HIDE DEF t0, im, slot, active
    <3> QED BY <1>3, <2>1, CreatedType
  <2>3. t1 \in DiskTables
    <3> DEFINE c == Created(im, t0, d, slot, span, active)
    <3> HIDE DEF t0, c
    <3> QED BY <1>3, <2>2 DEF c, DiskTables
  <2> HIDE DEF t1, im
  <2>4. Rescan(Mounted, im, t1, vol)
    BY <1>6, Zenon DEF Rescan
  <2>5. view' \in ViewTables /\ Mounted' \in Mounts
    BY <2>3, <2>4, RescanType DEF DisksTyped
  <2> QED BY <1>2, <1>6, <2>3, <2>5 DEF DisksTyped
<1>7. QED BY <1>4, <1>5, <1>6

LEMMA WipeTableType ==
  ASSUME DisksTyped, NEW d \in Raw, WipeTable(d)
  PROVE  DisksTyped'
<1>1. isMbr' = isMbr \cup {d} /\ vol' = vol
  BY DEF WipeTable
<1>2. table' \in DiskTables
  BY FreeEntry DEF WipeTable, DisksTyped
<1>3. PICK m : m = UnmountAll(Mounted, {v \in Views : view[v].parent = d})
  OBVIOUS
<1>4. m \in Mounts
  BY <1>3, UnmountIn DEF DisksTyped, UnmountAll
<1>5. PICK im, t : im = isMbr' /\ t = table'
  OBVIOUS
<1>6. Rescan(m, im, t, vol)
  BY <1>3, <1>5, Zenon DEF WipeTable, Rescan
<1>7. view' \in ViewTables /\ Mounted' \in Mounts
  BY <1>2, <1>4, <1>5, <1>6, RescanType DEF DisksTyped
<1>8. QED BY <1>1, <1>2, <1>7 DEF DisksTyped

LEMMA FormatMounts ==
  ASSUME DisksTyped, NEW id, Present(view, id), NEW o \in FormatOutcomes,
         vol' = Formatted(vol, Where(view, id), o)
  PROVE  /\ vol' \in DiskVolumes /\ vol'[Where(view, id)] \in Volume
         /\ id \in Ids /\ Where(view, id) \in Locs
<1>1. id \in Ids /\ Where(view, id) \in Locs
  BY WhereLoc DEF DisksTyped
<1>2. vol' \in DiskVolumes
  BY FormattedType DEF DisksTyped
<1>3. QED BY <1>1, <1>2 DEF DiskVolumes, GoodVolume

-----------------------------------------------------------------------------
(* The wizard between two of its steps: what it has confirmed, mounted and   *)
(* written on the target so far.                                             *)
Copying == {"copy", "stage1", "STAGE2", "KERNEL", "marker", "active", "verify"}

WizardInv ==
    LET c == vol[Where(view, inst.target)]
    IN  /\ inst.pc \notin {"idle", "pick"} => Present(view, inst.target)
        /\ inst.pc \in Copying => drive[inst.letter] = inst.target
        /\ inst.pc \in {"STAGE2", "KERNEL", "marker", "active"} => c.stage1
        /\ inst.pc \in {"KERNEL", "marker", "active"} => "STAGE2" \in c.whole
        /\ inst.pc \in {"marker", "active"} => "KERNEL" \in c.whole
        /\ inst.pc = "verify" /\ inst.bootrc => c.stage1 /\ {"STAGE2", "KERNEL"} \subseteq c.whole
        /\ InstallHonest

LEMMA WizardResting ==
  ASSUME inst'.pc \in {"idle", "pick"}
  PROVE  WizardInv'
BY DEF WizardInv, InstallHonest, Copying

LEMMA PcFacts ==
  ASSUME inst \in WizardStates
  PROVE  /\ inst.pc \in Places /\ inst.target \in Ids \cup {NoDisk} /\ inst.letter \in Letters
         /\ inst.try \in 0 .. 3 /\ inst.fails \in BOOLEAN /\ inst.bootrc \in BOOLEAN
BY DEF WizardStates

LEMMA IdleType == /\ Idle \in WizardStates /\ Idle.pc = "idle"
                  /\ [Idle EXCEPT !.pc = "pick"] \in WizardStates
                  /\ [Idle EXCEPT !.pc = "pick"].pc = "pick"
<1>1. 1 \in Letters
  BY ConstFacts DEF Letters
<1>2. Idle \in WizardStates /\ Idle.pc = "idle"
  BY <1>1 DEF Idle, WizardStates, Places
<1>3. QED BY <1>2 DEF WizardStates, Places

LEMMA ReadyOps ==
  ASSUME ops \in 0 .. MaxOps, ops < MaxOps, ops' = ops + 1
  PROVE  ops' \in 0 .. MaxOps
BY ConstFacts

LEMMA WroteAt ==
  ASSUME vol \in DiskVolumes, Target \in Locs, NEW f \in Files, NEW how
  PROVE  /\ Wrote(f, how)[Target].stage1 = vol[Target].stage1
         /\ Wrote(f, how)[Target].whole = IF how = "whole" THEN vol[Target].whole \cup {f}
                                          ELSE vol[Target].whole \ {f}
<1>1. PICK c \in Locs : c = Target
  OBVIOUS
<1>2. vol[c] \in Volume
  BY DEF DiskVolumes, GoodVolume
<1>3. Wrote(f, how)[c] = [[vol[c] EXCEPT !.files = IF how = "none" THEN @ \ {f} ELSE @ \cup {f}]
                                 EXCEPT !.whole = IF how = "whole" THEN @ \cup {f} ELSE @ \ {f}]
  BY <1>1 DEF Wrote, DiskVolumes
<1>4. QED BY <1>1, <1>2, <1>3 DEF Volume

(* In its copying states the wizard writes where it was told to. *)
LEMMA TargetIs ==
  ASSUME Typed, WizardInv, inst.pc \in Copying
  PROVE  /\ Present(view, inst.target) /\ drive[inst.letter] = inst.target
         /\ Target = Where(view, inst.target) /\ Target \in Locs
<1>1. inst.pc \notin {"idle", "pick"}
  BY DEF Copying
<1>2. Present(view, inst.target) /\ drive[inst.letter] = inst.target
  BY <1>1, Zenon DEF WizardInv
<1>3. Target = Where(view, inst.target)
  BY <1>2 DEF Target
<1>4. QED BY <1>2, <1>3, WhereLoc DEF Typed, DisksTyped

-----------------------------------------------------------------------------
(* The steps of the wizard. *)

LEMMA TryFormatStep ==
  ASSUME Typed, WizardInv, TryFormat
  PROVE  Typed' /\ WizardInv'
<1>1. inst.pc = "format" /\ ops' = ops
  BY DEF TryFormat, Go
<1>2. Present(view, inst.target)
  BY <1>1, Zenon DEF WizardInv
<1>3. CASE inst.try = 3
  <2>1. inst' = Idle /\ UNCHANGED <<table, isMbr, vol, view, drive, half, current>>
    BY <1>3 DEF TryFormat, Disks, Vols
  <2>2. Typed'
    BY <1>1, <2>1, IdleType DEF Typed, DisksTyped, Mounted
  <2>3. WizardInv'
    BY <2>1, IdleType, WizardResting
  <2> QED BY <2>2, <2>3
<1>4. CASE inst.try # 3
  <2> DEFINE m0 == Unmount(Mounted, {inst.letter})
             loc == Where(view, inst.target)
  <2>1. PICK o, m1 :
          /\ o \in FormatOutcomes
          /\ m1 = IF o.ok THEN Mount(m0, inst.letter, vol'[loc], inst.target) ELSE m0
          /\ vol' = Formatted(vol, loc, o)
          /\ isMbr' = IF inst.target \in Raw /\ o.kind # "same" THEN isMbr \ {inst.target} ELSE isMbr
          /\ SetMounted(IF m1.ok THEN [m1 EXCEPT !.current = inst.letter] ELSE m1)
          /\ \E again \in BOOLEAN :
                inst' = IF m1.ok THEN [inst EXCEPT !.pc = "copy"]
                        ELSE IF again THEN NextAttempt(inst) ELSE Idle
          /\ table' = table /\ view' = view
    BY <1>4, Zenon DEF TryFormat
  <2>2. /\ vol' \in DiskVolumes /\ vol'[loc] \in Volume /\ inst.target \in Ids
    BY <1>2, <2>1, FormatMounts DEF Typed
  <2>3. inst.letter \in Letters /\ inst.try \in 0 .. 3
    BY PcFacts DEF Typed
  <2>4. m0 \in Mounts /\ m0.ok = FALSE
    BY UnmountIn DEF Typed, DisksTyped, Unmount
  <2>5. m1 \in Mounts /\ (m1.ok => m1.drive[inst.letter] = inst.target)
    <3> HIDE DEF m0, loc
    <3>1. GoodMount(m0)
      BY <2>4 DEF Mounts
    <3>2. PICK v : v = vol'[loc]
      OBVIOUS
    <3>3. Mount(m0, inst.letter, v, inst.target) \in Mounts
      BY <2>2, <2>3, <2>4, <3>2, MountIn
    <3>4. Mount(m0, inst.letter, v, inst.target).ok
             => Mount(m0, inst.letter, v, inst.target).drive[inst.letter] = inst.target
      BY <2>2, <2>3, <3>1, <3>2, MountType
    <3>5. m1 = IF o.ok THEN Mount(m0, inst.letter, v, inst.target) ELSE m0
      BY <2>1, <3>2
    <3> QED BY <2>4, <3>3, <3>4, <3>5
  <2> HIDE DEF m0, loc
  <2> DEFINE n == IF m1.ok THEN [m1 EXCEPT !.current = inst.letter] ELSE m1
  <2>6. n \in Mounts /\ n.drive = m1.drive
    <3>1. inst.letter \in 0 .. NLetters
      BY <2>3, ConstFacts DEF Letters
    <3> QED BY <2>5, <3>1 DEF Mounts, GoodMount
  <2>7. Mounted' \in Mounts /\ drive' = m1.drive
    <3>1. SetMounted(n)
      BY <2>1
    <3> HIDE DEF n
    <3> QED BY <2>6, <3>1, SetMountedType DEF SetMounted
  <2>8. DisksTyped'
    BY <2>1, <2>2, <2>7 DEF Typed, DisksTyped
  <2>9. \/ m1.ok /\ inst' = [inst EXCEPT !.pc = "copy"]
        \/ ~m1.ok /\ inst' = NextAttempt(inst)
        \/ inst' = Idle
    BY <2>1
  <2>10. CASE m1.ok /\ inst' = [inst EXCEPT !.pc = "copy"]
    <3>1. /\ inst' \in WizardStates /\ inst'.pc = "copy" /\ inst'.target = inst.target
          /\ inst'.letter = inst.letter
      BY <2>10 DEF Typed, WizardStates, Places
    <3>2. Present(view', inst'.target) /\ drive'[inst'.letter] = inst'.target
      BY <1>2, <2>1, <2>5, <2>7, <2>10, <3>1
    <3>3. WizardInv'
      BY <3>1, <3>2 DEF WizardInv, InstallHonest
    <3> QED BY <1>1, <2>8, <3>1, <3>3 DEF Typed
  <2>11. CASE ~m1.ok /\ inst' = NextAttempt(inst)
    <3>1. inst' \in WizardStates /\ inst'.pc = "format" /\ inst'.target = inst.target
      BY <1>1, <1>4, <2>3, <2>11 DEF NextAttempt, Typed, WizardStates
    <3>2. Present(view', inst'.target)
      BY <1>2, <2>1, <3>1
    <3>3. WizardInv'
      BY <3>1, <3>2 DEF WizardInv, InstallHonest, Copying
    <3> QED BY <1>1, <2>8, <3>1, <3>3 DEF Typed
  <2>12. CASE inst' = Idle
    <3>1. WizardInv'
      BY <2>12, IdleType, WizardResting
    <3> QED BY <1>1, <2>8, <2>12, <3>1, IdleType DEF Typed
  <2> QED BY <2>9, <2>10, <2>11, <2>12
<1>5. QED BY <1>3, <1>4

LEMMA CopyTreesStep ==
  ASSUME Typed, WizardInv, CopyTrees
  PROVE  Typed' /\ WizardInv'
<1>1. /\ inst.pc = "copy" /\ ops' = ops
      /\ UNCHANGED <<table, isMbr, view, drive, half, current>>
  BY DEF CopyTrees, Go, Vols
<1>2. Present(view, inst.target) /\ drive[inst.letter] = inst.target
  BY <1>1, TargetIs DEF Copying
<1>3. vol' \in DiskVolumes
  <2>1. CASE \E how \in {"none", "part", "whole"} : vol' = Wrote("SYS", how)
    BY <2>1, WroteType DEF Typed, DisksTyped, Files
  <2>2. CASE vol' = vol
    BY <2>2 DEF Typed, DisksTyped
  <2> QED BY <2>1, <2>2, Zenon DEF CopyTrees
<1>4. \/ inst' = [inst EXCEPT !.pc = "stage1"]
      \/ \E how \in {"none", "part", "whole"} : inst' = [inst EXCEPT !.pc = "stage1", !.fails = (how # "whole")]
  BY Zenon DEF CopyTrees
<1>5. /\ inst' \in WizardStates /\ inst'.pc = "stage1" /\ inst'.target = inst.target
      /\ inst'.letter = inst.letter
  BY <1>4 DEF Typed, WizardStates, Places
<1>6. Typed'
  BY <1>1, <1>3, <1>5 DEF Typed, DisksTyped, Mounted
<1>7. Present(view', inst'.target) /\ drive'[inst'.letter] = inst'.target
  BY <1>1, <1>2, <1>5
<1>8. WizardInv'
  BY <1>5, <1>7 DEF WizardInv, InstallHonest
<1>9. QED BY <1>6, <1>8

LEMMA WriteStage1Step ==
  ASSUME Typed, WizardInv, WriteStage1
  PROVE  Typed' /\ WizardInv'
<1>1. /\ inst.pc = "stage1" /\ ops' = ops
      /\ UNCHANGED <<table, isMbr, view, drive, half, current>>
  BY DEF WriteStage1, Go, Vols
<1>2. /\ Present(view, inst.target) /\ drive[inst.letter] = inst.target
      /\ Where(view, inst.target) \in Locs
  BY <1>1, TargetIs DEF Copying
<1> DEFINE loc == Where(view, inst.target)
<1>3. \/ vol' = [vol EXCEPT ![loc].stage1 = TRUE] /\ inst' = [inst EXCEPT !.pc = "STAGE2"]
      \/ vol' = vol /\ inst' = [inst EXCEPT !.pc = "verify", !.bootrc = FALSE]
  BY DEF WriteStage1
<1>4. /\ inst' \in WizardStates /\ inst'.target = inst.target /\ inst'.letter = inst.letter
      /\ inst'.pc = "STAGE2" \/ (inst'.pc = "verify" /\ inst'.bootrc = FALSE)
  BY <1>3 DEF Typed, WizardStates, Places
<1>5. /\ vol' \in DiskVolumes
      /\ inst'.pc = "STAGE2" => vol'[loc].stage1
  <2>1. CASE vol' = vol /\ inst' = [inst EXCEPT !.pc = "verify", !.bootrc = FALSE]
    BY <2>1 DEF Typed, DisksTyped, WizardStates
  <2>2. CASE vol' = [vol EXCEPT ![loc].stage1 = TRUE]
    <3>1. PICK c \in Locs : c = loc
      BY <1>2
    <3>2. vol \in DiskVolumes
      BY DEF Typed, DisksTyped
    <3>3. vol' = [vol EXCEPT ![c] = [vol[c] EXCEPT !.stage1 = TRUE]]
      BY <2>2, <3>1
    <3>4. vol[c] \in GoodVolume
      BY <3>2 DEF DiskVolumes
    <3>5. [vol[c] EXCEPT !.stage1 = TRUE] \in GoodVolume /\ [vol[c] EXCEPT !.stage1 = TRUE].stage1
      BY <3>4 DEF GoodVolume, Volume
    <3> QED BY <3>1, <3>2, <3>3, <3>5 DEF DiskVolumes
  <2> QED BY <1>3, <2>1, <2>2
<1>6. Typed'
  BY <1>1, <1>4, <1>5 DEF Typed, DisksTyped, Mounted
<1>7. /\ Present(view', inst'.target) /\ drive'[inst'.letter] = inst'.target
      /\ Where(view', inst'.target) = loc
  BY <1>1, <1>2, <1>4
<1> HIDE DEF loc
<1>8. WizardInv'
  BY <1>4, <1>5, <1>7 DEF WizardInv, InstallHonest
<1>9. QED BY <1>6, <1>8

LEMMA WriteBootFileStep ==
  ASSUME Typed, WizardInv,
         NEW f \in {"STAGE2", "KERNEL"}, NEW next, next = IF f = "STAGE2" THEN "KERNEL" ELSE "marker",
         WriteBootFile(f, next)
  PROVE  Typed' /\ WizardInv'
<1>1. /\ inst.pc = f /\ ops' = ops
      /\ UNCHANGED <<table, isMbr, view, drive, half, current>>
  BY DEF WriteBootFile, Go, Vols
<1>2. /\ Present(view, inst.target) /\ drive[inst.letter] = inst.target
      /\ Target = Where(view, inst.target) /\ Target \in Locs
  BY <1>1, TargetIs DEF Copying
<1>3. PICK how \in {"none", "part", "whole"} :
         /\ vol' = Wrote(f, how)
         /\ inst' = IF how = "whole" THEN [inst EXCEPT !.pc = next]
                    ELSE [inst EXCEPT !.pc = "verify", !.bootrc = FALSE]
  BY DEF WriteBootFile
<1>4. /\ inst' \in WizardStates /\ inst'.target = inst.target /\ inst'.letter = inst.letter
      /\ (how = "whole" /\ inst'.pc = next) \/ (inst'.pc = "verify" /\ inst'.bootrc = FALSE)
  BY <1>3 DEF Typed, WizardStates, Places
<1>5. f \in Files /\ vol \in DiskVolumes
  BY DEF Files, Typed, DisksTyped
<1>6. vol' \in DiskVolumes
  BY <1>3, <1>5, WroteType
<1>7. Typed'
  BY <1>1, <1>4, <1>6 DEF Typed, DisksTyped, Mounted
<1>8. PICK loc \in Locs : loc = Target
  BY <1>2
<1>9. /\ vol[loc].stage1
      /\ f = "KERNEL" => "STAGE2" \in vol[loc].whole
  BY <1>1, <1>2, <1>8 DEF WizardInv
<1>10. /\ vol'[loc].stage1 = vol[loc].stage1
       /\ how = "whole" => vol'[loc].whole = vol[loc].whole \cup {f}
  BY <1>2, <1>3, <1>5, <1>8, WroteAt
<1>11. /\ Present(view', inst'.target) /\ drive'[inst'.letter] = inst'.target
       /\ Where(view', inst'.target) = loc
  BY <1>1, <1>2, <1>4, <1>8
<1>12. WizardInv'
  BY <1>4, <1>9, <1>10, <1>11 DEF WizardInv, InstallHonest
<1>13. QED BY <1>7, <1>12

LEMMA WriteMarkerStep ==
  ASSUME Typed, WizardInv, WriteMarker
  PROVE  Typed' /\ WizardInv'
<1>1. /\ inst.pc = "marker" /\ ops' = ops /\ inst' = [inst EXCEPT !.pc = "active"]
      /\ UNCHANGED <<table, isMbr, view, drive, half, current>>
  BY DEF WriteMarker, Go, Vols
<1>2. /\ Present(view, inst.target) /\ drive[inst.letter] = inst.target
      /\ Target = Where(view, inst.target) /\ Target \in Locs
  BY <1>1, TargetIs DEF Copying
<1>3. PICK how \in {"none", "part", "whole"} : vol' = Wrote("SYS", how)
  BY DEF WriteMarker
<1>4. /\ inst' \in WizardStates /\ inst'.target = inst.target /\ inst'.letter = inst.letter
      /\ inst'.pc = "active"
  BY <1>1 DEF Typed, WizardStates, Places
<1>5. "SYS" \in Files /\ vol \in DiskVolumes
  BY DEF Files, Typed, DisksTyped
<1>6. vol' \in DiskVolumes
  BY <1>3, <1>5, WroteType
<1>7. Typed'
  BY <1>1, <1>4, <1>6 DEF Typed, DisksTyped, Mounted
<1>8. PICK loc \in Locs : loc = Target
  BY <1>2
<1>9. vol[loc].stage1 /\ "STAGE2" \in vol[loc].whole /\ "KERNEL" \in vol[loc].whole
  BY <1>1, <1>2, <1>8 DEF WizardInv
<1>10. /\ vol'[loc].stage1 = vol[loc].stage1
       /\ vol[loc].whole \ {"SYS"} \subseteq vol'[loc].whole
  <2>1. vol'[loc].whole = IF how = "whole" THEN vol[loc].whole \cup {"SYS"} ELSE vol[loc].whole \ {"SYS"}
    BY <1>2, <1>3, <1>5, <1>8, WroteAt
  <2> QED BY <1>2, <1>3, <1>5, <1>8, <2>1, WroteAt
<1>11. /\ Present(view', inst'.target) /\ drive'[inst'.letter] = inst'.target
       /\ Where(view', inst'.target) = loc
  BY <1>1, <1>2, <1>4, <1>8
<1>12. WizardInv'
  BY <1>4, <1>9, <1>10, <1>11 DEF WizardInv, InstallHonest
<1>13. QED BY <1>7, <1>12

LEMMA MarkActiveStep ==
  ASSUME Typed, WizardInv, MarkActive
  PROVE  Typed' /\ WizardInv'
<1>1. /\ inst.pc = "active" /\ ops' = ops /\ inst' = [inst EXCEPT !.pc = "verify"]
      /\ UNCHANGED <<isMbr, vol, view, drive, half, current>>
  BY DEF MarkActive, Go, Vols
<1>2. /\ Present(view, inst.target) /\ drive[inst.letter] = inst.target
  BY <1>1, TargetIs DEF Copying
<1>3. table' \in DiskTables
  <2> DEFINE v == view[inst.target]
  <2>1. CASE inst.target \in Views /\ v # NoView
    <3>1. v \in GoodView
      BY <2>1 DEF Typed, DisksTyped, ViewTables
    <3>2. v.parent \in Raw
      BY <2>1, <3>1 DEF GoodView
    <3>3. Activated(table, v.parent, v.idx) \in DiskTables
      BY <3>2, ActivatedType DEF Typed, DisksTyped
    <3>4. table' = table \/ table' = Activated(table, v.parent, v.idx)
      BY DEF MarkActive
    <3> QED BY <3>3, <3>4 DEF Typed, DisksTyped
  <2>2. CASE ~(inst.target \in Views /\ v # NoView)
    BY <2>2 DEF MarkActive, Typed, DisksTyped
  <2> QED BY <2>1, <2>2
<1>4. /\ inst' \in WizardStates /\ inst'.target = inst.target /\ inst'.letter = inst.letter
      /\ inst'.pc = "verify"
  BY <1>1 DEF Typed, WizardStates, Places
<1>5. Typed'
  BY <1>1, <1>3, <1>4 DEF Typed, DisksTyped, Mounted
<1>6. PICK loc : loc = Where(view, inst.target)
  OBVIOUS
<1>7. vol[loc].stage1 /\ "STAGE2" \in vol[loc].whole /\ "KERNEL" \in vol[loc].whole
  BY <1>1, <1>6 DEF WizardInv
<1>8. /\ Present(view', inst'.target) /\ drive'[inst'.letter] = inst'.target
      /\ Where(view', inst'.target) = loc /\ vol' = vol
  BY <1>1, <1>2, <1>4, <1>6
<1>9. WizardInv'
  BY <1>4, <1>7, <1>8 DEF WizardInv, InstallHonest
<1>10. QED BY <1>5, <1>9

LEMMA VerifyStep ==
  ASSUME Typed, WizardInv, Verify
  PROVE  Typed' /\ WizardInv'
<1>1. /\ inst.pc = "verify" /\ ops' = ops
      /\ UNCHANGED <<table, isMbr, vol, view, drive, half, current>>
  BY DEF Verify, Go, Disks, Vols
<1>2. /\ Present(view, inst.target) /\ drive[inst.letter] = inst.target
  BY <1>1, TargetIs DEF Copying
<1>3. \/ inst' = [inst EXCEPT !.pc = "failed"]
      \/ inst' = [inst EXCEPT !.pc = "success"] /\ inst.bootrc /\ HasFile(inst.letter, "SYS")
  BY DEF Verify
<1>4. /\ inst' \in WizardStates /\ inst'.target = inst.target
      /\ inst'.pc = "failed" \/ (inst'.pc = "success" /\ inst.bootrc /\ HasFile(inst.letter, "SYS"))
  BY <1>3 DEF Typed, WizardStates, Places
<1>5. Typed'
  BY <1>1, <1>4 DEF Typed, DisksTyped, Mounted
<1>6. PICK loc : loc = Where(view, inst.target)
  OBVIOUS
<1>7. inst.bootrc => vol[loc].stage1 /\ {"STAGE2", "KERNEL"} \subseteq vol[loc].whole
  BY <1>1, <1>6 DEF WizardInv
<1>8. HasFile(inst.letter, "SYS") => "SYS" \in vol[loc].files
  BY <1>2, <1>6 DEF HasFile, VolAt, NoVol
<1>9. Present(view', inst'.target) /\ Where(view', inst'.target) = loc /\ vol' = vol
  BY <1>1, <1>2, <1>4, <1>6
<1>10. WizardInv'
  BY <1>4, <1>7, <1>8, <1>9 DEF WizardInv, InstallHonest, Copying
<1>11. QED BY <1>5, <1>10

-----------------------------------------------------------------------------
(* The commands of the shell and the keys of the wizard's list. *)

LEMMA ScanStep ==
  ASSUME Typed, WizardInv, Rescan(Mounted, isMbr, table, vol), ops \in 0 .. MaxOps => ops' \in 0 .. MaxOps,
         UNCHANGED <<table, isMbr, vol, inst>>, inst.pc \in {"idle", "pick"}
  PROVE  Typed' /\ WizardInv'
<1>1. view' \in ViewTables /\ Mounted' \in Mounts
  BY RescanType DEF Typed, DisksTyped
<1>2. Typed'
  BY <1>1 DEF Typed, DisksTyped
<1>3. QED BY <1>2, WizardResting

LEMMA RebootStep ==
  ASSUME Typed, WizardInv, Reboot
  PROVE  Typed' /\ WizardInv'
<1>1. NothingMounted \in Mounts
  BY ConstFacts DEF NothingMounted, Mounts, GoodMount
<1>2. PICK m : m = NothingMounted
  OBVIOUS
<1>3. view' \in ViewTables /\ Mounted' \in Mounts
  <2>1. Rescan(m, isMbr, table, vol)
    BY <1>2 DEF Reboot
  <2> QED BY <1>1, <1>2, <2>1, RescanType DEF Typed, DisksTyped
<1>4. ops' \in 0 .. MaxOps /\ inst' = Idle /\ UNCHANGED <<table, isMbr, vol>>
  BY ReadyOps DEF Reboot, Typed
<1>5. Typed'
  BY <1>3, <1>4, IdleType DEF Typed, DisksTyped
<1>6. QED BY <1>4, <1>5, IdleType, WizardResting

LEMMA ReadyFacts ==
  ASSUME Typed, NEW name, Ready(name) \/ Key(name)
  PROVE  inst.pc \in {"idle", "pick"} /\ ops' \in 0 .. MaxOps
BY ReadyOps DEF Typed, Ready, Key

(* What is left of a step that leaves the wizard where it was. *)
LEMMA CommandStep ==
  ASSUME Typed, NEW name, Ready(name) \/ Key(name), inst' = inst, DisksTyped'
  PROVE  Typed' /\ WizardInv'
<1>1. Typed'
  BY ReadyFacts DEF Typed
<1>2. inst'.pc \in {"idle", "pick"}
  BY ReadyFacts
<1>3. QED BY <1>1, <1>2, WizardResting

LEMMA MountCmdStep ==
  ASSUME Typed, NEW L \in Letters, NEW id, MountCmd(L, id)
  PROVE  Typed' /\ WizardInv'
<1>1. Ready("mount") /\ inst' = inst /\ UNCHANGED <<table, isMbr, vol, view>> /\ Present(view, id)
  BY DEF MountCmd
<1>2. PICK v : v = VolAt(isMbr, vol, Where(view, id))
  OBVIOUS
<1>3. v \in Volume /\ id \in Ids /\ Mounted \in Mounts
  BY <1>1, <1>2, VolAtType, WhereLoc DEF Typed, DisksTyped, GoodVolume
<1>4. PICK m : m = Mount(Mounted, L, v, id)
  OBVIOUS
<1>5. m \in Mounts
  BY <1>3, <1>4, MountIn
<1>6. SetMounted(m)
  BY <1>2, <1>4 DEF MountCmd
<1>7. Mounted' \in Mounts
  BY <1>5, <1>6, SetMountedType
<1>8. DisksTyped'
  BY <1>1, <1>7 DEF Typed, DisksTyped
<1>9. QED BY <1>1, <1>8, CommandStep

LEMMA UmountStep ==
  ASSUME Typed, NEW L \in Letters, Umount(L)
  PROVE  Typed' /\ WizardInv'
<1>1. Ready("umount") /\ inst' = inst /\ UNCHANGED <<table, isMbr, vol, view>>
  BY DEF Umount
<1>2. PICK m : m = Unmount(Mounted, {L})
  OBVIOUS
<1>3. m \in Mounts
  BY <1>2, UnmountIn DEF Typed, DisksTyped
<1>4. SetMounted(m)
  BY <1>2 DEF Umount
<1>5. Mounted' \in Mounts
  BY <1>3, <1>4, SetMountedType
<1>6. DisksTyped'
  BY <1>1, <1>5 DEF Typed, DisksTyped
<1>7. QED BY <1>1, <1>6, CommandStep

LEMMA FormatStep ==
  ASSUME Typed, NEW id, Format(id)
  PROVE  Typed' /\ WizardInv'
<1>1. Ready("format") /\ inst' = inst /\ UNCHANGED <<table, view>> /\ Present(view, id)
  BY DEF Format
<1> DEFINE m == UnmountAll(Mounted, {id})
           free == {L \in Letters : m.drive[L] = NoDisk}
           L0 == CHOOSE L \in free : \A K \in free : L <= K
<1>2. PICK o \in FormatOutcomes :
        /\ vol' = Formatted(vol, Where(view, id), o)
        /\ isMbr' = IF id \in Raw /\ o.kind # "same" THEN isMbr \ {id} ELSE isMbr
        /\ SetMounted(IF o.ok /\ free # {} THEN Mount(m, L0, vol'[Where(view, id)], id) ELSE m)
  BY Zenon DEF Format
<1>3. vol' \in DiskVolumes /\ vol'[Where(view, id)] \in Volume /\ id \in Ids
  BY <1>1, <1>2, FormatMounts DEF Typed
<1>4. m \in Mounts
  BY UnmountIn DEF Typed, DisksTyped, UnmountAll
<1>5. free # {} => L0 \in Letters
  <2>1. free \in SUBSET Nat /\ free \subseteq Letters
    BY DEF Letters
  <2> HIDE DEF free
  <2> QED BY <2>1, LeastChosen
<1> HIDE DEF m, free, L0
<1>6. PICK v : v = vol'[Where(view, id)]
  OBVIOUS
<1>7. free # {} => Mount(m, L0, v, id) \in Mounts
  BY <1>3, <1>4, <1>5, <1>6, MountIn
<1>8. PICK n \in Mounts : SetMounted(n)
  <2>1. CASE o.ok /\ free # {}
    <3>1. SetMounted(Mount(m, L0, v, id))
      BY <1>2, <1>6, <2>1
    <3> QED BY <1>7, <2>1, <3>1
  <2>2. CASE ~(o.ok /\ free # {})
    <3>1. SetMounted(m)
      BY <1>2, <2>2
    <3> QED BY <1>4, <3>1
  <2> QED BY <2>1, <2>2
<1>9. Mounted' \in Mounts
  BY <1>8, SetMountedType
<1>10. DisksTyped'
  BY <1>1, <1>2, <1>3, <1>9 DEF Typed, DisksTyped
<1>11. QED BY <1>1, <1>10, CommandStep

LEMMA FlashStep ==
  ASSUME Typed, NEW id, Flash(id)
  PROVE  Typed' /\ WizardInv'
<1>1. Ready("flash") /\ inst' = inst /\ UNCHANGED <<table, view>> /\ Present(view, id)
  BY DEF Flash
<1>2. PICK v : v = [NewVol EXCEPT !.files = {"TAG"}]
  OBVIOUS
<1>3. v \in GoodVolume
  <2>1. NoVol \in Volume /\ NoVol.whole = {}
    BY DEF NoVol, Volume
  <2>2. NewVol \in Volume /\ NewVol.whole = {}
    BY <2>1 DEF NewVol, Volume
  <2> QED BY <1>2, <2>2 DEF GoodVolume, Volume, Files
<1>4. vol' = [vol EXCEPT ![Where(view, id)] = v] /\ isMbr' = isMbr \ (IF id \in Raw THEN {id} ELSE {})
  BY <1>2 DEF Flash
<1>5. vol' \in DiskVolumes
  BY <1>3, <1>4 DEF Typed, DisksTyped, DiskVolumes
<1>6. PICK m : m = UnmountAll(Mounted, {id})
  OBVIOUS
<1>7. m \in Mounts
  BY <1>6, UnmountIn DEF Typed, DisksTyped, UnmountAll
<1>8. SetMounted(m)
  BY <1>6 DEF Flash
<1>9. Mounted' \in Mounts
  BY <1>7, <1>8, SetMountedType
<1>10. DisksTyped'
  BY <1>1, <1>4, <1>5, <1>9 DEF Typed, DisksTyped
<1>11. QED BY <1>1, <1>10, CommandStep

LEMMA MkPartStep ==
  ASSUME Typed, NEW d \in Raw, NEW span, span.start \in Nat, span.count \in Nat,
         NEW always \in BOOLEAN, AddPart(d, span, always, Mounted),
         NEW name, Ready(name) \/ Key(name), inst' = inst
  PROVE  Typed' /\ WizardInv'
<1>1. DisksTyped'
  BY AddPartType DEF Typed
<1>2. QED BY <1>1, CommandStep

LEMMA MkPartAutoStep ==
  ASSUME Typed, NEW d \in Raw, MkPartAuto(d) \/ PickMkPart(d)
  PROVE  Typed' /\ WizardInv'
<1>1. PICK span : span = LargestFree(isMbr, table, d)
  OBVIOUS
<1>2. span.start \in Nat /\ span.count \in Nat
  BY <1>1, LargestFreeIn DEF Typed, DisksTyped
<1>3. CASE MkPartAuto(d)
  <2>1. Ready("mkpart") /\ inst' = inst /\ AddPart(d, span, FALSE, Mounted)
    BY <1>1, <1>3 DEF MkPartAuto
  <2> QED BY <1>2, <2>1, MkPartStep
<1>4. CASE PickMkPart(d)
  <2>1. Key("mkpart") /\ inst' = inst /\ AddPart(d, span, TRUE, Mounted)
    BY <1>1, <1>4 DEF PickMkPart
  <2> QED BY <1>2, <2>1, MkPartStep
<1>5. QED BY <1>3, <1>4

LEMMA MkPartSpanStep ==
  ASSUME Typed, NEW d \in Raw, NEW s \in Spans, MkPartSpan(d, s)
  PROVE  Typed' /\ WizardInv'
<1>1. PICK span : span = [start |-> s[1], count |-> s[2]]
  OBVIOUS
<1>2. span.start \in Nat /\ span.count \in Nat
  BY <1>1, DrivesAssumption
<1>3. Ready("mkpart_span") /\ inst' = inst /\ AddPart(d, span, FALSE, Mounted)
  BY <1>1 DEF MkPartSpan
<1>4. QED BY <1>2, <1>3, MkPartStep

LEMMA MkMbrStep ==
  ASSUME Typed, NEW d \in Raw, MkMbr(d) \/ PickMkMbr(d)
  PROVE  Typed' /\ WizardInv'
<1>1. WipeTable(d) /\ inst' = inst /\ (Ready("mkmbr") \/ Key("mkmbr"))
  BY DEF MkMbr, PickMkMbr
<1>2. DisksTyped'
  BY <1>1, WipeTableType DEF Typed
<1>3. QED BY <1>1, <1>2, CommandStep

LEMMA DelPartStep ==
  ASSUME Typed, NEW d \in Raw, NEW i \in Slots, DelPart(d, i)
  PROVE  Typed' /\ WizardInv'
<1>1. Ready("delpart") /\ inst' = inst /\ UNCHANGED <<isMbr, vol>>
  BY DEF DelPart
<1>2. PICK t : t = table'
  OBVIOUS
<1>3. t \in DiskTables
  <2>1. t = [table EXCEPT ![d] = [table[d] EXCEPT ![i] = Free]]
    BY <1>2 DEF DelPart
  <2>2. [table[d] EXCEPT ![i] = Free] \in [Slots -> Entry]
    BY FreeEntry DEF Typed, DisksTyped, DiskTables
  <2> QED BY <2>1, <2>2 DEF Typed, DisksTyped, DiskTables
<1>4. PICK m : m = UnmountAll(Mounted, ViewFor(view, d, i))
  OBVIOUS
<1>5. m \in Mounts
  BY <1>4, UnmountIn DEF Typed, DisksTyped, UnmountAll
<1>6. Rescan(m, isMbr, t, vol)
  BY <1>2, <1>4 DEF DelPart
<1>7. view' \in ViewTables /\ Mounted' \in Mounts
  BY <1>3, <1>5, <1>6, RescanType DEF Typed, DisksTyped
<1>8. DisksTyped'
  BY <1>1, <1>2, <1>3, <1>7 DEF Typed, DisksTyped
<1>9. QED BY <1>1, <1>8, CommandStep

LEMMA SetActiveStep ==
  ASSUME Typed, NEW d \in Raw, NEW i \in Slots, SetActive(d, i)
  PROVE  Typed' /\ WizardInv'
<1>1. /\ Ready("setactive") /\ inst' = inst
      /\ UNCHANGED <<isMbr, vol, view, drive, half, current>>
      /\ table' = Activated(table, d, i)
  BY DEF SetActive
<1>2. table' \in DiskTables
  BY <1>1, ActivatedType DEF Typed, DisksTyped
<1>3. DisksTyped'
  BY <1>1, <1>2 DEF Typed, DisksTyped, Mounted
<1>4. QED BY <1>1, <1>3, CommandStep

LEMMA SetupKeyStep ==
  ASSUME Typed, InstallStart \/ Abort \/ Leave
  PROVE  Typed' /\ WizardInv'
<1>1. UNCHANGED <<table, isMbr, vol, view, drive, half, current>>
  BY DEF InstallStart, Abort, Leave, Disks, Vols
<1>2. inst' = Idle \/ inst' = [Idle EXCEPT !.pc = "pick"]
  BY DEF InstallStart, Abort, Leave
<1>3. ops' \in 0 .. MaxOps
  BY ReadyFacts DEF InstallStart, Abort, Leave, Go, Typed
<1>4. Typed'
  BY <1>1, <1>2, <1>3, IdleType DEF Typed, DisksTyped, Mounted
<1>5. inst'.pc \in {"idle", "pick"}
  BY <1>2, IdleType
<1>6. QED BY <1>4, <1>5, WizardResting

LEMMA PickStep ==
  ASSUME Typed, NEW id, Pick(id)
  PROVE  Typed' /\ WizardInv'
<1>1. /\ inst.pc = "pick" /\ Present(view, id)
      /\ UNCHANGED <<table, isMbr, vol, view, drive, half, current, ops>>
  BY DEF Pick, Disks, Vols
<1> DEFINE hit == {L \in Letters : drive[L] \in {id, NoDisk}}
           L0 == IF hit = {} THEN 1 ELSE CHOOSE L \in hit : \A K \in hit : L <= K
<1>2. L0 \in Letters
  <2>1. hit \in SUBSET Nat /\ hit \subseteq Letters /\ 1 \in Letters
    BY ConstFacts DEF Letters
  <2> HIDE DEF hit
  <2>2. hit # {} => (CHOOSE L \in hit : \A K \in hit : L <= K) \in hit
    BY <2>1, LeastChosen
  <2> QED BY <2>1, <2>2
<1>3. inst' = Idle \/ inst' = [inst EXCEPT !.pc = "format", !.target = id, !.letter = L0]
  BY Zenon DEF Pick
<1> HIDE DEF L0
<1>4. CASE inst' = Idle
  <2>1. Typed'
    BY <1>1, <1>4, IdleType DEF Typed, DisksTyped, Mounted
  <2> QED BY <1>4, <2>1, IdleType, WizardResting
<1>5. CASE inst' = [inst EXCEPT !.pc = "format", !.target = id, !.letter = L0]
  <2>1. id \in Ids
    BY <1>1, WhereLoc DEF Typed, DisksTyped
  <2>2. inst' \in WizardStates /\ inst'.pc = "format" /\ inst'.target = id
    BY <1>2, <1>5, <2>1 DEF Typed, WizardStates, Places
  <2>3. Typed'
    BY <1>1, <2>2 DEF Typed, DisksTyped, Mounted
  <2>4. Present(view', inst'.target)
    BY <1>1, <2>2
  <2>5. WizardInv'
    BY <2>2, <2>4 DEF WizardInv, InstallHonest, Copying
  <2> QED BY <2>3, <2>5
<1>6. QED BY <1>3, <1>4, <1>5

-----------------------------------------------------------------------------
(* The inductive invariant. *)

LEMMA InitTyped == Init => Typed /\ WizardInv
<1> SUFFICES ASSUME Init PROVE Typed /\ WizardInv
  OBVIOUS
<1>1. table \in DiskTables
  <2>1. PICK t \in Tables : table = [d \in Raw |-> IF d = 0 THEN t ELSE [i \in Slots |-> Free]]
    BY DEF Init
  <2>2. t \in [Slots -> Entry] /\ [i \in Slots |-> Free] \in [Slots -> Entry]
    BY DrivesAssumption, FreeEntry
  <2> QED BY <2>1, <2>2 DEF DiskTables
<1>2. isMbr \in SUBSET Raw
  BY DEF Init
<1>3. vol \in DiskVolumes
  <2>1. NoVol \in GoodVolume
    BY DEF NoVol, GoodVolume, Volume
  <2>2. \A l \in DOMAIN Media : Media[l] \in GoodVolume
    BY DrivesAssumption DEF GoodVolume
  <2>3. vol = [l \in Locs |-> IF l \in DOMAIN Media THEN Media[l] ELSE NoVol]
    BY DEF Init
  <2> QED BY <2>1, <2>2, <2>3 DEF DiskVolumes
<1>4. view \in ViewTables
  BY <1>1, ScanTablesType DEF Init
<1>5. Mounted \in Mounts
  <2>1. NothingMounted \in Mounts
    BY ConstFacts DEF NothingMounted, Mounts, GoodMount
  <2>2. PICK m : m = MountAll(NothingMounted, isMbr, table, view, vol)
    OBVIOUS
  <2>3. m \in Mounts
    BY <1>3, <1>4, <2>1, <2>2, MountAllType
  <2>4. drive = m.drive /\ half = m.half /\ current = m.current
    BY <2>2 DEF Init
  <2> QED BY <2>3, <2>4 DEF Mounted, Mounts, GoodMount
<1>6. inst \in WizardStates /\ inst.pc = "idle" /\ ops \in 0 .. MaxOps
  BY IdleType, ConstFacts DEF Init
<1>7. QED BY <1>1, <1>2, <1>3, <1>4, <1>5, <1>6 DEF Typed, DisksTyped, WizardInv, InstallHonest, Copying

LEMMA NextTyped == Typed /\ WizardInv /\ [Next]_vars => Typed' /\ WizardInv'
<1> SUFFICES ASSUME Typed, WizardInv, [Next]_vars PROVE Typed' /\ WizardInv'
  OBVIOUS
<1>1. CASE UNCHANGED vars
  <2>1. Typed'
    BY <1>1 DEF Typed, DisksTyped, Mounted, vars
  <2>2. WizardInv'
    BY <1>1 DEF WizardInv, InstallHonest, vars
  <2> QED BY <2>1, <2>2
<1>2. CASE Scan \/ PickRescan
  <2>1. /\ Rescan(Mounted, isMbr, table, vol) /\ UNCHANGED <<table, isMbr, vol, inst>>
        /\ Ready("scan") \/ Key("scan")
    BY <1>2 DEF Scan, PickRescan
  <2>2. inst.pc \in {"idle", "pick"} /\ ops' \in 0 .. MaxOps
    BY <2>1, ReadyFacts
  <2> QED BY <2>1, <2>2, ScanStep
<1>3. CASE Reboot
  BY <1>3, RebootStep
<1>4. CASE InstallStart \/ Abort \/ Leave
  BY <1>4, SetupKeyStep
<1>5. CASE TryFormat
  BY <1>5, TryFormatStep
<1>6. CASE CopyTrees
  BY <1>6, CopyTreesStep
<1>7. CASE WriteStage1
  BY <1>7, WriteStage1Step
<1>8. CASE WriteBootFile("STAGE2", "KERNEL")
  BY <1>8, WriteBootFileStep
<1>9. CASE WriteBootFile("KERNEL", "marker")
  BY <1>9, WriteBootFileStep
<1>10. CASE WriteMarker
  BY <1>10, WriteMarkerStep
<1>11. CASE MarkActive
  BY <1>11, MarkActiveStep
<1>12. CASE Verify
  BY <1>12, VerifyStep
<1>13. CASE \E L \in Letters, id \in Ids : MountCmd(L, id)
  BY <1>13, MountCmdStep
<1>14. CASE \E L \in Letters : Umount(L)
  BY <1>14, UmountStep
<1>15. CASE \E id \in Ids : Format(id) \/ Flash(id) \/ Pick(id)
  BY <1>15, FormatStep, FlashStep, PickStep
<1>16. CASE \E d \in Raw, s \in Spans : MkPartSpan(d, s)
  BY <1>16, MkPartSpanStep
<1>17. CASE \E d \in Raw : MkPartAuto(d) \/ MkMbr(d) \/ PickMkPart(d) \/ PickMkMbr(d)
  BY <1>17, MkPartAutoStep, MkMbrStep
<1>18. CASE \E d \in Raw, i \in Slots : DelPart(d, i) \/ SetActive(d, i)
  BY <1>18, DelPartStep, SetActiveStep
<1>19. QED
  BY <1>1, <1>2, <1>3, <1>4, <1>5, <1>6, <1>7, <1>8, <1>9, <1>10, <1>11, <1>12, <1>13, <1>14,
     <1>15, <1>16, <1>17, <1>18, Zenon DEF Next, Wizard

LEMMA TypedAlways == Spec => [](Typed /\ WizardInv)
BY InitTyped, NextTyped, PTL DEF Spec

(* Every table entry, view, letter and field of the wizard keeps its kind,   *)
(* through every mount, scan, edit of a table and step of setup; a view      *)
(* never reaches past the end of its disk, since register_view refuses it.   *)
THEOREM DrivesTypes == Spec => []TypeOK
<1>1. Typed => TypeOK
  BY TypedOK
<1>2. QED BY <1>1, TypedAlways, PTL

(* install_main reports success only when the boot sector, STAGE2.BIN and    *)
(* KERNEL.BIN were written whole to the disk or partition it was asked to    *)
(* install on and ZENBITE.SYS is there, whichever step failed before.        *)
THEOREM InstallIsHonest == Spec => []InstallHonest
<1>1. WizardInv => InstallHonest
  BY DEF WizardInv
<1>2. QED BY <1>1, TypedAlways, PTL

-----------------------------------------------------------------------------
(* What mkpart leaves in the table: the entry it makes and the others, which *)
(* lose at most their boot flag.                                             *)

Base(d, j) == IF HasTable(isMbr, table, d) THEN table[d][j] ELSE Free

LEMMA AddPartTable ==
  ASSUME DisksTyped, NEW d \in Raw, NEW span, NEW always \in BOOLEAN,
         AddPart(d, span, always, Mounted), span.count \in Nat
  PROVE  /\ \A c \in Raw \ {d} : table'[c] = table[c]
         /\ \/ \A j \in Slots : table'[d][j] = Base(d, j)
            \/ /\ span.count >= 1
               /\ \E i \in Slots, active \in BOOLEAN :
                    /\ ~active => \E j \in Slots : Base(d, j).boot
                    /\ /\ table'[d][i].type /\ table'[d][i].boot = active
                       /\ table'[d][i].start = span.start /\ table'[d][i].count = span.count
                    /\ \A j \in Slots \ {i} :
                         /\ table'[d][j].type = Base(d, j).type /\ table'[d][j].boot = (Base(d, j).boot /\ ~active)
                         /\ table'[d][j].start = Base(d, j).start /\ table'[d][j].count = Base(d, j).count
<1> DEFINE t0 == InitTable(table, d)
           im == isMbr \cup {d}
           free == {i \in Slots : ~t0[d][i].type}
           slot == CHOOSE i \in free : \A j \in free : i <= j
           active == always \/ \A i \in Slots : ~t0[d][i].boot
           new == [type |-> TRUE, start |-> span.start, count |-> span.count, boot |-> active]
           t1 == [t0 EXCEPT ![d] = Created(im, t0, d, slot, span, active)]
<1>1. \/ table' = t0
      \/ /\ span.count >= 1 /\ free # {} /\ table' = t1
  <2>1. \/ (span.count < 1 \/ free = {}) /\ table' = t0
        \/ ~(span.count < 1 \/ free = {}) /\ table' = t1
    BY Zenon DEF AddPart
  <2> HIDE DEF t0, t1, free
  <2> QED BY <2>1
<1>2. table \in DiskTables /\ d \in Raw
  BY DEF DisksTyped
<1>3. /\ t0 \in DiskTables
      /\ \A c \in Raw \ {d} : t0[c] = table[c]
      /\ \A j \in Slots : t0[d][j] = Base(d, j)
  BY <1>2, FreeEntry DEF InitTable, Base, DiskTables
<1>4. HasTable(im, t0, d) => HasTable(isMbr, table, d)
  <2>1. ASSUME ~HasTable(isMbr, table, d)
        PROVE  ~HasTable(im, t0, d)
    <3>1. \A j \in Slots : t0[d][j].type = FALSE
      BY <1>3, <2>1 DEF Base, Free
    <3> HIDE DEF t0
    <3> QED BY <3>1 DEF HasTable
  <2> QED BY <2>1
<1>5. HasTable(isMbr, table, d) => t0 = table /\ HasTable(im, t0, d)
  BY DEF InitTable, HasTable
<1>6. \A j \in Slots : (IF HasTable(im, t0, d) THEN t0[d] ELSE [k \in Slots |-> Free])[j] = Base(d, j)
  BY <1>3, <1>4, <1>5 DEF Base
<1>7. CASE table' = t0
  BY <1>3, <1>7
<1>8. CASE span.count >= 1 /\ free # {} /\ table' = t1
  <2>1. slot \in Slots
    <3>1. free \in SUBSET Nat /\ free \subseteq Slots
      BY DEF Slots
    <3> HIDE DEF free
    <3> QED BY <1>8, <3>1, LeastChosen, Zenon
  <2>2. active \in BOOLEAN /\ (~active => \E j \in Slots : Base(d, j).boot)
    BY <1>3
  <2> HIDE DEF free, slot, active
  <2> DEFINE base == IF HasTable(im, t0, d) THEN t0[d] ELSE [k \in Slots |-> Free]
             e(j) == IF j = slot THEN new ELSE IF active THEN [base[j] EXCEPT !.boot = FALSE] ELSE base[j]
  <2>3. Created(im, t0, d, slot, span, active) = [j \in Slots |-> e(j)]
    BY Zenon DEF Created
  <2>4. \A j \in Slots : base[j] = Base(d, j) /\ Base(d, j) \in Entry
    <3>1. \A j \in Slots : Base(d, j) \in Entry
      BY <1>2, FreeEntry DEF Base, DiskTables
    <3> HIDE DEF t0, im
    <3> QED BY <1>6, <3>1
  <2> HIDE DEF base, t0, im
  <2>5. \A j \in Slots : t1[d][j] = e(j)
    BY <1>3, <2>3 DEF DiskTables
  <2>6. \A c \in Raw \ {d} : t1[c] = table[c]
    BY <1>3 DEF DiskTables
  <2>7. e(slot) = new
    OBVIOUS
  <2>8. ASSUME NEW j \in Slots \ {slot}
        PROVE  /\ e(j).type = Base(d, j).type /\ e(j).boot = (Base(d, j).boot /\ ~active)
               /\ e(j).start = Base(d, j).start /\ e(j).count = Base(d, j).count
    <3>1. base[j] = Base(d, j) /\ Base(d, j) \in Entry
      BY <2>4
    <3>2. CASE active
      <4>1. e(j) = [Base(d, j) EXCEPT !.boot = FALSE]
        BY <3>1, <3>2
      <4>2. /\ e(j).type = Base(d, j).type /\ e(j).boot = FALSE
            /\ e(j).start = Base(d, j).start /\ e(j).count = Base(d, j).count
        BY <3>1, <4>1 DEF Entry
      <4> QED BY <3>2, <4>2
    <3>3. CASE ~active
      <4>1. e(j) = Base(d, j)
        BY <3>1, <3>3
      <4>2. Base(d, j).boot \in BOOLEAN
        BY <3>1 DEF Entry
      <4> HIDE DEF e
      <4> QED BY <3>3, <4>1, <4>2
    <3> QED BY <3>2, <3>3
  <2>9. new.type /\ new.boot = active /\ new.start = span.start /\ new.count = span.count
    OBVIOUS
  <2> HIDE DEF e, new, t1
  <2> QED BY <1>8, <2>1, <2>2, <2>5, <2>6, <2>7, <2>8, <2>9
<1>9. QED BY <1>1, <1>7, <1>8

(* A table with at most one active partition, element by element. *)
ActiveOnce(e) == \A i, j \in Slots : e[i].boot /\ e[j].boot => i = j

LEMMA ActiveOnceIs ==
  ASSUME NEW e
  PROVE  Cardinality({i \in Slots : e[i].boot}) <= 1 <=> ActiveOnce(e)
<1> DEFINE B == {i \in Slots : e[i].boot}
<1>1. IsFiniteSet(B) /\ Cardinality(B) \in Nat
  <2>1. IsFiniteSet(Slots)
    BY ConstFacts, FS_Interval DEF Slots
  <2>2. B \subseteq Slots
    OBVIOUS
  <2> HIDE DEF B
  <2>3. IsFiniteSet(B)
    BY <2>1, <2>2, FS_Subset
  <2> QED BY <2>3, FS_CardinalityType
<1>2. ActiveOnce(e) <=> \A i, j \in B : i = j
  BY DEF ActiveOnce
<1> HIDE DEF B
<1>3. ASSUME Cardinality(B) <= 1, NEW i \in B, NEW j \in B
      PROVE  i = j
  <2> SUFFICES ASSUME i # j PROVE FALSE
    OBVIOUS
  <2>1. IsFiniteSet(B \ {i}) /\ Cardinality(B \ {i}) = Cardinality(B) - 1
    BY <1>1, FS_RemoveElement
  <2>2. Cardinality(B \ {i}) = 0
    BY <1>1, <1>3, <2>1, FS_CardinalityType
  <2>3. B \ {i} = {}
    BY <2>1, <2>2, FS_EmptySet
  <2> QED BY <2>3
<1>4. ASSUME \A i, j \in B : i = j
      PROVE  Cardinality(B) <= 1
  <2>1. CASE B = {}
    BY <2>1, FS_EmptySet
  <2>2. CASE B # {}
    <3>1. PICK i \in B : B = {i}
      BY <1>4, <2>2
    <3>2. Cardinality({i}) = 1
      BY FS_Singleton
    <3> QED BY <3>1, <3>2
  <2> QED BY <2>1, <2>2
<1>5. QED BY <1>2, <1>3, <1>4 DEF B

OnceInv == \A d \in Raw : ActiveOnce(table[d])

LEMMA AddPartOnce ==
  ASSUME DisksTyped, OnceInv, NEW d \in Raw, NEW span, NEW always \in BOOLEAN,
         AddPart(d, span, always, Mounted), span.count \in Nat
  PROVE  OnceInv'
<1>1. \A i, j \in Slots : Base(d, i).boot /\ Base(d, j).boot => i = j
  BY DEF Base, Free, OnceInv, ActiveOnce
<1>2. \A c \in Raw \ {d} : table'[c] = table[c]
  BY AddPartTable
<1>3. ActiveOnce(table'[d])
  <2>1. CASE \A j \in Slots : table'[d][j] = Base(d, j)
    BY <1>1, <2>1 DEF ActiveOnce
  <2>2. CASE ~(\A j \in Slots : table'[d][j] = Base(d, j))
    <3>1. PICK i \in Slots, active \in BOOLEAN :
            /\ ~active => \E j \in Slots : Base(d, j).boot
            /\ table'[d][i].boot = active
            /\ \A j \in Slots \ {i} : table'[d][j].boot = (Base(d, j).boot /\ ~active)
      BY <2>2, AddPartTable
    <3>2. CASE active
      <4>1. \A j \in Slots : table'[d][j].boot => j = i
        BY <3>1, <3>2
      <4> QED BY <4>1 DEF ActiveOnce
    <3>3. CASE ~active
      <4>1. \A j \in Slots : table'[d][j].boot => Base(d, j).boot
        BY <3>1, <3>3
      <4> QED BY <1>1, <4>1 DEF ActiveOnce
    <3> QED BY <3>2, <3>3
  <2> QED BY <2>1, <2>2
<1>4. QED BY <1>2, <1>3 DEF OnceInv, ActiveOnce

LEMMA ActivatedOnce ==
  ASSUME NEW t \in DiskTables, \A c \in Raw : ActiveOnce(t[c]), NEW d \in Raw, NEW i
  PROVE  \A c \in Raw : ActiveOnce(Activated(t, d, i)[c])
<1>1. \A c \in Raw \ {d} : Activated(t, d, i)[c] = t[c]
  BY DEF Activated, DiskTables
<1>2. ASSUME NEW j \in Slots
      PROVE  Activated(t, d, i)[d][j].boot = (j = i)
  <2>1. Activated(t, d, i)[d][j] = [t[d][j] EXCEPT !.boot = (j = i)]
    BY DEF Activated, DiskTables
  <2>2. t[d][j] \in Entry
    BY DEF DiskTables
  <2> QED BY <2>1, <2>2 DEF Entry
<1>3. ActiveOnce(Activated(t, d, i)[d])
  BY <1>2 DEF ActiveOnce
<1>4. QED BY <1>1, <1>3 DEF ActiveOnce

LEMMA NextOnce ==
  ASSUME Typed, OnceInv, [Next]_vars
  PROVE  OnceInv'
<1>1. CASE table' = table
  BY <1>1 DEF OnceInv
<1>2. CASE \E d \in Raw : MkPartAuto(d) \/ PickMkPart(d)
  <2>1. PICK d \in Raw : MkPartAuto(d) \/ PickMkPart(d)
    BY <1>2
  <2>2. PICK span : span = LargestFree(isMbr, table, d)
    OBVIOUS
  <2>3. span.count \in Nat
    BY <2>2, LargestFreeIn DEF Typed, DisksTyped
  <2>4. AddPart(d, span, FALSE, Mounted) \/ AddPart(d, span, TRUE, Mounted)
    BY <2>1, <2>2 DEF MkPartAuto, PickMkPart
  <2> QED BY <2>3, <2>4, AddPartOnce DEF Typed
<1>3. CASE \E d \in Raw, s \in Spans : MkPartSpan(d, s)
  <2>1. PICK d \in Raw, s \in Spans : MkPartSpan(d, s)
    BY <1>3
  <2>2. PICK span : span = [start |-> s[1], count |-> s[2]]
    OBVIOUS
  <2>3. span.count \in Nat
    BY <2>2, DrivesAssumption
  <2>4. AddPart(d, span, FALSE, Mounted)
    BY <2>1, <2>2 DEF MkPartSpan
  <2> QED BY <2>3, <2>4, AddPartOnce DEF Typed
<1>4. CASE \E d \in Raw : MkMbr(d) \/ PickMkMbr(d)
  <2>1. PICK d \in Raw : table' = [table EXCEPT ![d] = [i \in Slots |-> Free]]
    BY <1>4 DEF MkMbr, PickMkMbr, WipeTable
  <2>2. \A c \in Raw : table'[c] = IF c = d THEN [i \in Slots |-> Free] ELSE table[c]
    BY <2>1 DEF Typed, DisksTyped, DiskTables
  <2>3. ActiveOnce([i \in Slots |-> Free])
    BY DEF ActiveOnce, Free
  <2> QED BY <2>2, <2>3 DEF OnceInv
<1>5. CASE \E d \in Raw, i \in Slots : DelPart(d, i)
  <2>1. PICK d \in Raw, i \in Slots : table' = [table EXCEPT ![d][i] = Free]
    BY <1>5 DEF DelPart
  <2>2. table' = [table EXCEPT ![d] = [table[d] EXCEPT ![i] = Free]]
    BY <2>1
  <2>3. \A c \in Raw : \A j \in Slots : table'[c][j] = IF c = d /\ j = i THEN Free ELSE table[c][j]
    BY <2>2 DEF Typed, DisksTyped, DiskTables
  <2>4. \A c \in Raw : \A j \in Slots : table'[c][j].boot => table[c][j].boot
    BY <2>3 DEF Free
  <2> QED BY <2>4 DEF OnceInv, ActiveOnce
<1>6. CASE \E d \in Raw, i \in Slots : table' = Activated(table, d, i)
  <2>1. PICK d \in Raw, i \in Slots : table' = Activated(table, d, i)
    BY <1>6
  <2>2. \A c \in Raw : ActiveOnce(Activated(table, d, i)[c])
    BY ActivatedOnce DEF OnceInv, Typed, DisksTyped
  <2> QED BY <2>1, <2>2 DEF OnceInv
<1>7. MarkActive => table' = table \/ \E d \in Raw, i \in Slots : table' = Activated(table, d, i)
  <2> SUFFICES ASSUME MarkActive, table' # table
               PROVE  \E d \in Raw, i \in Slots : table' = Activated(table, d, i)
    OBVIOUS
  <2> DEFINE v == view[inst.target]
  <2>1. inst.target \in Views /\ v # NoView /\ table' = Activated(table, v.parent, v.idx)
    BY DEF MarkActive
  <2>2. v \in GoodView
    BY <2>1 DEF Typed, DisksTyped, ViewTables
  <2>3. v.parent \in Raw /\ v.idx \in Slots
    BY <2>1, <2>2 DEF GoodView
  <2> QED BY <2>1, <2>3
<1>8. UNCHANGED vars => table' = table
  BY DEF vars
<1>9. Scan \/ Reboot \/ InstallStart \/ PickRescan \/ Abort => table' = table
  BY DEF Scan, Reboot, InstallStart, PickRescan, Abort, Disks
<1>10. (\/ TryFormat \/ CopyTrees \/ WriteStage1 \/ WriteBootFile("STAGE2", "KERNEL")
        \/ WriteBootFile("KERNEL", "marker") \/ WriteMarker \/ Verify \/ Leave) => table' = table
  BY Zenon DEF TryFormat, CopyTrees, WriteStage1, WriteBootFile, WriteMarker, Verify, Leave, Disks
<1>11. \A L, id : MountCmd(L, id) \/ Umount(L) \/ Format(id) \/ Flash(id) \/ Pick(id) => table' = table
  BY Zenon DEF MountCmd, Umount, Format, Flash, Pick, Disks
<1>12. \A d \in Raw, i \in Slots : SetActive(d, i) => table' = Activated(table, d, i)
  BY DEF SetActive
<1>13. CASE Wizard
  <2>1. CASE MarkActive
    BY <1>1, <1>6, <1>7, <2>1
  <2>2. CASE ~MarkActive
    <3>1. table' = table
      BY <1>10, <1>13, <2>2 DEF Wizard
    <3> QED BY <1>1, <3>1
  <2> QED BY <2>1, <2>2
<1>14. CASE \E d \in Raw, i \in Slots : SetActive(d, i)
  BY <1>6, <1>12, <1>14
<1>15. CASE Next
  <2>1. CASE Scan \/ Reboot \/ InstallStart \/ PickRescan \/ Abort \/ Wizard
    BY <1>1, <1>9, <1>13, <2>1
  <2>2. CASE \/ \E L \in Letters, id \in Ids : MountCmd(L, id)
             \/ \E L \in Letters : Umount(L)
             \/ \E id \in Ids : Format(id) \/ Flash(id) \/ Pick(id)
    BY <1>1, <1>11, <2>2
  <2>3. CASE \/ \E d \in Raw, s \in Spans : MkPartSpan(d, s)
             \/ \E d \in Raw : MkPartAuto(d) \/ MkMbr(d) \/ PickMkPart(d) \/ PickMkMbr(d)
    BY <1>2, <1>3, <1>4, <2>3
  <2>4. CASE \E d \in Raw, i \in Slots : DelPart(d, i) \/ SetActive(d, i)
    BY <1>5, <1>14, <2>4
  <2> QED BY <1>15, <2>1, <2>2, <2>3, <2>4, Zenon DEF Next
<1>16. QED
  BY <1>1, <1>8, <1>15

(* Whatever order of mkpart, delpart, mkmbr, setactive and setup made a      *)
(* table: if the tables found when the machine is switched on have at most   *)
(* one partition marked bootable each, every table always does, since        *)
(* mbr_create_partition and mbr_set_active clear the flag of the others.     *)
THEOREM OneActiveKept ==
  ASSUME \A t \in Tables : Cardinality({i \in Slots : t[i].boot}) <= 1
  PROVE  Spec => []OneActive
<1>1. Init => OnceInv
  <2> SUFFICES ASSUME Init PROVE OnceInv
    OBVIOUS
  <2>1. PICK t \in Tables : table = [d \in Raw |-> IF d = 0 THEN t ELSE [i \in Slots |-> Free]]
    BY DEF Init
  <2>2. ActiveOnce(t)
    BY ActiveOnceIs
  <2>3. ActiveOnce([i \in Slots |-> Free])
    BY DEF ActiveOnce, Free
  <2> QED BY <2>1, <2>2, <2>3 DEF OnceInv
<1>2. Typed /\ OnceInv /\ [Next]_vars => OnceInv'
  BY NextOnce
<1>3. OnceInv => OneActive
  BY ActiveOnceIs DEF OnceInv, OneActive
<1>4. QED BY <1>1, <1>2, <1>3, TypedAlways, PTL DEF Spec

-----------------------------------------------------------------------------
(* Where mkpart without a span, and P in setup, put a partition. *)

LEMMA AutoPartAt ==
  ASSUME Typed, NEW d \in Raw, MkPartAuto(d) \/ PickMkPart(d), NEW c \in Raw, NEW i \in Slots,
         table'[c][i].type, ~table[c][i].type
  PROVE  LET e == table'[c][i] IN
         /\ e.start >= 1
         /\ (\A j \in Used(table, c) : table[c][j].start <= DiskUnits[c]) =>
               e.start + e.count <= DiskUnits[c]
         /\ \A j \in Used(table', c) \ {i} :
              \/ table'[c][j].start + table'[c][j].count <= e.start
              \/ e.start + e.count <= table'[c][j].start
<1>1. PICK span : span = LargestFree(isMbr, table, d)
  OBVIOUS
<1>2. /\ table \in DiskTables /\ DisksTyped
      /\ DiskUnits[d] \in Nat
  BY ConstFacts DEF Typed, DisksTyped
<1>3. /\ span.start \in Nat /\ span.count \in Nat
      /\ ~HasTable(isMbr, table, d) /\ span.count >= 1 => span.start = 1 /\ span.start + span.count = DiskUnits[d]
      /\ HasTable(isMbr, table, d) /\ span.count >= 1 => span \in Gaps(table, d)
  BY <1>1, <1>2, LargestFreeIn
<1>4. PICK always \in BOOLEAN : AddPart(d, span, always, Mounted)
  <2>1. AddPart(d, span, FALSE, Mounted) \/ AddPart(d, span, TRUE, Mounted)
    BY <1>1 DEF MkPartAuto, PickMkPart
  <2> QED BY <2>1
<1>5. c = d
  <2>1. c # d => table'[c] = table[c]
    BY <1>2, <1>3, <1>4, AddPartTable
  <2> QED BY <2>1
<1>6. \A j \in Slots : Base(d, j).type => table[d][j].type
  BY DEF Base, Free
<1>7. /\ span.count >= 1
      /\ table'[d][i].start = span.start /\ table'[d][i].count = span.count
      /\ \A j \in Slots \ {i} : /\ table'[d][j].type = Base(d, j).type
                                /\ table'[d][j].start = Base(d, j).start
                                /\ table'[d][j].count = Base(d, j).count
  <2>1. ~(\A j \in Slots : table'[d][j] = Base(d, j))
    BY <1>5, <1>6
  <2>2. PICK k \in Slots :
          /\ span.count >= 1
          /\ table'[d][k].start = span.start /\ table'[d][k].count = span.count
          /\ \A j \in Slots \ {k} : /\ table'[d][j].type = Base(d, j).type
                                    /\ table'[d][j].start = Base(d, j).start
                                    /\ table'[d][j].count = Base(d, j).count
    BY <1>2, <1>3, <1>4, <2>1, AddPartTable
  <2>3. k = i
    BY <1>5, <1>6, <2>2
  <2> QED BY <2>2, <2>3
<1>8. CASE ~HasTable(isMbr, table, d)
  <2>1. Used(table', d) \ {i} = {}
    <3>1. \A j \in Slots \ {i} : table'[d][j].type = FALSE
      BY <1>7, <1>8 DEF Base, Free
    <3> QED BY <3>1 DEF Used
  <2>2. table'[d][i].start = 1 /\ table'[d][i].start + table'[d][i].count = DiskUnits[d]
    BY <1>3, <1>7, <1>8
  <2> QED BY <1>2, <1>5, <2>1, <2>2
<1>9. CASE HasTable(isMbr, table, d)
  <2>1. /\ span.start >= 1
        /\ span.start + span.count = DiskUnits[d] \/ \E j \in Used(table, d) : span.start + span.count = table[d][j].start
        /\ \A j \in Used(table, d) : \/ table[d][j].start + table[d][j].count <= span.start
                                     \/ span.start + span.count <= table[d][j].start
    BY <1>2, <1>3, <1>7, <1>9, GapsFree
  <2>2. \A j \in Slots \ {i} : /\ table'[d][j].type = table[d][j].type
                               /\ table'[d][j].start = table[d][j].start
                               /\ table'[d][j].count = table[d][j].count
    BY <1>7, <1>9 DEF Base
  <2>3. ASSUME NEW j \in Used(table', d) \ {i}
        PROVE  \/ table'[d][j].start + table'[d][j].count <= span.start
               \/ span.start + span.count <= table'[d][j].start
    <3>1. j \in Used(table, d) /\ j \in Slots \ {i}
      BY <2>2 DEF Used
    <3> QED BY <2>1, <2>2, <3>1
  <2>4. (\A j \in Used(table, d) : table[d][j].start <= DiskUnits[d]) => span.start + span.count <= DiskUnits[d]
    BY <1>2, <2>1
  <2> QED BY <1>5, <1>7, <2>1, <2>3, <2>4
<1>10. QED BY <1>8, <1>9

LEMMA OpNames ==
  ASSUME Next, op' = "mkpart"
  PROVE  \E d \in Raw : MkPartAuto(d) \/ PickMkPart(d)
<1>1. ~(Scan \/ Reboot \/ InstallStart \/ PickRescan \/ Abort)
  BY DEF Scan, Reboot, InstallStart, PickRescan, Abort, Ready, Key
<1>2. ~Wizard
  BY DEF Wizard, TryFormat, CopyTrees, WriteStage1, WriteBootFile, WriteMarker, MarkActive, Verify, Leave, Go
<1>3. \A L, id : ~(MountCmd(L, id) \/ Umount(L) \/ Format(id) \/ Flash(id) \/ Pick(id))
  BY DEF MountCmd, Umount, Format, Flash, Pick, Ready
<1>4. \A d, s, i : ~(MkPartSpan(d, s) \/ MkMbr(d) \/ PickMkMbr(d) \/ DelPart(d, i) \/ SetActive(d, i))
  BY DEF MkPartSpan, MkMbr, PickMkMbr, DelPart, SetActive, Ready, Key
<1>5. QED BY <1>1, <1>2, <1>3, <1>4, Zenon DEF Next

(* A partition that mkpart or setup places by itself, where                  *)
(* mbr_largest_free says, never covers the first unit or a part of another   *)
(* partition; and it ends on the disk unless another one begins behind its   *)
(* end. Whatever the tables were, and whatever spans were typed.             *)
THEOREM AutoPartIsFree == Spec => AutoPartFree
<1> DEFINE P == op' = "mkpart" => \A d \in Raw, i \in Slots :
      LET e == table'[d][i] IN
      e.type /\ ~table[d][i].type =>
        /\ e.start >= 1
        /\ (\A j \in Used(table, d) : table[d][j].start <= DiskUnits[d]) =>
              e.start + e.count <= DiskUnits[d]
        /\ \A j \in Used(table', d) \ {i} :
             \/ table'[d][j].start + table'[d][j].count <= e.start
             \/ e.start + e.count <= table'[d][j].start
<1>1. Typed /\ [Next]_vars => [P]_vars
  <2> SUFFICES ASSUME Typed, Next, op' = "mkpart", NEW c \in Raw, NEW i \in Slots,
                      table'[c][i].type, ~table[c][i].type
               PROVE  LET e == table'[c][i] IN
                      /\ e.start >= 1
                      /\ (\A j \in Used(table, c) : table[c][j].start <= DiskUnits[c]) =>
                            e.start + e.count <= DiskUnits[c]
                      /\ \A j \in Used(table', c) \ {i} :
                           \/ table'[c][j].start + table'[c][j].count <= e.start
                           \/ e.start + e.count <= table'[c][j].start
    BY Zenon
  <2>1. PICK d \in Raw : MkPartAuto(d) \/ PickMkPart(d)
    BY OpNames
  <2> QED BY <2>1, AutoPartAt
<1>2. QED BY <1>1, TypedAlways, PTL DEF Spec, AutoPartFree

=============================================================================
