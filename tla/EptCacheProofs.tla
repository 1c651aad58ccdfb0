---------------------------- MODULE EptCacheProofs ----------------------------
(* Theorems about what the tree of Ept says of a page: that an entry never  *)
(* takes anything back, that a mapped page stays mapped, and that the cache *)
(* type of a page is that of RAM exactly for the pages Ept11mapping maps.   *)
EXTENDS EptProofs

-----------------------------------------------------------------------------
(* Walks of the tree.                                                      *)

\* The table in which a walk to p looks for its entry of level k, and that
\* entry.
TableAt(p, k) ==
  CASE k = 1 -> Pml4Phys
    [] k = 2 -> Pml4e(p).frame
    [] k = 3 -> Pdpte(p).frame
    [] k = 4 -> Pde(p).frame
EntryOf(p, k) == EntryAt(TableAt(p, k), p[k])

\* The walk to p is open down to the table of level n.
Open(p, n) == \A k \in 1 .. 3 : k < n => EntryOf(p, k).perm # {}

\* The tables and entries of a walk, one after the other.
LEMMA WalkNames ==
  ASSUME NEW p
  PROVE  /\ TableAt(p, 1) = Pml4Phys
         /\ \A k \in 1 .. 3 : TableAt(p, k + 1) = EntryOf(p, k).frame
         /\ Pml4e(p) = EntryOf(p, 1) /\ Pdpte(p) = EntryOf(p, 2)
         /\ Pde(p) = EntryOf(p, 3) /\ Pte(p) = EntryOf(p, 4)
<1>1. /\ TableAt(p, 1) = Pml4Phys /\ TableAt(p, 2) = Pml4e(p).frame
      /\ TableAt(p, 3) = Pdpte(p).frame /\ TableAt(p, 4) = Pde(p).frame
  BY DEF TableAt
<1>2. /\ Pml4e(p) = EntryOf(p, 1) /\ Pdpte(p) = EntryOf(p, 2)
      /\ Pde(p) = EntryOf(p, 3) /\ Pte(p) = EntryOf(p, 4)
  BY <1>1 DEF EntryOf, Pml4e, Pdpte, Pde, Pte
<1>3. \A k \in 1 .. 3 : k = 1 \/ k = 2 \/ k = 3
  OBVIOUS
<1> QED BY <1>1, <1>2, <1>3

\* While the pool lasts, an open walk to p passes through the tables that
\* serve the regions of p.
LEMMA WalkTables ==
  ASSUME TypeOK, TreeOK, PoolLasts, NEW p \in Page, NEW n \in 1 .. 4, Open(p, n)
  PROVE  \A k \in 1 .. 4 : k <= n =>
           /\ TableAt(p, k) \in TableFrames
           /\ owner[TableAt(p, k)] = [level |-> k, base |-> Base(p, k - 1)]
           /\ owner[TableAt(p, k)] # Unused
           /\ EntryOf(p, k) = mem[TableAt(p, k)][p[k]]
<1> DEFINE Good(k) == /\ TableAt(p, k) \in TableFrames
                      /\ owner[TableAt(p, k)] = [level |-> k, base |-> Base(p, k - 1)]
<1>1. Good(1)
  BY WalkNames, BaseZero DEF TreeOK, OwnerOK, TableFrames
<1>2. ASSUME NEW k \in 1 .. 3, k < n, Good(k)
      PROVE  Good(k + 1)
  <2>1. EntryAt(TableAt(p, k), p[k]).perm # {}
    BY <1>2 DEF Open, EntryOf
  <2>2. TableAt(p, k + 1) = EntryAt(TableAt(p, k), p[k]).frame
    BY WalkNames DEF EntryOf
  <2>3. TableAt(p, k) \in TableFrames /\ owner[TableAt(p, k)] = [level |-> k, base |-> Base(p, k - 1)]
    BY <1>2
  <2>4. /\ EntryAt(TableAt(p, k), p[k]).frame \in TableFrames
        /\ owner[EntryAt(TableAt(p, k), p[k]).frame] = [level |-> k + 1, base |-> Base(p, k)]
    BY <2>1, <2>3, WalkStep, ZenonT(30)
  <2>5. (k + 1) - 1 = k
    OBVIOUS
  <2> QED BY <2>2, <2>4, <2>5
<1> HIDE DEF Good
<1>3. \A k \in 1 .. 4 : k <= n => Good(k)
  <2>1. 2 <= n => Good(2)
    <3>1. 1 \in 1 .. 3 /\ 1 + 1 = 2
      OBVIOUS
    <3> QED BY <1>1, <1>2, <3>1
  <2>2. 3 <= n => Good(3)
    <3>1. 2 \in 1 .. 3 /\ 2 + 1 = 3
      OBVIOUS
    <3> QED BY <1>2, <2>1, <3>1
  <2>3. 4 <= n => Good(4)
    <3>1. 3 \in 1 .. 3 /\ 3 + 1 = 4
      OBVIOUS
    <3> QED BY <1>2, <2>2, <3>1
  <2>4. \A k \in 1 .. 4 : k = 1 \/ k = 2 \/ k = 3 \/ k = 4
    OBVIOUS
  <2> QED BY <1>1, <2>1, <2>2, <2>3, <2>4
<1>4. ASSUME NEW k \in 1 .. 4, Good(k)
      PROVE  /\ owner[TableAt(p, k)] # Unused
             /\ EntryOf(p, k) = mem[TableAt(p, k)][p[k]]
  <2>1. k - 1 \in 0 .. 3
    OBVIOUS
  <2>2. Base(p, k - 1) \in Page
    BY <2>1, BaseType
  <2>3. owner[TableAt(p, k)] # Unused
    BY <1>4, <2>2, OwnerAssumption DEF Good
  <2>4. EntryOf(p, k) = mem[TableAt(p, k)][p[k]]
    BY <1>4 DEF Good, EntryOf, EntryAt
  <2> QED BY <2>3, <2>4
<1> QED BY <1>3, <1>4 DEF Good

-----------------------------------------------------------------------------
(* What a step may do to the tree.                                         *)

\* An entry never loses a right, one above the leaves that is present keeps
\* its frame, and a table keeps its place.
EntriesGrow ==
  /\ \A t \in TableFrames, i \in Index :
       /\ mem[t][i].perm \subseteq mem'[t][i].perm
       /\ IsLink(t, i) => mem'[t][i].frame = mem[t][i].frame
  /\ \A t \in TableFrames : owner[t] # Unused => owner'[t] = owner[t]

\* The three stores of rights only add.
LEMMA AddRightGrows ==
  ASSUME NEW perm \in SUBSET Rights
  PROVE  perm \subseteq AddRight(perm) /\ AddRight(perm) # {}
BY DEF AddRight, Rights

\* A store that keeps rights and, above the leaves, the frame.
LEMMA StoreGrows ==
  ASSUME TypeOK, NEW c \in Procs, pc[c] \in Mapping, NEW e, SetSlot(c, e),
         Slot(c).perm \subseteq e.perm,
         IsLink(cur[c], page[c][lvl[c]]) => e.frame = Slot(c).frame,
         UNCHANGED owner
  PROVE  EntriesGrow
<1>1. \A t \in TableFrames, i \in Index :
        mem'[t][i] = IF t = cur[c] /\ i = page[c][lvl[c]] THEN e ELSE mem[t][i]
  BY SetSlotEffect
<1>2. ASSUME NEW t \in TableFrames, NEW i \in Index
      PROVE  /\ mem[t][i].perm \subseteq mem'[t][i].perm
             /\ IsLink(t, i) => mem'[t][i].frame = mem[t][i].frame
  <2>1. CASE t = cur[c] /\ i = page[c][lvl[c]]
    <3>1. mem'[t][i] = e /\ mem[t][i] = Slot(c)
      BY <1>1, <2>1 DEF Slot
    <3>2. IsLink(t, i) => IsLink(cur[c], page[c][lvl[c]])
      BY <2>1
    <3> QED BY <3>1, <3>2
  <2>2. CASE ~(t = cur[c] /\ i = page[c][lvl[c]])
    <3>1. mem'[t][i] = mem[t][i]
      BY <1>1, <2>2
    <3> QED BY <3>1
  <2> QED BY <2>1, <2>2
<1> QED BY <1>2 DEF EntriesGrow

\* No step takes a right back or moves a table.
LEMMA GrowStep ==
  ASSUME TypeOK, LevelOK, LockOK, TreeOK, [Next]_vars
  PROVE  EntriesGrow
<1>0. OneWriter
  BY LockMeansOne
<1>1. CASE UNCHANGED <<mem, owner>>
  BY <1>1 DEF EntriesGrow
<1>2. ASSUME NEW c \in Procs, LinkFrame(c)
      PROVE  EntriesGrow
  <2>1. /\ pc[c] = "test" /\ "R" \notin Slot(c).perm
        /\ SetSlot(c, [Slot(c) EXCEPT !.frame = PhysAt(cnt)])
    BY <1>2 DEF LinkFrame
  <2>2. /\ cur[c] \in TableFrames /\ page[c][lvl[c]] \in Index
        /\ cnt \in Nat /\ \A d \in Procs : d # c => pc[d] \notin Holding
    <3>1. pc[c] \in {"test", "grant", "bump"}
      BY <2>1
    <3>2. /\ cur[c] \in TableFrames /\ page[c][lvl[c]] \in Index
          /\ cnt \in 0 .. NumPages /\ \A d \in Procs : d # c => pc[d] \notin Holding
      BY <1>0, <3>1, LinkStart
    <3> QED BY <3>2, SizeAssumption
  <2>3. Slot(c) \in Entry
    BY <2>1, SlotType DEF Mapping
  <2>4. \A t \in TableFrames, i \in Index :
          mem'[t][i] = IF t = cur[c] /\ i = page[c][lvl[c]]
                       THEN [Slot(c) EXCEPT !.frame = PhysAt(cnt)] ELSE mem[t][i]
    BY <2>1, SetSlotEffect DEF Mapping
  <2>5. /\ [Slot(c) EXCEPT !.frame = PhysAt(cnt)].perm = Slot(c).perm
        /\ Slot(c) = mem[cur[c]][page[c][lvl[c]]]
    BY <2>3 DEF Entry, Slot
  <2>6. \A t \in TableFrames, i \in Index :
          /\ mem[t][i].perm \subseteq mem'[t][i].perm
          /\ IsLink(t, i) => mem'[t][i].frame = mem[t][i].frame
    BY <2>1, <2>4, <2>5 DEF IsLink
  <2>7. \A t \in TableFrames : owner[t] # Unused => owner'[t] = owner[t]
    <3>1. CASE cnt < NumPages
      <4>1. cnt \in 0 .. NumPages - 1
        BY <2>2, <3>1, SizeAssumption
      <4>2. owner[PagesPhys[cnt]] = Unused
        <5>1. \A d \in Procs : pc[d] \notin {"grant", "bump"}
          BY <2>1, <2>2 DEF Holding, Mapping
        <5> QED BY <4>1, <5>1, <2>2 DEF TreeOK, OwnerOK
      <4>3. owner' = [owner EXCEPT ![PagesPhys[cnt]] =
                        [level |-> lvl[c] + 1, base |-> Base(page[c], lvl[c])]]
        BY <1>2, <3>1 DEF LinkFrame
      <4>4. owner \in [TableFrames -> [level : 1 .. 4, base : Page] \cup {Unused}]
        BY DEF TypeOK
      <4> QED BY <4>2, <4>3, <4>4
    <3>2. CASE ~(cnt < NumPages)
      BY <1>2, <3>2 DEF LinkFrame
    <3> QED BY <3>1, <3>2
  <2> QED BY <2>6, <2>7 DEF EntriesGrow
<1>3. ASSUME NEW c \in Procs, pc[c] \in {"grant", "leaf"}, UNCHANGED owner,
             SetSlot(c, [Slot(c) EXCEPT !.perm = AddRight(@)])
      PROVE  EntriesGrow
  <2>1. pc[c] \in Mapping
    BY <1>3 DEF Mapping
  <2>2. Slot(c) \in Entry
    BY <2>1, SlotType
  <2>3. Slot(c).perm \in SUBSET Rights
    BY <2>2 DEF Entry
  <2> DEFINE e == [Slot(c) EXCEPT !.perm = AddRight(@)]
  <2>4. e.perm = AddRight(Slot(c).perm) /\ e.frame = Slot(c).frame
    BY <2>2 DEF Entry
  <2>5. SetSlot(c, e) /\ Slot(c).perm \subseteq e.perm
    BY <1>3, <2>3, <2>4, AddRightGrows
  <2> HIDE DEF e
  <2> QED BY <1>3, <2>1, <2>4, <2>5, StoreGrows
<1>4. ASSUME NEW c \in Procs, LeafFrame(c)
      PROVE  EntriesGrow
  <2>1. /\ pc[c] = "frame" /\ pc[c] \in Mapping /\ UNCHANGED owner
        /\ SetSlot(c, [Slot(c) EXCEPT !.frame = page[c]])
    BY <1>4 DEF LeafFrame, Mapping
  <2>2. lvl[c] = 4 /\ owner[cur[c]] = [level |-> lvl[c], base |-> Base(page[c], lvl[c] - 1)]
    BY <2>1 DEF LevelOK, TreeOK, PositionOK
  <2>3. ~IsLink(cur[c], page[c][lvl[c]])
    <3>1. owner[cur[c]].level = 4
      BY <2>2
    <3> QED BY <3>1 DEF IsLink
  <2>4. Slot(c) \in Entry
    BY <2>1, SlotType
  <2>5. [Slot(c) EXCEPT !.frame = page[c]].perm = Slot(c).perm
    BY <2>4 DEF Entry
  <2> QED BY <2>1, <2>3, <2>5, StoreGrows
<1>5. ASSUME NEW c \in Procs, LeafType(c)
      PROVE  EntriesGrow
  <2> DEFINE e == [Slot(c) EXCEPT !.mt = IF c = Boot THEN "WB" ELSE "UC"]
  <2>1. pc[c] = "type" /\ pc[c] \in Mapping /\ UNCHANGED owner /\ SetSlot(c, e)
    BY <1>5 DEF LeafType, Mapping
  <2>2. Slot(c) \in Entry
    BY <2>1, SlotType
  <2>3. e.perm = Slot(c).perm /\ e.frame = Slot(c).frame
    BY <2>2 DEF Entry
  <2> HIDE DEF e
  <2> QED BY <2>1, <2>3, StoreGrows
<1>6. ASSUME NEW c \in Procs, MapStep(c)
      PROVE  EntriesGrow
  <2>1. CASE Descend(c) \/ LinkBump(c)
    BY <1>1, <2>1 DEF Descend, LinkBump
  <2>2. CASE LinkGrant(c) \/ LeafGrant(c)
    BY <1>3, <2>2 DEF LinkGrant, LeafGrant
  <2> QED BY <1>2, <1>4, <1>5, <1>6, <2>1, <2>2 DEF MapStep
<1>7. CASE BootPage \/ UNCHANGED vars
  BY <1>1, <1>7 DEF BootPage, vars
<1>8. ASSUME NEW c \in Cpus,
             \/ Launch(c) \/ Acquire(c) \/ Release(c)
             \/ \E p \in GuestPages, a \in Rights : Violation(c, p, a)
      PROVE  EntriesGrow
  BY <1>1, <1>8 DEF Launch, Acquire, Release, Violation
<1> QED BY <1>6, <1>7, <1>8 DEF Next

\* A pool that was overrun stays so.
LEMMA PoolStep ==
  ASSUME TypeOK, LevelOK, LockOK, TreeOK, [Next]_vars, PoolLasts'
  PROVE  PoolLasts
<1>1. cnt <= NumPages
  <2>1. cnt' = cnt \/ cnt' = cnt + 1
    BY DEF Next, MapStep, vars, BootPage, Descend, LinkFrame, LinkGrant, LinkBump,
           LeafGrant, LeafFrame, LeafType, Launch, Violation, Acquire, Release
  <2>2. cnt' <= NumPages /\ cnt \in Nat
    BY DEF PoolLasts, TypeOK
  <2> QED BY <2>1, <2>2, SizeAssumption
<1>2. ASSUME NEW c \in Procs, pc[c] \in {"grant", "bump"}
      PROVE  cnt < NumPages
  <2>1. CASE pc'[c] \in {"grant", "bump"}
    <3>1. cnt' < NumPages /\ (cnt' = cnt \/ cnt' = cnt + 1)
      BY <2>1 DEF PoolLasts, Next, MapStep, vars, BootPage, Descend, LinkFrame, LinkGrant, LinkBump,
             LeafGrant, LeafFrame, LeafType, Launch, Violation, Acquire, Release
    <3> QED BY <3>1, SizeAssumption DEF TypeOK
  <2>2. CASE pc'[c] \notin {"grant", "bump"}
    <3>1. LinkBump(c)
      <4>1. \A d \in Procs : d # c => pc[d] \notin Holding
        BY <1>2, LockMeansOne DEF OneWriter, Holding, Mapping
      <4>2. \A d \in Procs : MapStep(d) => d = c
        BY <4>1, MapStepShape DEF Holding
      <4>3. pc'[c] # pc[c]
        BY <1>2, <2>2
      <4>4. MapStep(c)
        <5>1. ~UNCHANGED pc
          BY <4>3
        <5>2. CASE BootPage
          BY <1>2, <4>3, <5>2 DEF BootPage, TypeOK
        <5>3. ASSUME NEW d \in Cpus, NEW p, NEW a, Violation(d, p, a) \/ Acquire(d) \/ Release(d)
              PROVE  FALSE
          BY <1>2, <4>3, <5>3 DEF Violation, Acquire, Release, TypeOK
        <5> QED BY <4>2, <5>1, <5>2, <5>3 DEF Next, vars, Launch
      <4>5. pc[c] \in {"grant", "bump"} /\ pc' # [pc EXCEPT ![c] = "grant"] /\ pc' # [pc EXCEPT ![c] = "bump"]
        BY <1>2, <2>2 DEF TypeOK
      <4> QED BY <4>4, <4>5 DEF MapStep, Descend, LinkFrame, LinkGrant, LeafGrant, LeafFrame, LeafType
    <3>2. cnt' = cnt + 1 /\ cnt' <= NumPages
      BY <3>1 DEF LinkBump, PoolLasts
    <3> QED BY <3>2, SizeAssumption DEF TypeOK
  <2> QED BY <2>1, <2>2
<1> QED BY <1>1, <1>2 DEF PoolLasts
-----------------------------------------------------------------------------
(* A walk that is open stays open and leads to the same tables.            *)

\* While the pool lasts, a step keeps the tables of an open walk, and keeps
\* it open.
LEMMA WalkStays ==
  ASSUME TypeOK, TreeOK, PoolLasts, EntriesGrow,
         NEW p \in Page, NEW n \in 1 .. 4, Open(p, n)
  PROVE  /\ \A k \in 1 .. 4 : k <= n =>
              /\ TableAt(p, k)' = TableAt(p, k)
              /\ EntryOf(p, k)' = mem'[TableAt(p, k)][p[k]]
              /\ EntryOf(p, k).perm \subseteq EntryOf(p, k)'.perm
         /\ Open(p, n)'
<1> DEFINE Same(k) == TableAt(p, k)' = TableAt(p, k)
<1>1. \A k \in 1 .. 4 : k <= n =>
        /\ TableAt(p, k) \in TableFrames
        /\ owner[TableAt(p, k)] = [level |-> k, base |-> Base(p, k - 1)]
        /\ owner[TableAt(p, k)] # Unused
        /\ EntryOf(p, k) = mem[TableAt(p, k)][p[k]]
  BY WalkTables
<1>2. \A k \in 1 .. 4 : p[k] \in Index
  BY PageIndex
<1>3. Same(1)
  BY DEF TableAt
<1>4. ASSUME NEW k \in 1 .. 4, k <= n, Same(k)
      PROVE  /\ EntryOf(p, k)' = mem'[TableAt(p, k)][p[k]]
             /\ EntryOf(p, k).perm \subseteq EntryOf(p, k)'.perm
  <2>1. EntryOf(p, k)' = mem'[TableAt(p, k)][p[k]]
    BY <1>1, <1>4 DEF EntryOf, EntryAt
  <2> QED BY <1>1, <1>2, <1>4, <2>1 DEF EntriesGrow
<1>5. ASSUME NEW k \in 1 .. 3, k < n, Same(k)
      PROVE  Same(k + 1)
  <2>1. k \in 1 .. 4 /\ k <= n
    BY <1>5
  <2>2. EntryOf(p, k)' = mem'[TableAt(p, k)][p[k]]
    BY <1>4, <1>5, <2>1
  <2>3. IsLink(TableAt(p, k), p[k])
    <3>1. EntryOf(p, k).perm # {}
      BY <1>5 DEF Open
    <3>2. /\ TableAt(p, k) \in TableFrames /\ p[k] \in Index
          /\ owner[TableAt(p, k)] # Unused /\ owner[TableAt(p, k)].level = k
          /\ mem[TableAt(p, k)][p[k]].perm # {}
      BY <1>1, <1>2, <2>1, <3>1
    <3> QED BY <3>2 DEF IsLink, TreeOK, RightsOK
  <2>4. mem'[TableAt(p, k)][p[k]].frame = mem[TableAt(p, k)][p[k]].frame
    BY <1>1, <1>2, <2>1, <2>3 DEF EntriesGrow
  <2>5. TableAt(p, k + 1) = EntryOf(p, k).frame
    BY WalkNames
  <2>6. TableAt(p, k + 1)' = EntryOf(p, k).frame'
    <3>1. /\ TableAt(p, 2)' = EntryOf(p, 1).frame' /\ TableAt(p, 3)' = EntryOf(p, 2).frame'
          /\ TableAt(p, 4)' = EntryOf(p, 3).frame'
      BY DEF TableAt, EntryOf, Pml4e, Pdpte, Pde
    <3>2. k = 1 \/ k = 2 \/ k = 3
      OBVIOUS
    <3> QED BY <3>1, <3>2
  <2> QED BY <1>1, <2>1, <2>2, <2>4, <2>5, <2>6
<1> HIDE DEF Same
<1>6. \A k \in 1 .. 4 : k <= n => Same(k)
  <2>1. 2 <= n => Same(2)
    <3>1. 1 \in 1 .. 3 /\ 1 + 1 = 2
      OBVIOUS
    <3> QED BY <1>3, <1>5, <3>1
  <2>2. 3 <= n => Same(3)
    <3>1. 2 \in 1 .. 3 /\ 2 + 1 = 3
      OBVIOUS
    <3> QED BY <1>5, <2>1, <3>1
  <2>3. 4 <= n => Same(4)
    <3>1. 3 \in 1 .. 3 /\ 3 + 1 = 4
      OBVIOUS
    <3> QED BY <1>5, <2>2, <3>1
  <2>4. \A k \in 1 .. 4 : k = 1 \/ k = 2 \/ k = 3 \/ k = 4
    OBVIOUS
  <2> QED BY <1>3, <2>1, <2>2, <2>3, <2>4
<1>7. \A k \in 1 .. 4 : k <= n =>
        /\ TableAt(p, k)' = TableAt(p, k)
        /\ EntryOf(p, k)' = mem'[TableAt(p, k)][p[k]]
        /\ EntryOf(p, k).perm \subseteq EntryOf(p, k)'.perm
  BY <1>4, <1>6 DEF Same
<1>8. Open(p, n)'
  <2> SUFFICES ASSUME NEW k \in 1 .. 3, k < n
               PROVE  EntryOf(p, k)'.perm # {}
    BY DEF Open
  <2>1. EntryOf(p, k).perm # {}
    BY DEF Open
  <2>2. EntryOf(p, k).perm \subseteq EntryOf(p, k)'.perm
    BY <1>7
  <2> QED BY <2>1, <2>2
<1> QED BY <1>7, <1>8

\* A page that some access is granted for has an open walk.
LEMMA GrantedOpen ==
  ASSUME NEW p, NEW a, Granted(p, a)
  PROVE  Open(p, 4) /\ \A k \in 1 .. 4 : a \in EntryOf(p, k).perm
<1>1. /\ a \in EntryOf(p, 1).perm /\ a \in EntryOf(p, 2).perm
      /\ a \in EntryOf(p, 3).perm /\ a \in EntryOf(p, 4).perm
  BY WalkNames DEF Granted
<1>2. \A k \in 1 .. 4 : k = 1 \/ k = 2 \/ k = 3 \/ k = 4
  OBVIOUS
<1> QED BY <1>1, <1>2 DEF Open

\* What the tree grants it goes on to grant, by way of the same tables.
LEMMA GrantedStays ==
  ASSUME TypeOK, TreeOK, PoolLasts, EntriesGrow, NEW p \in Page, NEW a, Granted(p, a)
  PROVE  Granted(p, a)'
<1>1. Open(p, 4) /\ \A k \in 1 .. 4 : a \in EntryOf(p, k).perm
  BY GrantedOpen
<1>2. \A k \in 1 .. 4 : k <= 4 => EntryOf(p, k).perm \subseteq EntryOf(p, k)'.perm
  BY <1>1, WalkStays
<1>3. /\ a \in EntryOf(p, 1)'.perm /\ a \in EntryOf(p, 2)'.perm
      /\ a \in EntryOf(p, 3)'.perm /\ a \in EntryOf(p, 4)'.perm
  BY <1>1, <1>2
<1>4. /\ Pml4e(p)' = EntryOf(p, 1)' /\ Pdpte(p)' = EntryOf(p, 2)'
      /\ Pde(p)' = EntryOf(p, 3)' /\ Pte(p)' = EntryOf(p, 4)'
  BY DEF TableAt, EntryOf, Pml4e, Pdpte, Pde, Pte
<1> QED BY <1>3, <1>4 DEF Granted
-----------------------------------------------------------------------------
(* The inductive invariant of what is mapped, and how it is cached.        *)

\* An entry grants nothing or everything but while its rights are stored.
FullOK ==
  \A t \in TableFrames, i \in Index :
    \/ mem[t][i].perm \in {{}, Rights}
    \/ \E c \in Procs : pc[c] \in {"grant", "leaf"} /\ cur[c] = t /\ page[c][lvl[c]] = i

\* A process inside EptMapPage stands where the walk to its page leads; all
\* entries above grant everything, and so does its leaf entry after the
\* stores of the rights.
PathOK ==
  \A c \in Procs : pc[c] \in Mapping =>
    /\ cur[c] = TableAt(page[c], lvl[c])
    /\ \A k \in 1 .. 3 : k < lvl[c] => EntryOf(page[c], k).perm = Rights
    /\ pc[c] \in {"frame", "type"} => Slot(c).perm = Rights

\* The pages Ept11mapping is done with are mapped.
BootOK ==
  /\ pc[Boot] \in Mapping =>
       bootNext - 1 \in 1 .. Len(BootMap) /\ page[Boot] = BootMap[bootNext - 1]
  /\ \A i \in 1 .. Len(BootMap) : i < bootNext =>
       BootMap[i] \in Mapped \/ (pc[Boot] \in Mapping /\ i = bootNext - 1)

\* A processor never exits for a page of RAM.
WantOK == \A c \in Cpus : pc[c] \in {"acquire"} \cup Mapping => page[c] \notin Ram

\* Only RAM is cached, RAM is cached unless Ept11mapping is just mapping it,
\* and a leaf entry holds its own page or none yet.
TypesOK ==
  \A t \in TableFrames, i \in Index :
    owner[t] # Unused /\ owner[t].level = 4 =>
      /\ mem[t][i].mt = "WB" => LeafPage(owner[t], i) \in Ram
      /\ "R" \in mem[t][i].perm /\ LeafPage(owner[t], i) \in Ram =>
           \/ mem[t][i].mt = "WB"
           \/ pc[Boot] \in {"leaf", "frame", "type"} /\ cur[Boot] = t /\ page[Boot][4] = i
      /\ mem[t][i].frame \in {LeafPage(owner[t], i), ZeroPage}

CacheOK == FullOK /\ (PoolLasts => PathOK /\ BootOK /\ WantOK /\ TypesOK)

\* Nothing is mapped at first.
LEMMA CacheInit == Init => CacheOK
<1> SUFFICES ASSUME Init PROVE CacheOK
  OBVIOUS
<1>1. /\ \A c \in Procs : pc[c] = "idle"
      /\ \A t \in TableFrames, i \in Index : mem[t][i].perm = {}
      /\ bootNext = 1 /\ Boot \in Procs /\ Cpus \subseteq Procs
      /\ Len(BootMap) \in Nat
  BY MapAssumption DEF Init, ZeroEntry, Procs
<1>2. \A t \in TableFrames : owner[t] # Unused => owner[t].level = 1
  BY DEF Init
<1>3. FullOK
  BY <1>1 DEF FullOK
<1>4. PathOK /\ BootOK /\ WantOK
  BY <1>1 DEF PathOK, BootOK, WantOK, Mapping
<1>5. TypesOK
  BY <1>2 DEF TypesOK
<1> QED BY <1>3, <1>4, <1>5 DEF CacheOK

\* A step of a processor outside EptMapPage, or into it, keeps it: the tree
\* is not touched, and the page is not of RAM.
LEMMA OutsideStep ==
  ASSUME TypeOK, CacheOK, UNCHANGED <<mem, owner, cnt, bootNext>>,
         NEW c \in Cpus, NEW x \in {"idle", "acquire", "test"},
         pc[c] \notin Mapping, pc' = [pc EXCEPT ![c] = x],
         \A d \in Procs : d # c => page'[d] = page[d] /\ lvl'[d] = lvl[d] /\ cur'[d] = cur[d],
         x = "test" => lvl'[c] = 1 /\ cur'[c] = Pml4Phys,
         PoolLasts /\ x # "idle" => page'[c] \notin Ram
  PROVE  CacheOK'
<1>1. /\ \A d \in Procs : pc'[d] = IF d = c THEN x ELSE pc[d]
      /\ c \in Procs /\ Boot \in Procs /\ c # Boot /\ Cpus \subseteq Procs
  BY CpuAssumption DEF TypeOK, Procs
<1>2. /\ \A d \in Procs : pc[d] \in Mapping => d # c
      /\ \A d \in Procs : d # c => pc'[d] = pc[d]
  BY <1>1
<1>3. \A d \in Procs : pc[d] \in {"grant", "bump", "leaf", "frame", "type"} <=> pc'[d] \in {"grant", "bump", "leaf", "frame", "type"}
  BY <1>1 DEF Mapping
<1>4. PoolLasts' <=> PoolLasts
  <2>1. \A d \in Procs : pc'[d] \in {"grant", "bump"} <=> pc[d] \in {"grant", "bump"}
    BY <1>1 DEF Mapping
  <2> QED BY <2>1 DEF PoolLasts
<1>5. FullOK'
  <2>1. ASSUME NEW d \in Procs, pc[d] \in {"grant", "leaf"}
        PROVE  pc'[d] = pc[d] /\ cur'[d] = cur[d] /\ page'[d] = page[d] /\ lvl'[d] = lvl[d]
    BY <1>2, <2>1 DEF Mapping
  <2> QED BY <2>1 DEF CacheOK, FullOK
<1>6. \A p, k : TableAt(p, k)' = TableAt(p, k) /\ EntryOf(p, k)' = EntryOf(p, k)
  BY DEF TableAt, EntryOf, EntryAt, Pml4e, Pdpte, Pde
<1>7. PoolLasts => PathOK'
  <2> SUFFICES ASSUME PoolLasts, NEW d \in Procs, pc'[d] \in Mapping
               PROVE  /\ cur'[d] = TableAt(page[d], lvl[d])'
                      /\ \A k \in 1 .. 3 : k < lvl'[d] => EntryOf(page[d], k)'.perm = Rights
                      /\ pc'[d] \in {"frame", "type"} => Slot(d)'.perm = Rights
    BY DEF PathOK
  <2>1. CASE d = c
    <3>1. x = "test" /\ pc'[d] = "test"
      BY <1>1, <2>1 DEF Mapping
    <3>2. lvl'[d] = 1 /\ cur'[d] = Pml4Phys
      BY <2>1, <3>1
    <3>3. TableAt(page[d], lvl[d])' = Pml4Phys
      BY <3>2 DEF TableAt
    <3> QED BY <3>1, <3>2, <3>3
  <2>2. CASE d # c
    <3>1. pc'[d] = pc[d] /\ page'[d] = page[d] /\ lvl'[d] = lvl[d] /\ cur'[d] = cur[d]
      BY <1>2, <2>2
    <3>2. /\ cur[d] = TableAt(page[d], lvl[d])
          /\ \A k \in 1 .. 3 : k < lvl[d] => EntryOf(page[d], k).perm = Rights
          /\ pc[d] \in {"frame", "type"} => Slot(d).perm = Rights
      BY <3>1 DEF CacheOK, PathOK
    <3>3. Slot(d)' = Slot(d)
      BY <3>1 DEF Slot
    <3>4. TableAt(page[d], lvl[d])' = TableAt(page[d], lvl[d])
      BY <3>1 DEF TableAt, EntryAt, Pml4e, Pdpte, Pde
    <3>5. \A k \in 1 .. 3 : EntryOf(page[d], k)' = EntryOf(page[d], k)
      BY <3>1 DEF EntryOf, TableAt, EntryAt, Pml4e, Pdpte, Pde
    <3> QED BY <3>1, <3>2, <3>3, <3>4, <3>5
  <2> QED BY <2>1, <2>2
<1>8. PoolLasts => BootOK'
  <2>1. pc'[Boot] = pc[Boot] /\ page'[Boot] = page[Boot]
    BY <1>1
  <2>2. Mapped' = Mapped
    BY DEF Mapped, Granted, Pte, Pml4e, Pdpte, Pde, EntryAt
  <2> QED BY <2>1, <2>2 DEF CacheOK, BootOK
<1>9. PoolLasts => WantOK'
  <2> SUFFICES ASSUME PoolLasts, NEW d \in Cpus, pc'[d] \in {"acquire"} \cup Mapping
               PROVE  page'[d] \notin Ram
    BY DEF WantOK
  <2>1. CASE d = c
    BY <1>1, <2>1 DEF Mapping
  <2>2. CASE d # c
    BY <1>1, <2>2 DEF CacheOK, WantOK
  <2> QED BY <2>1, <2>2
<1>10. PoolLasts => TypesOK'
  <2>1. pc'[Boot] = pc[Boot] /\ page'[Boot] = page[Boot] /\ cur'[Boot] = cur[Boot]
    BY <1>1
  <2> QED BY <2>1 DEF CacheOK, TypesOK, LeafPage
<1> QED BY <1>4, <1>5, <1>7, <1>8, <1>9, <1>10 DEF CacheOK

\* So does the start of a call by Ept11mapping.
LEMMA BootCacheStep ==
  ASSUME TypeOK, LockOK, CacheOK, BootPage
  PROVE  CacheOK'
<1>1. /\ Boot \in Procs /\ Boot \notin Cpus /\ Cpus \subseteq Procs
      /\ pc[Boot] = "idle" /\ bootNext \in 1 .. Len(BootMap) /\ bootNext' = bootNext + 1
      /\ pc'[Boot] = "test" /\ page'[Boot] = BootMap[bootNext]
      /\ lvl'[Boot] = 1 /\ cur'[Boot] = Pml4Phys
      /\ \A d \in Procs : d # Boot =>
           pc'[d] = pc[d] /\ page'[d] = page[d] /\ lvl'[d] = lvl[d] /\ cur'[d] = cur[d]
      /\ UNCHANGED <<cnt, mem, owner>>
  BY CpuAssumption, MapAssumption DEF BootPage, TypeOK, Procs
<1>2. \A d \in Cpus : pc'[d] = "idle" /\ pc[d] = "idle"
  <2>1. running = {}
    BY <1>1 DEF LockOK, BootDone
  <2> QED BY <1>1, <2>1 DEF LockOK
<1>3. \A d \in Procs : pc[d] = "idle"
  BY <1>1, <1>2 DEF Procs
<1>4. PoolLasts' => PoolLasts
  BY <1>1, <1>3 DEF PoolLasts
<1>5. FullOK'
  BY <1>1, <1>3 DEF CacheOK, FullOK
<1>6. PathOK'
  <2> SUFFICES ASSUME NEW d \in Procs, pc'[d] \in Mapping
               PROVE  /\ cur'[d] = TableAt(page[d], lvl[d])'
                      /\ \A k \in 1 .. 3 : k < lvl'[d] => EntryOf(page[d], k)'.perm = Rights
                      /\ pc'[d] \in {"frame", "type"} => Slot(d)'.perm = Rights
    BY DEF PathOK
  <2>1. d = Boot /\ pc'[d] = "test" /\ lvl'[d] = 1 /\ cur'[d] = Pml4Phys
    BY <1>1, <1>2 DEF Procs, Mapping
  <2>2. TableAt(page[d], lvl[d])' = Pml4Phys
    BY <2>1 DEF TableAt
  <2> QED BY <2>1, <2>2
<1>7. PoolLasts => BootOK'
  <2> SUFFICES ASSUME PoolLasts PROVE BootOK'
    OBVIOUS
  <2>1. Mapped' = Mapped
    BY <1>1 DEF Mapped, Granted, Pte, Pml4e, Pdpte, Pde, EntryAt
  <2>2. bootNext' - 1 = bootNext
    BY <1>1, MapAssumption
  <2>3. \A i \in 1 .. Len(BootMap) : i < bootNext => BootMap[i] \in Mapped
    BY <1>1 DEF CacheOK, BootOK, Mapping
  <2>4. \A i \in 1 .. Len(BootMap) : i < bootNext' => i < bootNext \/ i = bootNext
    BY <1>1, MapAssumption
  <2>5. pc'[Boot] \in Mapping
    BY <1>1 DEF Mapping
  <2> QED BY <1>1, <2>1, <2>2, <2>3, <2>4, <2>5 DEF BootOK
<1>8. WantOK'
  BY <1>2 DEF WantOK, Mapping
<1>9. PoolLasts => TypesOK'
  BY <1>1 DEF CacheOK, TypesOK, LeafPage
<1> QED BY <1>4, <1>5, <1>6, <1>7, <1>8, <1>9 DEF CacheOK

\* The facts a step of EptMapPage starts from: the others are outside.
LEMMA InsideStart ==
  ASSUME TypeOK, LevelOK, OneWriter, CacheOK, NEW c \in Procs, MapStep(c)
  PROVE  /\ pc[c] \in Mapping
         /\ cur[c] \in TableFrames /\ page[c][lvl[c]] \in Index /\ lvl[c] \in 1 .. 4
         /\ page[c] \in Page /\ Slot(c) \in Entry
         /\ UNCHANGED <<bootNext, page>>
         /\ \A d \in Procs : d # c =>
              /\ pc'[d] = pc[d] /\ lvl'[d] = lvl[d] /\ cur'[d] = cur[d]
              /\ pc[d] \notin Holding /\ pc'[d] \notin Mapping
         /\ \A t \in TableFrames, i \in Index :
              \/ mem[t][i].perm \in {{}, Rights}
              \/ pc[c] \in {"grant", "leaf"} /\ cur[c] = t /\ page[c][lvl[c]] = i
<1>1. pc[c] \in Mapping /\ UNCHANGED <<bootNext, page>> /\ pc[c] \in Holding
  BY MapStepShape DEF Holding
<1>2. /\ cur[c] \in TableFrames /\ page[c][lvl[c]] \in Index /\ lvl[c] \in 1 .. 4
      /\ page[c] \in Page /\ Slot(c) \in Entry
  BY <1>1, SlotType DEF TypeOK
<1>3. \A d \in Procs : d # c => pc[d] \notin Holding
  BY <1>1 DEF OneWriter
<1>4. \A d \in Procs : d # c => pc'[d] = pc[d]
  BY MapStepShape DEF TypeOK
<1>5. \A d \in Procs : d # c => lvl'[d] = lvl[d] /\ cur'[d] = cur[d]
  BY DEF MapStep, Descend, LinkFrame, LinkGrant, LinkBump, LeafGrant, LeafFrame, LeafType,
         Follow, TypeOK
<1>6. \A t \in TableFrames, i \in Index :
        \/ mem[t][i].perm \in {{}, Rights}
        \/ pc[c] \in {"grant", "leaf"} /\ cur[c] = t /\ page[c][lvl[c]] = i
  BY <1>3 DEF CacheOK, FullOK, Holding, Mapping
<1> QED BY <1>1, <1>2, <1>3, <1>4, <1>5, <1>6 DEF Holding

\* The kinds of step that a process makes inside EptMapPage, and what each
\* stores in the current entry.
LEMMA StoreShape ==
  ASSUME TypeOK, NEW c \in Procs, MapStep(c)
  PROVE  \/ Descend(c) \/ LinkBump(c)
         \/ \E e \in Entry :
              /\ pc[c] \in Mapping /\ SetSlot(c, e) /\ UNCHANGED <<lvl, cur, cnt>>
              /\ \/ pc[c] = "test" /\ e.perm = Slot(c).perm /\ pc'[c] = "grant" /\ LinkFrame(c)
                 \/ /\ pc[c] = "grant" /\ e.perm = AddRight(Slot(c).perm)
                    /\ pc'[c] = (IF e.perm = Rights THEN "bump" ELSE "grant")
                    /\ UNCHANGED owner
                 \/ /\ pc[c] = "leaf" /\ e.perm = AddRight(Slot(c).perm)
                    /\ pc'[c] = (IF e.perm = Rights THEN "frame" ELSE "leaf")
                    /\ e.mt = Slot(c).mt /\ e.frame = Slot(c).frame /\ UNCHANGED owner
                 \/ /\ pc[c] = "frame" /\ e.perm = Slot(c).perm /\ pc'[c] = "type"
                    /\ e.mt = Slot(c).mt /\ e.frame = page[c] /\ UNCHANGED owner
                 \/ /\ pc[c] = "type" /\ e.perm = Slot(c).perm
                    /\ pc'[c] = (IF c = Boot THEN "idle" ELSE "release")
                    /\ e.mt = (IF c = Boot THEN "WB" ELSE "UC")
                    /\ e.frame = Slot(c).frame /\ UNCHANGED owner
<1>0. pc[c] \in Mapping
  BY MapStepShape
<1>1. Slot(c) \in Entry /\ Slot(c).perm \in SUBSET Rights /\ page[c] \in Page
  <2>1. Slot(c) \in Entry
    BY <1>0, SlotType
  <2> QED BY <2>1 DEF Entry, TypeOK
<1>2. CASE LinkFrame(c)
  <2> DEFINE e == [Slot(c) EXCEPT !.frame = PhysAt(cnt)]
  <2>1. e \in Entry /\ e.perm = Slot(c).perm
    <3>1. PhysAt(cnt) \in Page
      BY PhysAtType DEF TypeOK
    <3> QED BY <1>1, <3>1 DEF Entry
  <2>2. SetSlot(c, e) /\ UNCHANGED <<lvl, cur, cnt>> /\ pc[c] = "test" /\ pc'[c] = "grant"
    BY <1>2 DEF LinkFrame, TypeOK
  <2> HIDE DEF e
  <2> QED BY <1>0, <1>2, <2>1, <2>2
<1>3. CASE LinkGrant(c)
  <2> DEFINE e == [Slot(c) EXCEPT !.perm = AddRight(@)]
  <2>1. e \in Entry /\ e.perm = AddRight(Slot(c).perm)
    BY <1>1, AddRightType DEF Entry
  <2>2. /\ SetSlot(c, e) /\ UNCHANGED <<lvl, cur, cnt, owner>> /\ pc[c] = "grant"
        /\ pc'[c] = IF e.perm = Rights THEN "bump" ELSE "grant"
    BY <1>3, <2>1 DEF LinkGrant, TypeOK
  <2> HIDE DEF e
  <2> QED BY <1>0, <2>1, <2>2
<1>4. CASE LeafGrant(c)
  <2> DEFINE e == [Slot(c) EXCEPT !.perm = AddRight(@)]
  <2>1. e \in Entry /\ e.perm = AddRight(Slot(c).perm) /\ e.mt = Slot(c).mt /\ e.frame = Slot(c).frame
    BY <1>1, AddRightType DEF Entry
  <2>2. /\ SetSlot(c, e) /\ UNCHANGED <<lvl, cur, cnt, owner>> /\ pc[c] = "leaf"
        /\ pc'[c] = IF e.perm = Rights THEN "frame" ELSE "leaf"
    BY <1>4, <2>1 DEF LeafGrant, TypeOK
  <2> HIDE DEF e
  <2> QED BY <1>0, <2>1, <2>2
<1>5. CASE LeafFrame(c)
  <2> DEFINE e == [Slot(c) EXCEPT !.frame = page[c]]
  <2>1. e \in Entry /\ e.perm = Slot(c).perm /\ e.mt = Slot(c).mt /\ e.frame = page[c]
    BY <1>1 DEF Entry
  <2>2. /\ SetSlot(c, e) /\ UNCHANGED <<lvl, cur, cnt, owner>> /\ pc[c] = "frame"
        /\ pc'[c] = "type"
    BY <1>5 DEF LeafFrame, TypeOK
  <2> HIDE DEF e
  <2> QED BY <1>0, <2>1, <2>2
<1>6. CASE LeafType(c)
  <2> DEFINE e == [Slot(c) EXCEPT !.mt = IF c = Boot THEN "WB" ELSE "UC"]
  <2>1. /\ e \in Entry /\ e.perm = Slot(c).perm /\ e.frame = Slot(c).frame
        /\ e.mt = IF c = Boot THEN "WB" ELSE "UC"
    BY <1>1 DEF Entry, CacheType
  <2>2. /\ SetSlot(c, e) /\ UNCHANGED <<lvl, cur, cnt, owner>> /\ pc[c] = "type"
        /\ pc'[c] = IF c = Boot THEN "idle" ELSE "release"
    BY <1>6 DEF LeafType, TypeOK
  <2> HIDE DEF e
  <2> QED BY <1>0, <2>1, <2>2
<1> QED BY <1>2, <1>3, <1>4, <1>5, <1>6 DEF MapStep

\* FullOK is kept: what a store leaves half granted, its writer is at.
LEMMA FullStep ==
  ASSUME TypeOK, LevelOK, OneWriter, TreeOK, CacheOK, NEW c \in Procs, MapStep(c)
  PROVE  FullOK'
<1>1. /\ pc[c] \in Mapping /\ page' = page
      /\ \A t \in TableFrames, i \in Index :
           \/ mem[t][i].perm \in {{}, Rights}
           \/ pc[c] \in {"grant", "leaf"} /\ cur[c] = t /\ page[c][lvl[c]] = i
  BY InsideStart
<1>2. CASE Descend(c) \/ LinkBump(c)
  <2>1. mem' = mem /\ pc[c] \in {"test", "bump"}
    BY <1>2 DEF Descend, LinkBump
  <2> QED BY <1>1, <2>1 DEF FullOK
<1>3. ASSUME NEW e \in Entry, SetSlot(c, e), UNCHANGED <<lvl, cur>>,
             e.perm \in {{}, Rights} \/ pc'[c] \in {"grant", "leaf"}
      PROVE  FullOK'
  <2> SUFFICES ASSUME NEW t \in TableFrames, NEW i \in Index
               PROVE  \/ mem'[t][i].perm \in {{}, Rights}
                      \/ \E d \in Procs : pc'[d] \in {"grant", "leaf"} /\ cur'[d] = t /\ page'[d][lvl'[d]] = i
    BY DEF FullOK
  <2>1. mem'[t][i] = IF t = cur[c] /\ i = page[c][lvl[c]] THEN e ELSE mem[t][i]
    BY <1>1, <1>3, SetSlotEffect
  <2> QED BY <1>1, <1>3, <2>1
<1>4. Slot(c).perm \in {{}, Rights} \/ pc[c] \in {"grant", "leaf"}
  BY <1>1, SlotType DEF Slot
<1> QED BY <1>2, <1>3, <1>4, StoreShape

\* What a store makes of the entries: its own, and no other.
LEMMA SlotAfter ==
  ASSUME TypeOK, NEW c \in Procs, pc[c] \in Mapping, NEW e, SetSlot(c, e),
         UNCHANGED <<page, lvl, cur>>
  PROVE  Slot(c)' = e
BY SlotType, SetSlotEffect DEF Slot

\* A process that goes down a level goes where the walk does.
LEMMA FollowPath ==
  ASSUME TypeOK, TypeOK', LevelOK, PathOK, NEW c \in Procs, pc[c] \in {"test", "bump"},
         Slot(c).perm = Rights, NEW n, Follow(c, Slot(c).frame, n), pc'[c] \in Mapping,
         UNCHANGED <<mem, page>>
  PROVE  /\ cur'[c] = TableAt(page[c], lvl[c])'
         /\ \A k \in 1 .. 3 : k < lvl'[c] => EntryOf(page[c], k)'.perm = Rights
         /\ pc'[c] \notin {"frame", "type"}
<1>1. lvl[c] \in 1 .. 3 /\ page[c] \in Page
  BY DEF LevelOK, TypeOK
<1>2. Lookup(Slot(c).frame, n) = "table" /\ pc'[c] \in {"test", "leaf"}
  BY DEF Follow, Mapping, TypeOK
<1>3. cur'[c] = Slot(c).frame /\ lvl'[c] = lvl[c] + 1
  BY <1>2 DEF Follow, TypeOK
<1>4. /\ cur[c] = TableAt(page[c], lvl[c])
      /\ \A k \in 1 .. 3 : k < lvl[c] => EntryOf(page[c], k).perm = Rights
  BY DEF PathOK, Mapping
<1>5. Slot(c) = EntryOf(page[c], lvl[c])
  <2>1. cur[c] \in TableFrames
    BY DEF TypeOK, Mapping
  <2> QED BY <1>4, <2>1 DEF EntryOf, EntryAt, Slot
<1>6. /\ \A k \in 1 .. 4 : TableAt(page[c], k)' = TableAt(page[c], k)
      /\ \A k \in 1 .. 4 : EntryOf(page[c], k)' = EntryOf(page[c], k)
  BY DEF TableAt, EntryOf, EntryAt, Pml4e, Pdpte, Pde
<1>7. TableAt(page[c], lvl[c] + 1) = Slot(c).frame
  BY <1>1, <1>5, WalkNames
<1>8. TableAt(page[c], lvl[c])' = TableAt(page[c], lvl[c] + 1)
  <2>1. \A k \in 1 .. 4 : lvl'[c] = k => TableAt(page[c], lvl[c])' = TableAt(page[c], k)
    BY DEF TableAt, EntryAt, Pml4e, Pdpte, Pde
  <2>2. lvl'[c] \in 1 .. 4
    BY <1>1, <1>3
  <2> QED BY <1>3, <2>1, <2>2
<1>9. ASSUME NEW k \in 1 .. 3, k < lvl'[c]
      PROVE  EntryOf(page[c], k)'.perm = Rights
  <2>1. k < lvl[c] \/ k = lvl[c]
    BY <1>1, <1>3, <1>9
  <2> QED BY <1>4, <1>5, <1>6, <2>1
<1> QED BY <1>2, <1>3, <1>7, <1>8, <1>9

\* PathOK is kept.
LEMMA PathStep ==
  ASSUME TypeOK, TypeOK', LevelOK, OneWriter, TreeOK, PoolLasts, EntriesGrow,
         CacheOK, NEW c \in Procs, MapStep(c)
  PROVE  PathOK'
<1>1. /\ pc[c] \in Mapping /\ page' = page /\ lvl[c] \in 1 .. 4 /\ page[c] \in Page
      /\ cur[c] \in TableFrames /\ page[c][lvl[c]] \in Index
      /\ \A d \in Procs : d # c => pc'[d] \notin Mapping
      /\ \A t \in TableFrames, i \in Index :
           \/ mem[t][i].perm \in {{}, Rights}
           \/ pc[c] \in {"grant", "leaf"} /\ cur[c] = t /\ page[c][lvl[c]] = i
  BY InsideStart
<1>2. PathOK
  BY DEF CacheOK
<1> SUFFICES ASSUME pc'[c] \in Mapping
             PROVE  /\ cur'[c] = TableAt(page[c], lvl[c])'
                    /\ \A k \in 1 .. 3 : k < lvl'[c] => EntryOf(page[c], k)'.perm = Rights
                    /\ pc'[c] \in {"frame", "type"} => Slot(c)'.perm = Rights
  BY <1>1 DEF PathOK
<1>3. CASE Descend(c) \/ LinkBump(c)
  <2>1. "R" \in Slot(c).perm /\ pc[c] \in {"test", "bump"} /\ mem' = mem
    BY <1>3 DEF Descend, LinkBump, TreeOK, LinkingOK
  <2>2. Slot(c).perm = Rights
    BY <1>1, <2>1 DEF Slot
  <2>3. \E n : Follow(c, Slot(c).frame, n)
    BY <1>3 DEF Descend, LinkBump
  <2> QED BY <1>1, <1>2, <2>1, <2>2, <2>3, FollowPath
<1>4. ASSUME NEW e \in Entry, SetSlot(c, e), UNCHANGED <<lvl, cur>>,
             pc'[c] \in {"frame", "type"} => e.perm = Rights
      PROVE  /\ cur'[c] = TableAt(page[c], lvl[c])'
             /\ \A k \in 1 .. 3 : k < lvl'[c] => EntryOf(page[c], k)'.perm = Rights
             /\ pc'[c] \in {"frame", "type"} => Slot(c)'.perm = Rights
  <2>1. PICK p \in Page, n \in 1 .. 4 :
          p = page[c] /\ n = lvl[c] /\ p = page'[c] /\ n = lvl'[c]
    BY <1>1, <1>4
  <2>2. /\ cur[c] = TableAt(p, n)
        /\ \A k \in 1 .. 3 : k < n => EntryOf(p, k).perm = Rights
    <3>1. /\ cur[c] = TableAt(page[c], lvl[c])
          /\ \A k \in 1 .. 3 : k < lvl[c] => EntryOf(page[c], k).perm = Rights
      BY <1>1, <1>2 DEF PathOK
    <3>2. page[c] = p /\ lvl[c] = n
      BY <2>1
    <3> HIDE <2>1
    <3> QED BY <3>1, <3>2, ZenonT(30)
  <2>3. Open(p, n)
    BY <2>2 DEF Open, Rights
  <2>4. \A k \in 1 .. 4 : k <= n =>
          /\ TableAt(p, k)' = TableAt(p, k)
          /\ EntryOf(p, k)' = mem'[TableAt(p, k)][p[k]]
          /\ EntryOf(p, k).perm \subseteq EntryOf(p, k)'.perm
    BY <2>3, WalkStays
  <2>5. TableAt(page[c], lvl[c])' = TableAt(p, n)'
    BY <2>1 DEF TableAt, EntryAt, Pml4e, Pdpte, Pde
  <2>6. \A k \in 1 .. 3 : EntryOf(page[c], k)' = EntryOf(p, k)'
    BY <2>1 DEF EntryOf, TableAt, EntryAt, Pml4e, Pdpte, Pde
  <2>7. ASSUME NEW k \in 1 .. 3, k < n
        PROVE  EntryOf(p, k)'.perm = Rights
    <3>1. k \in 1 .. 4 /\ k <= n
      BY <2>7
    <3>2. TableAt(p, k) \in TableFrames
      BY <2>3, <3>1, WalkTables
    <3>3. EntryOf(p, k)' = mem'[TableAt(p, k)][p[k]] /\ Rights \subseteq EntryOf(p, k)'.perm
      BY <2>2, <2>4, <2>7, <3>1
    <3>4. p[k] \in Index
      BY <3>1, PageIndex
    <3>5. mem'[TableAt(p, k)][p[k]] \in Entry
      BY <3>2, <3>4 DEF TypeOK
    <3> QED BY <3>3, <3>5 DEF Entry
  <2>8. Slot(c)' = e
    BY <1>1, <1>4, SlotAfter
  <2>9. cur'[c] = TableAt(page[c], lvl[c])'
    BY <1>4, <2>1, <2>2, <2>4, <2>5
  <2> QED BY <1>4, <2>1, <2>6, <2>7, <2>8, <2>9
<1>5. pc[c] \in {"frame", "type"} => Slot(c).perm = Rights
  BY <1>1, <1>2 DEF PathOK
<1> QED BY <1>3, <1>4, <1>5, StoreShape

\* A page that is mapped stays mapped.
LEMMA MappedStays ==
  ASSUME TypeOK, TreeOK, PoolLasts, EntriesGrow
  PROVE  Mapped \subseteq Mapped'
<1> SUFFICES ASSUME NEW p \in Page, \A a \in Rights : Granted(p, a)
             PROVE  \A a \in Rights : Granted(p, a)'
  BY DEF Mapped
<1> QED BY GrantedStays

\* When only the memory type of an entry is left to be stored, the page of the
\* process is mapped.
LEMMA TypeMapped ==
  ASSUME TypeOK, LevelOK, PathOK, NEW c \in Procs, pc[c] = "type"
  PROVE  page[c] \in Mapped
<1>1. /\ pc[c] \in Mapping /\ page[c] \in Page /\ lvl[c] = 4
      /\ cur[c] \in TableFrames /\ page[c][4] \in Index
  BY SlotType DEF Mapping, TypeOK, LevelOK
<1>2. /\ cur[c] = TableAt(page[c], 4) /\ Slot(c).perm = Rights
      /\ \A k \in 1 .. 3 : EntryOf(page[c], k).perm = Rights
  BY <1>1 DEF PathOK
<1>3. EntryOf(page[c], 4).perm = Rights
  BY <1>1, <1>2 DEF EntryOf, EntryAt, Slot
<1> QED BY <1>1, <1>2, <1>3, WalkNames DEF Mapped, Granted

\* When Ept11mapping has finished with a page, the page is mapped.
LEMMA BootFinishes ==
  ASSUME TypeOK, LevelOK, TreeOK, PoolLasts, EntriesGrow, PathOK,
         NEW c \in Procs, pc[c] = "type"
  PROVE  page[c] \in Mapped'
BY TypeMapped, MappedStays

\* BootOK is kept.
LEMMA BootStep ==
  ASSUME TypeOK, TypeOK', LevelOK, OneWriter, TreeOK, TreeOK', PoolLasts, PoolLasts', EntriesGrow,
         CacheOK, NEW c \in Procs, MapStep(c)
  PROVE  BootOK'
<1>1. /\ pc[c] \in Mapping /\ page' = page /\ bootNext' = bootNext
      /\ \A d \in Procs : d # c => pc'[d] = pc[d] /\ pc[d] \notin Holding
  BY InsideStart
<1>2. BootOK /\ PathOK
  BY DEF CacheOK
<1>3. Mapped \subseteq Mapped'
  BY MappedStays
<1>4. Boot \in Procs
  BY DEF Procs
<1>5. CASE pc'[Boot] \in Mapping
  <2>1. pc[Boot] \in Mapping
    BY <1>1, <1>4, <1>5 DEF Holding
  <2> QED BY <1>1, <1>2, <1>3, <1>5, <2>1 DEF BootOK
<1>6. CASE pc'[Boot] \notin Mapping /\ pc[Boot] \notin Mapping
  BY <1>1, <1>2, <1>3, <1>6 DEF BootOK
<1>7. CASE pc'[Boot] \notin Mapping /\ pc[Boot] \in Mapping
  <2>1. c = Boot
    BY <1>1, <1>4, <1>7
  <2>2. pc'[Boot] \notin Dead
    <3>1. pc'[Boot] # "bugcheck" /\ (pc'[Boot] = "fault" => cnt' > NumPages)
      BY <1>4 DEF TreeOK, PositionOK
    <3>2. cnt' <= NumPages /\ cnt' \in Nat /\ NumPages \in Nat
      BY SizeAssumption DEF PoolLasts, TypeOK
    <3>3. ~(cnt' > NumPages)
      BY <3>2
    <3> QED BY <3>1, <3>3 DEF Dead
  <2>3. pc[Boot] = "type"
    <3>1. CASE Descend(c) \/ LinkBump(c)
      <4>1. pc'[c] \in {"leaf", "test"} \cup Dead
        BY <3>1 DEF Descend, LinkBump, Follow, TypeOK, Dead
      <4> QED BY <1>7, <2>1, <2>2, <4>1 DEF Mapping
    <3>2. CASE ~(Descend(c) \/ LinkBump(c))
      <4>1. pc'[c] \in {"grant", "bump", "frame", "leaf", "type"} \/ pc[c] = "type"
        BY <3>2, StoreShape
      <4> QED BY <1>7, <2>1, <4>1 DEF Mapping
    <3> QED BY <3>1, <3>2
  <2>4. BootMap[bootNext - 1] \in Mapped'
    BY <1>2, <1>4, <1>7, <2>3, BootFinishes DEF BootOK
  <2>5. \A i \in 1 .. Len(BootMap) : i < bootNext => BootMap[i] \in Mapped'
    BY <1>2, <1>3, <2>4 DEF BootOK
  <2> QED BY <1>1, <1>7, <2>5 DEF BootOK
<1> QED BY <1>5, <1>6, <1>7

\* WantOK is kept.
LEMMA WantStep ==
  ASSUME TypeOK, LevelOK, OneWriter, PoolLasts, CacheOK, NEW c \in Procs, MapStep(c)
  PROVE  WantOK'
<1>1. /\ pc[c] \in Mapping /\ page' = page
      /\ \A d \in Procs : d # c => pc'[d] = pc[d]
  BY InsideStart
<1>2. WantOK /\ Cpus \subseteq Procs
  BY DEF CacheOK, Procs
<1> QED BY <1>1, <1>2 DEF WantOK

\* The leaf entry a process writes is that of its page.
LEMMA LeafSlot ==
  ASSUME TypeOK, LevelOK, TreeOK, NEW c \in Procs, pc[c] \in {"leaf", "frame", "type"}
  PROVE  /\ lvl[c] = 4 /\ owner[cur[c]] # Unused /\ owner[cur[c]].level = 4
         /\ LeafPage(owner[cur[c]], page[c][4]) = page[c]
<1>1. lvl[c] = 4 /\ page[c] \in Page /\ pc[c] \in Mapping
  BY DEF LevelOK, TypeOK, Mapping
<1>2. owner[cur[c]] = [level |-> 4, base |-> Base(page[c], 3)]
  BY <1>1 DEF TreeOK, PositionOK
<1>3. Base(page[c], 3) \in Page
  BY <1>1, BaseType
<1> QED BY <1>1, <1>2, <1>3, LeafBase, OwnerAssumption

\* TypesOK is kept.
LEMMA TypesStep ==
  ASSUME TypeOK, LevelOK, OneWriter, TreeOK, PoolLasts, EntriesGrow,
         CacheOK, NEW c \in Procs, MapStep(c)
  PROVE  TypesOK'
<1>1. /\ pc[c] \in Mapping /\ page' = page
      /\ cur[c] \in TableFrames /\ page[c][lvl[c]] \in Index
      /\ \A d \in Procs : d # c => pc'[d] = pc[d] /\ cur'[d] = cur[d] /\ pc[d] \notin Holding
  BY InsideStart
<1>2. TypesOK /\ BootOK /\ WantOK /\ Boot \in Procs /\ Boot \notin Cpus
  BY CpuAssumption DEF CacheOK, Procs
<1>3. CASE Descend(c) \/ LinkBump(c)
  <2>1. mem' = mem /\ owner' = owner /\ pc[c] \in {"test", "bump"}
    BY <1>3 DEF Descend, LinkBump
  <2>2. pc[Boot] \in {"leaf", "frame", "type"} => pc'[Boot] = pc[Boot] /\ cur'[Boot] = cur[Boot]
    BY <1>1, <1>2, <2>1
  <2> QED BY <1>1, <1>2, <2>1, <2>2 DEF TypesOK, LeafPage
<1>4. CASE LinkFrame(c) \/ (pc[c] = "grant" /\ UNCHANGED owner)
  <2>1. pc[c] \in {"test", "grant"}
    BY <1>4 DEF LinkFrame
  <2>2. lvl[c] \in 1 .. 3 /\ owner[cur[c]] = [level |-> lvl[c], base |-> Base(page[c], lvl[c] - 1)]
    BY <1>1, <2>1 DEF LevelOK, TreeOK, PositionOK
  <2>3. owner[cur[c]] # Unused /\ owner[cur[c]].level # 4
    <3>1. page[c] \in Page /\ lvl[c] - 1 \in 0 .. 3
      BY <2>2 DEF TypeOK
    <3>2. Base(page[c], lvl[c] - 1) \in Page
      BY <3>1, BaseType
    <3> QED BY <2>2, <3>2, OwnerAssumption
  <2>4. \E e : SetSlot(c, e)
    <3>1. CASE LinkFrame(c)
      BY <3>1 DEF LinkFrame
    <3>2. CASE pc[c] = "grant"
      <4>1. LinkGrant(c)
        BY <3>2 DEF MapStep, Descend, LinkFrame, LinkBump, LeafGrant, LeafFrame, LeafType
      <4> QED BY <4>1 DEF LinkGrant
    <3> QED BY <1>4, <3>1, <3>2
  <2>5. \A t \in TableFrames : t # cur[c] => mem'[t] = mem[t]
    BY <1>1, <2>4, SetSlotEffect
  <2>6. pc[Boot] \in {"leaf", "frame", "type"} => pc'[Boot] = pc[Boot] /\ cur'[Boot] = cur[Boot]
    BY <1>1, <1>2, <2>1
  <2> SUFFICES ASSUME NEW t \in TableFrames, NEW i \in Index,
                      owner'[t] # Unused, owner'[t].level = 4
               PROVE  /\ mem'[t][i].mt = "WB" => LeafPage(owner'[t], i) \in Ram
                      /\ "R" \in mem'[t][i].perm /\ LeafPage(owner'[t], i) \in Ram =>
                           \/ mem'[t][i].mt = "WB"
                           \/ pc'[Boot] \in {"leaf", "frame", "type"} /\ cur'[Boot] = t /\ page'[Boot][4] = i
                      /\ mem'[t][i].frame \in {LeafPage(owner'[t], i), ZeroPage}
    BY DEF TypesOK, LeafPage
  <2>7. t # cur[c]
    BY <1>1, <2>3 DEF EntriesGrow
  <2>8. CASE owner[t] # Unused
    <3>1. owner'[t] = owner[t] /\ mem'[t] = mem[t]
      BY <2>5, <2>7, <2>8 DEF EntriesGrow
    <3> QED BY <1>1, <1>2, <2>6, <2>8, <3>1 DEF TypesOK
  <2>9. CASE owner[t] = Unused
    <3>1. mem'[t][i] = ZeroEntry
      BY <2>5, <2>7, <2>9 DEF TreeOK, OwnerOK
    <3> QED BY <3>1 DEF ZeroEntry
  <2> QED BY <2>8, <2>9
<1>5. ASSUME NEW e \in Entry, SetSlot(c, e), UNCHANGED <<lvl, cur, owner>>,
             pc[c] \in {"leaf", "frame", "type"},
             \/ pc'[c] \in {"leaf", "frame", "type"} /\ e.mt = Slot(c).mt
             \/ e.mt = (IF c = Boot THEN "WB" ELSE "UC"),
             e.frame \in {Slot(c).frame, page[c]}
      PROVE  TypesOK'
  <2>1. /\ lvl[c] = 4 /\ owner[cur[c]] # Unused /\ owner[cur[c]].level = 4
        /\ LeafPage(owner[cur[c]], page[c][4]) = page[c]
    BY <1>5, LeafSlot
  <2>2. c = Boot => page[c] \in Ram
    BY <1>1, <1>2 DEF BootOK, Ram
  <2>3. c # Boot => page[c] \notin Ram
    BY <1>1, <1>2 DEF WantOK, Procs
  <2>4. \A t \in TableFrames, i \in Index :
          mem'[t][i] = IF t = cur[c] /\ i = page[c][4] THEN e ELSE mem[t][i]
    BY <1>1, <1>5, <2>1, SetSlotEffect
  <2>5. /\ Slot(c).mt = "WB" => page[c] \in Ram
        /\ Slot(c).frame \in {page[c], ZeroPage}
    BY <1>1, <1>2, <2>1 DEF TypesOK, Slot
  <2> SUFFICES ASSUME NEW t \in TableFrames, NEW i \in Index,
                      owner[t] # Unused, owner[t].level = 4
               PROVE  /\ mem'[t][i].mt = "WB" => LeafPage(owner[t], i) \in Ram
                      /\ "R" \in mem'[t][i].perm /\ LeafPage(owner[t], i) \in Ram =>
                           \/ mem'[t][i].mt = "WB"
                           \/ pc'[Boot] \in {"leaf", "frame", "type"} /\ cur[Boot] = t /\ page[Boot][4] = i
                      /\ mem'[t][i].frame \in {LeafPage(owner[t], i), ZeroPage}
    BY <1>1, <1>5 DEF TypesOK, LeafPage
  <2>6. CASE t = cur[c] /\ i = page[c][4]
    <3>1. mem'[t][i] = e /\ LeafPage(owner[t], i) = page[c]
      BY <2>1, <2>4, <2>6
    <3>2. e.mt = "WB" => page[c] \in Ram
      BY <1>5, <2>2, <2>5
    <3>3. page[c] \in Ram =>
            e.mt = "WB" \/ (c = Boot /\ pc'[Boot] \in {"leaf", "frame", "type"})
      BY <1>5, <2>3
    <3>4. e.frame \in {page[c], ZeroPage}
      BY <1>5, <2>5
    <3> QED BY <2>6, <3>1, <3>2, <3>3, <3>4
  <2>7. CASE ~(t = cur[c] /\ i = page[c][4])
    <3>1. mem'[t][i] = mem[t][i]
      BY <2>4, <2>7
    <3>2. ~(pc[Boot] \in {"leaf", "frame", "type"} /\ cur[Boot] = t /\ page[Boot][4] = i)
      BY <1>1, <1>2, <2>7 DEF Holding, Mapping
    <3> QED BY <1>2, <3>1, <3>2 DEF TypesOK
  <2> QED BY <2>6, <2>7
<1>6. CASE ~(Descend(c) \/ LinkBump(c) \/ LinkFrame(c)) /\ pc[c] # "grant"
  <2>1. PICK e \in Entry :
          /\ SetSlot(c, e) /\ UNCHANGED <<lvl, cur, owner>>
          /\ pc[c] \in {"leaf", "frame", "type"}
          /\ \/ pc'[c] \in {"leaf", "frame", "type"} /\ e.mt = Slot(c).mt
             \/ e.mt = (IF c = Boot THEN "WB" ELSE "UC")
          /\ e.frame \in {Slot(c).frame, page[c]}
    BY <1>6, StoreShape
  <2> QED BY <1>5, <2>1
<1>7. CASE pc[c] = "grant" /\ ~LinkFrame(c)
  <2>1. UNCHANGED owner
    BY <1>7 DEF MapStep, Descend, LinkGrant, LinkBump, LeafGrant, LeafFrame, LeafType
  <2> QED BY <1>4, <1>7, <2>1
<1> QED BY <1>3, <1>4, <1>6, <1>7

\* A step inside EptMapPage keeps all of it.
LEMMA InsideCacheStep ==
  ASSUME IInv, IInv', [Next]_vars, CacheOK, NEW c \in Procs, MapStep(c)
  PROVE  CacheOK'
<1>1. TypeOK /\ LevelOK /\ LockOK /\ TreeOK /\ TypeOK' /\ TreeOK'
  BY DEF IInv
<1>2. OneWriter /\ EntriesGrow
  BY <1>1, LockMeansOne, GrowStep
<1>3. FullOK'
  BY <1>1, <1>2, FullStep
<1>4. ASSUME PoolLasts'
      PROVE  PathOK' /\ BootOK' /\ WantOK' /\ TypesOK'
  <2>1. PoolLasts
    BY <1>1, <1>4, PoolStep
  <2>2. PathOK'
    BY <1>1, <1>2, <2>1, PathStep
  <2>3. BootOK'
    BY <1>1, <1>2, <1>4, <2>1, BootStep
  <2>4. WantOK'
    BY <1>1, <1>2, <2>1, WantStep
  <2>5. TypesOK'
    BY <1>1, <1>2, <2>1, TypesStep
  <2> QED BY <2>2, <2>3, <2>4, <2>5
<1> QED BY <1>3, <1>4 DEF CacheOK

\* Once a guest runs, all RAM is mapped.
LEMMA RamMapped ==
  ASSUME TypeOK, PoolLasts, CacheOK, BootDone
  PROVE  Ram \subseteq Mapped
<1>1. bootNext > Len(BootMap) /\ pc[Boot] \notin Mapping /\ bootNext \in Nat /\ Len(BootMap) \in Nat
  BY MapAssumption DEF BootDone, Mapping, TypeOK
<1>2. \A i \in 1 .. Len(BootMap) : BootMap[i] \in Mapped
  BY <1>1 DEF CacheOK, BootOK
<1> QED BY <1>2 DEF Ram

\* It does not depend on who runs, nor on the lock.
LEMMA CacheSame ==
  ASSUME CacheOK, UNCHANGED <<cnt, mem, bootNext, pc, page, lvl, cur, owner>>
  PROVE  CacheOK'
<1>1. FullOK'
  BY DEF CacheOK, FullOK
<1>2. PoolLasts' <=> PoolLasts
  BY DEF PoolLasts
<1>3. PoolLasts => PathOK'
  <2> SUFFICES ASSUME PoolLasts, NEW d \in Procs, pc[d] \in Mapping
               PROVE  /\ cur[d] = TableAt(page[d], lvl[d])'
                      /\ \A k \in 1 .. 3 : k < lvl[d] => EntryOf(page[d], k)'.perm = Rights
                      /\ pc[d] \in {"frame", "type"} => Slot(d)'.perm = Rights
    BY DEF PathOK
  <2>1. TableAt(page[d], lvl[d])' = TableAt(page[d], lvl[d])
    BY DEF TableAt, EntryAt, Pml4e, Pdpte, Pde
  <2>2. \A k \in 1 .. 3 : EntryOf(page[d], k)' = EntryOf(page[d], k)
    BY DEF EntryOf, TableAt, EntryAt, Pml4e, Pdpte, Pde
  <2>3. Slot(d)' = Slot(d)
    BY DEF Slot
  <2> QED BY <2>1, <2>2, <2>3 DEF CacheOK, PathOK
<1>4. PoolLasts => BootOK'
  <2>1. Mapped' = Mapped
    BY DEF Mapped, Granted, Pte, Pml4e, Pdpte, Pde, EntryAt
  <2> QED BY <2>1 DEF CacheOK, BootOK
<1>5. PoolLasts => WantOK'
  BY DEF CacheOK, WantOK
<1>6. PoolLasts => TypesOK'
  BY DEF CacheOK, TypesOK, LeafPage
<1> QED BY <1>1, <1>2, <1>3, <1>4, <1>5, <1>6 DEF CacheOK

\* Every step keeps what is mapped, and how it is cached.
LEMMA CacheStep ==
  ASSUME IInv, IInv', CacheOK, [Next]_vars
  PROVE  CacheOK'
<1>1. TypeOK /\ LevelOK /\ LockOK /\ TreeOK /\ TypeOK' /\ Cpus \subseteq Procs
  BY DEF IInv, Procs
<1>2. CASE BootPage
  BY <1>1, <1>2, BootCacheStep
<1>3. ASSUME NEW c \in Procs, MapStep(c)
      PROVE  CacheOK'
  BY <1>3, InsideCacheStep
<1>4. ASSUME NEW c \in Cpus, Launch(c)
      PROVE  CacheOK'
  BY <1>4, CacheSame DEF Launch
<1>5. ASSUME NEW c \in Cpus, NEW p \in GuestPages, NEW a \in Rights, Violation(c, p, a)
      PROVE  CacheOK'
  <2>1. /\ pc[c] = "idle" /\ pc' = [pc EXCEPT ![c] = "acquire"] /\ page'[c] = p
        /\ UNCHANGED <<mem, owner, cnt, bootNext>>
        /\ \A d \in Procs : d # c => page'[d] = page[d] /\ lvl'[d] = lvl[d] /\ cur'[d] = cur[d]
    BY <1>1, <1>5 DEF Violation, TypeOK
  <2>2. PoolLasts => p \notin Ram
    <3>1. BootDone
      BY <1>1, <1>5 DEF Violation, LockOK
    <3> QED BY <1>1, <1>5, <3>1, RamMapped DEF Violation, Mapped
  <2>3. pc[c] \notin Mapping
    BY <2>1 DEF Mapping
  <2> QED BY <1>1, <2>1, <2>2, <2>3, OutsideStep
<1>6. ASSUME NEW c \in Cpus, Acquire(c)
      PROVE  CacheOK'
  <2>1. /\ pc[c] = "acquire" /\ pc' = [pc EXCEPT ![c] = "test"] /\ page'[c] = page[c]
        /\ UNCHANGED <<mem, owner, cnt, bootNext>>
        /\ \A d \in Procs : d # c => page'[d] = page[d] /\ lvl'[d] = lvl[d] /\ cur'[d] = cur[d]
        /\ lvl'[c] = 1 /\ cur'[c] = Pml4Phys
    BY <1>1, <1>6 DEF Acquire, TypeOK
  <2>2. PoolLasts => page'[c] \notin Ram
    BY <2>1 DEF CacheOK, WantOK
  <2>3. pc[c] \notin Mapping
    BY <2>1 DEF Mapping
  <2> QED BY <1>1, <2>1, <2>2, <2>3, OutsideStep
<1>7. ASSUME NEW c \in Cpus, Release(c)
      PROVE  CacheOK'
  <2>1. /\ pc[c] = "release" /\ pc' = [pc EXCEPT ![c] = "idle"]
        /\ UNCHANGED <<mem, owner, cnt, bootNext, page, lvl, cur>>
    BY <1>7 DEF Release
  <2>2. pc[c] \notin Mapping
    BY <2>1 DEF Mapping
  <2> QED BY <1>1, <2>1, <2>2, OutsideStep
<1>8. CASE UNCHANGED vars
  BY <1>8, CacheSame DEF vars
<1> QED BY <1>2, <1>3, <1>4, <1>5, <1>6, <1>7, <1>8 DEF Next

-----------------------------------------------------------------------------
(* Theorems.                                                               *)

\* The two invariants together are inductive.
THEOREM CacheInvariance == Spec => [](IInv /\ CacheOK)
<1>1. Init => CacheOK
  BY CacheInit
<1>2. IInv /\ IInv' /\ CacheOK /\ [Next]_vars => CacheOK'
  BY CacheStep
<1> QED BY <1>1, <1>2, Invariance, PTL DEF Spec

\* No step, of whichever processor, takes a right from an entry of the tree,
\* moves a link, or gives a table another place: what a page walker has read
\* of a path stays true without INVEPT (ept.c:198-272).
THEOREM TreeOnlyGrows == Spec => [][EntriesGrow]_vars
<1>1. IInv /\ [Next]_vars => [EntriesGrow]_vars
  BY GrowStep DEF IInv
<1> QED BY <1>1, Invariance, PTL DEF Spec

\* What is said of the leaf entry of a page that some access is granted to.
LEMMA LeafEntry ==
  ASSUME IInv, CacheOK, PoolLasts, NEW p \in Page, Open(p, 4), Pte(p).perm # {}
  PROVE  /\ Pte(p) \in Entry
         /\ Pte(p).mt = "WB" => p \in Ram
         /\ p \in Ram => Pte(p).mt = "WB" \/ pc[Boot] # "idle"
         /\ Pte(p).frame \in {p, ZeroPage}
<1> DEFINE t == TableAt(p, 4)
<1>1. TypeOK /\ TreeOK /\ TypesOK
  BY DEF IInv, CacheOK
<1>2. /\ t \in TableFrames
      /\ owner[t] = [level |-> 4, base |-> Base(p, 3)]
      /\ owner[t] # Unused
      /\ EntryOf(p, 4) = mem[t][p[4]]
  <2>1. \A k \in 1 .. 4 : k <= 4 =>
          /\ TableAt(p, k) \in TableFrames
          /\ owner[TableAt(p, k)] = [level |-> k, base |-> Base(p, k - 1)]
          /\ owner[TableAt(p, k)] # Unused
          /\ EntryOf(p, k) = mem[TableAt(p, k)][p[k]]
    <3>1. 4 \in 1 .. 4
      OBVIOUS
    <3> QED BY <1>1, <3>1, WalkTables
  <2> QED BY <2>1
<1>3. Pte(p) = mem[t][p[4]]
  <2>1. Pte(p) = EntryOf(p, 4)
    BY WalkNames
  <2> QED BY <1>2, <2>1
<1>4. p[4] \in Index /\ LeafPage(owner[t], p[4]) = p /\ owner[t].level = 4
  BY <1>2, PageIndex, LeafBase
<1> HIDE DEF t
<1>5. "R" \in mem[t][p[4]].perm
  BY <1>1, <1>2, <1>3, <1>4 DEF TreeOK, RightsOK
<1>6. mem[t][p[4]] \in Entry
  BY <1>1, <1>2, <1>4 DEF TypeOK
<1> QED BY <1>1, <1>2, <1>3, <1>4, <1>5, <1>6 DEF TypesOK

\* The invariant says so of every mapped page.
LEMMA RamCached == IInv /\ CacheOK => RamIsCached
<1> SUFFICES ASSUME IInv, CacheOK, PoolLasts, BootDone, NEW p \in Mapped
             PROVE  (Pte(p).mt = "WB") <=> p \in Ram
  BY DEF RamIsCached
<1>1. p \in Page /\ Granted(p, "R")
  BY DEF Mapped, Rights
<1>2. Open(p, 4) /\ Pte(p).perm # {}
  BY <1>1, GrantedOpen DEF Granted
<1> QED BY <1>1, <1>2, LeafEntry DEF BootDone

\* While the pool lasts, a page that is mapped is cached exactly if it is RAM,
\* for any number of processors, tables and pages (ept.c:247-280, 316, 507).
THEOREM CachedExactlyRam == Spec => []RamIsCached
<1>1. IInv /\ CacheOK => RamIsCached
  BY RamCached
<1> QED BY <1>1, CacheInvariance, PTL
=============================================================================
