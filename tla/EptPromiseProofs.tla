--------------------------- MODULE EptPromiseProofs ---------------------------
(* Theorems about what Ept needs the pool for and what it does with it: the *)
(* tables handed out are those that the mapped pages demand, a pool as      *)
(* large as the demand of all pages lasts, and with it the tree does what   *)
(* EptMapping promises.                                                     *)
EXTENDS EptCacheProofs, FiniteSetTheorems

-----------------------------------------------------------------------------
(* The inductive invariant.                                                *)

\* The pages that some process may ask EptMapPage for.
Touched == Ram \cup GuestPages

PageOK ==
  \A c \in Procs : pc[c] \in {"acquire"} \cup Mapping => page[c] \in Touched

\* The table that is being linked is still empty.
FreshOK ==
  \A c \in Procs : pc[c] \in {"grant", "bump"} /\ cnt < NumPages =>
    mem[PagesPhys[cnt]] = [i \in Index |-> ZeroEntry]

\* The walk to p leads through table t at level k.
Through(p, k, t) == Open(p, k) /\ TableAt(p, k) = t

\* A page is mapped, or some process is about to map it.
Coming(p) == p \in Mapped \/ \E c \in Procs : pc[c] \in Mapping /\ page[c] = p

\* Every pool page handed out is a table on the way to a page that needs it.
UsedOK ==
  \A n \in 0 .. NumPages - 1 : n < cnt =>
    \E p \in Touched, k \in 2 .. 4 : Through(p, k, PagesPhys[n]) /\ Coming(p)

\* A page is done with when its entry is complete, with the cache type of RAM
\* if it is RAM.
Done(p) == p \in Mapped /\ Pte(p).frame = p /\ (p \in Ram => Pte(p).mt = "WB")

\* A processor that resumes its guest has mapped the page it exited for.
ReleaseOK == \A c \in Cpus : pc[c] = "release" => Done(page[c])

PromiseOK == PageOK /\ FreshOK /\ (PoolLasts => UsedOK /\ ReleaseOK)

\* Nothing is asked for at first, and nothing is handed out.
LEMMA PromiseInit == Init => PromiseOK
<1> SUFFICES ASSUME Init PROVE PromiseOK
  OBVIOUS
<1>1. cnt = 0 /\ (\A c \in Procs : pc[c] = "idle") /\ Cpus \subseteq Procs
  BY DEF Init, Procs
<1>2. PageOK /\ FreshOK /\ ReleaseOK
  BY <1>1 DEF PageOK, FreshOK, ReleaseOK, Mapping
<1>3. UsedOK
  BY <1>1, SizeAssumption DEF UsedOK
<1> QED BY <1>2, <1>3 DEF PromiseOK

-----------------------------------------------------------------------------
(* Steps outside EptMapPage.                                               *)

\* A step that is none of EptMapPage leaves the tree alone and everyone who
\* is inside; it may let one process in, which starts at the root.
Outside ==
  /\ UNCHANGED <<mem, owner, cnt>>
  /\ \A d \in Procs :
       /\ pc[d] \in Mapping => UNCHANGED <<pc[d], page[d], lvl[d], cur[d]>>
       /\ pc'[d] \in Mapping => pc[d] \in Mapping \/ pc'[d] = "test"
       /\ pc'[d] = "release" => pc[d] = "release" /\ page'[d] = page[d]
       /\ pc'[d] \in {"acquire"} \cup Mapping =>
            \/ pc[d] \in {"acquire"} \cup Mapping /\ page'[d] = page[d]
            \/ page'[d] \in Touched

LEMMA OutsideOrInside ==
  ASSUME TypeOK, [Next]_vars
  PROVE  Outside \/ \E c \in Procs : MapStep(c)
<1> USE CpuAssumption DEF Procs
<1>1. CASE BootPage
  <2>1. /\ pc[Boot] = "idle" /\ pc' = [pc EXCEPT ![Boot] = "test"]
        /\ UNCHANGED <<mem, owner, cnt>>
        /\ \A d \in Procs : d # Boot => page'[d] = page[d] /\ lvl'[d] = lvl[d] /\ cur'[d] = cur[d]
    BY <1>1 DEF BootPage, TypeOK
  <2>2. page'[Boot] \in Touched
    <3>1. page'[Boot] = BootMap[bootNext] /\ bootNext \in 1 .. Len(BootMap)
      BY <1>1, MapAssumption DEF BootPage, TypeOK
    <3> QED BY <3>1 DEF Touched, Ram
  <2> QED BY <2>1, <2>2 DEF Outside, Mapping, TypeOK
<1>2. ASSUME NEW c \in Cpus, Launch(c) PROVE Outside
  BY <1>2 DEF Launch, Outside
<1>3. ASSUME NEW c \in Cpus, NEW p \in GuestPages, NEW a \in Rights, Violation(c, p, a)
      PROVE  Outside
  <2>1. /\ pc[c] = "idle" /\ pc' = [pc EXCEPT ![c] = "acquire"] /\ page'[c] = p
        /\ UNCHANGED <<mem, owner, cnt, lvl, cur>>
        /\ \A d \in Procs : d # c => page'[d] = page[d]
    BY <1>3 DEF Violation, TypeOK
  <2>2. page'[c] \in Touched
    BY <2>1 DEF Touched
  <2> QED BY <2>1, <2>2 DEF Outside, Mapping, TypeOK
<1>4. ASSUME NEW c \in Cpus, Acquire(c) PROVE Outside
  <2>1. /\ pc[c] = "acquire" /\ pc' = [pc EXCEPT ![c] = "test"]
        /\ UNCHANGED <<mem, owner, cnt, page>>
        /\ \A d \in Procs : d # c => lvl'[d] = lvl[d] /\ cur'[d] = cur[d]
    BY <1>4 DEF Acquire, TypeOK
  <2> QED BY <2>1 DEF Outside, Mapping, TypeOK
<1>5. ASSUME NEW c \in Cpus, Release(c) PROVE Outside
  <2>1. /\ pc[c] = "release" /\ pc' = [pc EXCEPT ![c] = "idle"]
        /\ UNCHANGED <<mem, owner, cnt, page, lvl, cur>>
    BY <1>5 DEF Release, TypeOK
  <2> QED BY <2>1 DEF Outside, Mapping, TypeOK
<1>6. CASE UNCHANGED vars
  BY <1>6 DEF vars, Outside
<1> QED BY <1>1, <1>2, <1>3, <1>4, <1>5, <1>6 DEF Next

\* PageOK is kept.
LEMMA PageStep ==
  ASSUME TypeOK, [Next]_vars, PageOK
  PROVE  PageOK'
<1>1. CASE Outside
  BY <1>1 DEF Outside, PageOK
<1>2. ASSUME NEW c \in Procs, MapStep(c) PROVE PageOK'
  <2>1. pc[c] \in Mapping /\ page' = page /\ \A d \in Procs : d # c => pc'[d] = pc[d]
    BY <1>2, MapStepShape DEF TypeOK
  <2> QED BY <2>1 DEF PageOK
<1> QED BY <1>1, <1>2, OutsideOrInside

-----------------------------------------------------------------------------
(* The table that is being linked.                                         *)

\* FreshOK is kept: the page was never written, and the process that links
\* it writes to the table above.
LEMMA FreshStep ==
  ASSUME IInv, [Next]_vars, FreshOK
  PROVE  FreshOK'
<1>0. TypeOK /\ LevelOK /\ TreeOK /\ OneWriter
  BY LockMeansOne DEF IInv
<1>1. CASE Outside
  <2>1. \A d \in Procs : pc'[d] \in {"grant", "bump"} => pc[d] = pc'[d]
    BY <1>1 DEF Outside, Mapping
  <2> QED BY <1>1, <2>1 DEF Outside, FreshOK
<1>2. ASSUME NEW c \in Procs, LinkFrame(c) \/ LinkGrant(c)
      PROVE  FreshOK'
  <2> SUFFICES ASSUME cnt < NumPages
               PROVE  mem'[PagesPhys[cnt]] = [i \in Index |-> ZeroEntry]
    BY <1>2 DEF LinkFrame, LinkGrant, FreshOK
  <2>1. pc[c] \in {"test", "grant"} /\ \E e : SetSlot(c, e)
    BY <1>2 DEF LinkFrame, LinkGrant
  <2>2. /\ cur[c] \in TableFrames /\ pc[c] \in Mapping /\ cnt \in 0 .. NumPages - 1
        /\ \A d \in Procs : d # c => pc[d] \notin Holding
        /\ owner[cur[c]] # Unused /\ owner[cur[c]].level = lvl[c] /\ lvl[c] \in 1 .. 3
        /\ page[c] \in Page
    <3>1. pc[c] \in {"test", "grant", "bump"}
      BY <2>1
    <3>2. /\ cur[c] \in TableFrames /\ page[c][lvl[c]] \in Index
          /\ lvl[c] \in 1 .. 3 /\ page[c] \in Page
          /\ pc[c] \in Mapping /\ cnt \in 0 .. NumPages
          /\ \A d \in Procs : d # c => pc[d] \notin Holding
          /\ owner[cur[c]] # Unused /\ owner[cur[c]].level = lvl[c]
      BY <1>0, <3>1, LinkStart
    <3> QED BY <3>2, SizeAssumption
  <2>3. PagesPhys[cnt] \in TableFrames
    BY <2>2 DEF TableFrames, PoolFrames
  <2>4. mem[PagesPhys[cnt]] = [i \in Index |-> ZeroEntry] /\ PagesPhys[cnt] # cur[c]
    <3>1. CASE pc[c] = "test"
      <4>1. owner[PagesPhys[cnt]] = Unused
        <5>1. \A d \in Procs : pc[d] \notin {"grant", "bump"}
          BY <2>2, <3>1 DEF Holding, Mapping
        <5> QED BY <1>0, <2>2, <5>1 DEF TreeOK, OwnerOK
      <4> QED BY <1>0, <2>2, <2>3, <4>1 DEF TreeOK, OwnerOK
    <3>2. CASE pc[c] = "grant"
      <4>1. owner[PagesPhys[cnt]] = [level |-> lvl[c] + 1, base |-> Base(page[c], lvl[c])]
        BY <1>0, <3>2 DEF TreeOK, LinkingOK
      <4>2. owner[PagesPhys[cnt]].level # lvl[c]
        BY <2>2, <4>1
      <4>3. mem[PagesPhys[cnt]] = [i \in Index |-> ZeroEntry]
        BY <3>2 DEF FreshOK
      <4> QED BY <2>2, <4>2, <4>3
    <3> QED BY <2>1, <3>1, <3>2
  <2> QED BY <1>0, <2>1, <2>2, <2>3, <2>4, SetSlotEffect
<1>3. ASSUME NEW c \in Procs, MapStep(c), ~LinkFrame(c), ~LinkGrant(c)
      PROVE  FreshOK'
  <2>1. pc[c] \in Holding /\ (\A d \in Procs : d # c => pc'[d] = pc[d])
    BY <1>0, <1>3, MapStepShape DEF Holding, TypeOK
  <2>2. \A d \in Procs : d # c => pc'[d] \notin {"grant", "bump"}
    BY <1>0, <2>1 DEF OneWriter, Holding, Mapping
  <2>3. pc'[c] \notin {"grant", "bump"}
    BY <1>0, <1>3 DEF MapStep, Descend, LinkBump, Follow, LeafGrant, LeafFrame, LeafType, TypeOK
  <2> QED BY <2>2, <2>3 DEF FreshOK
<1> QED BY <1>0, <1>1, <1>2, <1>3, OutsideOrInside

-----------------------------------------------------------------------------
(* The tables in use.                                                      *)

\* Every page that is asked for is one.
LEMMA TouchedPages == Touched \subseteq Page
<1>1. Ram \subseteq Page
  BY MapAssumption DEF Ram
<1> QED BY <1>1, MapAssumption DEF Touched

\* A walk goes on to lead through the tables that it led through.
LEMMA ThroughStays ==
  ASSUME TypeOK, TreeOK, PoolLasts, EntriesGrow,
         NEW p \in Page, NEW k \in 1 .. 4, NEW t, Through(p, k, t)
  PROVE  Through(p, k, t)'
<1>1. Open(p, k) /\ TableAt(p, k) = t
  BY DEF Through
<1>2. /\ \A j \in 1 .. 4 : j <= k => TableAt(p, j)' = TableAt(p, j)
      /\ Open(p, k)'
  BY <1>1, WalkStays
<1>3. TableAt(p, k)' = TableAt(p, k)
  BY <1>2
<1> QED BY <1>1, <1>2, <1>3 DEF Through

\* A process leaves EptMapPage only with its page mapped.
LEMMA ComingStays ==
  ASSUME IInv, IInv', CacheOK, [Next]_vars, PoolLasts, PoolLasts',
         NEW p, Coming(p)
  PROVE  Coming(p)'
<1>1. TypeOK /\ LevelOK /\ LockOK /\ TreeOK /\ TreeOK' /\ EntriesGrow /\ PathOK
  BY GrowStep DEF IInv, CacheOK
<1>2. CASE p \in Mapped
  BY <1>1, <1>2, MappedStays DEF Coming
<1>3. ASSUME NEW c \in Procs, pc[c] \in Mapping, page[c] = p
      PROVE  Coming(p)'
  <2>1. CASE Outside
    BY <1>3, <2>1 DEF Outside, Coming
  <2>2. ASSUME NEW d \in Procs, MapStep(d)
        PROVE  Coming(p)'
    <3>1. page' = page /\ \A e \in Procs : e # d => pc'[e] = pc[e]
      BY <1>1, <2>2, MapStepShape DEF TypeOK
    <3>2. CASE pc'[c] \in Mapping
      BY <1>3, <3>1, <3>2 DEF Coming
    <3>3. CASE pc'[c] \notin Mapping
      <4>1. c = d
        BY <1>3, <3>1, <3>3
      <4>2. pc'[c] \notin Dead
        <5>1. pc'[c] # "bugcheck" /\ (pc'[c] = "fault" => cnt' > NumPages)
          BY <1>1 DEF TreeOK, PositionOK
        <5>2. ~(cnt' > NumPages)
          BY SizeAssumption DEF PoolLasts, IInv, TypeOK
        <5> QED BY <5>1, <5>2 DEF Dead
      <4>3. pc[c] = "type"
        BY <1>1, <2>2, <3>3, <4>1, <4>2
           DEF MapStep, Descend, LinkFrame, LinkGrant, LinkBump, Follow, LeafGrant, LeafFrame,
               LeafType, Mapping, Dead, TypeOK
      <4>4. page[c] \in Mapped'
        BY <1>1, <4>3, BootFinishes
      <4> QED BY <1>3, <4>4 DEF Coming
    <3> QED BY <3>2, <3>3
  <2> QED BY <1>1, <2>1, <2>2, OutsideOrInside
<1> QED BY <1>2, <1>3 DEF Coming

\* When a page of the pool is counted as used, the walk to the page that
\* needs it leads through it.
LEMMA BumpThrough ==
  ASSUME IInv, CacheOK, PoolLasts, NEW c \in Procs, pc[c] = "bump"
  PROVE  /\ cnt \in 0 .. NumPages - 1
         /\ lvl[c] + 1 \in 2 .. 4
         /\ Through(page[c], lvl[c] + 1, PagesPhys[cnt])
<1>1. TypeOK /\ LevelOK /\ TreeOK /\ PathOK /\ cnt < NumPages /\ lvl[c] \in 1 .. 3
  BY DEF IInv, CacheOK, PoolLasts, LevelOK
<1>2. cnt \in 0 .. NumPages - 1
  BY <1>1, SizeAssumption DEF TypeOK
<1>3. pc[c] \in Mapping /\ cur[c] \in TableFrames /\ page[c] \in Page
  BY <1>1 DEF Mapping, TypeOK
<1>4. /\ cur[c] = TableAt(page[c], lvl[c])
      /\ \A k \in 1 .. 3 : k < lvl[c] => EntryOf(page[c], k).perm = Rights
  BY <1>1, <1>3 DEF PathOK
<1>5. EntryOf(page[c], lvl[c]) = Slot(c)
  BY <1>3, <1>4 DEF EntryOf, EntryAt, Slot
<1>6. Slot(c).frame = PagesPhys[cnt] /\ "R" \in Slot(c).perm
  BY <1>1 DEF TreeOK, LinkingOK, PhysAt
<1>7. TableAt(page[c], lvl[c] + 1) = PagesPhys[cnt]
  BY <1>1, <1>5, <1>6, WalkNames
<1>8. Open(page[c], lvl[c] + 1)
  <2> SUFFICES ASSUME NEW k \in 1 .. 3, k < lvl[c] + 1
               PROVE  EntryOf(page[c], k).perm # {}
    BY DEF Open
  <2>1. CASE k < lvl[c]
    BY <1>4, <2>1 DEF Rights
  <2>2. CASE k = lvl[c]
    BY <1>5, <1>6, <2>2
  <2> QED BY <1>1, <2>1, <2>2
<1> QED BY <1>1, <1>2, <1>7, <1>8 DEF Through

\* UsedOK is kept.
LEMMA UsedStep ==
  ASSUME IInv, IInv', CacheOK, [Next]_vars, PoolLasts, PoolLasts', PageOK, UsedOK
  PROVE  UsedOK'
<1>1. TypeOK /\ LevelOK /\ LockOK /\ TreeOK /\ EntriesGrow
  BY GrowStep DEF IInv
<1>2. ASSUME NEW p \in Touched, NEW k \in 2 .. 4, NEW t, Through(p, k, t), Coming(p)
      PROVE  Through(p, k, t)' /\ Coming(p)'
  <2>1. p \in Page /\ k \in 1 .. 4
    BY TouchedPages
  <2>2. Through(p, k, t)'
    BY <1>1, <1>2, <2>1, ThroughStays
  <2> QED BY <1>2, <2>2, ComingStays
<1> SUFFICES ASSUME NEW n \in 0 .. NumPages - 1, n < cnt'
             PROVE  \E p \in Touched, k \in 2 .. 4 : Through(p, k, PagesPhys[n])' /\ Coming(p)'
  BY DEF UsedOK
<1>3. CASE n < cnt
  <2>1. PICK p \in Touched, k \in 2 .. 4 : Through(p, k, PagesPhys[n]) /\ Coming(p)
    BY <1>3 DEF UsedOK
  <2> QED BY <1>2, <2>1
<1>4. CASE ~(n < cnt)
  <2>1. PICK c \in Procs : LinkBump(c)
    <3>1. cnt' # cnt
      BY <1>4
    <3> QED BY <1>1, <3>1, OutsideOrInside
            DEF Outside, MapStep, Descend, LinkFrame, LinkGrant, LeafGrant, LeafFrame, LeafType
  <2>2. n = cnt /\ pc[c] = "bump"
    BY <1>1, <1>4, <2>1 DEF LinkBump, TypeOK
  <2>3. lvl[c] + 1 \in 2 .. 4 /\ Through(page[c], lvl[c] + 1, PagesPhys[n])
    BY <2>2, BumpThrough
  <2>4. page[c] \in Touched /\ Coming(page[c])
    BY <2>2 DEF PageOK, Coming, Mapping
  <2>5. PICK p \in Touched : p = page[c]
    BY <2>4
  <2>6. PICK k \in 2 .. 4 : k = lvl[c] + 1
    BY <2>3
  <2>7. Through(p, k, PagesPhys[n]) /\ Coming(p)
    BY <2>3, <2>4, <2>5, <2>6
  <2> QED BY <1>2, <2>7
<1> QED BY <1>3, <1>4

-----------------------------------------------------------------------------
(* The pages that are done with.                                           *)

\* The walk to p passes through the tables that serve the regions of p.
Walked(p) ==
  \A k \in 1 .. 4 :
    /\ TableAt(p, k) \in TableFrames
    /\ owner[TableAt(p, k)] = [level |-> k, base |-> Base(p, k - 1)]
    /\ owner[TableAt(p, k)] # Unused
    /\ EntryOf(p, k) = mem[TableAt(p, k)][p[k]]
    /\ EntryOf(p, k).perm # {}

LEMMA MappedWalk == IInv /\ PoolLasts => \A p \in Mapped : Walked(p)
<1> SUFFICES ASSUME IInv, PoolLasts, NEW p \in Mapped PROVE Walked(p)
  OBVIOUS
<1>1. p \in Page /\ Granted(p, "R")
  BY DEF Mapped, Rights
<1>2. Open(p, 4) /\ \A k \in 1 .. 4 : "R" \in EntryOf(p, k).perm
  BY <1>1, GrantedOpen
<1>3. \A k \in 1 .. 4 : k <= 4 =>
        /\ TableAt(p, k) \in TableFrames
        /\ owner[TableAt(p, k)] = [level |-> k, base |-> Base(p, k - 1)]
        /\ owner[TableAt(p, k)] # Unused
        /\ EntryOf(p, k) = mem[TableAt(p, k)][p[k]]
  <2>1. 4 \in 1 .. 4
    OBVIOUS
  <2> QED BY <1>1, <1>2, <2>1, WalkTables DEF IInv
<1> QED BY <1>2, <1>3 DEF Walked

LEMMA MappedWalkAfter == (IInv /\ PoolLasts => \A p \in Mapped : Walked(p))'
BY MappedWalk, PTL

\* Process c works on the entry that a walk to p reads at level k.
WritesFor(c, p, k) ==
  /\ owner[cur[c]] = [level |-> k, base |-> Base(p, k - 1)]
  /\ page[c][lvl[c]] = p[k]

\* The entry a process works on is the one at level k of the walk to p only
\* if k is its level; at the last, only if p is its page.
LEMMA SlotOnWalk ==
  ASSUME IInv, NEW c \in Procs, pc[c] \in Mapping, NEW p \in Page, NEW k \in 1 .. 4,
         WritesFor(c, p, k)
  PROVE  /\ lvl[c] = k
         /\ k = 4 => page[c] = p /\ pc[c] \in {"leaf", "frame", "type"}
         /\ k # 4 => pc[c] \in {"test", "grant", "bump"}
<1>1. TypeOK /\ LevelOK /\ TreeOK /\ lvl[c] \in 1 .. 4 /\ page[c] \in Page
  BY DEF IInv, TypeOK
<1>2. owner[cur[c]] = [level |-> lvl[c], base |-> Base(page[c], lvl[c] - 1)]
  BY <1>1 DEF TreeOK, PositionOK
<1>3. lvl[c] = k /\ page[c][lvl[c]] = p[k] /\ owner[cur[c]] = [level |-> k, base |-> Base(p, k - 1)]
  BY <1>2 DEF WritesFor
<1>4. ASSUME k = 4 PROVE page[c] = p
  <2>1. [level |-> 4, base |-> Base(page[c], 3)] = [level |-> 4, base |-> Base(p, 3)]
    BY <1>2, <1>3, <1>4
  <2>2. page[c][4] = p[4]
    BY <1>3, <1>4
  <2>3. LeafPage([level |-> 4, base |-> Base(page[c], 3)], page[c][4])
          = LeafPage([level |-> 4, base |-> Base(p, 3)], p[4])
    BY <2>1, <2>2
  <2> QED BY <1>1, <2>3, LeafBase
<1> QED BY <1>1, <1>3, <1>4 DEF LevelOK, Mapping

\* A page that is done with stays so: a second violation for it, which got
\* the lock late, stores what its entry holds already.
LEMMA DoneStays ==
  ASSUME IInv, CacheOK, [Next]_vars, PoolLasts, NEW p, Done(p)
  PROVE  Done(p)'
<1>1. TypeOK /\ LevelOK /\ LockOK /\ TreeOK /\ EntriesGrow /\ WantOK /\ p \in Page /\ p \in Mapped
  BY GrowStep DEF IInv, CacheOK, Done, Mapped
<1> DEFINE t == TableAt(p, 4)
<1>2. 4 \in 1 .. 4 /\ p[4] \in Index
  BY <1>1, PageIndex
<1>3. /\ t \in TableFrames /\ owner[t] = [level |-> 4, base |-> Base(p, 4 - 1)]
      /\ EntryOf(p, 4) = mem[t][p[4]] /\ Pte(p) = EntryOf(p, 4)
  <2>1. Walked(p)
    BY <1>1, MappedWalk
  <2> QED BY <1>2, <2>1, WalkNames DEF Walked
<1>4. EntryOf(p, 4)' = mem'[t][p[4]] /\ Pte(p)' = EntryOf(p, 4)'
  <2>1. Open(p, 4)
    BY <1>1, GrantedOpen DEF Mapped, Rights
  <2>2. \A k \in 1 .. 4 : k <= 4 => EntryOf(p, k)' = mem'[TableAt(p, k)][p[k]]
    BY <1>1, <1>2, <2>1, WalkStays
  <2>3. Pte(p)' = EntryOf(p, 4)'
    BY DEF TableAt, EntryOf, Pte
  <2> QED BY <1>2, <2>2, <2>3
<1> HIDE DEF t
<1>5. p \in Mapped'
  BY <1>1, MappedStays
<1>6. mem[t][p[4]].frame = p /\ (p \in Ram => mem[t][p[4]].mt = "WB")
  BY <1>3 DEF Done
<1>7. mem'[t][p[4]].frame = p /\ (p \in Ram => mem'[t][p[4]].mt = "WB")
  <2>1. CASE mem' = mem
    BY <1>6, <2>1
  <2>2. ASSUME NEW c \in Procs, NEW e \in Entry, pc[c] \in Mapping, SetSlot(c, e),
               t = cur[c] /\ p[4] = page[c][lvl[c]] => e.frame = p /\ (p \in Ram => e.mt = "WB")
        PROVE  mem'[t][p[4]].frame = p /\ (p \in Ram => mem'[t][p[4]].mt = "WB")
    BY <1>1, <1>2, <1>3, <1>6, <2>2, SetSlotEffect
  <2>3. ASSUME NEW c \in Procs, MapStep(c), t = cur[c], p[4] = page[c][lvl[c]]
        PROVE  /\ pc[c] \in {"leaf", "frame", "type"} /\ page[c] = p
               /\ Slot(c) = mem[t][p[4]] /\ (p \in Ram => c = Boot)
    <3>1. pc[c] \in Mapping
      BY <1>1, <2>3, MapStepShape
    <3>2. page[c] = p /\ pc[c] \in {"leaf", "frame", "type"}
      <4>1. WritesFor(c, p, 4)
        BY <1>3, <2>3 DEF WritesFor
      <4> QED BY <1>1, <1>2, <3>1, <4>1, SlotOnWalk
    <3>3. p \in Ram => c = Boot
      BY <1>1, <3>1, <3>2 DEF WantOK, Procs
    <3> QED BY <2>3, <3>2, <3>3 DEF Slot
  <2>4. ASSUME NEW c \in Procs, MapStep(c), mem' # mem
        PROVE  \E e \in Entry :
                 /\ pc[c] \in Mapping /\ SetSlot(c, e)
                 /\ t = cur[c] /\ p[4] = page[c][lvl[c]] => e.frame = p /\ (p \in Ram => e.mt = "WB")
    <3>1. ~Descend(c) /\ ~LinkBump(c)
      BY <2>4 DEF Descend, LinkBump
    <3>2. PICK e \in Entry :
            /\ pc[c] \in Mapping /\ SetSlot(c, e)
            /\ \/ pc[c] \in {"test", "grant"}
               \/ pc[c] = "leaf" /\ e.mt = Slot(c).mt /\ e.frame = Slot(c).frame
               \/ pc[c] = "frame" /\ e.mt = Slot(c).mt /\ e.frame = page[c]
               \/ pc[c] = "type" /\ e.mt = (IF c = Boot THEN "WB" ELSE "UC") /\ e.frame = Slot(c).frame
      BY <1>1, <2>4, <3>1, StoreShape
    <3>3. ASSUME t = cur[c], p[4] = page[c][lvl[c]]
          PROVE  e.frame = p /\ (p \in Ram => e.mt = "WB")
      BY <1>6, <2>3, <2>4, <3>2, <3>3
    <3> QED BY <3>2, <3>3
  <2> QED BY <1>1, <2>1, <2>2, <2>4, OutsideOrInside DEF Outside
<1> QED BY <1>4, <1>5, <1>7 DEF Done

\* If no entry on the walk to p was stored to, p was done with before.
LEMMA SameWalk ==
  ASSUME NEW p, Done(p)', Walked(p)',
         \A k \in 1 .. 4 : mem'[TableAt(p, k)'][p[k]] = mem[TableAt(p, k)'][p[k]]
  PROVE  Done(p)
<1> DEFINE Same(k) == TableAt(p, k) = TableAt(p, k)'
<1>1. Same(1)
  BY DEF TableAt
<1>2. ASSUME NEW k \in 1 .. 4, Same(k)
      PROVE  EntryOf(p, k) = EntryOf(p, k)'
  <2>1. TableAt(p, k)' \in TableFrames /\ EntryOf(p, k)' = mem'[TableAt(p, k)'][p[k]]
    BY DEF Walked
  <2> QED BY <1>2, <2>1 DEF EntryOf, EntryAt
<1>3. /\ TableAt(p, 2)' = EntryOf(p, 1).frame' /\ TableAt(p, 3)' = EntryOf(p, 2).frame'
      /\ TableAt(p, 4)' = EntryOf(p, 3).frame'
  BY DEF TableAt, EntryOf, Pml4e, Pdpte, Pde
<1>4. /\ TableAt(p, 2) = EntryOf(p, 1).frame /\ TableAt(p, 3) = EntryOf(p, 2).frame
      /\ TableAt(p, 4) = EntryOf(p, 3).frame
  BY DEF TableAt, EntryOf, Pml4e, Pdpte, Pde
<1>5. EntryOf(p, 1) = EntryOf(p, 1)'
  BY <1>1, <1>2
<1>6. Same(2) /\ EntryOf(p, 2) = EntryOf(p, 2)'
  BY <1>2, <1>3, <1>4, <1>5
<1>7. Same(3) /\ EntryOf(p, 3) = EntryOf(p, 3)'
  BY <1>2, <1>3, <1>4, <1>6
<1>8. Same(4) /\ EntryOf(p, 4) = EntryOf(p, 4)'
  BY <1>2, <1>3, <1>4, <1>7
<1> HIDE DEF Same
<1>9. /\ Pml4e(p)' = Pml4e(p) /\ Pdpte(p)' = Pdpte(p) /\ Pde(p)' = Pde(p) /\ Pte(p)' = Pte(p)
  <2>1. /\ Pml4e(p)' = EntryOf(p, 1)' /\ Pdpte(p)' = EntryOf(p, 2)'
        /\ Pde(p)' = EntryOf(p, 3)' /\ Pte(p)' = EntryOf(p, 4)'
    BY DEF TableAt, EntryOf, Pml4e, Pdpte, Pde, Pte
  <2> QED BY <1>5, <1>6, <1>7, <1>8, <2>1, WalkNames
<1> QED BY <1>9 DEF Done, Mapped, Granted

\* The only page that a step of EptMapPage can finish is the one that it is
\* called for: the tables it links are empty.
LEMMA DoneOnly ==
  ASSUME IInv, IInv', CacheOK, [Next]_vars, PoolLasts, PoolLasts', FreshOK',
         NEW c \in Procs, MapStep(c), NEW p, Done(p)', ~Done(p)
  PROVE  page[c] = p
<1>1. TypeOK /\ TypeOK' /\ TreeOK /\ EntriesGrow /\ pc[c] \in Mapping /\ page' = page
  BY GrowStep, MapStepShape DEF IInv
<1>2. Walked(p)' /\ p \in Page /\ p \in Mapped'
  <2>1. p \in Mapped' /\ p \in Page
    BY DEF Done, Mapped
  <2> QED BY <2>1, MappedWalkAfter
<1>3. PICK e \in Entry :
        /\ SetSlot(c, e) /\ UNCHANGED <<lvl, cur, cnt>>
        /\ \/ pc[c] = "test" /\ e.perm = Slot(c).perm /\ LinkFrame(c)
           \/ pc[c] = "grant" /\ pc'[c] \in {"grant", "bump"}
           \/ pc[c] \in {"leaf", "frame", "type"}
  <2>1. CASE Descend(c) \/ LinkBump(c)
    <3>1. mem' = mem
      BY <2>1 DEF Descend, LinkBump
    <3> QED BY <1>2, <3>1, SameWalk
  <2>2. CASE ~(Descend(c) \/ LinkBump(c))
    BY <1>1, <2>2, StoreShape
  <2> QED BY <2>1, <2>2
<1>4. \A t \in TableFrames, i \in Index :
        mem'[t][i] = IF t = cur[c] /\ i = page[c][lvl[c]] THEN e ELSE mem[t][i]
  BY <1>1, <1>3, SetSlotEffect
<1>5. PICK k \in 1 .. 4 : mem'[TableAt(p, k)'][p[k]] # mem[TableAt(p, k)'][p[k]]
  BY <1>2, SameWalk
<1> DEFINE t == TableAt(p, k)'
<1>6. /\ t \in TableFrames /\ p[k] \in Index /\ EntryOf(p, k)' = mem'[t][p[k]]
      /\ owner'[t] = [level |-> k, base |-> Base(p, k - 1)]
      /\ mem'[t][p[k]].perm # {}
  BY <1>2, PageIndex DEF Walked
<1> HIDE DEF t
<1>7. t = cur[c] /\ p[k] = page[c][lvl[c]] /\ mem'[t][p[k]] = e
  BY <1>4, <1>5, <1>6 DEF t
<1>8. owner[cur[c]] = [level |-> k, base |-> Base(p, k - 1)]
  <2>1. owner[cur[c]] # Unused
    <3>1. owner[cur[c]] = [level |-> lvl[c], base |-> Base(page[c], lvl[c] - 1)]
      BY <1>1 DEF TreeOK, PositionOK
    <3>2. Base(page[c], lvl[c] - 1) \in Page /\ lvl[c] \in 1 .. 4
      <4>1. page[c] \in Page /\ lvl[c] \in 1 .. 4
        BY <1>1 DEF TypeOK
      <4>2. lvl[c] - 1 \in 0 .. 3
        BY <4>1
      <4> QED BY <4>1, <4>2, BaseType
    <3> QED BY <3>1, <3>2, OwnerAssumption
  <2> QED BY <1>1, <1>6, <1>7, <2>1 DEF EntriesGrow
<1>9. /\ lvl[c] = k
      /\ k = 4 => page[c] = p /\ pc[c] \in {"leaf", "frame", "type"}
      /\ k # 4 => pc[c] \in {"test", "grant", "bump"}
  <2>1. WritesFor(c, p, k) /\ p \in Page /\ pc[c] \in Mapping
    BY <1>1, <1>2, <1>7, <1>8 DEF WritesFor
  <2> QED BY <2>1, SlotOnWalk
<1>10. CASE pc[c] = "test"
  <2>1. e.perm = Slot(c).perm /\ "R" \notin Slot(c).perm
    BY <1>3, <1>10 DEF LinkFrame
  <2>2. "R" \in e.perm
    BY <1>6, <1>7 DEF IInv, TreeOK, RightsOK
  <2> QED BY <2>1, <2>2
<1>11. CASE pc[c] = "grant"
  <2>1. pc'[c] \in {"grant", "bump"} /\ k \in 1 .. 3
    BY <1>3, <1>9, <1>11 DEF IInv, LevelOK
  <2>2. cnt' < NumPages /\ cnt' \in 0 .. NumPages - 1
    <3>1. cnt' < NumPages
      BY <2>1 DEF PoolLasts
    <3> QED BY <1>1, <3>1, SizeAssumption DEF TypeOK
  <2>3. TableAt(p, k + 1)' = PagesPhys[cnt']
    <3>1. Slot(c)' = e
      BY <1>1, <1>3, SlotAfter
    <3>2. Slot(c)'.frame = PhysAt(cnt')
      BY <2>1 DEF IInv, TreeOK, LinkingOK
    <3>3. TableAt(p, k + 1)' = EntryOf(p, k)'.frame
      <4>1. /\ TableAt(p, 2)' = EntryOf(p, 1)'.frame /\ TableAt(p, 3)' = EntryOf(p, 2)'.frame
            /\ TableAt(p, 4)' = EntryOf(p, 3)'.frame
        BY DEF TableAt, EntryOf, Pml4e, Pdpte, Pde
      <4>2. k = 1 \/ k = 2 \/ k = 3
        BY <2>1
      <4> QED BY <4>1, <4>2
    <3> QED BY <1>6, <1>7, <2>2, <3>1, <3>2, <3>3 DEF PhysAt
  <2>4. mem'[PagesPhys[cnt']] = [i \in Index |-> ZeroEntry]
    BY <2>1, <2>2 DEF FreshOK
  <2>5. k + 1 \in 1 .. 4 /\ p[k + 1] \in Index
    <3>1. k + 1 \in 1 .. 4
      BY <2>1
    <3> QED BY <1>2, <3>1, PageIndex
  <2>6. EntryOf(p, k + 1)' = ZeroEntry
    BY <1>2, <2>3, <2>4, <2>5 DEF Walked
  <2> QED BY <1>2, <2>5, <2>6 DEF Walked, ZeroEntry
<1>12. CASE pc[c] \in {"leaf", "frame", "type"}
  BY <1>9, <1>12
<1> QED BY <1>3, <1>10, <1>11, <1>12

\* A mapped page whose leaf entry nobody writes is mapped to itself.
LEMMA FrameRight ==
  ASSUME IInv, PoolLasts, NEW p \in Mapped,
         \A c \in Procs : ~(pc[c] \in {"leaf", "frame"} /\ page[c] = p)
  PROVE  Pte(p).frame = p
<1> DEFINE t == TableAt(p, 4)
<1>1. TypeOK /\ LevelOK /\ TreeOK /\ p \in Page /\ 4 \in 1 .. 4
  BY DEF IInv, Mapped
<1>2. /\ t \in TableFrames /\ owner[t] = [level |-> 4, base |-> Base(p, 4 - 1)]
      /\ owner[t] # Unused /\ Pte(p) = mem[t][p[4]] /\ mem[t][p[4]].perm # {}
  <2>1. Walked(p)
    BY MappedWalk
  <2> QED BY <1>1, <2>1, WalkNames DEF Walked
<1> HIDE DEF t
<1>3. p[4] \in Index /\ LeafPage(owner[t], p[4]) = p
  <2>1. LeafPage([level |-> 4, base |-> Base(p, 3)], p[4]) = p
    BY <1>1, LeafBase
  <2> QED BY <1>1, <1>2, <2>1, PageIndex
<1>4. \A c \in Procs : ~LeafWriting(c, t, p[4])
  <2> SUFFICES ASSUME NEW c \in Procs, LeafWriting(c, t, p[4]) PROVE FALSE
    OBVIOUS
  <2>1. pc[c] \in {"leaf", "frame"} /\ pc[c] \in Mapping /\ lvl[c] = 4
    BY <1>1 DEF LeafWriting, LevelOK, Mapping
  <2>2. WritesFor(c, p, 4)
    BY <1>2, <2>1 DEF LeafWriting, WritesFor
  <2>3. page[c] = p
    BY <1>1, <2>1, <2>2, SlotOnWalk
  <2> QED BY <2>1, <2>3
<1>5. "R" \in mem[t][p[4]].perm /\ owner[t].level = 4
  BY <1>1, <1>2, <1>3 DEF TreeOK, RightsOK
<1>6. mem[t][p[4]].frame = LeafPage(owner[t], p[4])
  BY <1>1, <1>2, <1>3, <1>4, <1>5 DEF TreeOK, LeavesOK
<1> QED BY <1>2, <1>3, <1>6

\* A processor that stores the memory type is done: the entry has it already.
LEMMA TypeDone ==
  ASSUME IInv, CacheOK, PoolLasts, NEW c \in Cpus, pc[c] = "type"
  PROVE  Done(page[c])
<1>1. TypeOK /\ LevelOK /\ PathOK /\ WantOK /\ OneWriter /\ c \in Procs
  BY LockMeansOne DEF IInv, CacheOK, Procs
<1>2. page[c] \in Mapped /\ page[c] \notin Ram
  BY <1>1, TypeMapped DEF WantOK, Mapping
<1>3. \A d \in Procs : ~(pc[d] \in {"leaf", "frame"} /\ page[d] = page[c])
  BY <1>1 DEF OneWriter, Holding, Mapping
<1>4. Pte(page[c]).frame = page[c]
  BY <1>2, <1>3, FrameRight
<1> QED BY <1>2, <1>4 DEF Done

\* When Ept11mapping has returned, all RAM is done with.
LEMMA RamDone ==
  ASSUME IInv, CacheOK, PoolLasts, BootDone, NEW p \in Ram
  PROVE  Done(p)
<1>1. TypeOK /\ WantOK /\ p \in Mapped
  BY RamMapped DEF IInv, CacheOK
<1>2. \A c \in Procs : ~(pc[c] \in {"leaf", "frame"} /\ page[c] = p)
  BY <1>1 DEF WantOK, BootDone, Procs, Mapping
<1>3. Pte(p).frame = p /\ Pte(p).mt = "WB"
  BY <1>1, <1>2, FrameRight, RamCached DEF RamIsCached
<1> QED BY <1>1, <1>3 DEF Done

\* ReleaseOK is kept.
LEMMA ReleaseStep ==
  ASSUME IInv, CacheOK, [Next]_vars, PoolLasts, ReleaseOK
  PROVE  ReleaseOK'
<1> SUFFICES ASSUME NEW c \in Cpus, pc'[c] = "release"
             PROVE  Done(page[c])'
  BY DEF ReleaseOK
<1>1. TypeOK /\ c \in Procs /\ c # Boot
  BY CpuAssumption DEF IInv, Procs
<1>2. Done(page[c]) /\ page'[c] = page[c]
  <2>1. CASE Outside
    BY <1>1, <2>1 DEF Outside, ReleaseOK
  <2>2. ASSUME NEW d \in Procs, MapStep(d)
        PROVE  Done(page[c]) /\ page'[c] = page[c]
    <3>1. page' = page /\ \A e \in Procs : e # d => pc'[e] = pc[e]
      BY <1>1, <2>2, MapStepShape DEF TypeOK
    <3>2. CASE c # d
      BY <1>1, <3>1, <3>2 DEF ReleaseOK
    <3>3. CASE c = d
      <4>1. pc[c] = "type"
        <5>1. ~Descend(c) /\ ~LinkBump(c)
          BY <1>1 DEF Descend, LinkBump, Follow, TypeOK
        <5> QED BY <1>1, <2>2, <3>3, <5>1, StoreShape
      <4> QED BY <3>1, <4>1, TypeDone
    <3> QED BY <3>2, <3>3
  <2> QED BY <1>1, <2>1, <2>2, OutsideOrInside
<1>3. PICK p : p = page[c]
  OBVIOUS
<1>4. Done(p)'
  BY <1>2, <1>3, DoneStays
<1> QED BY <1>2, <1>3, <1>4

\* PromiseOK is inductive.
THEOREM PromiseInvariance == Spec => [](IInv /\ CacheOK /\ PromiseOK)
<1>1. Init => PromiseOK
  BY PromiseInit
<1>2. IInv /\ IInv' /\ CacheOK /\ PromiseOK /\ [Next]_vars => PromiseOK'
  <2> SUFFICES ASSUME IInv, IInv', CacheOK, PromiseOK, [Next]_vars
               PROVE  PromiseOK'
    OBVIOUS
  <2>1. TypeOK /\ LevelOK /\ LockOK /\ TreeOK
    BY DEF IInv
  <2>2. PageOK' /\ FreshOK'
    BY <2>1, PageStep, FreshStep DEF PromiseOK
  <2>3. ASSUME PoolLasts' PROVE UsedOK' /\ ReleaseOK'
    <3>1. PoolLasts
      BY <2>1, <2>3, PoolStep
    <3> QED BY <2>3, <3>1, UsedStep, ReleaseStep DEF PromiseOK
  <2> QED BY <2>2, <2>3 DEF PromiseOK
<1> QED BY <1>1, <1>2, Invariance, CacheInvariance, PTL DEF Spec

-----------------------------------------------------------------------------
(* The tree does what EptMapping promises.                                 *)

\* What MapOf says of a page is whether it is done with, and whether it is RAM.
LEMMA MapValue ==
  IInv /\ CacheOK /\ PoolLasts =>
    \A p \in Page : MapOf(p) = IF Done(p) THEN IF p \in Ram THEN "WB" ELSE "UC" ELSE "none"
<1> SUFFICES ASSUME IInv, CacheOK, PoolLasts, NEW p \in Page
             PROVE  MapOf(p) = IF Done(p) THEN IF p \in Ram THEN "WB" ELSE "UC" ELSE "none"
  OBVIOUS
<1>1. CASE Done(p)
  <2>1. p \in Mapped /\ Granted(p, "R")
    BY <1>1 DEF Done, Mapped, Rights
  <2>2. Pde(p).frame \in TableFrames
    <3>1. Walked(p) /\ 4 \in 1 .. 4
      BY <2>1, MappedWalk
    <3> QED BY <3>1 DEF Walked, TableAt
  <2>3. Pte(p) \in Entry /\ (Pte(p).mt = "WB" => p \in Ram)
    <3>1. Open(p, 4) /\ Pte(p).perm # {}
      BY <2>1, GrantedOpen DEF Granted
    <3> QED BY <3>1, LeafEntry
  <2>4. Pte(p).mt \in {"UC", "WB"}
    BY <2>3 DEF Entry, CacheType
  <2> QED BY <1>1, <2>1, <2>2, <2>3, <2>4 DEF MapOf, Done
<1>2. CASE ~Done(p)
  BY <1>2 DEF MapOf, Done
<1> QED BY <1>1, <1>2

LEMMA MapValueAfter ==
  (IInv /\ CacheOK /\ PoolLasts =>
    \A p \in Page : MapOf(p) = IF Done(p) THEN IF p \in Ram THEN "WB" ELSE "UC" ELSE "none")'
BY MapValue, PTL

\* An empty tree promises nothing.
LEMMA PromisesInit == Init => Promise!Init
<1> SUFFICES ASSUME Init PROVE Promise!Init
  OBVIOUS
<1>1. ASSUME NEW p \in Page PROVE MapOf(p) = "none"
  <2>1. Pml4e(p).perm = {}
    BY PageIndex DEF Init, Pml4e, EntryAt, TableFrames, ZeroEntry, Page
  <2>2. p \notin Mapped
    BY <2>1 DEF Mapped, Granted, Rights
  <2> QED BY <2>2 DEF MapOf
<1>2. \A c \in Cpus : pc[c] = "idle"
  BY DEF Init, Procs
<1> QED BY <1>1, <1>2 DEF Promise!Init, Init

\* What EptMapping sees of a step that leaves the tree alone.
LEMMA TreeUnseen ==
  ASSUME UNCHANGED mem
  PROVE  UNCHANGED [p \in Page |-> MapOf(p)]
BY DEF MapOf, Mapped, Granted, Pte, Pde, Pdpte, Pml4e, EntryAt

\* A step of EptMapPage maps the page it is called for, or nothing.
LEMMA InsideStep ==
  ASSUME IInv, IInv', CacheOK, CacheOK', PromiseOK, PromiseOK', PoolLasts, PoolLasts', [Next]_vars,
         NEW c \in Procs, MapStep(c)
  PROVE  Promise!Next \/ UNCHANGED Promise!vars
<1>1. TypeOK /\ LockOK /\ BootOK /\ WantOK /\ FreshOK' /\ c \in Procs
  BY DEF IInv, CacheOK, PromiseOK
<1>2. /\ pc[c] \in Mapping /\ UNCHANGED <<running, page>> /\ page[c] \in Page
      /\ \A d \in Cpus : pc[d] = "idle" <=> pc'[d] = "idle"
  <2>1. pc[c] \in Mapping /\ UNCHANGED <<lock, running, bootNext, page>>
    BY <1>1, MapStepShape
  <2>2. PICK x \in Mapping \cup Dead \cup {"release", "idle"} :
          pc' = [pc EXCEPT ![c] = x] /\ (c # Boot => x # "idle")
    BY <1>1, MapStepShape
  <2>3. pc[c] # "idle" /\ Boot \notin Cpus /\ Cpus \subseteq Procs
    BY <2>1, CpuAssumption DEF Mapping, Procs
  <2> QED BY <1>1, <2>1, <2>2, <2>3 DEF TypeOK
<1> DEFINE wants == [d \in Cpus |-> IF pc[d] = "idle" THEN Null ELSE page[d]]
<1>3. UNCHANGED wants
  BY <1>2
<1>4. \A p \in Page : p # page[c] => MapOf(p)' = MapOf(p)
  <2> SUFFICES ASSUME NEW p \in Page, p # page[c] PROVE MapOf(p)' = MapOf(p)
    OBVIOUS
  <2>1. Done(p) <=> Done(p)'
    BY <1>1, DoneStays, DoneOnly
  <2> QED BY <2>1, MapValue, MapValueAfter
<1>5. CASE Done(page[c]) <=> Done(page[c])'
  <2>1. PICK p \in Page : p = page[c]
    BY <1>2
  <2>2. page'[c] = p
    BY <1>2, <2>1
  <2>3. MapOf(p)' = MapOf(p)
    BY <1>5, <2>1, <2>2, MapValue, MapValueAfter
  <2>4. UNCHANGED [q \in Page |-> MapOf(q)]
    BY <1>4, <2>1, <2>3
  <2> QED BY <1>2, <1>3, <2>4 DEF Promise!vars
<1>6. CASE ~(Done(page[c]) <=> Done(page[c])')
  <2>1. PICK p \in Page : p = page[c]
    BY <1>2
  <2>2. page'[c] = p
    BY <1>2, <2>1
  <2>3. ~Done(p) /\ Done(p)'
    BY <1>6, <2>1, <2>2, DoneStays
  <2>4. MapOf(p) = "none" /\ MapOf(p)' = IF p \in Ram THEN "WB" ELSE "UC"
    BY <2>3, MapValue, MapValueAfter
  <2>5. [q \in Page |-> MapOf(q)]' = [[q \in Page |-> MapOf(q)] EXCEPT ![p] = IF p \in Ram THEN "WB" ELSE "UC"]
    BY <1>4, <2>1, <2>4
  <2>6. CASE c = Boot
    <3>1. p \in Ram
      BY <1>1, <1>2, <2>1, <2>6 DEF BootOK, Ram
    <3>2. running = {}
      BY <1>1, <1>2, <2>6 DEF LockOK, BootDone, Mapping
    <3>3. Promise!MapRam(p)
      BY <1>2, <1>3, <2>4, <2>5, <3>1, <3>2 DEF Promise!MapRam
    <3> QED BY <3>3 DEF Promise!Next
  <2>7. CASE c # Boot
    <3>1. c \in Cpus /\ p \notin Ram /\ pc[c] # "idle"
      BY <1>1, <1>2, <2>1, <2>7 DEF Procs, WantOK, Mapping
    <3>2. Promise!Provide(c, p)
      BY <1>2, <1>3, <2>1, <2>4, <2>5, <3>1 DEF Promise!Provide
    <3> QED BY <3>1, <3>2 DEF Promise!Next
  <2> QED BY <2>6, <2>7
<1> QED BY <1>5, <1>6

\* A step of the code is a step of the promise, or nothing that it sees.
LEMMA PromisesStep ==
  ASSUME IInv, IInv', CacheOK, CacheOK', PromiseOK, PromiseOK', PoolLasts, PoolLasts', [Next]_vars
  PROVE  [Promise!Next]_(Promise!vars)
<1>1. TypeOK /\ LockOK /\ ReleaseOK /\ Cpus \subseteq Procs /\ Boot \notin Cpus /\ Boot \in Procs
  BY CpuAssumption DEF IInv, PromiseOK, Procs
<1> DEFINE map == [p \in Page |-> MapOf(p)]
           wants == [d \in Cpus |-> IF pc[d] = "idle" THEN Null ELSE page[d]]
<1>2. ASSUME UNCHANGED <<mem, running, wants>>
      PROVE  UNCHANGED Promise!vars
  BY <1>2, TreeUnseen DEF Promise!vars
<1>3. CASE BootPage \/ UNCHANGED vars
  <2>1. UNCHANGED <<mem, running>> /\ \A d \in Cpus : UNCHANGED <<pc[d], page[d]>>
    BY <1>1, <1>3 DEF BootPage, vars, TypeOK
  <2> QED BY <1>2, <2>1
<1>4. ASSUME NEW c \in Procs, MapStep(c)
      PROVE  Promise!Next \/ UNCHANGED Promise!vars
  BY <1>4, InsideStep
<1>5. ASSUME NEW c \in Cpus, Launch(c)
      PROVE  Promise!Next \/ UNCHANGED Promise!vars
  <2>1. BootDone /\ running' = running \cup {c} /\ UNCHANGED <<mem, wants>>
    BY <1>5 DEF Launch
  <2>2. CASE running # {}
    <3>1. (running # {}) = (running' # {})
      BY <2>1, <2>2
    <3> QED BY <2>1, <3>1, TreeUnseen DEF Promise!vars
  <2>3. CASE running = {}
    <3>1. \A p \in Ram : MapOf(p) = "WB"
      <4> SUFFICES ASSUME NEW p \in Ram PROVE MapOf(p) = "WB"
        OBVIOUS
      <4>1. Done(p) /\ p \in Page
        BY <2>1, RamDone, TouchedPages DEF Touched
      <4> QED BY <4>1, MapValue
    <3>2. \A p \in Ram : map[p] = "WB"
      BY <3>1, TouchedPages DEF Touched
    <3>3. Promise!Start
      BY <2>1, <2>3, <3>2, TreeUnseen DEF Promise!Start
    <3> QED BY <3>3 DEF Promise!Next
  <2> QED BY <2>2, <2>3
<1>6. ASSUME NEW c \in Cpus, NEW p \in GuestPages, NEW a \in Rights, Violation(c, p, a)
      PROVE  Promise!Next
  <2>1. /\ p \in Page /\ c \in running /\ pc[c] = "idle" /\ ~Granted(p, a)
        /\ pc' = [pc EXCEPT ![c] = "acquire"] /\ page' = [page EXCEPT ![c] = p]
        /\ UNCHANGED <<mem, running>>
    BY <1>6, MapAssumption DEF Violation
  <2>2. MapOf(p) = "none"
    BY <2>1 DEF MapOf, Mapped
  <2>3. wants' = [wants EXCEPT ![c] = p]
    BY <1>1, <2>1 DEF TypeOK
  <2>4. Promise!Ask(c, p)
    BY <2>1, <2>2, <2>3, TreeUnseen DEF Promise!Ask
  <2> QED BY <2>1, <2>4 DEF Promise!Next
<1>7. ASSUME NEW c \in Cpus, Acquire(c)
      PROVE  UNCHANGED Promise!vars
  <2>1. UNCHANGED <<mem, running, page>> /\ \A d \in Cpus : pc[d] = "idle" <=> pc'[d] = "idle"
    BY <1>1, <1>7 DEF Acquire, TypeOK
  <2>2. UNCHANGED wants
    BY <2>1
  <2> QED BY <1>2, <2>1, <2>2
<1>8. ASSUME NEW c \in Cpus, Release(c)
      PROVE  Promise!Next
  <2>1. /\ pc[c] = "release" /\ pc' = [pc EXCEPT ![c] = "idle"]
        /\ UNCHANGED <<mem, running, page>> /\ page[c] \in Page
    BY <1>1, <1>8 DEF Release, TypeOK
  <2>2. Done(page[c])
    BY <1>1, <2>1 DEF ReleaseOK
  <2>3. MapOf(page[c]) # "none"
    <3>1. PICK p \in Page : p = page[c]
      BY <2>1
    <3> QED BY <2>2, <3>1, MapValue
  <2>4. wants[c] = page[c] /\ page[c] # Null /\ map[wants[c]] # "none"
    BY <2>1, <2>3, MapAssumption
  <2>5. wants' = [wants EXCEPT ![c] = Null]
    BY <1>1, <2>1 DEF TypeOK
  <2>6. Promise!Resume(c)
    BY <2>1, <2>4, <2>5, TreeUnseen DEF Promise!Resume
  <2> QED BY <2>6 DEF Promise!Next
<1> QED BY <1>2, <1>3, <1>4, <1>5, <1>6, <1>7, <1>8 DEF Next

\* As long as the pool lasts, the tree maps RAM before any guest runs, every
\* other page on demand, each once and for all to itself, and no processor
\* goes on before it has its page: the steps of ept.c implement those of
\* EptMapping.
THEOREM TreeKeepsPromise == Spec /\ []PoolLasts => KeepsPromise
<1>1. Init => Promise!Init
  BY PromisesInit
<1>2. /\ IInv /\ CacheOK /\ PromiseOK /\ PoolLasts
      /\ IInv' /\ CacheOK' /\ PromiseOK' /\ PoolLasts' /\ [Next]_vars
      => [Promise!Next]_(Promise!vars)
  BY PromisesStep
<1> QED BY <1>1, <1>2, PromiseInvariance, PTL DEF Spec, KeepsPromise, Promise!Spec

-----------------------------------------------------------------------------
(* Counting regions.                                                       *)

\* There are finitely many pages.
LEMMA PagesFinite == IsFiniteSet(Page)
<1> DEFINE Pairs == Index \X Index
           f == [p \in Page |-> << <<p[1], p[2]>>, <<p[3], p[4]>> >>]
<1>1. IsFiniteSet(Index)
  BY FS_Interval, SizeAssumption DEF Index
<1>2. IsFiniteSet(Pairs)
  BY <1>1, FS_Product
<1>3. IsFiniteSet(Pairs \X Pairs)
  BY <1>2, FS_Product
<1>4. f \in [Page -> Pairs \X Pairs]
  BY DEF Page
<1>5. ASSUME NEW p \in Page, NEW q \in Page, f[p] = f[q]
      PROVE  p = q
  <2>1. p[1] = q[1] /\ p[2] = q[2] /\ p[3] = q[3] /\ p[4] = q[4]
    BY <1>5
  <2> QED BY <2>1 DEF Page
<1>6. f \in Injection(Page, Pairs \X Pairs)
  BY <1>4, <1>5 DEF Injection, IsInjective
<1> QED BY <1>3, <1>6, FS_Injection

\* The regions that the pages of P lie in, each with its level: those that a
\* tree that maps P has a table for, the root aside.
RegionsAt(P, k) == {Base(p, k) : p \in P}
Tagged(P, k) == {<<k, b>> : b \in RegionsAt(P, k)}
Regions(P) == Tagged(P, 1) \cup Tagged(P, 2) \cup Tagged(P, 3)

\* The regions of one level can be counted without their level.
LEMMA TaggedCount ==
  ASSUME NEW P \in SUBSET Page, NEW k \in 1 .. 3
  PROVE  /\ IsFiniteSet(Tagged(P, k))
         /\ Cardinality(Tagged(P, k)) = Cardinality(RegionsAt(P, k))
         /\ Cardinality(RegionsAt(P, k)) \in Nat
<1> DEFINE f == [b \in RegionsAt(P, k) |-> <<k, b>>]
<1>1. RegionsAt(P, k) \in SUBSET Page
  BY BaseType DEF RegionsAt
<1>2. IsFiniteSet(RegionsAt(P, k))
  BY <1>1, PagesFinite, FS_Subset
<1>3. f \in Bijection(RegionsAt(P, k), Tagged(P, k))
  BY DEF Tagged, Bijection, Injection, IsInjective, Surjection
<1>4. ExistsBijection(RegionsAt(P, k), Tagged(P, k))
  BY <1>3 DEF ExistsBijection
<1> QED BY <1>2, <1>4, FS_Bijection, FS_CardinalityType

\* Disjoint sets are counted together.
LEMMA DisjointCount ==
  ASSUME NEW S, IsFiniteSet(S), NEW T, IsFiniteSet(T), S \cap T = {}
  PROVE  /\ IsFiniteSet(S \cup T)
         /\ Cardinality(S \cup T) = Cardinality(S) + Cardinality(T)
<1>1. /\ IsFiniteSet(S \cup T)
      /\ Cardinality(S \cup T) = Cardinality(S) + Cardinality(T) - Cardinality(S \cap T)
  BY FS_Union
<1>2. Cardinality(S \cap T) = 0 /\ Cardinality(S) \in Nat /\ Cardinality(T) \in Nat
  BY FS_EmptySet, FS_CardinalityType
<1> QED BY <1>1, <1>2

\* Demand counts the regions.
LEMMA DemandCounts ==
  ASSUME NEW P \in SUBSET Page
  PROVE  /\ IsFiniteSet(Regions(P))
         /\ Cardinality(Regions(P)) = Demand(P)
         /\ Demand(P) \in Nat
<1> DEFINE a == Tagged(P, 1)
           b == Tagged(P, 2)
           c == Tagged(P, 3)
<1>1. /\ IsFiniteSet(a) /\ Cardinality(a) = Cardinality(RegionsAt(P, 1)) /\ Cardinality(a) \in Nat
      /\ IsFiniteSet(b) /\ Cardinality(b) = Cardinality(RegionsAt(P, 2)) /\ Cardinality(b) \in Nat
      /\ IsFiniteSet(c) /\ Cardinality(c) = Cardinality(RegionsAt(P, 3)) /\ Cardinality(c) \in Nat
  <2>1. 1 \in 1 .. 3 /\ 2 \in 1 .. 3 /\ 3 \in 1 .. 3
    OBVIOUS
  <2> QED BY <2>1, TaggedCount
<1>2. a \cap b = {} /\ (a \cup b) \cap c = {}
  BY DEF Tagged
<1>3. Regions(P) = (a \cup b) \cup c
  BY DEF Regions
<1> HIDE DEF a, b, c
<1>4. IsFiniteSet(a \cup b) /\ Cardinality(a \cup b) = Cardinality(a) + Cardinality(b)
  BY <1>1, <1>2, DisjointCount
<1>5. /\ IsFiniteSet((a \cup b) \cup c)
      /\ Cardinality((a \cup b) \cup c) = Cardinality(a \cup b) + Cardinality(c)
  BY <1>1, <1>2, <1>4, DisjointCount
<1>6. Demand(P) = Cardinality(a) + Cardinality(b) + Cardinality(c)
  BY <1>1 DEF Demand, RegionsAt
<1> QED BY <1>1, <1>3, <1>4, <1>5, <1>6

-----------------------------------------------------------------------------
(* A table of the pool for every region.                                   *)

\* Walks to pages of the same region are one.
LEMMA SharedWalk ==
  ASSUME NEW p \in Page, NEW q \in Page, NEW k \in 1 .. 4, Base(p, k - 1) = Base(q, k - 1)
  PROVE  /\ TableAt(p, k) = TableAt(q, k)
         /\ \A j \in 1 .. 3 : j < k => EntryOf(p, j) = EntryOf(q, j)
<1> DEFINE Agree(j) == j < k => p[j] = q[j]
<1>1. Agree(1) /\ Agree(2) /\ Agree(3)
  BY DEF Base
<1> HIDE DEF Agree
<1>2. TableAt(p, 1) = TableAt(q, 1)
  BY WalkNames
<1>3. ASSUME 1 < k PROVE EntryOf(p, 1) = EntryOf(q, 1) /\ TableAt(p, 2) = TableAt(q, 2)
  <2>1. p[1] = q[1]
    BY <1>1, <1>3 DEF Agree
  <2> QED BY <2>1 DEF EntryOf, TableAt, Pml4e
<1>4. ASSUME 2 < k PROVE EntryOf(p, 2) = EntryOf(q, 2) /\ TableAt(p, 3) = TableAt(q, 3)
  <2>1. p[2] = q[2] /\ TableAt(p, 2) = TableAt(q, 2)
    BY <1>1, <1>3, <1>4 DEF Agree
  <2>2. EntryOf(p, 2) = EntryOf(q, 2)
    BY <2>1 DEF EntryOf
  <2> QED BY <2>2 DEF EntryOf, TableAt, Pdpte
<1>5. ASSUME 3 < k PROVE EntryOf(p, 3) = EntryOf(q, 3) /\ TableAt(p, 4) = TableAt(q, 4)
  <2>1. p[3] = q[3] /\ TableAt(p, 3) = TableAt(q, 3)
    BY <1>1, <1>4, <1>5 DEF Agree
  <2>2. EntryOf(p, 3) = EntryOf(q, 3)
    BY <2>1 DEF EntryOf
  <2> QED BY <2>2 DEF EntryOf, TableAt, Pde
<1>6. k = 1 \/ k = 2 \/ k = 3 \/ k = 4
  OBVIOUS
<1>7. \A j \in 1 .. 3 : j = 1 \/ j = 2 \/ j = 3
  OBVIOUS
<1> QED BY <1>2, <1>3, <1>4, <1>5, <1>6, <1>7

\* The region that pool page n is the table of.
RegionOf(n) == <<owner[PagesPhys[n]].level - 1, owner[PagesPhys[n]].base>>

\* A pool page on the way to p is the table of a region of p.
LEMMA ThroughRegion ==
  ASSUME IInv, PoolLasts, NEW p \in Page, NEW k \in 2 .. 4, NEW n, Through(p, k, PagesPhys[n])
  PROVE  RegionOf(n) = <<k - 1, Base(p, k - 1)>>
<1>1. k \in 1 .. 4 /\ k <= k /\ Open(p, k) /\ TableAt(p, k) = PagesPhys[n]
  BY DEF Through
<1>2. \A j \in 1 .. 4 : j <= k => owner[TableAt(p, j)] = [level |-> j, base |-> Base(p, j - 1)]
  BY <1>1, WalkTables DEF IInv
<1>3. owner[PagesPhys[n]] = [level |-> k, base |-> Base(p, k - 1)]
  BY <1>1, <1>2
<1> QED BY <1>3 DEF RegionOf

\* What UsedOK says of one page, by its region.
LEMMA UsedRegion ==
  ASSUME IInv, PoolLasts, UsedOK, NEW n \in 0 .. NumPages - 1, n < cnt
  PROVE  \E p \in Touched, k \in 1 .. 3 :
           /\ RegionOf(n) = <<k, Base(p, k)>>
           /\ Through(p, k + 1, PagesPhys[n])
           /\ Coming(p)
<1>1. PICK p \in Touched, j \in 2 .. 4 : Through(p, j, PagesPhys[n]) /\ Coming(p)
  BY DEF UsedOK
<1>2. p \in Page
  BY TouchedPages
<1>3. RegionOf(n) = <<j - 1, Base(p, j - 1)>>
  BY <1>1, <1>2, ThroughRegion
<1>4. PICK k \in 1 .. 3 : k = j - 1
  OBVIOUS
<1>5. RegionOf(n) = <<k, Base(p, k)>> /\ k + 1 = j
  BY <1>3, <1>4
<1> QED BY <1>1, <1>5

\* No two pool pages are the table of one region.
LEMMA RegionOnce ==
  ASSUME IInv, PoolLasts, UsedOK, NEW n \in 0 .. NumPages - 1, n < cnt,
         NEW m \in 0 .. NumPages - 1, m < cnt, RegionOf(n) = RegionOf(m)
  PROVE  n = m
<1>1. PICK p \in Touched, k \in 1 .. 3 :
        RegionOf(n) = <<k, Base(p, k)>> /\ Through(p, k + 1, PagesPhys[n])
  BY UsedRegion
<1>2. PICK q \in Touched, j \in 1 .. 3 :
        RegionOf(m) = <<j, Base(q, j)>> /\ Through(q, j + 1, PagesPhys[m])
  BY UsedRegion
<1>3. j = k /\ Base(p, k) = Base(q, k) /\ p \in Page /\ q \in Page
  <2>1. <<k, Base(p, k)>> = <<j, Base(q, j)>>
    BY <1>1, <1>2
  <2>2. j = k
    BY <2>1
  <2>3. Base(p, k) = Base(q, k)
    BY <2>1, <2>2
  <2> QED BY <2>2, <2>3, TouchedPages
<1>4. TableAt(p, k + 1) = TableAt(q, k + 1)
  <2>1. PICK l \in 1 .. 4 : l = k + 1
    OBVIOUS
  <2>2. Base(p, l - 1) = Base(q, l - 1)
    BY <1>3, <2>1
  <2>3. TableAt(p, l) = TableAt(q, l)
    BY <1>3, <2>2, SharedWalk
  <2> QED BY <2>1, <2>3
<1>5. PagesPhys[n] = PagesPhys[m]
  BY <1>1, <1>2, <1>3, <1>4 DEF Through
<1> QED BY <1>5, PoolAssumption

\* The region of a link that is absent has no table.
LEMMA RegionFree ==
  ASSUME IInv, CacheOK, PoolLasts, UsedOK, NEW c \in Procs, pc[c] = "test", "R" \notin Slot(c).perm,
         page[c] \in Touched,
         NEW n \in 0 .. NumPages - 1, n < cnt
  PROVE  RegionOf(n) # <<lvl[c], Base(page[c], lvl[c])>>
<1> SUFFICES ASSUME RegionOf(n) = <<lvl[c], Base(page[c], lvl[c])>>
             PROVE  FALSE
  OBVIOUS
<1>1. /\ TypeOK /\ LevelOK /\ TreeOK /\ PathOK /\ lvl[c] \in 1 .. 3
      /\ pc[c] \in Mapping /\ cur[c] \in TableFrames /\ page[c] \in Page
      /\ page[c][lvl[c]] \in Index
  BY SlotType DEF IInv, CacheOK, LevelOK, Mapping, TypeOK
<1>2. PICK p \in Touched, k \in 1 .. 3 :
        RegionOf(n) = <<k, Base(p, k)>> /\ Through(p, k + 1, PagesPhys[n])
  BY UsedRegion
<1>3. k = lvl[c] /\ Base(p, k) = Base(page[c], k) /\ p \in Page
  BY <1>2, TouchedPages
<1>4. EntryOf(p, k) = EntryOf(page[c], k)
  <2>1. PICK l \in 1 .. 4 : l = k + 1
    OBVIOUS
  <2>2. Base(p, l - 1) = Base(page[c], l - 1) /\ k < l
    BY <1>3, <2>1
  <2>3. \A j \in 1 .. 3 : j < l => EntryOf(p, j) = EntryOf(page[c], j)
    <3>1. PICK q \in Page : q = page[c]
      BY <1>1
    <3>2. \A j \in 1 .. 3 : j < l => EntryOf(p, j) = EntryOf(q, j)
      BY <1>3, <2>2, <3>1, SharedWalk
    <3> QED BY <3>1, <3>2
  <2> QED BY <2>2, <2>3
<1>5. EntryOf(p, k).perm # {}
  <2>1. Open(p, k + 1) /\ k < k + 1
    BY <1>2 DEF Through
  <2> QED BY <2>1 DEF Open
<1>6. EntryOf(page[c], lvl[c]) = Slot(c)
  <2>1. cur[c] = TableAt(page[c], lvl[c])
    BY <1>1 DEF PathOK
  <2> QED BY <1>1, <2>1 DEF EntryOf, EntryAt, Slot
<1>7. Slot(c).perm # {} /\ Slot(c) = mem[cur[c]][page[c][lvl[c]]]
  BY <1>3, <1>4, <1>5, <1>6 DEF Slot
<1>8. "R" \in Slot(c).perm
  BY <1>1, <1>7 DEF TreeOK, RightsOK
<1> QED BY <1>8

\* The pool pages handed out can be counted by their regions.
LEMMA UsedCount ==
  ASSUME IInv, PoolLasts, UsedOK, NEW P \in SUBSET Page, NEW R \in SUBSET Regions(P),
         \A n \in 0 .. cnt - 1 : RegionOf(n) \in R
  PROVE  /\ cnt <= Cardinality(R)
         /\ (\A r \in R : \E n \in 0 .. cnt - 1 : RegionOf(n) = r) => cnt = Cardinality(R)
<1> DEFINE U == 0 .. cnt - 1
           f == [n \in U |-> RegionOf(n)]
<1>1. cnt \in Nat /\ cnt <= NumPages /\ U \subseteq 0 .. NumPages - 1 /\ \A n \in U : n < cnt
  BY SizeAssumption DEF IInv, TypeOK, PoolLasts
<1>2. IsFiniteSet(U) /\ Cardinality(U) = cnt
  BY <1>1, FS_Interval
<1>3. IsFiniteSet(R)
  BY DemandCounts, FS_Subset
<1>4. \A n, m \in U : RegionOf(n) = RegionOf(m) => n = m
  BY <1>1, RegionOnce
<1> HIDE DEF U
<1>5. f \in Injection(U, R)
  BY <1>4 DEF Injection, IsInjective, U
<1> HIDE DEF f
<1>6. /\ Cardinality(U) <= Cardinality(R)
      /\ Cardinality(U) = Cardinality(R) <=> f \in Surjection(U, R)
  BY <1>3, <1>5, FS_Injection
<1>7. (\A r \in R : \E n \in U : RegionOf(n) = r) => f \in Surjection(U, R)
  BY <1>5 DEF f, Injection, Surjection
<1> QED BY <1>2, <1>6, <1>7 DEF U

\* Every region of a mapped page has a table of the pool.
LEMMA MappedRegion ==
  ASSUME IInv, PoolLasts, \A c \in Procs : pc[c] \notin {"grant", "bump"}, NEW r \in Regions(Mapped)
  PROVE  \E n \in 0 .. cnt - 1 : RegionOf(n) = r
<1>1. PICK p \in Mapped, k \in 1 .. 3 : r = <<k, Base(p, k)>>
  <2>1. PICK k \in 1 .. 3 : r \in Tagged(Mapped, k)
    BY DEF Regions
  <2> QED BY <2>1 DEF Tagged, RegionsAt
<1> DEFINE t == TableAt(p, k + 1)
<1>2. t \in TableFrames /\ owner[t] = [level |-> k + 1, base |-> Base(p, k)] /\ owner[t] # Unused
  <2>1. Walked(p)
    BY MappedWalk
  <2>2. PICK l \in 1 .. 4 : l = k + 1
    OBVIOUS
  <2>3. /\ TableAt(p, l) \in TableFrames
        /\ owner[TableAt(p, l)] = [level |-> l, base |-> Base(p, l - 1)]
        /\ owner[TableAt(p, l)] # Unused
    BY <2>1 DEF Walked
  <2>4. l - 1 = k
    BY <2>2
  <2> QED BY <2>2, <2>3, <2>4
<1> HIDE DEF t
<1>3. TypeOK /\ TreeOK /\ OwnerOK
  BY DEF IInv, TreeOK
<1>4. t # Pml4Phys
  <2>1. owner[Pml4Phys].level = 1 /\ owner[t].level = k + 1
    BY <1>2, <1>3 DEF OwnerOK
  <2> QED BY <2>1
<1>5. PICK n \in 0 .. NumPages - 1 : t = PagesPhys[n]
  BY <1>2, <1>4 DEF TableFrames, PoolFrames
<1>6. n < cnt
  BY <1>2, <1>3, <1>5 DEF OwnerOK
<1>7. n \in 0 .. cnt - 1
  BY <1>3, <1>6, SizeAssumption DEF TypeOK
<1>8. RegionOf(n) = <<k, Base(p, k)>>
  BY <1>2, <1>5 DEF RegionOf
<1> QED BY <1>1, <1>7, <1>8

\* When nobody is inside EptMapPage, the pages handed out are the regions of
\* what is mapped.
LEMMA DemandMet == IInv /\ PromiseOK => CntIsDemand
<1> SUFFICES ASSUME IInv, PromiseOK, \A c \in Procs : pc[c] \notin Holding
             PROVE  cnt = Demand(Mapped)
  BY DEF CntIsDemand
<1>1. TypeOK /\ TreeOK /\ cnt \in Nat
  BY DEF IInv, TypeOK
<1>2. PoolLasts
  <2>1. cnt <= NumPages
    BY <1>1, EnterRoom DEF Holding, Dead
  <2> QED BY <2>1 DEF PoolLasts, Holding, Mapping
<1>3. UsedOK /\ Mapped \in SUBSET Page /\ \A c \in Procs : pc[c] \notin Mapping
  BY <1>2 DEF PromiseOK, Mapped, Holding
<1>4. ASSUME NEW n \in 0 .. cnt - 1
      PROVE  RegionOf(n) \in Regions(Mapped)
  <2>1. n \in 0 .. NumPages - 1 /\ n < cnt
    BY <1>1, <1>2, SizeAssumption DEF PoolLasts
  <2>2. PICK p \in Touched, k \in 1 .. 3 : RegionOf(n) = <<k, Base(p, k)>> /\ Coming(p)
    BY <1>2, <1>3, <2>1, UsedRegion
  <2>3. p \in Mapped
    BY <1>3, <2>2 DEF Coming
  <2>4. RegionOf(n) \in Tagged(Mapped, k)
    BY <2>2, <2>3 DEF Tagged, RegionsAt
  <2> QED BY <2>4 DEF Regions
<1>5. \A r \in Regions(Mapped) : \E n \in 0 .. cnt - 1 : RegionOf(n) = r
  BY <1>2, MappedRegion DEF Holding, Mapping
<1>6. cnt = Cardinality(Regions(Mapped))
  BY <1>2, <1>3, <1>4, <1>5, UsedCount
<1> QED BY <1>3, <1>6, DemandCounts

\* Between two calls of EptMapPage the pool pages handed out are exactly as
\* many as the mapped pages demand, for any number of processors, tables of
\* any size and any pool (ept.c:198-244): none is wasted on a race, and what
\* CountForPages has to bound is the demand.
THEOREM PoolUseIsDemand == Spec => []CntIsDemand
<1>1. IInv /\ PromiseOK => CntIsDemand
  BY DemandMet
<1> QED BY <1>1, PromiseInvariance, PTL

-----------------------------------------------------------------------------
(* A pool that suffices.                                                   *)

\* A finite set without one of its elements is smaller by one.
LEMMA OneLess ==
  ASSUME NEW S, IsFiniteSet(S), NEW x \in S
  PROVE  Cardinality(S \ {x}) = Cardinality(S) - 1
BY FS_RemoveElement

\* A pool with a page for every region that is asked for has one when a table
\* is to be linked.
LEMMA RoomForLink ==
  ASSUME IInv, CacheOK, PromiseOK, PoolLasts, Demand(Touched) <= NumPages,
         NEW c \in Procs, pc[c] = "test", "R" \notin Slot(c).perm
  PROVE  cnt < NumPages
<1>1. TypeOK /\ LevelOK /\ UsedOK /\ lvl[c] \in 1 .. 3 /\ page[c] \in Touched /\ cnt \in Nat
  BY DEF IInv, PromiseOK, PageOK, LevelOK, Mapping, TypeOK
<1> DEFINE r == <<lvl[c], Base(page[c], lvl[c])>>
           R == Regions(Touched) \ {r}
<1>2. Touched \in SUBSET Page
  BY TouchedPages
<1>3. /\ IsFiniteSet(Regions(Touched)) /\ Cardinality(Regions(Touched)) = Demand(Touched)
      /\ Demand(Touched) \in Nat
  BY <1>2, DemandCounts
<1>4. r \in Regions(Touched)
  <2>1. r \in Tagged(Touched, lvl[c])
    BY <1>1 DEF Tagged, RegionsAt
  <2> QED BY <1>1, <2>1 DEF Regions
<1>5. Cardinality(R) = Demand(Touched) - 1
  <2> HIDE DEF r
  <2>1. Cardinality(R) = Cardinality(Regions(Touched)) - 1
    BY <1>3, <1>4, OneLess
  <2> QED BY <1>3, <2>1
<1>6. ASSUME NEW n \in 0 .. cnt - 1
      PROVE  RegionOf(n) \in R
  <2>1. n \in 0 .. NumPages - 1 /\ n < cnt
    BY <1>1, SizeAssumption DEF PoolLasts
  <2>2. PICK p \in Touched, k \in 1 .. 3 : RegionOf(n) = <<k, Base(p, k)>>
    BY <1>1, <2>1, UsedRegion
  <2>3. RegionOf(n) \in Tagged(Touched, k)
    BY <2>2 DEF Tagged, RegionsAt
  <2>4. RegionOf(n) # r
    BY <1>1, <2>1, RegionFree
  <2> QED BY <2>3, <2>4 DEF Regions
<1>7. R \in SUBSET Regions(Touched)
  OBVIOUS
<1> HIDE DEF R
<1>8. cnt <= Cardinality(R)
  BY <1>1, <1>2, <1>6, <1>7, UsedCount
<1> QED BY <1>1, <1>3, <1>5, <1>8, SizeAssumption

\* Such a pool lasts.
LEMMA RoomStep ==
  ASSUME IInv, CacheOK, PromiseOK, PoolLasts, Demand(Touched) <= NumPages, [Next]_vars
  PROVE  PoolLasts'
<1>1. TypeOK /\ OneWriter /\ cnt \in Nat /\ cnt <= NumPages
  BY LockMeansOne DEF IInv, TypeOK, PoolLasts
<1>2. CASE Outside
  <2>1. \A d \in Procs : pc'[d] \in {"grant", "bump"} => pc[d] \in {"grant", "bump"}
    BY <1>2 DEF Outside, Mapping
  <2> QED BY <1>2, <2>1 DEF Outside, PoolLasts
<1>3. ASSUME NEW c \in Procs, MapStep(c)
      PROVE  PoolLasts'
  <2>1. pc[c] \in Mapping /\ \A d \in Procs : d # c => pc'[d] = pc[d] /\ pc[d] \notin Holding
    BY <1>1, <1>3, MapStepShape DEF OneWriter, Holding, TypeOK
  <2>2. \A d \in Procs : d # c => pc'[d] \notin {"grant", "bump"}
    BY <2>1 DEF Holding, Mapping
  <2>3. CASE LinkBump(c)
    <3>1. cnt' = cnt + 1 /\ pc[c] = "bump" /\ pc'[c] \notin {"grant", "bump"}
      BY <1>1, <2>3 DEF LinkBump, Follow, TypeOK
    <3>2. cnt < NumPages
      BY <3>1 DEF PoolLasts
    <3>3. cnt' <= NumPages
      BY <1>1, <3>1, <3>2, SizeAssumption
    <3> QED BY <2>2, <3>1, <3>3 DEF PoolLasts
  <2>4. CASE LinkFrame(c)
    <3>1. cnt' = cnt /\ pc[c] = "test" /\ "R" \notin Slot(c).perm
      BY <2>4 DEF LinkFrame
    <3>2. cnt < NumPages
      BY <3>1, RoomForLink
    <3> QED BY <1>1, <2>2, <3>1, <3>2 DEF PoolLasts
  <2>5. CASE ~LinkBump(c) /\ ~LinkFrame(c)
    <3>1. cnt' = cnt /\ (pc'[c] \in {"grant", "bump"} => pc[c] \in {"grant", "bump"})
      BY <1>1, <1>3, <2>5 DEF MapStep, Descend, Follow, LinkGrant, LeafGrant, LeafFrame, LeafType, TypeOK
    <3> QED BY <1>1, <2>2, <3>1 DEF PoolLasts
  <2> QED BY <2>3, <2>4, <2>5
<1> QED BY <1>1, <1>2, <1>3, OutsideOrInside

\* A pool with as many pages as the RAM and the guest's pages demand is never
\* overrun, however the violations interleave.
THEOREM PoolSuffices ==
  ASSUME Demand(Touched) <= NumPages
  PROVE  Spec => []PoolLasts
<1>1. Init => PoolLasts
  BY SizeAssumption DEF Init, PoolLasts
<1>2. IInv /\ CacheOK /\ PromiseOK /\ PoolLasts /\ [Next]_vars => PoolLasts'
  BY RoomStep
<1> QED BY <1>1, <1>2, PromiseInvariance, PTL DEF Spec

\* With such a pool nobody follows the NULL of FindVirtualAddress and nobody
\* meets its panic (ept.c:119-139): every call of EptMapPage comes to its end.
COROLLARY NobodyDies ==
  ASSUME Demand(Touched) <= NumPages
  PROVE  Spec => [](\A c \in Procs : pc[c] \notin Dead)
<1>1. TypeOK /\ PoolLasts /\ LookupFinds => \A c \in Procs : pc[c] \notin Dead
  <2> SUFFICES ASSUME TypeOK, PoolLasts, LookupFinds, NEW c \in Procs, pc[c] \in Dead
               PROVE  FALSE
    OBVIOUS
  <2>1. pc[c] = "fault" /\ cnt > NumPages /\ cnt <= NumPages
    BY DEF PoolLasts, LookupFinds, Dead
  <2> QED BY <2>1, SizeAssumption DEF TypeOK
<1> QED BY <1>1, PoolSuffices, LookupSound, TypeCorrect, PTL

\* With such a pool ept.c does what EptMapping promises, but for the progress
\* that fairness gives.
COROLLARY TreeImplementsMapping ==
  ASSUME Demand(Touched) <= NumPages
  PROVE  Spec => KeepsPromise
BY PoolSuffices, TreeKeepsPromise, PTL
=============================================================================
