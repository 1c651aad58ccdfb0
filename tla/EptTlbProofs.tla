----------------------------- MODULE EptTlbProofs -----------------------------
(* Theorems about EptTlb: what a processor has cached of the tree, without  *)
(* any INVEPT, is what the tree says.                                       *)
EXTENDS EptTlb, EptCacheProofs

-----------------------------------------------------------------------------
(* The inductive invariant.                                                *)

TlbType == tlb \in [Cpus -> SUBSET Translation]

\* The tree as EptProofs and EptCacheProofs describe it, and what is cached.
TlbInv ==
  /\ IInv /\ CacheOK
  /\ TlbType /\ CachedRightsGranted /\ CachedRamIsRight

\* A walk that finds some right is open, and finds a translation.
LEMMA WalkFinds ==
  ASSUME IInv, CacheOK, NEW p \in GuestPages, NEW a, a \in Walk(p).perm
  PROVE  /\ Granted(p, a) /\ p \in Page
         /\ Open(p, 4) /\ Pte(p).perm # {}
BY GrantedOpen, MapAssumption DEF Walk, Granted

\* Every entry the walker reads is one, or the arbitrary memory's.
LEMMA WalkType ==
  ASSUME TypeOK, NEW p \in GuestPages
  PROVE  Walk(p) \in Translation
<1>1. p \in Page /\ \A k \in 1 .. 4 : p[k] \in Index
  BY MapAssumption, PageIndex
<1>2. \A t, k : k \in 1 .. 4 => EntryAt(t, p[k]) \in Entry
  BY <1>1, ZeroPageType DEF EntryAt, Stray, Entry, CacheType, TypeOK
<1>3. Pte(p) \in Entry
  <2>1. 4 \in 1 .. 4
    OBVIOUS
  <2> QED BY <1>2, <2>1 DEF Pte
<1> QED BY <1>3 DEF Walk, Translation, Entry

\* What a processor that runs as a guest finds of RAM is right, and of any
\* other page it finds the page itself or page 0, uncached.
LEMMA WalkRight ==
  ASSUME IInv, CacheOK, PoolLasts, NEW c \in Cpus, c \in running,
         NEW p \in GuestPages, Walk(p).perm # {}
  PROVE  IF p \in Ram
         THEN Walk(p) = [page |-> p, perm |-> Rights, frame |-> p, mt |-> "WB"]
         ELSE Walk(p).frame \in {p, ZeroPage} /\ Walk(p).mt = "UC"
<1>1. PICK a : a \in Walk(p).perm
  OBVIOUS
<1>2. Granted(p, a) /\ p \in Page /\ Open(p, 4) /\ Pte(p).perm # {}
  BY <1>1, WalkFinds
<1>3. TypeOK /\ LevelOK /\ TreeOK /\ BootDone /\ WantOK
  BY DEF IInv, LockOK, CacheOK
<1>4. /\ Pte(p) \in Entry
      /\ Pte(p).mt = "WB" => p \in Ram
      /\ p \in Ram => Pte(p).mt = "WB"
      /\ Pte(p).frame \in {p, ZeroPage}
  BY <1>2, <1>3, LeafEntry DEF BootDone
<1>5. CASE p \in Ram
  <2>1. p \in Mapped
    BY <1>3, <1>5, RamMapped
  <2>2. Walk(p).perm = Rights
    BY <2>1 DEF Walk, Mapped
  <2>3. Pte(p).frame = p
    <3>1. \/ Pte(p).frame = p
          \/ \E d \in Procs : pc[d] \in {"leaf", "frame"} /\ page[d] = p
      <4>1. SettledIdentity
        BY IdentityHolds
      <4> QED BY <1>2, <4>1, <2>1 DEF SettledIdentity, Mapped, Rights
    <3>2. ASSUME NEW d \in Procs, pc[d] \in {"leaf", "frame"}, page[d] = p
          PROVE  FALSE
      <4>1. d \in Cpus
        BY <1>3, <3>2 DEF Procs, BootDone
      <4> QED BY <1>3, <1>5, <3>2, <4>1 DEF WantOK, Mapping
    <3> QED BY <3>1, <3>2
  <2> QED BY <1>4, <1>5, <2>2, <2>3 DEF Walk
<1>6. CASE p \notin Ram
  <2>1. Pte(p).mt = "UC"
    BY <1>4, <1>6 DEF Entry, CacheType
  <2> QED BY <1>4, <1>6, <2>1 DEF Walk
<1> QED BY <1>5, <1>6

-----------------------------------------------------------------------------
(* The steps.                                                              *)

\* A step of the tree, or none, that adds nothing to what is cached.
LEMMA CachedStays ==
  ASSUME TlbInv, IInv', CacheOK', EntriesGrow, PoolLasts' => PoolLasts, TlbType',
         \A c \in Cpus : tlb'[c] \subseteq tlb[c]
  PROVE  TlbInv'
<1>1. CachedRightsGranted'
  <2> SUFFICES ASSUME PoolLasts', NEW c \in Cpus, NEW x \in tlb'[c], NEW a \in x.perm
               PROVE  Granted(x.page, a)'
    BY DEF CachedRightsGranted
  <2>1. x \in tlb[c] /\ PoolLasts /\ TypeOK /\ TreeOK
    BY DEF TlbInv, IInv
  <2>2. Granted(x.page, a)
    BY <2>1 DEF TlbInv, CachedRightsGranted
  <2>3. x.page \in Page
    BY <2>1, MapAssumption DEF TlbInv, TlbType, Translation
  <2>4. PICK p \in Page : p = x.page
    BY <2>3
  <2> QED BY <2>1, <2>2, <2>4, GrantedStays
<1>2. CachedRamIsRight'
  BY DEF TlbInv, CachedRamIsRight
<1> QED BY <1>1, <1>2 DEF TlbInv

\* A step of Ept keeps what EptProofs and EptCacheProofs say.
LEMMA TreeKeeps ==
  ASSUME IInv, CacheOK, [Next]_vars
  PROVE  IInv' /\ CacheOK' /\ EntriesGrow /\ (PoolLasts' => PoolLasts)
<1>1. TypeOK /\ LevelOK /\ LockOK /\ TreeOK
  BY DEF IInv
<1>2. IInv'
  BY <1>1, TypeStep, LockStep, TreePreserved DEF IInv
<1>3. CacheOK'
  BY <1>2, CacheStep
<1>4. EntriesGrow /\ (PoolLasts' => PoolLasts)
  BY <1>1, GrowStep, PoolStep
<1> QED BY <1>2, <1>3, <1>4

\* An exit for a page that the tree grants by now keeps it all, too: the
\* cached translation did not grant it, so the page is not RAM.
LEMMA StaleKeeps ==
  ASSUME TlbInv, NEW c \in Cpus, NEW p \in GuestPages, NEW a \in Rights, StaleViolation(c, p, a)
  PROVE  IInv' /\ CacheOK' /\ EntriesGrow /\ (PoolLasts' => PoolLasts)
<1>1. /\ TypeOK /\ LevelOK /\ LockOK /\ TreeOK /\ CacheOK
      /\ c \in Procs /\ c \in running /\ pc[c] = "idle" /\ p \in Page
      /\ pc' = [pc EXCEPT ![c] = "acquire"] /\ page' = [page EXCEPT ![c] = p]
      /\ UNCHANGED <<cnt, mem, lock, running, bootNext, lvl, cur, owner>>
  BY MapAssumption DEF StaleViolation, TlbInv, IInv, Procs
<1>2. \A d \in Procs : d # c => page'[d] = page[d] /\ pc'[d] = pc[d]
  BY <1>1 DEF TypeOK
<1>3. pc'[c] = "acquire" /\ page'[c] = p /\ "acquire" \notin Mapping /\ "acquire" \notin Holding
      /\ pc[c] \notin Mapping /\ pc[c] \notin Holding
  BY <1>1 DEF TypeOK, Mapping, Holding, Dead
<1>4. TypeOK'
  <2>1. pc' \in [Procs -> {"idle", "acquire"} \cup Holding] /\ page' \in [Procs -> Page]
    BY <1>1 DEF TypeOK
  <2>2. \A d \in Procs : pc'[d] \in Mapping => cur[d] \in TableFrames
    BY <1>1, <1>2, <1>3 DEF TypeOK
  <2> QED BY <1>1, <2>1, <2>2 DEF TypeOK
<1>5. LevelOK'
  BY <1>1, <1>2, <1>3 DEF LevelOK
<1>6. LockOK'
  <2>1. c # Boot /\ Cpus \subseteq Procs /\ Boot \in Procs
    BY CpuAssumption DEF Procs
  <2>2. pc'[Boot] = pc[Boot] /\ BootDone' = BootDone
    BY <1>1, <1>2, <2>1 DEF BootDone
  <2>3. \A d \in Cpus : (d \notin running => pc'[d] = "idle") /\ (pc'[d] \in Holding <=> lock = d)
    BY <1>1, <1>2, <1>3, <2>1 DEF LockOK
  <2> QED BY <1>1, <2>2, <2>3 DEF LockOK
<1>7. TreeOK'
  BY <1>1, <1>2, <1>3, <1>4, ControlStep
<1>8. PoolLasts => p \notin Ram
  <2> SUFFICES ASSUME PoolLasts, p \in Ram PROVE FALSE
    OBVIOUS
  <2>1. PICK x \in tlb[c] : x.page = p /\ a \notin x.perm
    BY DEF StaleViolation
  <2>2. x.perm = Rights
    BY <2>1 DEF TlbInv, CachedRamIsRight
  <2> QED BY <2>1, <2>2
<1>9. CacheOK'
  BY <1>1, <1>2, <1>3, <1>8, OutsideStep
<1>10. EntriesGrow
  BY <1>1 DEF EntriesGrow
<1>11. PoolLasts' => PoolLasts
  BY <1>1, <1>2, <1>3 DEF PoolLasts
<1> QED BY <1>4, <1>5, <1>6, <1>7, <1>9, <1>10, <1>11 DEF IInv

\* Nothing is cached at first.
LEMMA TlbStart == TlbInit => TlbInv
<1> SUFFICES ASSUME TlbInit PROVE TlbInv
  OBVIOUS
<1>1. Init /\ tlb = [c \in Cpus |-> {}]
  BY DEF TlbInit
<1>2. IInv /\ CacheOK
  BY <1>1, TypeInit, LockInit, TreeInit, CacheInit DEF IInv
<1>3. TlbType /\ CachedRightsGranted /\ CachedRamIsRight
  BY <1>1 DEF TlbType, CachedRightsGranted, CachedRamIsRight
<1> QED BY <1>2, <1>3 DEF TlbInv

\* A walk caches what the tree says at that moment.
LEMMA FillStep ==
  ASSUME TlbInv, NEW c \in Cpus, NEW p \in GuestPages, Fill(c, p)
  PROVE  TlbInv'
<1>1. /\ c \in running /\ Walk(p).perm # {} /\ UNCHANGED vars
      /\ tlb' = [tlb EXCEPT ![c] = {Walk(p)}]
      /\ IInv /\ CacheOK /\ TypeOK
  BY DEF Fill, TlbInv, IInv
<1>2. IInv' /\ CacheOK' /\ EntriesGrow /\ (PoolLasts' => PoolLasts)
  BY <1>1, TreeKeeps
<1>3. Walk(p) \in Translation
  BY <1>1, WalkType
<1>4. TlbType'
  BY <1>1, <1>3 DEF TlbInv, TlbType
<1>5. \A d \in Cpus : \A x \in tlb'[d] : x \in tlb[d] \/ x = Walk(p)
  BY <1>1 DEF TlbInv, TlbType
<1>6. CachedRightsGranted'
  <2> SUFFICES ASSUME PoolLasts', NEW d \in Cpus, NEW x \in tlb'[d], NEW a \in x.perm
               PROVE  Granted(x.page, a)'
    BY DEF CachedRightsGranted
  <2>1. PoolLasts /\ TypeOK /\ TreeOK
    BY <1>2 DEF TlbInv, IInv
  <2>2. Granted(x.page, a)
    <3>1. CASE x \in tlb[d]
      BY <2>1, <3>1 DEF TlbInv, CachedRightsGranted
    <3>2. CASE x = Walk(p)
      BY <3>2 DEF Walk
    <3> QED BY <1>5, <3>1, <3>2
  <2>3. x.page \in Page
    BY <1>4, MapAssumption DEF TlbType, Translation
  <2>4. PICK q \in Page : q = x.page
    BY <2>3
  <2> QED BY <1>2, <2>1, <2>2, <2>4, GrantedStays
<1>7. CachedRamIsRight'
  <2> SUFFICES ASSUME PoolLasts', NEW d \in Cpus, NEW x \in tlb'[d]
               PROVE  IF x.page \in Ram
                      THEN x = [page |-> x.page, perm |-> Rights, frame |-> x.page, mt |-> "WB"]
                      ELSE x.frame \in {x.page, ZeroPage} /\ x.mt = "UC"
    BY DEF CachedRamIsRight
  <2>1. PoolLasts
    BY <1>2
  <2>2. CASE x \in tlb[d]
    BY <2>1, <2>2 DEF TlbInv, CachedRamIsRight
  <2>3. CASE x = Walk(p)
    <3>1. x.page = p
      BY <2>3 DEF Walk
    <3> QED BY <1>1, <2>1, <2>3, <3>1, WalkRight
  <2> QED BY <1>5, <2>2, <2>3
<1> QED BY <1>2, <1>4, <1>6, <1>7 DEF TlbInv

\* Every step keeps the invariant.
LEMMA TlbStep ==
  ASSUME TlbInv, [TlbNext]_tlbVars
  PROVE  TlbInv'
<1>1. IInv /\ CacheOK /\ TlbType
  BY DEF TlbInv
<1>2. ASSUME [Next]_vars \/ \E c \in Cpus, p \in GuestPages, a \in Rights : StaleViolation(c, p, a),
             TlbType', \A c \in Cpus : tlb'[c] \subseteq tlb[c]
      PROVE  TlbInv'
  <2>1. IInv' /\ CacheOK' /\ EntriesGrow /\ (PoolLasts' => PoolLasts)
    BY <1>1, <1>2, TreeKeeps, StaleKeeps
  <2> QED BY <1>2, <2>1, CachedStays
<1>3. CASE TreeStep
  <2>1. Next /\ UNCHANGED tlb
    BY <1>3 DEF TreeStep, Next
  <2> QED BY <1>1, <1>2, <2>1 DEF TlbType
<1>4. CASE UNCHANGED tlbVars
  BY <1>1, <1>2, <1>4 DEF tlbVars, vars, TlbType
<1>5. ASSUME NEW c \in Cpus, Evict(c)
      PROVE  TlbInv'
  BY <1>1, <1>2, <1>5 DEF Evict, TlbType
<1>6. ASSUME NEW c \in Cpus, NEW p \in GuestPages, Fill(c, p)
      PROVE  TlbInv'
  BY <1>6, FillStep
<1>7. ASSUME NEW c \in Cpus, NEW p \in GuestPages, Forget(c, p)
      PROVE  TlbType' /\ \A d \in Cpus : tlb'[d] \subseteq tlb[d]
  BY <1>1, <1>7 DEF Forget, TlbType
<1>8. ASSUME NEW c \in Cpus, NEW p \in GuestPages, NEW a \in Rights,
             TlbViolation(c, p, a) \/ StaleViolation(c, p, a)
      PROVE  TlbInv'
  <2>1. Forget(c, p) /\ (Violation(c, p, a) \/ StaleViolation(c, p, a))
    BY <1>8 DEF TlbViolation, StaleViolation
  <2>2. Violation(c, p, a) => Next
    BY DEF Next
  <2> QED BY <1>2, <1>7, <2>1, <2>2
<1> QED BY <1>3, <1>4, <1>5, <1>6, <1>8 DEF TlbNext

-----------------------------------------------------------------------------
(* Theorems.                                                               *)

\* TlbInv holds in every state, also of a system whose processors cache what
\* they walk and exit for what they have cached.
THEOREM TlbInvariance == TlbSpec => []TlbInv
<1>1. TlbInit => TlbInv
  BY TlbStart
<1>2. TlbInv /\ [TlbNext]_tlbVars => TlbInv'
  BY TlbStep
<1> QED BY <1>1, <1>2, PTL DEF TlbSpec

\* Rights need no INVEPT: while the pool lasts, what a processor has cached is
\* granted, however long ago it was read (ept.c:247-272).
THEOREM RightsNeedNoInvept == TlbSpec => []CachedRightsGranted
<1>1. TlbInv => CachedRightsGranted
  BY DEF TlbInv
<1> QED BY <1>1, TlbInvariance, PTL

\* While the pool lasts, every cached translation of a page of RAM is the
\* page itself, with all rights and write-back; of any other page it is the
\* page or page 0, uncached (ept.c:247-280, 320, 507).
THEOREM CachedRamStaysRight == TlbSpec => []CachedRamIsRight
<1>1. TlbInv => CachedRamIsRight
  BY DEF TlbInv
<1> QED BY <1>1, TlbInvariance, PTL

\* What is proved of Ept holds also when processors exit because of what they
\* have cached and not of what the tree says: such an exit is a step that Ept
\* does not have.
THEOREM TreeSafeWithCaches ==
  TlbSpec => [](/\ TypeOK /\ OneWriter /\ TablesNotShared /\ LookupFinds
                /\ SettledIdentity /\ RamIsCached)
<1>1. TlbInv => TypeOK /\ OneWriter /\ TablesNotShared /\ LookupFinds
  BY LockMeansOne DEF TlbInv, IInv, TreeOK, PositionOK, LookupFinds
<1>2. TlbInv => SettledIdentity /\ RamIsCached
  BY IdentityHolds, RamCached DEF TlbInv
<1> QED BY <1>1, <1>2, TlbInvariance, PTL
=============================================================================
