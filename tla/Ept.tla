--------------------------------- MODULE Ept ---------------------------------
(***************************************************************************)
(* The extended page table of the hypervisor (ept.c): one four-level tree  *)
(* shared by all processors, filled once by Ept11mapping before any        *)
(* processor is virtualised and afterwards on demand, by the EPT-violation *)
(* handler of whichever processor touched an unmapped page.                *)
(*                                                                         *)
(* The tree is built by EptMapPage from a pool of zeroed pages that is     *)
(* never refilled.  Every store EptMapPage makes to an entry is a step of  *)
(* its own: the callers exclude each other with g_EptSpinLock, but the     *)
(* page walker of another processor takes no lock and may read the tree    *)
(* between any two stores.                                                 *)
(***************************************************************************)
EXTENDS Naturals, Sequences, FiniteSets

CONSTANTS
  Cpus,        \* the processors, each of which may run EptViolation
  Boot,        \* the thread that runs InitEptTable inside DriverEntry
  Free,        \* the value of g_EptSpinLock when nobody holds it
  Null,        \* the NULL that g_ept.pages holds beyond the pool
  Unused,      \* the owner of a pool page that is not part of the tree
  Fanout,      \* entries of a table, 512 in the code
  NumPages,    \* g_EptNumberOfPages, the size of the pool
  Pml4Phys,    \* g_ept.pml4_phys
  PagesPhys,   \* g_ept.pages_phys, the physical page of each pool page
  BootMap,     \* the pages Ept11mapping maps, in the order it maps them
  GuestPages   \* the guest-physical pages that the guest may touch

Index == 0 .. Fanout - 1

\* EPT_PHYSICAL_ADDRESS without its offset: the four table indices.
Page == Index \X Index \X Index \X Index

ZeroPage == <<0, 0, 0, 0>>

Rights == {"R", "W", "X"}
CacheType == {"UC", "WB"}
Entry == [perm : SUBSET Rights, frame : Page, mt : CacheType]

\* A zeroed entry.  CACHE_TYPE_UC is 0.
ZeroEntry == [perm |-> {}, frame |-> ZeroPage, mt |-> "UC"]

PoolFrames == {PagesPhys[i] : i \in 0 .. NumPages - 1}
TableFrames == {Pml4Phys} \cup PoolFrames
Procs == Cpus \cup {Boot}

\* The pages Ept11mapping maps.
Ram == {BootMap[i] : i \in 1 .. Len(BootMap)}

ASSUME CpuAssumption ==
  /\ Boot \notin Cpus
  /\ Free \notin Procs

ASSUME SizeAssumption ==
  /\ Fanout \in Nat \ {0}
  /\ NumPages \in Nat

\* MmAllocateNonCachedMemory returns distinct pages, never physical page 0.
ASSUME PoolAssumption ==
  /\ Pml4Phys \in Page \ {ZeroPage}
  /\ PagesPhys \in [0 .. NumPages - 1 -> Page \ {ZeroPage, Pml4Phys}]
  /\ \A i, j \in 0 .. NumPages - 1 : PagesPhys[i] = PagesPhys[j] => i = j

ASSUME MapAssumption ==
  /\ BootMap \in Seq(Page)
  /\ GuestPages \subseteq Page
  /\ Null \notin Page

ASSUME OwnerAssumption == Unused \notin [level : 1 .. 4, base : Page]

-----------------------------------------------------------------------------

VARIABLES
  cnt,       \* Ept->cnt, the number of pool pages handed out
  mem,       \* the contents of the root table and of the pool pages
  lock,      \* g_EptSpinLock
  running,   \* the processors that VMLAUNCH has turned into guests
  bootNext,  \* the next page of BootMap
  pc,        \* where each process stands in EptMapPage
  page,      \* its GuestPhys
  lvl,       \* the level whose entry it works on: 1 PML4 ... 4 PT
  cur,       \* the table it works on: pPml4eTable, pPdpteTable, ...
  owner      \* history: the part of the tree each page serves as

vars == <<cnt, mem, lock, running, bootNext, pc, page, lvl, cur, owner>>

-----------------------------------------------------------------------------
(* The tree as the page walker of a processor sees it.                     *)

\* What is read through a frame that is no table of the hypervisor's is
\* arbitrary memory; the worst case is an entry that grants everything.
Stray == [perm |-> Rights, frame |-> ZeroPage, mt |-> "WB"]
EntryAt(t, i) == IF t \in TableFrames THEN mem[t][i] ELSE Stray

Pml4e(p) == EntryAt(Pml4Phys, p[1])
Pdpte(p) == EntryAt(Pml4e(p).frame, p[2])
Pde(p)   == EntryAt(Pdpte(p).frame, p[3])
Pte(p)   == EntryAt(Pde(p).frame, p[4])

\* An access succeeds when every level of the walk grants it.
Granted(p, a) ==
  /\ a \in Pml4e(p).perm
  /\ a \in Pdpte(p).perm
  /\ a \in Pde(p).perm
  /\ a \in Pte(p).perm

-----------------------------------------------------------------------------
(* The pool.                                                               *)

\* Ept->pages_phys[n]: the array is static, so zero beyond the pool.
PhysAt(n) == IF n < NumPages THEN PagesPhys[n] ELSE ZeroPage

\* Mutant: FindVirtualAddress stops one page early.
LookupShort(f, n) ==
  IF f \in {PhysAt(i) : i \in 0 .. n - 2}
  THEN IF f \in PoolFrames THEN "table" ELSE "null"
  ELSE "bugcheck"

\* FindVirtualAddress: the page whose physical address is f among the
\* first n of the pool, NULL when the match lies beyond the pool, and the
\* bug check when there is no match.
Lookup(f, n) ==
  IF f \in {PhysAt(i) : i \in 0 .. n - 1}
  THEN IF f \in PoolFrames THEN "table" ELSE "null"
  ELSE "bugcheck"

\* The first page of the region that a table of level k + 1 on the way to
\* p maps.
Base(p, k) == << IF k >= 1 THEN p[1] ELSE 0, IF k >= 2 THEN p[2] ELSE 0,
                 IF k >= 3 THEN p[3] ELSE 0, 0 >>

-----------------------------------------------------------------------------

Init ==
  /\ cnt = 0
  /\ mem = [t \in TableFrames |-> [i \in Index |-> ZeroEntry]]
  /\ lock = Free
  /\ running = {}
  /\ bootNext = 1
  /\ pc = [c \in Procs |-> "idle"]
  /\ page = [c \in Procs |-> ZeroPage]
  /\ lvl = [c \in Procs |-> 1]
  /\ cur = [c \in Procs |-> Pml4Phys]
  /\ owner = [t \in TableFrames |->
                IF t = Pml4Phys THEN [level |-> 1, base |-> ZeroPage] ELSE Unused]

\* The entry that process c works on, and its update.
Slot(c) == mem[cur[c]][page[c][lvl[c]]]
SetSlot(c, e) == mem' = [mem EXCEPT ![cur[c]][page[c][lvl[c]]] = e]

\* Mutant: the driver launches between two pages of Ept11mapping.
BootIdle == pc[Boot] = "idle"

BootDone == bootNext > Len(BootMap) /\ pc[Boot] = "idle"

\* The iterations of EptMapRage under Ept11mapping: a call of EptMapPage
\* without a spin lock for every page.
BootPage ==
  /\ pc[Boot] = "idle"
  /\ bootNext <= Len(BootMap)
  /\ bootNext' = bootNext + 1
  /\ page' = [page EXCEPT ![Boot] = BootMap[bootNext]]
  /\ pc' = [pc EXCEPT ![Boot] = "test"]
  /\ lvl' = [lvl EXCEPT ![Boot] = 1]
  /\ cur' = [cur EXCEPT ![Boot] = Pml4Phys]
  /\ UNCHANGED <<cnt, mem, lock, running, owner>>

\* EnterVMM runs after InitEptTable has returned: VMLAUNCH on processor c.
Launch(c) ==
  /\ BootDone
  /\ c \notin running
  /\ running' = running \cup {c}
  /\ UNCHANGED <<cnt, mem, lock, bootNext, pc, page, lvl, cur, owner>>

\* The guest on c makes an access the tree does not grant: the processor
\* exits, HandleEptViolation reads the address and calls EptViolation.
Violation(c, p, a) ==
  /\ c \in running
  /\ pc[c] = "idle"
  /\ ~Granted(p, a)
  /\ pc' = [pc EXCEPT ![c] = "acquire"]
  /\ page' = [page EXCEPT ![c] = p]
  /\ UNCHANGED <<cnt, mem, lock, running, bootNext, lvl, cur, owner>>

-----------------------------------------------------------------------------
(* EptMapPage, run by process c.                                           *)

\* Mutant: EptViolation passes no spin lock.
AcquireUnlocked(c) ==
  /\ pc[c] = "acquire"
  /\ lock' = c
  /\ pc' = [pc EXCEPT ![c] = "test"]
  /\ lvl' = [lvl EXCEPT ![c] = 1]
  /\ cur' = [cur EXCEPT ![c] = Pml4Phys]
  /\ UNCHANGED <<cnt, mem, running, bootNext, page, owner>>

\* KeAcquireSpinLock.
Acquire(c) ==
  /\ pc[c] = "acquire"
  /\ lock = Free
  /\ lock' = c
  /\ pc' = [pc EXCEPT ![c] = "test"]
  /\ lvl' = [lvl EXCEPT ![c] = 1]
  /\ cur' = [cur EXCEPT ![c] = Pml4Phys]
  /\ UNCHANGED <<cnt, mem, running, bootNext, page, owner>>

\* Mutant: one level too many is walked.
FollowDeep(c, f, n) ==
  /\ pc' = [pc EXCEPT ![c] =
              CASE Lookup(f, n) = "table" -> IF lvl[c] = 4 THEN "leaf" ELSE "test"
                [] Lookup(f, n) = "null" -> "fault"
                [] OTHER -> "bugcheck"]
  /\ cur' = [cur EXCEPT ![c] = IF Lookup(f, n) = "table" THEN f ELSE Null]
  /\ lvl' = [lvl EXCEPT ![c] = @ + 1]

\* FindVirtualAddress on the frame of the current entry, with n pages in
\* use, and the move to the table it returns.
Follow(c, f, n) ==
  /\ pc' = [pc EXCEPT ![c] =
              CASE Lookup(f, n) = "table" -> IF lvl[c] = 3 THEN "leaf" ELSE "test"
                [] Lookup(f, n) = "null" -> "fault"
                [] OTHER -> "bugcheck"]
  /\ cur' = [cur EXCEPT ![c] = IF Lookup(f, n) = "table" THEN f ELSE Null]
  /\ lvl' = [lvl EXCEPT ![c] = @ + 1]

\* The entry is present: go down.
Descend(c) ==
  /\ pc[c] = "test"
  /\ "R" \in Slot(c).perm
  /\ Follow(c, Slot(c).frame, cnt)
  /\ UNCHANGED <<cnt, mem, lock, running, bootNext, page, owner>>

\* The entry is absent: point it at the next pool page ...
LinkFrame(c) ==
  /\ pc[c] = "test"
  /\ "R" \notin Slot(c).perm
  /\ SetSlot(c, [Slot(c) EXCEPT !.frame = PhysAt(cnt)])
  /\ owner' = IF cnt < NumPages
              THEN [owner EXCEPT ![PagesPhys[cnt]] =
                      [level |-> lvl[c] + 1, base |-> Base(page[c], lvl[c])]]
              ELSE owner
  /\ pc' = [pc EXCEPT ![c] = "grant"]
  /\ UNCHANGED <<cnt, lock, running, bootNext, page, lvl, cur>>

\* The stores of Read, Write and Execute, in this order.
AddRight(perm) ==
  CASE "R" \notin perm -> perm \cup {"R"}
    [] "R" \in perm /\ "W" \notin perm -> perm \cup {"W"}
    [] OTHER -> perm \cup {"X"}

\* Mutant: an entry is cleared before its rights are stored again.
AddRightAnew(perm) == IF perm = Rights THEN {"R"} ELSE AddRight(perm)

\* ... grant all accesses through it ...
LinkGrant(c) ==
  /\ pc[c] = "grant"
  /\ SetSlot(c, [Slot(c) EXCEPT !.perm = AddRight(@)])
  /\ pc' = [pc EXCEPT ![c] = IF AddRight(Slot(c).perm) = Rights THEN "bump" ELSE "grant"]
  /\ UNCHANGED <<cnt, lock, running, bootNext, page, lvl, cur, owner>>

\* Mutants: Ept->cnt++ is lost, or done twice.
LinkBumpLost(c) ==
  /\ pc[c] = "bump"
  /\ Follow(c, Slot(c).frame, cnt + 1)
  /\ UNCHANGED <<cnt, mem, lock, running, bootNext, page, owner>>
LinkBumpTwice(c) ==
  /\ pc[c] = "bump"
  /\ cnt' = cnt + 2
  /\ Follow(c, Slot(c).frame, cnt + 1)
  /\ UNCHANGED <<mem, lock, running, bootNext, page, owner>>

\* ... count the page as used, and go down.
LinkBump(c) ==
  /\ pc[c] = "bump"
  /\ cnt' = cnt + 1
  /\ Follow(c, Slot(c).frame, cnt + 1)
  /\ UNCHANGED <<mem, lock, running, bootNext, page, owner>>

\* Mutant: the rights of a PTE are cleared before they are stored again.
LeafGrantAnew(c) ==
  /\ pc[c] = "leaf"
  /\ SetSlot(c, [Slot(c) EXCEPT !.perm = AddRightAnew(@)])
  /\ pc' = [pc EXCEPT ![c] = IF AddRightAnew(Slot(c).perm) = Rights THEN "frame" ELSE "leaf"]
  /\ UNCHANGED <<cnt, lock, running, bootNext, page, lvl, cur, owner>>

\* The PTE: Read, Write and Execute first (Access is always RWX) ...
LeafGrant(c) ==
  /\ pc[c] = "leaf"
  /\ SetSlot(c, [Slot(c) EXCEPT !.perm = AddRight(@)])
  /\ pc' = [pc EXCEPT ![c] = IF AddRight(Slot(c).perm) = Rights THEN "frame" ELSE "leaf"]
  /\ UNCHANGED <<cnt, lock, running, bootNext, page, lvl, cur, owner>>

\* Mutant: IgnoreHostPhys is TRUE.
LeafFrameIgnored(c) ==
  /\ pc[c] = "frame"
  /\ pc' = [pc EXCEPT ![c] = "type"]
  /\ UNCHANGED <<cnt, mem, lock, running, bootNext, page, lvl, cur, owner>>

\* ... then PageFrameNumber (HostPhys = GuestPhys) ...
LeafFrame(c) ==
  /\ pc[c] = "frame"
  /\ SetSlot(c, [Slot(c) EXCEPT !.frame = page[c]])
  /\ pc' = [pc EXCEPT ![c] = "type"]
  /\ UNCHANGED <<cnt, lock, running, bootNext, page, lvl, cur, owner>>

\* Mutant: every caller passes CACHE_TYPE_WB.
LeafTypeCached(c) ==
  /\ pc[c] = "type"
  /\ SetSlot(c, [Slot(c) EXCEPT !.mt = "WB"])
  /\ pc' = [pc EXCEPT ![c] = IF c = Boot THEN "idle" ELSE "release"]
  /\ UNCHANGED <<cnt, lock, running, bootNext, page, lvl, cur, owner>>

\* ... and MemoryType: WB from Ept11mapping, UC from EptViolation.
LeafType(c) ==
  /\ pc[c] = "type"
  /\ SetSlot(c, [Slot(c) EXCEPT !.mt = IF c = Boot THEN "WB" ELSE "UC"])
  /\ pc' = [pc EXCEPT ![c] = IF c = Boot THEN "idle" ELSE "release"]
  /\ UNCHANGED <<cnt, lock, running, bootNext, page, lvl, cur, owner>>

\* Mutant: the lock is not released.
ReleaseForgotten(c) ==
  /\ pc[c] = "release"
  /\ pc' = [pc EXCEPT ![c] = "idle"]
  /\ UNCHANGED <<cnt, mem, lock, running, bootNext, page, lvl, cur, owner>>

\* KeReleaseSpinLock, and VMRESUME: the guest repeats the access.
Release(c) ==
  /\ pc[c] = "release"
  /\ lock' = Free
  /\ pc' = [pc EXCEPT ![c] = "idle"]
  /\ UNCHANGED <<cnt, mem, running, bootNext, page, lvl, cur, owner>>

MapStep(c) ==
  \/ Descend(c) \/ LinkFrame(c) \/ LinkGrant(c) \/ LinkBump(c)
  \/ LeafGrant(c) \/ LeafFrame(c) \/ LeafType(c)

Next ==
  \/ BootPage
  \/ \E c \in Procs : MapStep(c)
  \/ \E c \in Cpus :
       \/ Launch(c)
       \/ \E p \in GuestPages, a \in Rights : Violation(c, p, a)
       \/ Acquire(c)
       \/ Release(c)

Spec == Init /\ [][Next]_vars

\* A processor in VMX root runs its exit handler with interrupts disabled,
\* so nothing preempts it; DriverEntry's thread is scheduled eventually.
Fairness ==
  /\ WF_vars(BootPage)
  /\ \A c \in Procs : WF_vars(MapStep(c))
  /\ \A c \in Cpus : WF_vars(Acquire(c)) /\ WF_vars(Release(c))

FairSpec == Spec /\ Fairness

-----------------------------------------------------------------------------
(* Correctness.                                                            *)

\* Inside EptMapPage, after the lock was taken.
Mapping == {"test", "grant", "bump", "leaf", "frame", "type"}
Dead == {"fault", "bugcheck"}
Holding == Mapping \cup Dead \cup {"release"}

\* Every variable has its type, and a process that is about to use a table
\* has one.
TypeOK ==
  /\ cnt \in Nat
  /\ mem \in [TableFrames -> [Index -> Entry]]
  /\ lock \in Cpus \cup {Free}
  /\ running \in SUBSET Cpus
  /\ bootNext \in Nat \ {0}
  /\ pc \in [Procs -> {"idle", "acquire"} \cup Holding]
  /\ page \in [Procs -> Page]
  /\ lvl \in [Procs -> 1 .. 4]
  /\ cur \in [Procs -> TableFrames \cup {Null}]
  /\ \A c \in Procs : pc[c] \in Mapping => cur[c] \in TableFrames
  /\ owner \in [TableFrames -> [level : 1 .. 4, base : Page] \cup {Unused}]

\* The tree has one writer at a time although Ept11mapping passes no lock
\* (ept.c:316, SpinLock is NULL) and EptViolation does (ept.c:507).
OneWriter ==
  \A c, d \in Procs :
    pc[c] \in Holding /\ pc[d] \in Holding => c = d

\* The pool has had a page for every table that was linked: cnt++ (ept.c:204,
\* 220, 237), which nothing compares with the size of g_ept.pages, stays
\* within it, however the processors interleave.
PoolLasts ==
  /\ cnt <= NumPages
  /\ \A c \in Procs : pc[c] \in {"grant", "bump"} => cnt < NumPages

\* Entry i of table t points to a table: it is present and above the leaves.
IsLink(t, i) ==
  /\ owner[t] # Unused
  /\ owner[t].level <= 3
  /\ "R" \in mem[t][i].perm

\* As long as the pool lasts, no two entries of the tree point to the same
\* table and no entry points back to the root: cnt++ (ept.c:204, 220, 237)
\* hands every pool page out once, whatever the processors interleave.
TablesNotShared ==
  PoolLasts =>
    \A t, u \in TableFrames : \A i, j \in Index :
      IsLink(t, i) /\ IsLink(u, j) =>
        /\ mem[t][i].frame # Pml4Phys
        /\ mem[t][i].frame = mem[u][j].frame => t = u /\ i = j

\* FindVirtualAddress (ept.c:119-139) never reaches "should not be here",
\* and it returns NULL, which EptMapPage then dereferences, only after more
\* pages were handed out than the pool has.
LookupFinds ==
  \A c \in Procs :
    /\ pc[c] # "bugcheck"
    /\ pc[c] = "fault" => cnt > NumPages

\* The tables that the pages mapped so far need below the root: one for
\* every prefix of their indices.
Demand(P) == Cardinality({Base(p, 1) : p \in P})
             + Cardinality({Base(p, 2) : p \in P})
             + Cardinality({Base(p, 3) : p \in P})
Mapped == {p \in Page : \A a \in Rights : Granted(p, a)}

\* Between two calls of EptMapPage the pool pages handed out are exactly
\* those the mapped pages need, so CountForPages is a bound on cnt: no
\* interleaving of two violations wastes or loses a table.
CntIsDemand ==
  (\A c \in Procs : pc[c] \notin Holding) => cnt = Demand(Mapped)

\* What a walk of the tree reaches is the page it started from ("11mapping",
\* ept.c:320, and GuestPhys passed twice, ept.c:507), except for a page whose
\* entry some processor is writing: the only one a walk can get wrong.
SettledIdentity ==
  PoolLasts =>
    \A p \in GuestPages, a \in Rights :
      Granted(p, a) =>
        \/ Pte(p).frame = p
        \/ \E c \in Procs : pc[c] \in {"leaf", "frame"} /\ page[c] = p

\* As long as the pool lasts, a page is cached as RAM exactly when
\* Ept11mapping mapped it: no violation, however late it gets the lock, turns
\* RAM uncached or makes device memory cached.
RamIsCached ==
  PoolLasts /\ BootDone =>
    \A p \in Mapped : (Pte(p).mt = "WB") <=> p \in Ram

\* A processor that exited on a violation comes back to the guest with the
\* page mapped: it gets the lock, however the others contend for it.
ViolationResolved ==
  \A c \in Cpus, p \in GuestPages :
    (pc[c] = "acquire" /\ page[c] = p) ~> (pc[c] = "idle" /\ p \in Mapped)

-----------------------------------------------------------------------------
(* The tree implements EptMapping.                                         *)

\* A page is mapped once a walk through tables of the hypervisor reaches its
\* own number with all rights; RAM, once it has its cache type too (nobody
\* walks the tree between the two stores, because no guest runs yet).
MapOf(p) ==
  IF /\ Pde(p).frame \in TableFrames
     /\ p \in Mapped
     /\ Pte(p).frame = p
     /\ p \in Ram => Pte(p).mt = "WB"
  THEN Pte(p).mt ELSE "none"

Promise == INSTANCE EptMapping WITH
  NoPage <- Null,
  map <- [p \in Page |-> MapOf(p)],
  started <- running # {},
  wants <- [c \in Cpus |-> IF pc[c] = "idle" THEN Null ELSE page[c]]

\* With a pool that suffices, the stores, the lock and the table walks of
\* ept.c do what EptMapping promises: RAM before the first guest, each other
\* page on demand, each once and for all to itself, and no processor goes on
\* before it has its page.
KeepsPromise == Promise!Spec
=============================================================================
