------------------------------ MODULE EptProofs ------------------------------
(* Theorems about Ept for any number of processors, tables of any size and  *)
(* pools of any size.                                                       *)
EXTENDS Ept, TLAPS

-----------------------------------------------------------------------------
(* Facts about the operators Ept is built from.                            *)

\* Page 0 is a page.
LEMMA ZeroPageType == ZeroPage \in Page
BY SizeAssumption DEF ZeroPage, Page, Index

\* A page has an index at each of the four levels.
LEMMA PageIndex ==
  ASSUME NEW p \in Page, NEW k \in 1 .. 4
  PROVE  p[k] \in Index
<1>1. p[1] \in Index /\ p[2] \in Index /\ p[3] \in Index /\ p[4] \in Index
  BY DEF Page
<1>2. k = 1 \/ k = 2 \/ k = 3 \/ k = 4
  OBVIOUS
<1> QED BY <1>1, <1>2

\* The start of a region is a page.
LEMMA BaseType ==
  ASSUME NEW p \in Page, NEW k \in 0 .. 3
  PROVE  Base(p, k) \in Page
<1>1. p[1] \in Index /\ p[2] \in Index /\ p[3] \in Index /\ 0 \in Index
  BY SizeAssumption DEF Page, Index
<1> QED BY <1>1 DEF Base, Page

\* What pages_phys holds is a page, also beyond the pool.
LEMMA PhysAtType ==
  ASSUME NEW n \in Nat
  PROVE  PhysAt(n) \in Page
BY PoolAssumption, SizeAssumption, ZeroPageType DEF PhysAt

\* A zeroed entry is an entry, and the three stores of rights keep one.
LEMMA ZeroEntryType == ZeroEntry \in Entry
BY ZeroPageType DEF ZeroEntry, Entry, Rights, CacheType

\* The three stores of rights keep a set of rights.
LEMMA AddRightType ==
  ASSUME NEW perm \in SUBSET Rights
  PROVE  AddRight(perm) \in SUBSET Rights
BY DEF AddRight, Rights

\* FindVirtualAddress returns a table of the pool or none.
LEMMA LookupTable ==
  ASSUME NEW f, NEW n, Lookup(f, n) = "table"
  PROVE  f \in PoolFrames
BY DEF Lookup

-----------------------------------------------------------------------------
(* The inductive invariant.                                                *)

\* The three upper levels are walked before the leaf is written.
LevelOK ==
  \A c \in Procs :
    /\ pc[c] \in {"test", "grant", "bump"} => lvl[c] \in 1 .. 3
    /\ pc[c] \in {"leaf", "frame", "type"} => lvl[c] = 4

\* While Ept11mapping has pages left to map, or is mapping one, no guest
\* runs; a processor that runs no guest is outside EptMapPage; and the
\* processor in the critical section is the one that holds the lock.
LockOK ==
  /\ ~BootDone => running = {}
  /\ pc[Boot] \notin {"acquire", "release"}
  /\ \A c \in Cpus :
       /\ c \notin running => pc[c] = "idle"
       /\ pc[c] \in Holding <=> lock = c

\* A process that works on an entry finds an entry there.
LEMMA SlotType ==
  ASSUME TypeOK, NEW c \in Procs, pc[c] \in Mapping
  PROVE  /\ cur[c] \in TableFrames
         /\ page[c][lvl[c]] \in Index
         /\ Slot(c) \in Entry
<1>1. cur[c] \in TableFrames
  BY DEF TypeOK
<1>2. page[c] \in Page /\ lvl[c] \in 1 .. 4
  BY DEF TypeOK
<1>3. page[c][lvl[c]] \in Index
  BY <1>2, PageIndex
<1>4. mem \in [TableFrames -> [Index -> Entry]]
  BY DEF TypeOK
<1> QED BY <1>1, <1>3, <1>4 DEF Slot

\* Storing an entry leaves tables of entries.
LEMMA SetSlotType ==
  ASSUME TypeOK, NEW c \in Procs, pc[c] \in Mapping, NEW e \in Entry, SetSlot(c, e)
  PROVE  mem' \in [TableFrames -> [Index -> Entry]]
<1>1. cur[c] \in TableFrames /\ page[c][lvl[c]] \in Index
  BY SlotType
<1>2. mem \in [TableFrames -> [Index -> Entry]]
  BY DEF TypeOK
<1> QED BY <1>1, <1>2 DEF SetSlot

\* Types hold when InitEptTable has built the empty tree.
LEMMA TypeInit == Init => TypeOK /\ LevelOK
<1> SUFFICES ASSUME Init PROVE TypeOK /\ LevelOK
  OBVIOUS
<1>1. mem \in [TableFrames -> [Index -> Entry]]
  BY ZeroEntryType DEF Init
<1>2. owner \in [TableFrames -> [level : 1 .. 4, base : Page] \cup {Unused}]
  BY ZeroPageType DEF Init
<1>3. cur \in [Procs -> TableFrames \cup {Null}]
  BY DEF Init, TableFrames
<1> QED BY <1>1, <1>2, <1>3, ZeroPageType DEF Init, TypeOK, LevelOK, Mapping, Holding

\* Going down a level keeps what the walk relies on.
LEMMA FollowType ==
  ASSUME TypeOK, LevelOK, NEW c \in Procs, pc[c] \in {"test", "bump"},
         NEW f, NEW n, Follow(c, f, n)
  PROVE  /\ pc' \in [Procs -> {"idle", "acquire"} \cup Holding]
         /\ lvl' \in [Procs -> 1 .. 4]
         /\ cur' \in [Procs -> TableFrames \cup {Null}]
         /\ \A d \in Procs : pc'[d] \in Mapping => cur'[d] \in TableFrames
         /\ LevelOK'
<1>1. lvl[c] \in 1 .. 3
  BY DEF LevelOK
<1>2. PoolFrames \subseteq TableFrames
  BY DEF TableFrames
<1>3. CASE Lookup(f, n) = "table"
  <2>1. f \in TableFrames
    BY <1>2, <1>3, LookupTable
  <2>2. pc' = [pc EXCEPT ![c] = IF lvl[c] = 3 THEN "leaf" ELSE "test"]
    BY <1>3 DEF Follow
  <2>3. cur' = [cur EXCEPT ![c] = f] /\ lvl' = [lvl EXCEPT ![c] = lvl[c] + 1]
    BY <1>3 DEF Follow, TypeOK
  <2> QED BY <1>1, <2>1, <2>2, <2>3 DEF TypeOK, LevelOK, Mapping, Holding
<1>4. CASE Lookup(f, n) # "table"
  <2>1. /\ pc' = [pc EXCEPT ![c] = "fault"] \/ pc' = [pc EXCEPT ![c] = "bugcheck"]
        /\ cur' = [cur EXCEPT ![c] = Null]
        /\ lvl' = [lvl EXCEPT ![c] = lvl[c] + 1]
    BY <1>4 DEF Follow, TypeOK
  <2> QED BY <1>1, <2>1 DEF TypeOK, LevelOK, Mapping, Dead, Holding
<1> QED BY <1>3, <1>4

-----------------------------------------------------------------------------
(* Types are preserved, action by action.                                  *)

\* Types hold after any step.
LEMMA TypeStep ==
  ASSUME TypeOK, LevelOK, [Next]_vars
  PROVE  TypeOK' /\ LevelOK'
<1>1. CASE BootPage
  <2>1. BootMap[bootNext] \in Page
    BY <1>1, MapAssumption DEF BootPage, TypeOK
  <2>2. Boot \in Procs /\ Pml4Phys \in TableFrames
    BY DEF Procs, TableFrames
  <2> QED BY <1>1, <2>1, <2>2 DEF BootPage, TypeOK, LevelOK, Mapping, Holding
<1>2. ASSUME NEW c \in Procs, Descend(c)
      PROVE  TypeOK' /\ LevelOK'
  <2> QED BY <1>2, FollowType DEF Descend, TypeOK
<1>3. ASSUME NEW c \in Procs, LinkFrame(c)
      PROVE  TypeOK' /\ LevelOK'
  <2>1. pc[c] \in Mapping /\ lvl[c] \in 1 .. 3 /\ page[c] \in Page
    BY <1>3 DEF LinkFrame, Mapping, LevelOK, TypeOK
  <2>2. [Slot(c) EXCEPT !.frame = PhysAt(cnt)] \in Entry
    BY <2>1, SlotType, PhysAtType DEF Entry, TypeOK
  <2>3. mem' \in [TableFrames -> [Index -> Entry]]
    BY <1>3, <2>1, <2>2, SetSlotType DEF LinkFrame
  <2>4. Base(page[c], lvl[c]) \in Page
    BY <2>1, BaseType
  <2>5. [level |-> lvl[c] + 1, base |-> Base(page[c], lvl[c])] \in [level : 1 .. 4, base : Page]
    BY <2>1, <2>4
  <2>6. owner' \in [TableFrames -> [level : 1 .. 4, base : Page] \cup {Unused}]
    BY <1>3, <2>5 DEF LinkFrame, TypeOK
  <2> QED BY <1>3, <2>1, <2>3, <2>6 DEF LinkFrame, TypeOK, LevelOK, Mapping, Holding
<1>4. ASSUME NEW c \in Procs, LinkGrant(c)
      PROVE  TypeOK' /\ LevelOK'
  <2>1. pc[c] \in Mapping /\ lvl[c] \in 1 .. 3
    BY <1>4 DEF LinkGrant, Mapping, LevelOK
  <2>2. [Slot(c) EXCEPT !.perm = AddRight(@)] \in Entry
    BY <2>1, SlotType, AddRightType DEF Entry
  <2>3. mem' \in [TableFrames -> [Index -> Entry]]
    BY <1>4, <2>1, <2>2, SetSlotType DEF LinkGrant
  <2> QED BY <1>4, <2>1, <2>3 DEF LinkGrant, TypeOK, LevelOK, Mapping, Holding
<1>5. ASSUME NEW c \in Procs, LinkBump(c)
      PROVE  TypeOK' /\ LevelOK'
  <2> QED BY <1>5, FollowType DEF LinkBump, TypeOK
<1>6. ASSUME NEW c \in Procs, LeafGrant(c)
      PROVE  TypeOK' /\ LevelOK'
  <2>1. pc[c] \in Mapping /\ lvl[c] = 4
    BY <1>6 DEF LeafGrant, Mapping, LevelOK
  <2>2. [Slot(c) EXCEPT !.perm = AddRight(@)] \in Entry
    BY <2>1, SlotType, AddRightType DEF Entry
  <2>3. mem' \in [TableFrames -> [Index -> Entry]]
    BY <1>6, <2>1, <2>2, SetSlotType DEF LeafGrant
  <2> QED BY <1>6, <2>1, <2>3 DEF LeafGrant, TypeOK, LevelOK, Mapping, Holding
<1>7. ASSUME NEW c \in Procs, LeafFrame(c)
      PROVE  TypeOK' /\ LevelOK'
  <2>1. pc[c] \in Mapping /\ lvl[c] = 4 /\ page[c] \in Page
    BY <1>7 DEF LeafFrame, Mapping, LevelOK, TypeOK
  <2>2. [Slot(c) EXCEPT !.frame = page[c]] \in Entry
    BY <2>1, SlotType DEF Entry
  <2>3. mem' \in [TableFrames -> [Index -> Entry]]
    BY <1>7, <2>1, <2>2, SetSlotType DEF LeafFrame
  <2> QED BY <1>7, <2>1, <2>3 DEF LeafFrame, TypeOK, LevelOK, Mapping, Holding
<1>8. ASSUME NEW c \in Procs, LeafType(c)
      PROVE  TypeOK' /\ LevelOK'
  <2>1. pc[c] \in Mapping /\ lvl[c] = 4
    BY <1>8 DEF LeafType, Mapping, LevelOK
  <2>2. [Slot(c) EXCEPT !.mt = IF c = Boot THEN "WB" ELSE "UC"] \in Entry
    BY <2>1, SlotType DEF Entry, CacheType
  <2>3. mem' \in [TableFrames -> [Index -> Entry]]
    BY <1>8, <2>1, <2>2, SetSlotType DEF LeafType
  <2> QED BY <1>8, <2>1, <2>3 DEF LeafType, TypeOK, LevelOK, Mapping, Holding
<1>9. ASSUME NEW c \in Cpus, Launch(c)
      PROVE  TypeOK' /\ LevelOK'
  BY <1>9 DEF Launch, TypeOK, LevelOK
<1>10. ASSUME NEW c \in Cpus, NEW p \in GuestPages, NEW a \in Rights, Violation(c, p, a)
       PROVE  TypeOK' /\ LevelOK'
  <2>1. p \in Page
    BY MapAssumption
  <2> QED BY <1>10, <2>1 DEF Violation, TypeOK, LevelOK, Mapping, Holding
<1>11. ASSUME NEW c \in Cpus, Acquire(c)
       PROVE  TypeOK' /\ LevelOK'
  <2>1. c \in Procs /\ Pml4Phys \in TableFrames
    BY DEF Procs, TableFrames
  <2> QED BY <1>11, <2>1 DEF Acquire, TypeOK, LevelOK, Mapping, Holding
<1>12. ASSUME NEW c \in Cpus, Release(c)
       PROVE  TypeOK' /\ LevelOK'
  BY <1>12 DEF Release, TypeOK, LevelOK, Mapping, Holding
<1>13. CASE UNCHANGED vars
  BY <1>13 DEF vars, TypeOK, LevelOK
<1> QED
  BY <1>1, <1>2, <1>3, <1>4, <1>5, <1>6, <1>7, <1>8, <1>9, <1>10, <1>11, <1>12, <1>13
     DEF Next, MapStep

\* TypeOK holds in every state, for any number of processors, any fanout and
\* any pool: no process of EptMapPage ever works on a table it does not have.
THEOREM TypeCorrect == Spec => []TypeOK
<1>1. Init => TypeOK /\ LevelOK
  BY TypeInit
<1>2. TypeOK /\ LevelOK /\ [Next]_vars => (TypeOK /\ LevelOK)'
  BY TypeStep
<1> QED BY <1>1, <1>2, PTL DEF Spec

-----------------------------------------------------------------------------
(* The lock, and the order of boot and launch.                             *)

\* What a step of EptMapPage does to the control state: it moves one process
\* that is inside, which leaves only as the thread of DriverEntry.
LEMMA MapStepShape ==
  ASSUME TypeOK, NEW c \in Procs, MapStep(c)
  PROVE  /\ pc[c] \in Mapping
         /\ UNCHANGED <<lock, running, bootNext, page>>
         /\ \E x \in Mapping \cup Dead \cup {"release", "idle"} :
              /\ pc' = [pc EXCEPT ![c] = x]
              /\ c # Boot => x # "idle"
              /\ c = Boot => x # "release"
<1>1. CASE Descend(c)
  <2>1. pc[c] = "test" /\ UNCHANGED <<lock, running, bootNext, page>>
    BY <1>1 DEF Descend
  <2>2. \E x \in {"leaf", "test", "fault", "bugcheck"} : pc' = [pc EXCEPT ![c] = x]
    BY <1>1 DEF Descend, Follow
  <2> QED BY <2>1, <2>2 DEF Mapping, Dead
<1>2. CASE LinkFrame(c)
  BY <1>2 DEF LinkFrame, Mapping, Dead
<1>3. CASE LinkGrant(c)
  <2>1. pc[c] = "grant" /\ UNCHANGED <<lock, running, bootNext, page>>
    BY <1>3 DEF LinkGrant
  <2>2. \E x \in {"bump", "grant"} : pc' = [pc EXCEPT ![c] = x]
    BY <1>3 DEF LinkGrant
  <2> QED BY <2>1, <2>2 DEF Mapping, Dead
<1>4. CASE LinkBump(c)
  <2>1. pc[c] = "bump" /\ UNCHANGED <<lock, running, bootNext, page>>
    BY <1>4 DEF LinkBump
  <2>2. \E x \in {"leaf", "test", "fault", "bugcheck"} : pc' = [pc EXCEPT ![c] = x]
    BY <1>4 DEF LinkBump, Follow
  <2> QED BY <2>1, <2>2 DEF Mapping, Dead
<1>5. CASE LeafGrant(c)
  <2>1. pc[c] = "leaf" /\ UNCHANGED <<lock, running, bootNext, page>>
    BY <1>5 DEF LeafGrant
  <2>2. \E x \in {"frame", "leaf"} : pc' = [pc EXCEPT ![c] = x]
    BY <1>5 DEF LeafGrant
  <2> QED BY <2>1, <2>2 DEF Mapping, Dead
<1>6. CASE LeafFrame(c)
  BY <1>6 DEF LeafFrame, Mapping, Dead
<1>7. CASE LeafType(c)
  <2>1. pc[c] = "type" /\ UNCHANGED <<lock, running, bootNext, page>>
    BY <1>7 DEF LeafType
  <2>2. CASE c = Boot
    <3>1. pc' = [pc EXCEPT ![c] = "idle"]
      BY <1>7, <2>2 DEF LeafType
    <3>2. \E x \in {"idle"} : pc' = [pc EXCEPT ![c] = x]
      BY <3>1
    <3> QED BY <2>1, <2>2, <3>2, SMTT(30) DEF Mapping, Dead
  <2>3. CASE c # Boot
    <3>1. pc' = [pc EXCEPT ![c] = "release"]
      BY <1>7, <2>3 DEF LeafType
    <3> QED BY <2>1, <2>3, <3>1 DEF Mapping
  <2> QED BY <2>2, <2>3
<1> QED BY <1>1, <1>2, <1>3, <1>4, <1>5, <1>6, <1>7 DEF MapStep

\* The lock is free and no guest runs at first.
LEMMA LockInit == Init => LockOK
BY CpuAssumption DEF Init, LockOK, Holding, Mapping, Dead, Procs

\* A step keeps the discipline of the lock and of the two phases.
LEMMA LockStep ==
  ASSUME TypeOK, LockOK, [Next]_vars
  PROVE  LockOK'
<1> USE CpuAssumption DEF Procs
<1>1. CASE BootPage
  <2>1. running = {}
    BY <1>1 DEF BootPage, LockOK, BootDone, TypeOK
  <2> QED BY <1>1, <2>1 DEF BootPage, LockOK, BootDone, TypeOK, Holding, Mapping, Dead
<1>2. ASSUME NEW c \in Procs, MapStep(c)
      PROVE  LockOK'
  <2>1. /\ pc[c] \in Mapping
        /\ UNCHANGED <<lock, running, bootNext, page>>
    BY <1>2, MapStepShape
  <2>2. PICK x \in Mapping \cup Dead \cup {"release", "idle"} :
          /\ pc' = [pc EXCEPT ![c] = x]
          /\ c # Boot => x # "idle"
          /\ c = Boot => x # "release"
    BY <1>2, MapStepShape
  <2>3. pc \in [Procs -> {"idle", "acquire"} \cup Holding]
    BY DEF TypeOK
  <2>4. CASE c = Boot
    <3>1. running = {}
      BY <2>1, <2>4 DEF LockOK, BootDone, Mapping
    <3> QED BY <2>1, <2>2, <2>3, <2>4, <3>1 DEF LockOK, BootDone, Holding, Mapping, Dead
  <2>5. CASE c # Boot
    <3>1. c \in Cpus /\ x \in Holding /\ pc[c] \in Holding
      BY <2>1, <2>2, <2>5 DEF Holding
    <3>2. pc'[Boot] = pc[Boot]
      BY <2>2, <2>3, <2>5
    <3>3. pc[c] # "idle" /\ pc'[c] = x
      BY <2>1, <2>2, <2>3 DEF Mapping
    <3> QED BY <2>1, <2>2, <2>3, <3>1, <3>2, <3>3 DEF LockOK, BootDone
  <2> QED BY <2>4, <2>5
<1>3. ASSUME NEW c \in Cpus, Launch(c)
      PROVE  LockOK'
  BY <1>3 DEF Launch, LockOK, BootDone
<1>4. ASSUME NEW c \in Cpus, NEW p \in GuestPages, NEW a \in Rights, Violation(c, p, a)
      PROVE  LockOK'
  BY <1>4 DEF Violation, LockOK, BootDone, TypeOK, Holding, Mapping, Dead
<1>5. ASSUME NEW c \in Cpus, Acquire(c)
      PROVE  LockOK'
  BY <1>5 DEF Acquire, LockOK, BootDone, TypeOK, Holding, Mapping, Dead
<1>6. ASSUME NEW c \in Cpus, Release(c)
      PROVE  LockOK'
  BY <1>6 DEF Release, LockOK, BootDone, TypeOK, Holding, Mapping, Dead
<1>7. CASE UNCHANGED vars
  BY <1>7 DEF vars, LockOK, BootDone
<1> QED
  BY <1>1, <1>2, <1>3, <1>4, <1>5, <1>6, <1>7 DEF Next

\* The lock and the two phases leave room for one writer.
LEMMA LockMeansOne == TypeOK /\ LockOK => OneWriter
<1> SUFFICES ASSUME TypeOK, LockOK, NEW c \in Procs, NEW d \in Procs,
                    pc[c] \in Holding, pc[d] \in Holding, c # d
             PROVE  FALSE
  BY DEF OneWriter
<1>1. CASE c \in Cpus /\ d \in Cpus
  BY <1>1 DEF LockOK
<1>2. CASE c = Boot \/ d = Boot
  <2>1. running = {}
    BY <1>2 DEF LockOK, BootDone, Holding, Mapping, Dead
  <2> QED BY <1>2, <2>1 DEF LockOK, Procs, Holding, Mapping, Dead
<1> QED BY <1>1, <1>2 DEF Procs

\* The tree has one writer at a time: the spin lock for the processors, and
\* for Ept11mapping, which passes no lock, the fact that no guest runs before
\* InitEptTable has returned.
THEOREM WriterExclusion == Spec => []OneWriter
<1>1. Init => TypeOK /\ LevelOK /\ LockOK
  BY TypeInit, LockInit
<1>2. TypeOK /\ LevelOK /\ LockOK /\ [Next]_vars => (TypeOK /\ LevelOK /\ LockOK)'
  BY TypeStep, LockStep
<1>3. TypeOK /\ LockOK => OneWriter
  BY LockMeansOne
<1> QED BY <1>1, <1>2, <1>3, PTL DEF Spec

-----------------------------------------------------------------------------
(* The shape of the tree.                                                  *)

\* The owner of the table that entry i of a table of owner o points to, and
\* the page that entry i of a leaf table with owner o maps.
Child(o, i) ==
  [level |-> o.level + 1,
   base |-> << IF o.level = 1 THEN i ELSE o.base[1],
               IF o.level = 2 THEN i ELSE o.base[2],
               IF o.level = 3 THEN i ELSE o.base[3], 0 >>]
LeafPage(o, i) == <<o.base[1], o.base[2], o.base[3], i>>

\* Process c is making the table entry i of table t points to.
Linking(c, t, i) ==
  pc[c] \in {"grant", "bump"} /\ cur[c] = t /\ page[c][lvl[c]] = i

\* Process c is writing entry i of the leaf table t.
LeafWriting(c, t, i) ==
  pc[c] \in {"leaf", "frame"} /\ cur[c] = t /\ page[c][4] = i

\* A process inside EptMapPage stands in the table that its page needs at
\* its level, and only one that ran out of the pool is dead.
PositionOK ==
  \A c \in Procs :
    /\ pc[c] \in Mapping =>
         /\ cnt <= NumPages
         /\ owner[cur[c]] = [level |-> lvl[c], base |-> Base(page[c], lvl[c] - 1)]
    /\ pc[c] # "bugcheck"
    /\ pc[c] = "fault" => cnt > NumPages

\* After the pool was overrun, a dead process holds the lock.
OverrunOK == cnt > NumPages => \E c \in Procs : pc[c] = "fault"

\* The entry being linked holds the next pool page, which serves its region.
LinkingOK ==
  \A c \in Procs :
    /\ pc[c] \in {"grant", "bump"} =>
         /\ Slot(c).frame = PhysAt(cnt)
         /\ cnt < NumPages =>
              owner[PagesPhys[cnt]] = [level |-> lvl[c] + 1, base |-> Base(page[c], lvl[c])]
    /\ pc[c] = "bump" => "R" \in Slot(c).perm

\* The root is the only table of level 1; the pool pages in use are the first
\* cnt and the one being linked; the others are still zero.
OwnerOK ==
  /\ owner[Pml4Phys] = [level |-> 1, base |-> ZeroPage]
  /\ \A k \in 0 .. NumPages - 1 :
       owner[PagesPhys[k]] # Unused =>
         \/ k < cnt
         \/ k = cnt /\ \E c \in Procs : pc[c] \in {"grant", "bump"}
  /\ \A t \in TableFrames :
       owner[t] = Unused => mem[t] = [i \in Index |-> ZeroEntry]

\* A present entry above the leaves points to a pool page in use that serves
\* the region of the entry.
LinksOK ==
  PoolLasts =>
    \A t \in TableFrames, i \in Index : IsLink(t, i) =>
      /\ owner[mem[t][i].frame] = Child(owner[t], i)
      /\ \E k \in 0 .. NumPages - 1 :
           /\ mem[t][i].frame = PagesPhys[k]
           /\ k < cnt \/ (k = cnt /\ \E c \in Procs : Linking(c, t, i))

\* Read is the first right that an entry gets, and the frame and the type of
\* a leaf are stored after it.
RightsOK ==
  /\ \A t \in TableFrames, i \in Index : mem[t][i].perm # {} => "R" \in mem[t][i].perm
  /\ \A c \in Procs : pc[c] \in {"frame", "type"} => "R" \in Slot(c).perm

\* A present leaf entry maps its own page unless it is being written.
LeavesOK ==
  \A t \in TableFrames, i \in Index :
    /\ owner[t] # Unused
    /\ owner[t].level = 4
    /\ "R" \in mem[t][i].perm
    => \/ mem[t][i].frame = LeafPage(owner[t], i)
       \/ \E c \in Procs : LeafWriting(c, t, i)

TreeOK ==
  /\ PositionOK /\ OverrunOK /\ LinkingOK /\ OwnerOK
  /\ LinksOK /\ RightsOK /\ LeavesOK /\ TablesNotShared

\* Regions: the root serves everything, the table below entry p[k] serves
\* the pages that agree with p up to there, and a leaf entry its own page.
LEMMA BaseZero ==
  ASSUME NEW p \in Page
  PROVE  Base(p, 0) = ZeroPage
BY DEF Base, ZeroPage

\* The child of the table a process stands in, at its index, is the region below.
LEMMA ChildBase ==
  ASSUME NEW p \in Page, NEW k \in 1 .. 3
  PROVE  Child([level |-> k, base |-> Base(p, k - 1)], p[k]) = [level |-> k + 1, base |-> Base(p, k)]
<1>1. CASE k = 1
  BY <1>1 DEF Child, Base
<1>2. CASE k = 2
  BY <1>2 DEF Child, Base
<1>3. CASE k = 3
  BY <1>3 DEF Child, Base
<1> QED BY <1>1, <1>2, <1>3

\* The entry a process writes at level 4 is that of its page.
LEMMA LeafBase ==
  ASSUME NEW p \in Page
  PROVE  LeafPage([level |-> 4, base |-> Base(p, 3)], p[4]) = p
BY DEF LeafPage, Base, Page

\* What a store to the current entry changes.
LEMMA SetSlotEffect ==
  ASSUME TypeOK, NEW c \in Procs, pc[c] \in Mapping, NEW e, SetSlot(c, e)
  PROVE  /\ \A t \in TableFrames, i \in Index :
               mem'[t][i] = IF t = cur[c] /\ i = page[c][lvl[c]] THEN e ELSE mem[t][i]
         /\ \A t \in TableFrames : t # cur[c] => mem'[t] = mem[t]
<1>1. cur[c] \in TableFrames /\ page[c][lvl[c]] \in Index
  BY SlotType
<1>2. mem \in [TableFrames -> [Index -> Entry]]
  BY DEF TypeOK
<1> QED BY <1>1, <1>2 DEF SetSlot

\* Steps that change the control state of one process and nothing in the tree.
LEMMA ControlStep ==
  ASSUME TypeOK, TypeOK', TreeOK, UNCHANGED <<mem, cnt, owner>>,
         NEW c \in Procs, NEW x, pc' = [pc EXCEPT ![c] = x],
         pc[c] \notin {"grant", "bump", "leaf", "frame", "fault"},
         x \notin {"grant", "bump", "frame", "type", "bugcheck", "fault"},
         \A d \in Procs : d # c => page'[d] = page[d] /\ lvl'[d] = lvl[d] /\ cur'[d] = cur[d],
         x \in Mapping =>
           /\ cnt <= NumPages
           /\ owner[cur'[c]] = [level |-> lvl'[c], base |-> Base(page'[c], lvl'[c] - 1)]
  PROVE  TreeOK'
<1>0. /\ \A d \in Procs : pc'[d] = IF d = c THEN x ELSE pc[d]
      /\ \A d \in Procs : pc[d] \in {"grant", "bump", "leaf", "frame", "fault"} => d # c /\ pc'[d] = pc[d]
      /\ \A d \in Procs : pc'[d] \in {"grant", "bump", "frame", "type", "fault"} => d # c /\ pc'[d] = pc[d]
  BY DEF TypeOK
<1>1. PositionOK'
  BY <1>0 DEF TreeOK, PositionOK
<1>2. OverrunOK'
  BY <1>0 DEF TreeOK, OverrunOK
<1>3. LinkingOK'
  BY <1>0 DEF TreeOK, LinkingOK, Slot, PhysAt
<1>4. OwnerOK'
  BY <1>0 DEF TreeOK, OwnerOK
<1>5. PoolLasts' => PoolLasts
  BY <1>0 DEF PoolLasts
<1>6. \A t \in TableFrames, i \in Index : IsLink(t, i)' <=> IsLink(t, i)
  BY DEF IsLink
<1>7. LinksOK'
  BY <1>0, <1>5, <1>6 DEF TreeOK, LinksOK, Linking, Child
<1>8. RightsOK'
  BY <1>0 DEF TreeOK, RightsOK, Slot
<1>9. LeavesOK'
  BY <1>0 DEF TreeOK, LeavesOK, LeafWriting, LeafPage
<1>10. TablesNotShared'
  BY <1>5, <1>6 DEF TreeOK, TablesNotShared
<1> QED BY <1>1, <1>2, <1>3, <1>4, <1>7, <1>8, <1>9, <1>10 DEF TreeOK

\* The empty tree has the shape.
LEMMA TreeInit == Init => TreeOK
<1> SUFFICES ASSUME Init PROVE TreeOK
  OBVIOUS
<1>1. /\ \A c \in Procs : pc[c] = "idle"
      /\ cnt = 0 /\ NumPages \in Nat
      /\ \A t \in TableFrames : mem[t] = [i \in Index |-> ZeroEntry]
      /\ \A t \in TableFrames, i \in Index : mem[t][i].perm = {}
      /\ owner[Pml4Phys] = [level |-> 1, base |-> ZeroPage]
      /\ \A k \in 0 .. NumPages - 1 : owner[PagesPhys[k]] = Unused
  BY PoolAssumption, SizeAssumption DEF Init, ZeroEntry, TableFrames, PoolFrames
<1>2. \A t \in TableFrames, i \in Index : ~IsLink(t, i)
  BY <1>1 DEF IsLink
<1>3. LinksOK /\ TablesNotShared
  BY <1>2 DEF LinksOK, TablesNotShared
<1>4. PositionOK /\ OverrunOK /\ LinkingOK
  BY <1>1 DEF PositionOK, OverrunOK, LinkingOK, Mapping
<1>5. OwnerOK /\ RightsOK /\ LeavesOK
  BY <1>1 DEF OwnerOK, RightsOK, LeavesOK
<1> QED BY <1>3, <1>4, <1>5 DEF TreeOK

\* A store to the leaf entry: it may stay without the page's frame only as
\* long as its writer stands before the store of the frame.
LEMMA LeafStep ==
  ASSUME TypeOK, TypeOK', LevelOK, OneWriter, TreeOK,
         UNCHANGED <<cnt, owner, page, lvl, cur>>,
         NEW c \in Procs, pc[c] \in {"leaf", "frame", "type"},
         NEW x \in {"leaf", "frame", "type", "release", "idle"}, pc' = [pc EXCEPT ![c] = x],
         NEW e \in Entry, SetSlot(c, e),
         "R" \in e.perm,
         x \in {"leaf", "frame"} \/ e.frame = page[c]
  PROVE  TreeOK'
<1> DEFINE t0 == cur[c]
           i0 == page[c][4]
<1>0. /\ t0 \in TableFrames /\ i0 \in Index /\ lvl[c] = 4 /\ page[c] \in Page
      /\ pc[c] \in Mapping /\ cnt <= NumPages
      /\ owner[t0] = [level |-> 4, base |-> Base(page[c], 3)]
  BY SlotType DEF LevelOK, TreeOK, PositionOK, Mapping, TypeOK
<1>1. /\ \A t \in TableFrames, i \in Index :
           mem'[t][i] = IF t = t0 /\ i = i0 THEN e ELSE mem[t][i]
      /\ \A t \in TableFrames : t # t0 => mem'[t] = mem[t]
  BY <1>0, SetSlotEffect
<1>2. \A d \in Procs : d # c => pc'[d] = pc[d] /\ pc[d] \notin Holding
  BY <1>0 DEF OneWriter, Holding, TypeOK
<1>3. pc'[c] = x
  BY DEF TypeOK
<1>4. PositionOK'
  BY <1>0, <1>2, <1>3 DEF TreeOK, PositionOK, Holding, Dead
<1>5. OverrunOK'
  BY <1>0 DEF TreeOK, OverrunOK
<1>6. LinkingOK'
  BY <1>2, <1>3 DEF LinkingOK, Holding, Mapping
<1>7. owner[t0] # Unused /\ owner[t0].level = 4
  <2>1. Base(page[c], 3) \in Page
    BY <1>0, BaseType
  <2> QED BY <1>0, <2>1, OwnerAssumption
<1>8. OwnerOK'
  BY <1>1, <1>2, <1>7 DEF TreeOK, OwnerOK, Holding, Mapping
<1>9. \A t \in TableFrames, i \in Index :
        /\ IsLink(t, i)' <=> IsLink(t, i)
        /\ IsLink(t, i) => mem'[t][i] = mem[t][i]
  BY <1>1, <1>7 DEF IsLink
<1>10. PoolLasts' => PoolLasts
  BY <1>0, <1>2 DEF PoolLasts, Holding, Mapping
<1>11. \A d \in Procs : pc[d] \notin {"grant", "bump"}
  BY <1>2 DEF Holding, Mapping
<1>12. LinksOK'
  BY <1>9, <1>10, <1>11 DEF TreeOK, LinksOK, Linking, Child
<1>13. TablesNotShared'
  BY <1>9, <1>10 DEF TreeOK, TablesNotShared
<1>14. RightsOK'
  <2>1. Slot(c)' = e
    BY <1>0, <1>1 DEF Slot
  <2>2. \A d \in Procs : pc'[d] \in {"frame", "type"} => d = c
    BY <1>2 DEF Holding, Mapping
  <2> QED BY <1>1, <2>1, <2>2 DEF TreeOK, RightsOK
<1>15. LeafPage(owner[t0], i0) = page[c]
  BY <1>0, LeafBase
<1>16. LeavesOK'
  <2> SUFFICES ASSUME NEW t \in TableFrames, NEW i \in Index,
                      owner[t] # Unused, owner[t].level = 4, "R" \in mem'[t][i].perm
               PROVE  \/ mem'[t][i].frame = LeafPage(owner[t], i)
                      \/ \E d \in Procs : LeafWriting(d, t, i)'
    BY DEF LeavesOK, LeafPage
  <2>1. CASE t = t0 /\ i = i0
    BY <1>1, <1>3, <1>15, <2>1 DEF LeafWriting
  <2>2. CASE ~(t = t0 /\ i = i0)
    <3>1. mem'[t][i] = mem[t][i]
      BY <1>1, <2>2
    <3>2. \A d \in Procs : ~LeafWriting(d, t, i)
      BY <1>2, <2>2 DEF LeafWriting, Holding, Mapping
    <3> QED BY <3>1, <3>2 DEF TreeOK, LeavesOK
  <2> QED BY <2>1, <2>2
<1> QED BY <1>4, <1>5, <1>6, <1>8, <1>12, <1>13, <1>14, <1>16 DEF TreeOK

\* The facts every step of linking a table starts from.
LEMMA LinkStart ==
  ASSUME TypeOK, LevelOK, OneWriter, TreeOK,
         NEW c \in Procs, pc[c] \in {"test", "grant", "bump"}
  PROVE  /\ cur[c] \in TableFrames /\ page[c][lvl[c]] \in Index
         /\ lvl[c] \in 1 .. 3 /\ page[c] \in Page
         /\ pc[c] \in Mapping /\ cnt \in 0 .. NumPages
         /\ \A d \in Procs : d # c => pc[d] \notin Holding
         /\ owner[cur[c]] = [level |-> lvl[c], base |-> Base(page[c], lvl[c] - 1)]
         /\ owner[cur[c]] # Unused /\ owner[cur[c]].level = lvl[c]
         /\ Child(owner[cur[c]], page[c][lvl[c]]) = [level |-> lvl[c] + 1, base |-> Base(page[c], lvl[c])]
<1>1. pc[c] \in Mapping /\ pc[c] \in Holding
  BY DEF Mapping, Holding
<1>2. cur[c] \in TableFrames /\ page[c][lvl[c]] \in Index /\ page[c] \in Page /\ lvl[c] \in 1 .. 3
  BY <1>1, SlotType DEF TypeOK, LevelOK
<1>3. cnt \in 0 .. NumPages
  <2>1. cnt <= NumPages
    BY <1>1 DEF TreeOK, PositionOK
  <2>2. cnt \in Nat
    BY DEF TypeOK
  <2> QED BY <2>1, <2>2, SizeAssumption
<1>4. owner[cur[c]] = [level |-> lvl[c], base |-> Base(page[c], lvl[c] - 1)]
  BY <1>1 DEF TreeOK, PositionOK
<1>5. Base(page[c], lvl[c] - 1) \in Page
  BY <1>2, BaseType
<1>6. owner[cur[c]] # Unused /\ owner[cur[c]].level = lvl[c]
  BY <1>2, <1>4, <1>5, OwnerAssumption
<1>7. \A d \in Procs : d # c => pc[d] \notin Holding
  BY <1>1 DEF OneWriter
<1>8. Child(owner[cur[c]], page[c][lvl[c]]) = [level |-> lvl[c] + 1, base |-> Base(page[c], lvl[c])]
  BY <1>2, <1>4, ChildBase
<1> QED BY <1>1, <1>2, <1>3, <1>4, <1>6, <1>7, <1>8

\* Storing the frame of a link keeps the shape of the tree.
LEMMA LinkFrameStep ==
  ASSUME TypeOK, TypeOK', LevelOK, OneWriter, TreeOK, NEW c \in Procs, LinkFrame(c)
  PROVE  TreeOK'
<1> DEFINE t0 == cur[c]
           i0 == page[c][lvl[c]]
           n0 == PagesPhys[cnt]
           e == [Slot(c) EXCEPT !.frame = PhysAt(cnt)]
<1>1. /\ pc[c] = "test" /\ "R" \notin Slot(c).perm
      /\ SetSlot(c, e)
      /\ pc' = [pc EXCEPT ![c] = "grant"]
      /\ UNCHANGED <<cnt, lock, running, bootNext, page, lvl, cur>>
  BY DEF LinkFrame
<1>2. /\ t0 \in TableFrames /\ i0 \in Index /\ lvl[c] \in 1 .. 3 /\ page[c] \in Page
      /\ pc[c] \in Mapping /\ cnt \in 0 .. NumPages
      /\ \A d \in Procs : d # c => pc[d] \notin Holding
      /\ owner[t0] = [level |-> lvl[c], base |-> Base(page[c], lvl[c] - 1)]
      /\ owner[t0] # Unused /\ owner[t0].level = lvl[c]
  BY <1>1, LinkStart
<1>3. /\ \A t \in TableFrames, i \in Index :
           mem'[t][i] = IF t = t0 /\ i = i0 THEN e ELSE mem[t][i]
      /\ \A t \in TableFrames : t # t0 => mem'[t] = mem[t]
  BY <1>1, <1>2, SetSlotEffect
<1>4. Slot(c) \in Entry /\ Slot(c) = mem[t0][i0]
  BY <1>2, SlotType DEF Slot
<1>5. e.perm = Slot(c).perm /\ e.frame = PhysAt(cnt)
  BY <1>4 DEF Entry
<1>6. \A d \in Procs : pc[d] \notin {"grant", "bump", "leaf", "frame", "fault"}
  BY <1>1, <1>2 DEF Holding, Mapping, Dead
<1>7. \A d \in Procs : pc'[d] = IF d = c THEN "grant" ELSE pc[d]
  BY <1>1 DEF TypeOK
<1>8. cnt < NumPages =>
        /\ n0 \in TableFrames /\ n0 # Pml4Phys
        /\ owner[n0] = Unused /\ n0 # t0
        /\ \A i \in Index : "R" \notin mem[n0][i].perm
        /\ \A k \in 0 .. NumPages - 1 : PagesPhys[k] = n0 => k = cnt
  <2> SUFFICES ASSUME cnt < NumPages
               PROVE  /\ n0 \in TableFrames /\ n0 # Pml4Phys
                      /\ owner[n0] = Unused /\ n0 # t0
                      /\ \A i \in Index : "R" \notin mem[n0][i].perm
                      /\ \A k \in 0 .. NumPages - 1 : PagesPhys[k] = n0 => k = cnt
    OBVIOUS
  <2>1. cnt \in 0 .. NumPages - 1
    BY <1>2, SizeAssumption
  <2>2. n0 \in TableFrames /\ n0 # Pml4Phys /\ \A k \in 0 .. NumPages - 1 : PagesPhys[k] = n0 => k = cnt
    BY <2>1, PoolAssumption DEF TableFrames, PoolFrames
  <2>3. owner[n0] = Unused
    BY <1>6, <2>1 DEF TreeOK, OwnerOK
  <2>4. mem[n0] = [i \in Index |-> ZeroEntry]
    BY <2>2, <2>3 DEF TreeOK, OwnerOK
  <2> QED BY <1>2, <2>2, <2>3, <2>4 DEF ZeroEntry
<1>9. owner' = IF cnt < NumPages
               THEN [owner EXCEPT ![n0] = [level |-> lvl[c] + 1, base |-> Base(page[c], lvl[c])]]
               ELSE owner
  BY DEF LinkFrame
<1>10. \A t \in TableFrames :
         owner'[t] = IF cnt < NumPages /\ t = n0
                     THEN [level |-> lvl[c] + 1, base |-> Base(page[c], lvl[c])]
                     ELSE owner[t]
  BY <1>9 DEF TypeOK
<1>11. PositionOK'
  <2>1. owner'[t0] = owner[t0]
    BY <1>2, <1>8, <1>10
  <2> QED BY <1>1, <1>2, <1>6, <1>7, <2>1 DEF TreeOK, PositionOK, Holding
<1>12. OverrunOK'
  <2>1. ~(cnt > NumPages)
    BY <1>2, SizeAssumption
  <2> QED BY <1>1, <2>1 DEF OverrunOK
<1>13. LinkingOK'
  <2>1. Slot(c)' = e
    BY <1>1, <1>2, <1>3 DEF Slot
  <2>2. \A d \in Procs : pc'[d] \in {"grant", "bump"} => d = c
    BY <1>6, <1>7
  <2>3. Slot(c)'.frame = PhysAt(cnt)'
    BY <1>1, <1>5, <2>1 DEF PhysAt
  <2>4. cnt < NumPages => owner'[n0] = [level |-> lvl[c] + 1, base |-> Base(page[c], lvl[c])]
    BY <1>8, <1>10
  <2>5. pc'[c] = "grant"
    BY <1>7
  <2> QED BY <1>1, <2>2, <2>3, <2>4, <2>5 DEF LinkingOK, Base
<1>14. OwnerOK'
  <2>1. owner'[Pml4Phys] = owner[Pml4Phys]
    BY <1>8, <1>10 DEF TableFrames
  <2>2. ASSUME NEW k \in 0 .. NumPages - 1, owner'[PagesPhys[k]] # Unused
        PROVE  k < cnt \/ (k = cnt /\ \E d \in Procs : pc'[d] \in {"grant", "bump"})
    <3>1. PagesPhys[k] \in TableFrames
      BY DEF TableFrames, PoolFrames
    <3>2. CASE owner[PagesPhys[k]] # Unused
      BY <1>6, <3>2 DEF TreeOK, OwnerOK
    <3>3. CASE owner[PagesPhys[k]] = Unused
      BY <1>7, <1>8, <1>10, <2>2, <3>1, <3>3
    <3> QED BY <3>2, <3>3
  <2>3. ASSUME NEW t \in TableFrames, owner'[t] = Unused
        PROVE  mem'[t] = [i \in Index |-> ZeroEntry]
    <3>1. owner[t] = Unused
      BY <1>8, <1>10, <2>3
    <3> QED BY <1>2, <1>3, <3>1 DEF TreeOK, OwnerOK
  <2> QED BY <1>1, <2>1, <2>2, <2>3 DEF TreeOK, OwnerOK
<1>15. PoolLasts' => cnt < NumPages /\ PoolLasts
  BY <1>1, <1>2, <1>6, <1>7 DEF PoolLasts
<1>16. ASSUME NEW t \in TableFrames, NEW i \in Index, IsLink(t, i)'
       PROVE  IsLink(t, i) /\ mem'[t][i] = mem[t][i] /\ owner'[t] = owner[t]
  <2>1. "R" \in mem'[t][i].perm
    BY <1>16 DEF IsLink
  <2>2. ~(t = t0 /\ i = i0) /\ mem'[t][i] = mem[t][i]
    BY <1>1, <1>3, <1>4, <1>5, <2>1
  <2>3. ~(cnt < NumPages /\ t = n0)
    BY <1>8, <2>1, <2>2
  <2> QED BY <1>10, <1>16, <2>2, <2>3 DEF IsLink
<1>17. LinksOK'
  <2> SUFFICES ASSUME PoolLasts', NEW t \in TableFrames, NEW i \in Index, IsLink(t, i)'
               PROVE  /\ owner'[mem'[t][i].frame] = Child(owner'[t], i)
                      /\ \E k \in 0 .. NumPages - 1 :
                           mem'[t][i].frame = PagesPhys[k] /\ k < cnt
    BY <1>1 DEF LinksOK, Child
  <2>1. IsLink(t, i) /\ mem'[t][i] = mem[t][i] /\ owner'[t] = owner[t] /\ PoolLasts /\ cnt < NumPages
    BY <1>15, <1>16
  <2>2. PICK k \in 0 .. NumPages - 1 : mem[t][i].frame = PagesPhys[k] /\ k < cnt
    BY <1>6, <2>1 DEF TreeOK, LinksOK, Linking
  <2>3. owner[mem[t][i].frame] = Child(owner[t], i)
    BY <2>1 DEF TreeOK, LinksOK
  <2>4. PagesPhys[k] \in TableFrames /\ PagesPhys[k] # n0
    BY <1>8, <2>1, <2>2 DEF TableFrames, PoolFrames
  <2> QED BY <1>10, <2>1, <2>2, <2>3, <2>4
<1>18. TablesNotShared'
  BY <1>15, <1>16 DEF TreeOK, TablesNotShared
<1>19. RightsOK'
  <2>1. \A t \in TableFrames, i \in Index : mem'[t][i].perm = mem[t][i].perm
    BY <1>3, <1>4, <1>5
  <2>2. \A d \in Procs : pc'[d] \notin {"frame", "type"}
    BY <1>2, <1>7 DEF Holding, Mapping
  <2> QED BY <2>1, <2>2 DEF TreeOK, RightsOK
<1>20. LeavesOK'
  <2> SUFFICES ASSUME NEW t \in TableFrames, NEW i \in Index,
                      owner'[t] # Unused, owner'[t].level = 4, "R" \in mem'[t][i].perm
               PROVE  mem'[t][i].frame = LeafPage(owner'[t], i)
    BY DEF LeavesOK, LeafPage
  <2>1. ~(t = t0 /\ i = i0) /\ mem'[t][i] = mem[t][i]
    BY <1>1, <1>3, <1>4, <1>5
  <2>2. owner'[t] = owner[t]
    BY <1>8, <1>10, <2>1
  <2> QED BY <1>6, <2>1, <2>2 DEF TreeOK, LeavesOK, LeafWriting
<1> QED
  BY <1>11, <1>12, <1>13, <1>14, <1>17, <1>18, <1>19, <1>20 DEF TreeOK

\* Making a link present keeps the shape of the tree.
LEMMA LinkGrantStep ==
  ASSUME TypeOK, TypeOK', LevelOK, OneWriter, TreeOK, NEW c \in Procs, LinkGrant(c)
  PROVE  TreeOK'
<1> DEFINE t0 == cur[c]
           i0 == page[c][lvl[c]]
           e == [Slot(c) EXCEPT !.perm = AddRight(@)]
<1>1. /\ pc[c] = "grant"
      /\ SetSlot(c, e)
      /\ UNCHANGED <<cnt, lock, running, bootNext, page, lvl, cur, owner>>
  BY DEF LinkGrant
<1>2. /\ t0 \in TableFrames /\ i0 \in Index /\ lvl[c] \in 1 .. 3 /\ page[c] \in Page
      /\ pc[c] \in Mapping /\ cnt \in 0 .. NumPages
      /\ \A d \in Procs : d # c => pc[d] \notin Holding
      /\ owner[t0] = [level |-> lvl[c], base |-> Base(page[c], lvl[c] - 1)]
      /\ owner[t0] # Unused /\ owner[t0].level = lvl[c]
      /\ Child(owner[t0], i0) = [level |-> lvl[c] + 1, base |-> Base(page[c], lvl[c])]
  BY <1>1, LinkStart
<1>3. /\ \A t \in TableFrames, i \in Index :
           mem'[t][i] = IF t = t0 /\ i = i0 THEN e ELSE mem[t][i]
      /\ \A t \in TableFrames : t # t0 => mem'[t] = mem[t]
  BY <1>1, <1>2, SetSlotEffect
<1>4. Slot(c) \in Entry /\ Slot(c) = mem[t0][i0]
  BY <1>2, SlotType DEF Slot
<1>5. e.frame = Slot(c).frame /\ "R" \in e.perm
  <2>1. Slot(c).perm \in SUBSET Rights /\ e.perm = AddRight(Slot(c).perm) /\ e.frame = Slot(c).frame
    BY <1>4 DEF Entry
  <2>2. "R" \in AddRight(Slot(c).perm)
    BY <2>1 DEF AddRight, Rights
  <2> QED BY <2>1, <2>2
<1>6. PICK x \in {"grant", "bump"} : pc' = [pc EXCEPT ![c] = x]
  BY DEF LinkGrant
<1>7. \A d \in Procs : pc'[d] = IF d = c THEN x ELSE pc[d]
  BY <1>6 DEF TypeOK
<1>8. \A d \in Procs : d # c => pc[d] \notin {"grant", "bump", "leaf", "frame", "fault"}
  BY <1>2 DEF Holding, Mapping, Dead
<1>9. PositionOK'
  BY <1>1, <1>2, <1>7 DEF TreeOK, PositionOK, Holding, Mapping
<1>10. OverrunOK'
  <2>1. ~(cnt > NumPages)
    BY <1>2, SizeAssumption
  <2> QED BY <1>1, <2>1 DEF OverrunOK
<1>11. LinkingOK'
  <2>1. Slot(c)' = e
    BY <1>1, <1>2, <1>3 DEF Slot
  <2>2. Slot(c)'.frame = PhysAt(cnt)'
    BY <1>1, <1>5, <2>1 DEF TreeOK, LinkingOK, PhysAt
  <2>3. cnt < NumPages => owner[PagesPhys[cnt]] = [level |-> lvl[c] + 1, base |-> Base(page[c], lvl[c])]
    BY <1>1 DEF TreeOK, LinkingOK
  <2>4. \A d \in Procs : pc'[d] \in {"grant", "bump"} => d = c
    BY <1>7, <1>8
  <2> QED BY <1>1, <1>5, <2>1, <2>2, <2>3, <2>4 DEF LinkingOK, Base
<1>12. OwnerOK'
  <2>1. \A t \in TableFrames : owner[t] = Unused => mem'[t] = mem[t]
    BY <1>2, <1>3
  <2>2. \E d \in Procs : pc'[d] \in {"grant", "bump"}
    BY <1>7
  <2> QED BY <1>1, <2>1, <2>2 DEF TreeOK, OwnerOK
<1>13. PoolLasts' => cnt < NumPages /\ PoolLasts
  BY <1>1, <1>2, <1>7, <1>8 DEF PoolLasts
<1>14. ASSUME NEW t \in TableFrames, NEW i \in Index, IsLink(t, i)', ~(t = t0 /\ i = i0)
       PROVE  IsLink(t, i) /\ mem'[t][i] = mem[t][i]
  BY <1>1, <1>3, <1>14 DEF IsLink
<1>15. cnt < NumPages => /\ mem'[t0][i0].frame = PagesPhys[cnt]
                         /\ owner[PagesPhys[cnt]] = Child(owner[t0], i0)
  BY <1>1, <1>2, <1>3, <1>4, <1>5 DEF TreeOK, LinkingOK, PhysAt
<1>16. ASSUME PoolLasts, NEW t \in TableFrames, NEW i \in Index, IsLink(t, i), ~(t = t0 /\ i = i0)
       PROVE  \E k \in 0 .. NumPages - 1 : mem[t][i].frame = PagesPhys[k] /\ k < cnt
  <2>1. \A d \in Procs : ~Linking(d, t, i)
    BY <1>8, <1>16 DEF Linking
  <2> QED BY <1>16, <2>1 DEF TreeOK, LinksOK
<1>17. LinksOK'
  <2> SUFFICES ASSUME PoolLasts', NEW t \in TableFrames, NEW i \in Index, IsLink(t, i)'
               PROVE  /\ owner[mem'[t][i].frame] = Child(owner[t], i)
                      /\ \E k \in 0 .. NumPages - 1 :
                           /\ mem'[t][i].frame = PagesPhys[k]
                           /\ k < cnt \/ (k = cnt /\ \E d \in Procs : Linking(d, t, i)')
    BY <1>1 DEF LinksOK, Child
  <2>1. CASE t = t0 /\ i = i0
    <3>1. cnt \in 0 .. NumPages - 1
      BY <1>2, <1>13, SizeAssumption
    <3>2. Linking(c, t, i)'
      BY <1>1, <1>7, <2>1 DEF Linking
    <3> QED BY <1>13, <1>15, <2>1, <3>1, <3>2
  <2>2. CASE ~(t = t0 /\ i = i0)
    BY <1>13, <1>14, <1>16, <2>2 DEF TreeOK, LinksOK
  <2> QED BY <2>1, <2>2
<1>18. TablesNotShared'
  <2> SUFFICES ASSUME PoolLasts', NEW t \in TableFrames, NEW u \in TableFrames,
                      NEW i \in Index, NEW j \in Index, IsLink(t, i)', IsLink(u, j)'
               PROVE  /\ mem'[t][i].frame # Pml4Phys
                      /\ mem'[t][i].frame = mem'[u][j].frame => t = u /\ i = j
    BY DEF TablesNotShared
  <2>1. cnt \in 0 .. NumPages - 1
    BY <1>2, <1>13, SizeAssumption
  <2>2. ASSUME NEW v \in TableFrames, NEW k \in Index, IsLink(v, k)', ~(v = t0 /\ k = i0)
        PROVE  mem'[v][k].frame # Pml4Phys /\ mem'[v][k].frame # PagesPhys[cnt]
    <3>1. PICK m \in 0 .. NumPages - 1 : mem'[v][k].frame = PagesPhys[m] /\ m < cnt
      BY <1>13, <1>14, <1>16, <2>2
    <3> QED BY <2>1, <3>1, PoolAssumption
  <2>3. mem'[t0][i0].frame = PagesPhys[cnt] /\ PagesPhys[cnt] # Pml4Phys
    BY <1>13, <1>15, <2>1, PoolAssumption
  <2>4. CASE ~(t = t0 /\ i = i0) /\ ~(u = t0 /\ j = i0)
    BY <1>13, <1>14, <2>4 DEF TreeOK, TablesNotShared
  <2>5. CASE t = t0 /\ i = i0
    BY <2>2, <2>3, <2>5
  <2>6. CASE u = t0 /\ j = i0
    BY <2>2, <2>3, <2>6
  <2> QED BY <2>4, <2>5, <2>6
<1>19. RightsOK'
  <2>1. \A d \in Procs : pc'[d] \notin {"frame", "type"}
    BY <1>2, <1>7 DEF Holding, Mapping
  <2>2. ASSUME NEW t \in TableFrames, NEW i \in Index, mem'[t][i].perm # {}
        PROVE  "R" \in mem'[t][i].perm
    <3>1. CASE t = t0 /\ i = i0
      BY <1>3, <1>5, <3>1
    <3>2. CASE ~(t = t0 /\ i = i0)
      <4>1. mem'[t][i] = mem[t][i]
        BY <1>3, <3>2
      <4> QED BY <2>2, <4>1 DEF TreeOK, RightsOK
    <3> QED BY <3>1, <3>2
  <2> QED BY <2>1, <2>2 DEF RightsOK
<1>20. LeavesOK'
  <2> SUFFICES ASSUME NEW t \in TableFrames, NEW i \in Index,
                      owner[t] # Unused, owner[t].level = 4, "R" \in mem'[t][i].perm
               PROVE  mem'[t][i].frame = LeafPage(owner[t], i)
    BY <1>1 DEF LeavesOK, LeafPage
  <2>1. mem'[t][i] = mem[t][i]
    BY <1>2, <1>3
  <2>2. \A d \in Procs : ~LeafWriting(d, t, i)
    BY <1>1, <1>8 DEF LeafWriting
  <2> QED BY <2>1, <2>2 DEF TreeOK, LeavesOK
<1> QED
  BY <1>9, <1>10, <1>11, <1>12, <1>17, <1>18, <1>19, <1>20 DEF TreeOK

\* Once linked, the table is found: it is the last pool page counted.  Only
\* the step that overruns the pool finds none, and ends in NULL.
LEMMA LinkBumpStep ==
  ASSUME TypeOK, TypeOK', LevelOK, OneWriter, TreeOK, NEW c \in Procs, LinkBump(c)
  PROVE  TreeOK'
<1> DEFINE f == Slot(c).frame
<1>1. /\ pc[c] = "bump" /\ cnt' = cnt + 1 /\ Follow(c, f, cnt + 1)
      /\ UNCHANGED <<mem, lock, running, bootNext, page, owner>>
      /\ f = PhysAt(cnt)
  BY DEF LinkBump, TreeOK, LinkingOK
<1>2. /\ lvl[c] \in 1 .. 3 /\ page[c] \in Page /\ cnt \in 0 .. NumPages
      /\ \A d \in Procs : d # c => pc[d] \notin Holding
      /\ owner[cur[c]] # Unused /\ owner[cur[c]].level = lvl[c]
  BY <1>1, LinkStart
<1>3. \A d \in Procs : d # c => pc'[d] = pc[d] /\ lvl'[d] = lvl[d] /\ cur'[d] = cur[d]
  BY <1>1 DEF Follow, TypeOK
<1>4. /\ \A d \in Procs : d # c => pc'[d] \notin Holding
      /\ \A d \in Procs : d # c => pc[d] \notin {"grant", "bump", "leaf", "frame"}
  BY <1>2, <1>3 DEF Holding, Mapping
<1>5. RightsOK'
  <2>1. \E x \in {"leaf", "test", "fault", "bugcheck"} : pc' = [pc EXCEPT ![c] = x]
    BY <1>1 DEF Follow
  <2>2. \A d \in Procs : pc'[d] \notin {"frame", "type"}
    BY <1>4, <2>1 DEF TypeOK, Holding, Mapping
  <2> QED BY <1>1, <2>2 DEF TreeOK, RightsOK
<1>6. \A t \in TableFrames, i \in Index : IsLink(t, i)' <=> IsLink(t, i)
  BY <1>1 DEF IsLink
<1>7. CASE cnt < NumPages
  <2>1. cnt \in 0 .. NumPages - 1 /\ f = PagesPhys[cnt] /\ f \in PoolFrames
    BY <1>1, <1>2, <1>7, SizeAssumption DEF PhysAt, PoolFrames
  <2>2. Lookup(f, cnt + 1) = "table"
    <3>1. f \in {PhysAt(i) : i \in 0 .. (cnt + 1) - 1}
      BY <1>1, <1>2
    <3> QED BY <2>1, <3>1 DEF Lookup
  <2>3. \E x \in {"leaf", "test"} : pc' = [pc EXCEPT ![c] = x]
    BY <1>1, <2>2 DEF Follow
  <2>4. pc'[c] \in {"leaf", "test"} /\ cur'[c] = f /\ lvl'[c] = lvl[c] + 1
    <3>1. cur' = [cur EXCEPT ![c] = f] /\ lvl' = [lvl EXCEPT ![c] = @ + 1]
      BY <1>1, <2>2 DEF Follow
    <3> QED BY <2>3, <3>1 DEF TypeOK
  <2>5. owner[f] = [level |-> lvl[c] + 1, base |-> Base(page[c], lvl[c])]
    BY <1>1, <1>7, <2>1 DEF TreeOK, LinkingOK
  <2>6. cnt' <= NumPages
    BY <1>1, <2>1, SizeAssumption
  <2>7. PositionOK'
    <3>1. (lvl[c] + 1) - 1 = lvl[c]
      BY <1>2
    <3>2. owner'[cur'[c]] = [level |-> lvl'[c], base |-> Base(page'[c], lvl'[c] - 1)]
      BY <1>1, <2>4, <2>5, <3>1
    <3> QED BY <1>4, <2>4, <2>6, <3>2 DEF PositionOK, Holding, Dead
  <2>8. OverrunOK'
    BY <1>1, <2>1, <2>6, SizeAssumption DEF OverrunOK
  <2>9. \A d \in Procs : pc'[d] \notin {"grant", "bump"}
    BY <1>4, <2>4 DEF Holding, Mapping
  <2>10. LinkingOK'
    BY <2>9 DEF LinkingOK
  <2>11. OwnerOK'
    <3>1. \A k \in 0 .. NumPages - 1 : owner[PagesPhys[k]] # Unused => k < cnt'
      BY <1>1, <2>1, SizeAssumption DEF TreeOK, OwnerOK
    <3> QED BY <1>1, <3>1 DEF TreeOK, OwnerOK
  <2>12. PoolLasts
    <3>1. cnt <= NumPages
      BY <1>2, SizeAssumption
    <3> QED BY <1>7, <3>1 DEF PoolLasts
  <2>13. LinksOK'
    <3>1. \A k \in 0 .. NumPages - 1 : (k < cnt \/ k = cnt) => k < cnt'
      BY <1>1, <2>1
    <3> QED BY <1>1, <1>6, <2>12, <3>1 DEF TreeOK, LinksOK, Child
  <2>14. TablesNotShared'
    BY <1>1, <1>6, <2>12 DEF TreeOK, TablesNotShared
  <2>15. LeavesOK'
    BY <1>1, <1>4 DEF TreeOK, LeavesOK, LeafWriting, LeafPage
  <2> QED BY <1>5, <2>7, <2>8, <2>10, <2>11, <2>13, <2>14, <2>15 DEF TreeOK
<1>8. CASE cnt = NumPages
  <2>1. f = ZeroPage
    BY <1>1, <1>2, <1>8, SizeAssumption DEF PhysAt
  <2>2. ZeroPage \notin PoolFrames
    BY PoolAssumption DEF PoolFrames
  <2>3. f \in {PhysAt(i) : i \in 0 .. (cnt + 1) - 1}
    BY <1>1, <1>2
  <2>4. Lookup(f, cnt + 1) = "null"
    BY <2>1, <2>2, <2>3 DEF Lookup
  <2>5. pc' = [pc EXCEPT ![c] = "fault"]
    BY <1>1, <2>4 DEF Follow
  <2>6. pc'[c] = "fault"
    BY <2>5 DEF TypeOK
  <2>7. cnt' > NumPages
    BY <1>1, <1>8, SizeAssumption
  <2>8. \A d \in Procs : pc'[d] \notin Mapping /\ pc'[d] # "bugcheck"
    BY <1>4, <2>6 DEF Holding, Mapping, Dead
  <2>9. PositionOK' /\ OverrunOK'
    BY <2>6, <2>7, <2>8 DEF PositionOK, OverrunOK
  <2>10. LinkingOK'
    BY <2>8 DEF LinkingOK, Mapping
  <2>11. ~PoolLasts'
    BY <1>1, <1>8, SizeAssumption DEF PoolLasts
  <2>12. LinksOK' /\ TablesNotShared'
    BY <2>11 DEF LinksOK, TablesNotShared
  <2>13. OwnerOK'
    <3>1. \A k \in 0 .. NumPages - 1 : k < cnt'
      BY <1>1, <1>8, SizeAssumption
    <3> QED BY <1>1, <3>1 DEF TreeOK, OwnerOK
  <2>14. LeavesOK'
    BY <1>1, <1>4 DEF TreeOK, LeavesOK, LeafWriting, LeafPage
  <2> QED BY <1>5, <2>9, <2>10, <2>12, <2>13, <2>14 DEF TreeOK
<1> QED BY <1>2, <1>7, <1>8, SizeAssumption

\* A present entry is followed to a table that serves the right region.
LEMMA DescendStep ==
  ASSUME TypeOK, TypeOK', LevelOK, OneWriter, TreeOK, NEW c \in Procs, Descend(c)
  PROVE  TreeOK'
<1> DEFINE f == Slot(c).frame
<1>1. /\ pc[c] = "test" /\ "R" \in Slot(c).perm /\ Follow(c, f, cnt)
      /\ UNCHANGED <<cnt, mem, lock, running, bootNext, page, owner>>
  BY DEF Descend
<1>2. /\ cur[c] \in TableFrames /\ page[c][lvl[c]] \in Index
      /\ lvl[c] \in 1 .. 3 /\ page[c] \in Page
      /\ cnt \in 0 .. NumPages
      /\ \A d \in Procs : d # c => pc[d] \notin Holding
      /\ owner[cur[c]] # Unused /\ owner[cur[c]].level = lvl[c]
      /\ Child(owner[cur[c]], page[c][lvl[c]]) = [level |-> lvl[c] + 1, base |-> Base(page[c], lvl[c])]
  BY <1>1, LinkStart
<1>3. \A d \in Procs : pc[d] \notin {"grant", "bump"}
  BY <1>1, <1>2 DEF Holding, Mapping
<1>4. PoolLasts
  BY <1>2, <1>3, SizeAssumption DEF PoolLasts
<1>5. IsLink(cur[c], page[c][lvl[c]])
  BY <1>1, <1>2 DEF IsLink, Slot
<1>6. owner[f] = [level |-> lvl[c] + 1, base |-> Base(page[c], lvl[c])]
  BY <1>2, <1>4, <1>5 DEF TreeOK, LinksOK, Slot
<1>7. PICK k \in 0 .. NumPages - 1 : f = PagesPhys[k] /\ k < cnt
  BY <1>2, <1>3, <1>4, <1>5 DEF TreeOK, LinksOK, Slot, Linking
<1>8. Lookup(f, cnt) = "table"
  <2>1. f \in PoolFrames
    BY <1>7 DEF PoolFrames
  <2>2. k \in 0 .. cnt - 1 /\ PhysAt(k) = f
    BY <1>2, <1>7, SizeAssumption DEF PhysAt
  <2> QED BY <2>1, <2>2 DEF Lookup
<1>9. PICK x \in {"leaf", "test"} : pc' = [pc EXCEPT ![c] = x]
  BY <1>1, <1>8 DEF Follow
<1>10. /\ cur'[c] = f /\ lvl'[c] = lvl[c] + 1
       /\ \A d \in Procs : d # c => page'[d] = page[d] /\ lvl'[d] = lvl[d] /\ cur'[d] = cur[d]
  BY <1>1, <1>8 DEF Follow, TypeOK
<1>11. owner[cur'[c]] = [level |-> lvl'[c], base |-> Base(page'[c], lvl'[c] - 1)]
  <2>1. (lvl[c] + 1) - 1 = lvl[c]
    BY <1>2
  <2> QED BY <1>1, <1>6, <1>10, <2>1
<1>12. cnt <= NumPages
  BY <1>2, SizeAssumption
<1> QED BY <1>1, <1>9, <1>10, <1>11, <1>12, ControlStep

\* A process can enter only when nobody is dead inside, so the pool has
\* not been overrun.
LEMMA EnterRoom ==
  ASSUME TypeOK, TreeOK, \A d \in Procs : pc[d] # "fault"
  PROVE  cnt <= NumPages
<1>1. ~(cnt > NumPages)
  BY DEF TreeOK, OverrunOK
<1> QED BY <1>1, SizeAssumption DEF TypeOK

\* The tree's invariant does not depend on who runs, nor on the lock.
LEMMA TreeSame ==
  ASSUME TreeOK, UNCHANGED <<cnt, mem, pc, page, lvl, cur, owner>>
  PROVE  TreeOK'
BY DEF TreeOK, PositionOK, OverrunOK, LinkingOK, OwnerOK, LinksOK, RightsOK, LeavesOK,
       TablesNotShared, PoolLasts, IsLink, Linking, LeafWriting, Slot, Child, LeafPage

\* Every step keeps the shape of the tree.
LEMMA TreePreserved ==
  ASSUME TypeOK, TypeOK', LevelOK, LockOK, TreeOK, [Next]_vars
  PROVE  TreeOK'
<1>0. OneWriter
  BY LockMeansOne
<1>1. CASE BootPage
  <2>1. Boot \in Procs /\ pc[Boot] = "idle" /\ BootMap[bootNext] \in Page
    BY <1>1, MapAssumption DEF BootPage, Procs, TypeOK
  <2>2. \A d \in Procs : pc[d] = "idle"
    <3>1. running = {}
      BY <1>1 DEF BootPage, LockOK, BootDone, TypeOK
    <3> QED BY <2>1, <3>1 DEF LockOK, Procs
  <2>3. cnt <= NumPages
    BY <2>2, EnterRoom
  <2>4. cur'[Boot] = Pml4Phys /\ lvl'[Boot] = 1 /\ page'[Boot] = BootMap[bootNext]
    BY <1>1, <2>1 DEF BootPage, TypeOK
  <2>5. owner[cur'[Boot]] = [level |-> lvl'[Boot], base |-> Base(page'[Boot], lvl'[Boot] - 1)]
    BY <2>1, <2>4, BaseZero DEF TreeOK, OwnerOK
  <2>6. \A d \in Procs : d # Boot => page'[d] = page[d] /\ lvl'[d] = lvl[d] /\ cur'[d] = cur[d]
    BY <1>1 DEF BootPage, TypeOK
  <2>7. pc' = [pc EXCEPT ![Boot] = "test"] /\ UNCHANGED <<mem, cnt, owner>>
    BY <1>1 DEF BootPage
  <2> QED BY <2>1, <2>3, <2>5, <2>6, <2>7, ControlStep
<1>2. ASSUME NEW c \in Procs, Descend(c)
      PROVE  TreeOK'
  BY <1>0, <1>2, DescendStep
<1>3. ASSUME NEW c \in Procs, LinkFrame(c)
      PROVE  TreeOK'
  BY <1>0, <1>3, LinkFrameStep
<1>4. ASSUME NEW c \in Procs, LinkGrant(c)
      PROVE  TreeOK'
  BY <1>0, <1>4, LinkGrantStep
<1>5. ASSUME NEW c \in Procs, LinkBump(c)
      PROVE  TreeOK'
  BY <1>0, <1>5, LinkBumpStep
<1>6. ASSUME NEW c \in Procs, LeafGrant(c)
      PROVE  TreeOK'
  <2> DEFINE e == [Slot(c) EXCEPT !.perm = AddRight(@)]
  <2>1. pc[c] = "leaf" /\ SetSlot(c, e) /\ UNCHANGED <<cnt, owner, page, lvl, cur>>
    BY <1>6 DEF LeafGrant
  <2>2. Slot(c) \in Entry
    BY <2>1, SlotType DEF Mapping
  <2>3. e \in Entry /\ "R" \in e.perm
    <3>1. Slot(c).perm \in SUBSET Rights
      BY <2>2 DEF Entry
    <3>2. AddRight(Slot(c).perm) \in SUBSET Rights /\ "R" \in AddRight(Slot(c).perm)
      BY <3>1, AddRightType DEF AddRight, Rights
    <3> QED BY <2>2, <3>2 DEF Entry
  <2>4. \E x \in {"leaf", "frame"} : pc' = [pc EXCEPT ![c] = x]
    BY <1>6 DEF LeafGrant
  <2> QED BY <1>0, <2>1, <2>3, <2>4, LeafStep
<1>7. ASSUME NEW c \in Procs, LeafFrame(c)
      PROVE  TreeOK'
  <2> DEFINE e == [Slot(c) EXCEPT !.frame = page[c]]
  <2>1. /\ pc[c] = "frame" /\ SetSlot(c, e) /\ UNCHANGED <<cnt, owner, page, lvl, cur>>
        /\ pc' = [pc EXCEPT ![c] = "type"]
    BY <1>7 DEF LeafFrame
  <2>2. Slot(c) \in Entry /\ page[c] \in Page
    BY <2>1, SlotType DEF Mapping, TypeOK
  <2>3. e \in Entry /\ e.frame = page[c] /\ e.perm = Slot(c).perm
    BY <2>2 DEF Entry
  <2>4. "R" \in Slot(c).perm
    BY <2>1 DEF TreeOK, RightsOK
  <2> QED BY <1>0, <2>1, <2>3, <2>4, LeafStep
<1>8. ASSUME NEW c \in Procs, LeafType(c)
      PROVE  TreeOK'
  <2> DEFINE e == [Slot(c) EXCEPT !.mt = IF c = Boot THEN "WB" ELSE "UC"]
  <2>1. /\ pc[c] = "type" /\ SetSlot(c, e) /\ UNCHANGED <<cnt, owner, page, lvl, cur>>
    BY <1>8 DEF LeafType
  <2>2. Slot(c) \in Entry
    BY <2>1, SlotType DEF Mapping, TypeOK
  <2>3. e \in Entry /\ e.frame = Slot(c).frame /\ e.perm = Slot(c).perm
    BY <2>2 DEF Entry, CacheType
  <2>4. "R" \in Slot(c).perm
    BY <2>1 DEF TreeOK, RightsOK
  <2>5. Slot(c).frame = page[c]
    <3>1. /\ cur[c] \in TableFrames /\ page[c][4] \in Index /\ page[c] \in Page /\ lvl[c] = 4
          /\ owner[cur[c]] = [level |-> 4, base |-> Base(page[c], 3)]
      BY <2>1, SlotType DEF LevelOK, TypeOK, TreeOK, PositionOK, Mapping
    <3>2. owner[cur[c]] # Unused /\ owner[cur[c]].level = 4
      BY <3>1, BaseType, OwnerAssumption
    <3>3. \A d \in Procs : pc[d] \notin {"leaf", "frame"}
      BY <1>0, <2>1 DEF OneWriter, Holding, Mapping
    <3>4. Slot(c).frame = LeafPage(owner[cur[c]], page[c][4])
      BY <2>4, <3>1, <3>2, <3>3 DEF TreeOK, LeavesOK, LeafWriting, Slot
    <3> QED BY <3>1, <3>4, LeafBase
  <2>6. \E x \in {"release", "idle"} : pc' = [pc EXCEPT ![c] = x]
    BY <1>8 DEF LeafType
  <2> QED BY <1>0, <2>1, <2>3, <2>4, <2>5, <2>6, LeafStep
<1>9. ASSUME NEW c \in Cpus, Launch(c)
      PROVE  TreeOK'
  <2>1. UNCHANGED <<cnt, mem, lock, bootNext, pc, page, lvl, cur, owner>>
    BY <1>9 DEF Launch
  <2> QED BY <2>1, TreeSame
<1>10. ASSUME NEW c \in Cpus, NEW p \in GuestPages, NEW a \in Rights, Violation(c, p, a)
       PROVE  TreeOK'
  <2>1. /\ c \in Procs /\ pc[c] = "idle"
        /\ pc' = [pc EXCEPT ![c] = "acquire"]
        /\ UNCHANGED <<cnt, mem, owner, lvl, cur>>
        /\ page' = [page EXCEPT ![c] = p]
    BY <1>10 DEF Violation, Procs
  <2>2. \A d \in Procs : d # c => page'[d] = page[d] /\ lvl'[d] = lvl[d] /\ cur'[d] = cur[d]
    BY <2>1 DEF TypeOK
  <2>3. "acquire" \notin Mapping
    BY DEF Mapping
  <2> QED BY <2>1, <2>2, <2>3, ControlStep
<1>11. ASSUME NEW c \in Cpus, Acquire(c)
       PROVE  TreeOK'
  <2>1. /\ c \in Procs /\ pc[c] = "acquire" /\ lock = Free
        /\ pc' = [pc EXCEPT ![c] = "test"]
        /\ UNCHANGED <<cnt, mem, owner, page>>
    BY <1>11 DEF Acquire, Procs
  <2>2. \A d \in Procs : pc[d] # "fault"
    <3>1. \A d \in Cpus : pc[d] \notin Holding
      BY <2>1, CpuAssumption DEF LockOK, Procs
    <3>2. running # {}
      BY <1>11, <2>1 DEF LockOK
    <3>3. pc[Boot] = "idle"
      BY <3>2 DEF LockOK, BootDone
    <3> QED BY <3>1, <3>3 DEF Procs, Holding, Dead
  <2>3. cnt <= NumPages
    BY <2>2, EnterRoom
  <2>4. cur'[c] = Pml4Phys /\ lvl'[c] = 1 /\ page'[c] = page[c] /\ page[c] \in Page
    BY <1>11, <2>1 DEF Acquire, TypeOK
  <2>5. owner[cur'[c]] = [level |-> lvl'[c], base |-> Base(page'[c], lvl'[c] - 1)]
    BY <2>4, BaseZero DEF TreeOK, OwnerOK
  <2>6. \A d \in Procs : d # c => page'[d] = page[d] /\ lvl'[d] = lvl[d] /\ cur'[d] = cur[d]
    BY <1>11 DEF Acquire, TypeOK
  <2> QED BY <2>1, <2>3, <2>5, <2>6, ControlStep
<1>12. ASSUME NEW c \in Cpus, Release(c)
       PROVE  TreeOK'
  <2>1. /\ c \in Procs /\ pc[c] = "release"
        /\ pc' = [pc EXCEPT ![c] = "idle"]
        /\ UNCHANGED <<cnt, mem, owner, page, lvl, cur>>
    BY <1>12 DEF Release, Procs
  <2>2. "idle" \notin Mapping
    BY DEF Mapping
  <2> QED BY <2>1, <2>2, ControlStep
<1>13. CASE UNCHANGED vars
  BY <1>13, TreeSame DEF vars
<1> QED
  BY <1>1, <1>2, <1>3, <1>4, <1>5, <1>6, <1>7, <1>8, <1>9, <1>10, <1>11, <1>12, <1>13
     DEF Next, MapStep

-----------------------------------------------------------------------------
(* Theorems.                                                               *)

IInv == TypeOK /\ LevelOK /\ LockOK /\ TreeOK

\* IInv is inductive: it holds at first and every step keeps it.
THEOREM Invariance == Spec => []IInv
<1>1. Init => IInv
  BY TypeInit, LockInit, TreeInit DEF IInv
<1>2. IInv /\ [Next]_vars => IInv'
  <2> SUFFICES ASSUME IInv, [Next]_vars PROVE IInv'
    OBVIOUS
  <2>1. TypeOK /\ LevelOK /\ LockOK /\ TreeOK
    BY DEF IInv
  <2>2. TypeOK' /\ LevelOK'
    BY <2>1, TypeStep
  <2>3. LockOK'
    BY <2>1, LockStep
  <2>4. TreeOK'
    BY <2>1, <2>2, TreePreserved
  <2> QED BY <2>2, <2>3, <2>4 DEF IInv
<1> QED BY <1>1, <1>2, PTL DEF Spec

\* No table is linked twice while the pool lasts, for any number of
\* processors that fault concurrently (ept.c:198-244).
THEOREM NoSharing == Spec => []TablesNotShared
<1>1. IInv => TablesNotShared
  BY DEF IInv, TreeOK
<1> QED BY <1>1, Invariance, PTL

\* FindVirtualAddress never reaches its bug check, whatever the size of the
\* pool, and returns NULL only after the pool was overrun (ept.c:119-139).
THEOREM LookupSound == Spec => []LookupFinds
<1>1. IInv => LookupFinds
  BY DEF IInv, TreeOK, PositionOK, LookupFinds
<1> QED BY <1>1, Invariance, PTL

\* One step of the page walker: a present entry of the table that serves the
\* region of p leads to the table that serves the next smaller one.
LEMMA WalkStep ==
  ASSUME TypeOK, TreeOK, PoolLasts,
         NEW p \in Page, NEW t, t \in TableFrames, NEW k \in 1 .. 3,
         owner[t] = [level |-> k, base |-> Base(p, k - 1)],
         EntryAt(t, p[k]).perm # {}
  PROVE  /\ EntryAt(t, p[k]).frame \in TableFrames
         /\ owner[EntryAt(t, p[k]).frame] = [level |-> k + 1, base |-> Base(p, k)]
<1>1. p[k] \in Index /\ Base(p, k - 1) \in Page
  BY PageIndex, BaseType
<1>2. owner[t] # Unused /\ owner[t].level = k
  BY <1>1, OwnerAssumption
<1>3. EntryAt(t, p[k]) = mem[t][p[k]]
  BY DEF EntryAt
<1>4. IsLink(t, p[k])
  BY <1>1, <1>2, <1>3 DEF IsLink, TreeOK, RightsOK
<1>5. owner[mem[t][p[k]].frame] = Child(owner[t], p[k])
  BY <1>1, <1>4 DEF TreeOK, LinksOK
<1>6. \E n \in 0 .. NumPages - 1 : mem[t][p[k]].frame = PagesPhys[n]
  BY <1>1, <1>4 DEF TreeOK, LinksOK
<1>7. mem[t][p[k]].frame \in TableFrames
  BY <1>6 DEF TableFrames, PoolFrames
<1> QED BY <1>3, <1>5, <1>7, ChildBase

\* The walk to a page that is granted ends at its own leaf entry.
LEMMA IdentityHolds == IInv => SettledIdentity
<1> SUFFICES ASSUME IInv, PoolLasts, NEW p \in GuestPages, NEW a \in Rights, Granted(p, a)
             PROVE  \/ Pte(p).frame = p
                    \/ \E c \in Procs : pc[c] \in {"leaf", "frame"} /\ page[c] = p
  BY DEF SettledIdentity
<1> DEFINE f2 == Pml4e(p).frame
           f3 == Pdpte(p).frame
           f4 == Pde(p).frame
<1>1. TypeOK /\ LevelOK /\ TreeOK /\ p \in Page
  BY MapAssumption DEF IInv
<1>2. a \in Pml4e(p).perm /\ a \in Pdpte(p).perm /\ a \in Pde(p).perm /\ a \in Pte(p).perm
  BY DEF Granted
<1>3. Pml4Phys \in TableFrames /\ owner[Pml4Phys] = [level |-> 1, base |-> Base(p, 1 - 1)]
  BY <1>1, BaseZero DEF TreeOK, OwnerOK, TableFrames
<1>4. f2 \in TableFrames /\ owner[f2] = [level |-> 2, base |-> Base(p, 2 - 1)]
  <2>1. EntryAt(Pml4Phys, p[1]).perm # {}
    BY <1>2 DEF Pml4e
  <2> HIDE DEF f2
  <2>2. /\ EntryAt(Pml4Phys, p[1]).frame \in TableFrames
        /\ owner[EntryAt(Pml4Phys, p[1]).frame] = [level |-> 1 + 1, base |-> Base(p, 1)]
    <3>1. 1 \in 1 .. 3
      OBVIOUS
    <3> QED BY <1>1, <1>3, <2>1, <3>1, WalkStep, ZenonT(30)
  <2> QED BY <2>2 DEF f2, Pml4e
<1>5. f3 \in TableFrames /\ owner[f3] = [level |-> 3, base |-> Base(p, 3 - 1)]
  <2>1. EntryAt(f2, p[2]).perm # {}
    BY <1>2 DEF Pdpte
  <2> HIDE DEF f2, f3
  <2>2. /\ EntryAt(f2, p[2]).frame \in TableFrames
        /\ owner[EntryAt(f2, p[2]).frame] = [level |-> 2 + 1, base |-> Base(p, 2)]
    <3>1. 2 \in 1 .. 3
      OBVIOUS
    <3> QED BY <1>1, <1>4, <2>1, <3>1, WalkStep, ZenonT(30)
  <2> QED BY <2>2 DEF f2, f3, Pdpte
<1>6. f4 \in TableFrames /\ owner[f4] = [level |-> 4, base |-> Base(p, 3)]
  <2>1. EntryAt(f3, p[3]).perm # {}
    BY <1>2 DEF Pde
  <2> HIDE DEF f3, f4
  <2>2. /\ EntryAt(f3, p[3]).frame \in TableFrames
        /\ owner[EntryAt(f3, p[3]).frame] = [level |-> 3 + 1, base |-> Base(p, 3)]
    <3>1. 3 \in 1 .. 3
      OBVIOUS
    <3> QED BY <1>1, <1>5, <2>1, <3>1, WalkStep, ZenonT(30)
  <2> QED BY <2>2 DEF f3, f4, Pde
<1>7. /\ Pte(p) = mem[f4][p[4]] /\ p[4] \in Index
      /\ owner[f4] # Unused /\ owner[f4].level = 4
      /\ "R" \in mem[f4][p[4]].perm
      /\ LeafPage(owner[f4], p[4]) = p
  <2>1. p[4] \in Index /\ Base(p, 3) \in Page
    BY <1>1, PageIndex, BaseType
  <2>2. Pte(p) = mem[f4][p[4]]
    BY <1>6 DEF Pte, EntryAt
  <2> HIDE DEF f4
  <2>3. owner[f4] # Unused /\ owner[f4].level = 4
    BY <1>6, <2>1, OwnerAssumption
  <2>4. "R" \in mem[f4][p[4]].perm
    BY <1>1, <1>2, <1>6, <2>1, <2>2 DEF TreeOK, RightsOK
  <2>5. LeafPage(owner[f4], p[4]) = p
    BY <1>1, <1>6, LeafBase
  <2> QED BY <2>1, <2>2, <2>3, <2>4, <2>5
<1> HIDE DEF f4
<1>8. CASE mem[f4][p[4]].frame = LeafPage(owner[f4], p[4])
  BY <1>7, <1>8
<1>9. CASE \E c \in Procs : LeafWriting(c, f4, p[4])
  <2>1. PICK c \in Procs : LeafWriting(c, f4, p[4])
    BY <1>9
  <2>2. /\ pc[c] \in {"leaf", "frame"} /\ cur[c] = f4 /\ page[c][4] = p[4]
        /\ lvl[c] = 4 /\ page[c] \in Page
        /\ owner[f4] = [level |-> 4, base |-> Base(page[c], 3)]
    BY <1>1, <2>1 DEF LeafWriting, TreeOK, PositionOK, LevelOK, TypeOK, Mapping
  <2>3. LeafPage(owner[f4], p[4]) = page[c]
    BY <2>2, LeafBase
  <2> QED BY <1>7, <2>2, <2>3
<1> QED BY <1>1, <1>6, <1>7, <1>8, <1>9 DEF TreeOK, LeavesOK

\* Whatever a processor can reach through the tree is the page it asked for,
\* except for a page whose leaf entry is half written at that moment.
THEOREM SettledPagesAreIdentity == Spec => []SettledIdentity
<1>1. IInv => SettledIdentity
  BY IdentityHolds
<1> QED BY <1>1, Invariance, PTL
=============================================================================
