# A specification of hypervisor-for-beginners

TLA+ modules that model the thin VT-x/EPT hypervisor of this repository, TLC
configurations that check them on small instances, and theorems that TLAPS checks for
every instance: every invariant that a passing run checks is proved, and so is the
safety part of both refinements. Paths like `ept.c:249` are relative to `src/`.

    tlc -workers 2 -config MCEptSafety.cfg MCEptTlb   # one run
    tlapm EptProofs.tla                               # the proofs

## 1. The system

The driver puts the running Windows into a virtual machine, one processor after
another, and from then on only reacts to VM exits.

| Component | State it keeps | Operations | What makes it correct |
|---|---|---|---|
| Physical memory map: `GetE820FromRegistry`, `EptMapRage`, `CountForPages` (ept.c), `reghelper.c` | `g_PhysicalMemoryBuffer`, `g_TotalPhysicalMemory`, `g_EptNumberOfPages` | read once, enumerated twice | the ranges counted are the ranges mapped; the pool suffices for them |
| EPT tree: `InitEptTable`, `EptMapPage`, `FindVirtualAddress`, `EptViolation` (ept.c, ept.h) | `g_ept` (root, pool, `cnt`), `g_EptSpinLock`; shared by all processors | `Ept11mapping` before any guest, `EptViolation` by any processor | one writer, no shared tables, every page mapped to itself with the right cache type, every violation resolved |
| Loading: `DriverEntry`, `EnterVMM`, `RunOnProcessor` (main.c), `InitializeVMMInitState` | `g_VMMInitState[64]`, the affinity of the thread | load; `ExitVMM`, which nothing calls | every processor virtualised once, after the tree is complete; a failure leaves nothing behind |
| Bring-up of one processor: `StartVMX` (common-asm.asm), `EnableVMX`, `VmxSetupVMCS`, `doStartVMX` (vmx.c), `EptInit` | CR4.VMXE, VMX operation, the VMCS | runs once per processor at DISPATCH_LEVEL | stops at the first failed step |
| Control fields: `VmxAdjustControls`, `vmx_detect_capability` (vmx.c, msr.h) | the `vmx_*` globals, overwritten by each processor | read capability MSRs | what must be one is one, what must be zero is zero |
| Segments: `GetSegmentDescriptor`, `VmxFillGuestSelectorData` (cpu.c) | none | decode a GDT entry | base, limit and rights of the guest are those loaded |
| VM exits: `VmxExitHandler` (vmx-asm.asm), `doVmxExitHandler` (vmxexithandler.c), `exceptionnmi.c`, `vmcall.c` | the registers on `VMMStack`, the VMCS | one handler per exit reason, VMRESUME | the guest does not notice, and goes on |
| Stopping: `StopVMX`, `VmxExitCall`, `VmxExitOff`, `VmxRestoreOldRegs`, `ExitVMM` | as above | VMCALL 20h, VMXOFF | the processor continues where it was, without the hypervisor |
| Helpers: `common.c` (no callers), `regs-asm.asm`, `msr-asm.asm` | none | read or write one register | |

How they interact. `DriverEntry` reads the memory map, builds the tree and calls
`EnterVMM`, which moves its thread to each processor and runs `StartVMX` there;
VMLAUNCH returns as the guest at `StartVMXBack`. From then on the processor
enters `VmxExitHandler` on every exit, with interrupts off and on its own stack.
The processors share nothing but the tree; a processor in guest mode also reads
it, in hardware, at any time and without the lock.

What is hard:

* **Concurrency.** `EptMapPage` stores an entry piece by piece while the page
  walkers of other processors read it; `Ept11mapping` takes no lock and relies on
  the phase; the processors contend for a spin lock in VMX root.
* **Limits.** The pool is sized by a rule of thumb and never checked; processor
  numbers are shifted in an `int`; operands of 32 bits travel in 64-bit registers.
* **Partial failure.** Statuses are overwritten or ignored on the way from
  `InitializeVMMInitState` and `doStartVMX` to `DriverEntry`, and flags are read
  from bit-fields declared in the reverse order.
* **Staleness.** A VMCS region that is never cleared, control registers of the
  host at VMXOFF, cached translations.
* **Liveness.** An exit that is resumed without advancing rip repeats forever.

Nothing is persisted and there are no messages or timers. `PROJECT.json`,
"hazards", lists each of these at its line.

## 2. The modules

    EptMapping <--implements-- Ept <-- EptProofs <-- EptCacheProofs <-- EptPromiseProofs
                                ^                         ^-- EptTlbProofs
                                ^-- EptTlb <--------------------'
                                ^      ^-- MCEptTlb
                                ^-- MCEpt <---'
    PhysMem <-- MCPhysMem, PhysMemProofs
    Driver  <-- MCDriver, DriverProofs
    Vmcs    <-- MCVmcs, VmcsProofs
    Guest   <-- GuestMachine <--implements-- VmExit <-- MCVmExit, VmExitProofs

An arrow without a word is EXTENDS.

The pieces meet where the code hands over. `PhysMem` ends with the ranges that `Ept`
maps page by page; its `Cnt` is what `Ept!CntIsDemand` proves `cnt` to be. `Ept` lets a
guest run only after the boot map, which `Driver!GuestHasEpt` provides. `Driver` takes
from `hw`, for each processor, whether VMLAUNCH succeeds, and `Vmcs!LaunchExplained` says
when; its "ctls2" is `Vmcs!NoSecondary`.
`Driver`'s `StopCall` is the result of `VmExit`'s way out.

### Ept (ept.c, ept.h)

The tree, from the return of the allocations of `InitEptTable`. A page is its four
indices (`EPT_PHYSICAL_ADDRESS` without the offset), an entry its rights, frame and
memory type. `mem` holds the root and the pool; `FindVirtualAddress` is `Lookup`.
A process is a processor or `Boot`, the thread that runs `Ept11mapping`. Its `pc`
stands in `EptMapPage`:

    idle -> acquire -> test -> (grant -> bump ->) test ... -> leaf -> frame -> type -> release -> idle

| Action | Code |
|---|---|
| `BootPage` | one iteration of `EptMapRage` under `Ept11mapping` |
| `Launch(c)` | VMLAUNCH on processor c, only after `InitEptTable` has returned |
| `Violation(c, p, a)` | an access the tree does not grant: the exit and `HandleEptViolation` |
| `Acquire`, `Release` | `KeAcquireSpinLock`, `KeReleaseSpinLock` and VMRESUME |
| `Descend` | the entry is present: `FindVirtualAddress` |
| `LinkFrame`, `LinkGrant`, `LinkBump` | the stores of a new link: frame, Read, Write, Execute, `cnt++` |
| `LeafGrant`, `LeafFrame`, `LeafType` | the stores to the PTE: Read, Write, Execute, PageFrameNumber, MemoryType |

Every store is a step. Stores are seen in program order, as on x86; a compiler
that merges the bit-field stores only removes interleavings. `owner` is a history
variable: the level and region a table serves. A frame that is no table of the
hypervisor's is read as `Stray`, an entry that grants everything. A processor that
dereferences the NULL beyond the pool stays at `fault`, holding the lock.

Not in this module: `IgnorePAT`, access masks other than RWX (no caller passes
another), `EptMapPage_ENTER`/`LEAVE` (their calls are commented out),
`EptSetPageAccess` (no caller).

### EptTlb (ept.c:283-286)

`Ept` with the translations that processors cache. `Fill` is a walk that is kept,
`Evict` drops it at any time, `TlbViolation` and `StaleViolation` are the accesses that
the cached translation does not grant, which make the processor forget the page. There
is no INVEPT in the code and none in the module. A processor keeps one translation:
what the properties say is said of each cached translation by itself.

### PhysMem (ept.c, reghelper.c)

From the registry to the mapped tree, at the scale of the code: pages of 4 KB, tables of
512 entries, the constants of `CountForPages`.

    open -> query -> count ... -> alloc -> map ... -> done

| Action | Code |
|---|---|
| `OpenKey`, `QueryFails`, `Query` | `NIAPGetRegValue`, `NIAPGetRegKeyValue`: the room that is allocated, where Windows may put the data, the copy |
| `CountRange`, `SizePool` | the loop of `GetE820FromRegistry` with its bug check, `CountForPages` |
| `Alloc`, `AllocFails` | the loop of `InitEptTable` over the pool |
| `MapRange` | one iteration of `Ept11mapping`: the tables that the pages of a range need |
| `Finish` | `InitEptTable` returns |

How a page is mapped is `Ept`'s subject; here a range is one step and a table is the
region that it maps. `sums` is a history variable, the total before each descriptor.
Left out: offsets within a page; every range begins on one, as Windows reports them.

### EptMapping

What the tree promises: a page is unmapped until it is mapped once and for all to
itself, RAM write-back before the first guest, other pages uncached on demand; a
processor that asks gets its page before it is resumed. `Ept!KeepsPromise` maps the steps
of `Ept` to it; that it is resumed at all is `Ept!ViolationResolved`. The promise is made by a pool that suffices
(`PoolLasts`, run ept_live); when the pool runs out the processor is dead, and
`LookupFinds` says that this is the only way.

### Driver (main.c, vmminitstate.c, vmx.c, common-asm.asm)

One thread and the state it leaves on the machine. `hw` says of each processor where it
stops `StartVMX`, and `Init` chooses it for each by itself, so that a machine may be
virtualised in part: CPUID without VMX, EPT not detected, a memory type that is not
write-back, a feature control that makes VMXON fault, a VMXON that fails, no MSR for the
secondary controls (vmx.c:351), a VMLAUNCH that fails, or nowhere. What comes after the
step that stops a processor cannot matter, so one of the eight is enough. `pc` follows `DriverEntry` and, on the processor `cpu`,
`StartVMX`:

    e820 -> ept -> scan -> alloc -> enable -> vmxon -> vmcs -> launch -> return -> scan ... -> done

`InitializeVMMInitState` may stop after any of its four allocations (`Prepare`),
and the status is lost as in the code. `Mask` is `(KAFFINITY)(1 << n)`: the count is
taken modulo `IntBits`, and the top bit is extended to `MaxCpus` bits. `flags` are
the bits of RFLAGS, and `Carry` and `Zero` read the bits where the fields of
`RFLAGS` (cpu.h:66-96) lie. A step that faults or calls `KeBugCheck` sets
`crashed`, after which nothing happens. A processor that is a guest may exit at any
time, which matters only when its stack was never allocated
(`ExitWithoutStack`). The `VM_INSTRUCTION_ERROR` printing is left out.

`ExitVMM` undoes the load (main.c:53-65), and nothing calls it: `main.c` sets no
`DriverUnload`. `Spec` is the driver as it is, `ExitSpec` adds a caller (`ExitVmm`), and
then `exit -> call -> clear -> exit ... -> gone` on each processor: `ExitScan` is the loop
and `RunOnProcessor`, `StopCall` the VMCALL of `VmxExitCall`, `StopClear` the write to CR4.

### Vmcs (vmx.c, cpu.c, ept.c:471-499)

One processor from the capability MSRs to VMLAUNCH: `Enable`, `SetupSegments`,
`SetupControls`, `SetupRegisters`, `EptInit`, `Launch`. A control word is the set of its
bits that matter, adjusted with the low and the high half of the MSR that the code
reads; the processor judges it by the TRUE MSRs if it has them. A base is three parts
(bits 32-63, 24-31, 0-23), so that the sign extension of `base2 << 24` and the upper
half of a system descriptor can be told apart. A host selector keeps five bits of its
index (`HostSelector`). The value of a register that is copied is its name. What an
earlier processor left in the globals of the secondary controls, which the code writes
only where it finds those, is `m.before`; a processor that passes the test for EPT by it
and has no secondary controls faults (`NoSecondary`). `Launch` states the checks of VM entry that a field of this VMCS can
fail. `left` is what an allocated but unwritten field holds.

### Guest, GuestMachine, VmExit (vmxexithandler.c, vmx-asm.asm, vmcall.c, exceptionnmi.c)

`Guest` has the registers and instructions and what each does; `GuestMachine` is a
processor that executes one instruction per step. It differs from one without a
hypervisor in two things: RDMSR outside the two ranges reads 0 and WRMSR there does
nothing, and VMX instructions set CF. Its CPUID is the true one, with the sub-leaf in
ECX, which the handler ignores (`GetCpuIdInfo`, regs-asm.asm:218-239, is called with the
function in ecx). `Sys` are the registers that an exit replaces by those of the host and
`VmxRestoreOldRegs` gives back: CR0, CR3, CR4, GDTR, IDTR and the bases of FS and GS;
"load" is any instruction that writes one of the last four.

It executes every instruction, also those that the code gets wrong: XSETBV, GETSEC,
INVEPT, INVVPID, CLTS, MOV CR with rsp or r8 to r15, a CPUID whose sub-leaf matters, a
VMCALL with 20h in rax, and exceptions that exit. The run exit_transparent therefore
leaves these out, exit_keeps checks what remains true
of them, and exit_listed and exit_moves show where they go wrong.

`VmExit` is the same processor under the hypervisor: `Exit` (the hardware),
`SaveRegisters`, one action per case of `doVmxExitHandler`, `RestoreRegisters`,
`VmResume`, and for the stop `VmxExitCall`, `VmxExitOff`, `VmxExitPoint`. `frame` is
the `GUEST_REGS` on `VMMStack`: its slot rsp receives rbp, as the assembler pushes
it. What the C compiler does to volatile registers is `Clobber`. Which of the
conditional instructions exit is chosen by `Init` (`exiting`): CR3 accesses exit on
the first processors, and EXCEPTION_BITMAP, the CR masks and, after a failed
allocation, the MSR bitmap hold what memory held. The length of an exception is
undefined and is any number.

Left out: TLBs and caches (INVD has no effect on the state), CR8, LMSW, the
VMRESUME that fails, and what a processor does after it has left the hypervisor. "stop"
is the call of `VmxExitCall`; any other VMCALL with 20h in rax also ends in `VmxExitOff`
and goes on at what lies on top of the guest's stack (`stack`), which is anything.

The processors share only the tree, so `VmExit` has one; "touch" exits until the
handler has mapped the page, which is what `Ept!ViolationResolved` provides.

## 3. The runs

| Run | Instance | What it shows |
|---|---|---|
| ept_safety | 2 processors, 4 guest pages that need 0, 1, 2 and 3 more tables, a range that is mapped twice, a pool of 8, one less than all of them need | `OneWriter`, `TablesNotShared`, `LookupFinds`, `CntIsDemand`, `SettledIdentity`, `RamIsCached`, and of what is cached `CachedRightsGranted`, `CachedRamIsRight` |
| ept_torn | 2 processors, pool of 9 | **violation** of `CachedIdentity`: present entry, no frame, and the walk is kept |
| ept_live | 2 processors, pool of 9 (just enough), fairness | `PoolLasts`; violations are resolved; `Ept` implements `EptMapping` (`KeepsPromise`) |
| phys_map | 19 lists of the registry at real scale: PCs up to 5 GB above the hole, 42 scattered pages at any distance, 42 ranges across 1 GB borders, 43 to 512 ranges, empty, unknown kinds, all failures | `PoolHoldsRam`, `SuccessMeansRead`, `BugCheckIsEarly`, `OverrunNeeds170GB` |
| vmcs_launch | with and without TRUE MSRs, secondary controls, EPT, RDTSCP, as the first processor and after one with EPT; null, usable and LDT selectors in ES, FS, LDTR, and CS and TR within and beyond the first 32 descriptors; clean and dirty VMCS memory | `LaunchExplained`, `RunsUnderEpt`, `SameMachine`, `OnlyHandledExits` |
| driver_few | 3 of 4 processors, int of 4 bits, all 512 combinations of what stops each, all failures, fairness | the load and `ExitVMM` over all processors: five invariants of the load, `ExitUndoes` and `ExitCrashExplained`, and that `DriverEntry` returns |
| driver_many | 4 processors, int of 2 bits | **violation** of `EveryCpuVirtualised` |
| driver_vmxon | 3 processors | **violation** of `VmxonFailureHandled` |
| exit_transparent | every program of 3 of 16 instructions, 2 start states, 4 choices of exits, CPUID without sub-leaves, fairness | refinement of `GuestMachine`: transparent, and never hangs |
| exit_keeps | every program of 2 of 22 instructions, 20h in rax among them, 128 choices of exits | nothing but the outputs of an instruction changes over an exit, and VMXOFF gives back what the exit had replaced |
| exit_listed | programs of CPUID, INVD, XSETBV, fairness | **violation** of `ListedInstructionsRetire` |
| exit_moves | programs of MOV to CR | **violation** of `MovToCrCopies` |

Bounds. Tables have two entries, so that two pages can share or differ at every
level, and the four guest pages do so at each; two processors are one that writes and
one that waits or walks. In ept_safety the pool ends with the last table of the last
page, so every state before that is checked and the overrun too. One cached translation
per processor suffices, because the properties are about each by itself. `PhysMem` has
the sizes of the code; its lists are chosen at the edges: ranges that cross from one
table to the next at each level, the longest list that is read (510 descriptors fit the
room) and the next two, and lists that overrun the pool or the array. A selector of each kind is
enough for `Vmcs`, because segments are set up independently. A register half has two
bits; three instructions suffice for one to prepare the operands of another and for a
program to go on. Four processors with an int of two bits show the wrap and the sign,
and with an int of four bits neither. Symmetry between processors is used only where no
liveness is checked. There are no other bounds: counters end with the pool, the boot map
and the loops of `EnterVMM` and `ExitVMM`.

Fairness. `Ept`: the steps of a processor in VMX root are weakly fair because
nothing preempts it (interrupts are off and it does not block), and so is
`Acquire`: the lock of Windows is not a fair one, but every violation leaves one page
more mapped, so a processor that waits is overtaken finitely often only. `Launch` and `Violation` are not fair: a guest need not fault.
`Driver`: the thread of `DriverEntry` is scheduled as long as the machine runs; nothing
is assumed of a caller of `ExitVMM`.
`VmExit`: a processor goes on.

Deadlock checking is off where the system rests: all pages mapped, the driver
loaded or crashed, the processor out of the hypervisor.

## 4. What the violations say

1. **Torn PTE** (ept_torn, ept.c:249-276): Read, Write and Execute of a PTE are set
   before its frame. A second processor that touches the page in between does not
   exit and reaches physical page 0, and without INVEPT it may keep that translation
   after the entry is complete. `SettledIdentity` shows this is the only wrong
   translation of a tree in memory, and `CachedRamIsRight` that only pages mapped on
   demand are concerned, never RAM.
2. **Processors from 32 on** (driver_many, main.c:21): the int shift wraps, so they
   are never virtualised, and `StartVMX` returns to processors that are guests.
   `EveryCpuVirtualised` and `ActiveVmcsUntouched` hold with fewer (proved).
3. **VMXON failure** (driver_vmxon, vmx.c:262, cpu.h:66-96): the carry flag is read
   from bit 31; the VMCLEAR after a failed VMXON raises an invalid opcode.
4. **Unhandled exits** (exit_listed, vmxexithandler.c:271): the default case prints
   and resumes at the same instruction.
5. **MOV CRx, rsp / r8-r15** (exit_moves, vmx-asm.asm:16, vmxexithandler.c:91-102).

Noted while modelling, without a run of its own, because no text of the repository
promises otherwise, no model can decide it, or the error is all in one step, so that a
property could only repeat it:

* `main.c` sets no `DriverUnload`, so `sc stop` (README.md:27-30) does not remove the
  hypervisor. `ExitVMM` would, on a machine where every processor is a guest; on
  another it crashes (`ExitCrashExplained`), because `StopVMX` does not ask.
* `DriverEntry` prints "VMM running!" and returns success when no processor was
  virtualised (main.c:125-130).
* The status that `InitializeVMMInitState` returns is overwritten (main.c:87-90), and the
  processor is started with a region missing: it crashes there, or, without the stack, at
  its first exit. `CrashExplained` (proved) says that this happens only to processors the
  loop has reached, and lists it with the few other failures that are not handled.
* `EptMapRage` maps the page behind every range as RAM (ept.c:314), and a table for it
  where one is needed. `PoolHoldsRam` counts these.
* On a processor without the TRUE MSRs `vmx_detect_capability` takes what must be one
  for what may be one, and reports that EPT is not supported (vmx.c:131-151).
* The globals of the secondary controls keep what an earlier processor had (vmx.c:41-43),
  so that the test for EPT may pass on a processor without them, which then faults at
  vmx.c:351; `RunsUnderEpt` shows that none becomes a guest without EPT.
* Host selectors keep five bits of their index (vmx.c:303-309): VM entry refuses a code
  segment or TSS whose index is a multiple of 32, and beyond 31 the host runs on other
  selectors than the guest (`LaunchExplained`, `SameMachine`).
* CPUID ignores the sub-leaf (vmxexithandler.c:41).
* Any VMCALL of the guest with 20h in rax ends the hypervisor on its processor
  (vmcall.c:19), and execution goes on at what lies on top of the guest's stack.
* `VmxRestoreOldRegs` does not restore segment selectors, LDTR, DR7, DEBUGCTL and the
  SYSENTER MSRs, which an exit replaces too; they are not in `Sys`.
* The comment of `CountForPages` (ept.c:402-405) and its formula disagree; the formula
  suffices for 42 ranges. `g_ept.pages` is overrun from 170 GB of memory on.
* `InitEptTable` does not free the pages of a pool it could not complete.
* VMCS fields that are never written hold what memory held, the guest's pending debug
  exceptions and EXCEPTION_BITMAP among them; HOST_RSP is odd (vmx.c:411); the exit
  handler does not save the xmm registers.
* `HandleMsrRead` and `HandleMsrWrite` test ranges on rcx where their comment says ECX
  (vmxexithandler.c:142-149); exceptions that exit are dropped and skipped.
* `UninitializeVMMInitState` keeps `MsrBitmap` and frees `VMMStack` with another tag.

## 5. What is proved

### EptProofs

`EptProofs` proves about `Ept`, for any set of processors, any size of tables and
pool, any boot map and any guest pages:

| Theorem | States |
|---|---|
| `TypeCorrect` | `Spec => []TypeOK` |
| `WriterExclusion` | `Spec => []OneWriter` |
| `Invariance` | `Spec => []IInv`, the inductive invariant |
| `NoSharing` | `Spec => []TablesNotShared` |
| `LookupSound` | `Spec => []LookupFinds` |
| `SettledPagesAreIdentity` | `Spec => []SettledIdentity` |

Assumptions: those named in `Ept`. The allocator returns distinct physical pages,
none of them page 0 or the root; the boot thread is not a processor; the values
standing for "no table" and "nobody" are none of the real ones; tables have an entry.

The argument. None of the properties is inductive. `IInv` adds

* `LevelOK`: links are written at levels 1 to 3, leaves at level 4;
* `LockOK`: no guest runs before the boot map is done, and afterwards the process
  inside `EptMapPage` is the holder of the lock. This replaces the lock
  `Ept11mapping` does not take and gives `OneWriter`;
* `TreeOK`, the shape of the tree: a process stands in the table that its page
  needs (`PositionOK`); the tables in use are the first `cnt` pool pages and the one
  being linked, all others are still zero (`OwnerOK`); a link leads to a table that
  serves exactly its region (`LinksOK`, `LinkingOK`); a leaf holds its own page
  unless it is being written (`LeavesOK`); Read is set first (`RightsOK`); after an
  overrun a dead process holds the lock forever (`OverrunOK`).

Each action preserves each part; the store of a link is the hard case, because the
new table must be one that nobody points to yet, which is what `OwnerOK` counts.
`SettledPagesAreIdentity` then follows a walk down four levels by `LinksOK` and
`LeavesOK`.

### EptCacheProofs

From the same assumptions, what happens to the tree as it grows:

| Theorem | States |
|---|---|
| `CacheInvariance` | `Spec => [](IInv /\ CacheOK)`, inductive |
| `TreeOnlyGrows` | `Spec => [][EntriesGrow]_vars`: no step takes a right, moves a link or gives a table another place |
| `CachedExactlyRam` | `Spec => []RamIsCached` |

`RamIsCached` compares an entry with the way it was written, so `CacheOK` follows the
writer. An entry has no right or all but while its rights are stored (`FullOK`); a
writer stands where the walk to its page leads, below entries that are complete
(`PathOK`); what `Ept11mapping` has passed is mapped (`BootOK`); hence no processor
exits for RAM (`WantOK`) and a leaf has the type of its writer (`TypesOK`). `PathOK` is
the hard part, because it must survive the steps of others: `EntriesGrow` is proved of
every action first (`GrowStep`), and with it a walk that was open stays open and leads
to the same tables (`WalkStays`, `GrantedStays`).

### EptTlbProofs

| Theorem | States |
|---|---|
| `TlbInvariance` | `TlbSpec => []TlbInv` |
| `RightsNeedNoInvept` | `TlbSpec => []CachedRightsGranted` |
| `CachedRamStaysRight` | `TlbSpec => []CachedRamIsRight` |
| `TreeSafeWithCaches` | `TlbSpec => []` of `TypeOK`, `OneWriter`, `TablesNotShared`, `LookupFinds`, `SettledIdentity`, `RamIsCached` |

A cached translation is as right as when it was read, because the tree only grows, and
one of RAM was read from a complete entry, because guests start after `Ept11mapping`.
`StaleViolation` is not a step of `Ept` (the tree may grant by now what the processor
exits for), so the invariants of `Ept` are proved anew for it; it needs the page not to
be RAM, which is where `CachedRamIsRight` is used, and the two are inductive only
together.

### EptPromiseProofs

With `Touched` the pages of `BootMap` and `GuestPages`, and `Demand(P)` the tables that
the pages `P` need below the root:

| Theorem | States | With |
|---|---|---|
| `PromiseInvariance` | `Spec => [](IInv /\ CacheOK /\ PromiseOK)`, inductive | |
| `PoolUseIsDemand` | `Spec => []CntIsDemand` | |
| `TreeKeepsPromise` | `Spec /\ []PoolLasts => KeepsPromise` | |
| `PoolSuffices` | `Spec => []PoolLasts` | `Demand(Touched) <= NumPages` |
| `NobodyDies` | `Spec => []` no process at `fault` or `bugcheck` | `Demand(Touched) <= NumPages` |
| `TreeImplementsMapping` | `Spec => KeepsPromise` | `Demand(Touched) <= NumPages` |

`PromiseOK` adds that a pool page, once handed out, is a table on the way to a page that
is mapped or being mapped (`UsedOK`), that a table being linked is empty (`FreshOK`),
and that a processor resumes with its page done (`ReleaseOK`). From `UsedOK` and
`LinksOK` follows that handed-out pages and needed regions are in bijection:
`DemandMet` counts them. `RoomForLink` then shows that the region of a table about to be
linked is one that no table serves yet, so that `cnt` is below the demand and, by the
hypothesis, below the size of the pool. `PromisesStep` maps each action: the last store
of `Ept11mapping` to `MapRam`, that of `EptViolation` to `Provide`, VMLAUNCH to `Start`,
an exit to `Ask`, VMRESUME to `Resume`, all else to a stutter.

The hypothesis says when the rule of thumb of `CountForPages` is enough. It is
satisfiable: in ept_live it holds with equality, in ept_safety the pool is one short and
runs out. Of the code, `PhysMemProofs!PoolSuffices` gives the part of RAM for lists of
up to 42 ranges, and leaves 6 pages for every range less. Device pages that guests touch
must fit into those: nothing in the code checks that they do.

### PhysMemProofs

For every list of ranges and every `MaxPages` (from `ValuesAssumption` and
`MaxPagesAssumption` alone; `OverrunIsFar` assumes `MaxPages = 131072`):

| Theorem | States |
|---|---|
| `TypeCorrect` | `Spec => []TypeOK` |
| `PoolSuffices` | `Spec => []PoolHoldsRam` |
| `QueryReads` | `Spec => []SuccessMeansRead` |
| `NoLateBugCheck` | `Spec => []BugCheckIsEarly` |
| `OverrunIsFar` | `Spec => []OverrunNeeds170GB` |

The inductive invariant relates the tables to the amount of memory seen so far. A range
of `l` pages needs at most `(l + 2 span - 1) / span` tables that map `span` pages each
(`SpannedBound`), so `n` ranges of `s` pages in all satisfy
`span * Cardinality <= s + (2 span - 1) n` at each level (`Fits`, `FitsGrows`), and
`sums` says that `s` is at most the total that sized the pool. `TablesFit` adds the three
levels up and compares them with `CountForPages`. The 42 is sharp: 43 ranges, one of
511 * 512 + 1 pages and the others of one page, each across another multiple of 512 GB,
need 597 + 86 + 86 = 769 tables of the 768 (addresses beyond TLC's integers; phys_map has
300 ranges that overrun the pool at lower ones).

### DriverProofs

For any number of processors, about `ExitSpec`, of which `Spec` is a case (`AsItIs`):

| Theorem | States | With |
|---|---|---|
| `TypeCorrect` | `ExitSpec => []TypeOK` | |
| `FailureIsClean` | `ExitSpec => []FailureLeavesNothing` | |
| `GuestsHaveEpt` | `ExitSpec => []GuestHasEpt` | |
| `VmcsUntouched` | `ExitSpec => []ActiveVmcsUntouched` | `NumCpus < IntBits` |
| `AllVirtualised` | `ExitSpec => []EveryCpuVirtualised` | `NumCpus < IntBits` |
| `CrashesExplained` | `ExitSpec => []CrashExplained` | `NumCpus < IntBits` |
| `ExitIsComplete` | `ExitSpec => []ExitUndoes` | `NumCpus < IntBits` |
| `ExitIsExplained` | `ExitSpec => []ExitCrashExplained` | `NumCpus < IntBits` |

With `NumCpus < IntBits`, at most 31 processors, a mask names one processor (`MaskIs`),
and driver_many shows that the theorems need it. `IInv` orders the phases: nothing is
touched before the tree is ready. `IFew` follows the two loops: processors from `i` on
are not entered yet (`LoadOK`), what `StartVMX` has tested holds (`TestedOK`), those
before `i` are guests if each of them could be (`VirtualisedOK`), and `ExitVMM` has undone those
before `i`, each of which was a guest (`LeaveOK`).

### VmcsProofs

For any processor, any capabilities and any content of the segment registers:

| Theorem | States |
|---|---|
| `VmcsInvariance` | `Spec => []VmcsInv`, inductive |
| `LaunchesUnlessRefused` | `Spec => []LaunchExplained` |
| `GuestUnderEpt` | `Spec => []RunsUnderEpt` |
| `ExitsAreHandled` | `Spec => []OnlyHandledExits` |
| `GuestIsSameMachine` | `Spec => []SameMachine` |

Assumptions, those named in `Vmcs`, all of them the architecture's or the system's:
selectors and descriptors have their fields (`SelectorAssumption`, `GdtAssumption`); no
capability MSR forces a bit that may not be one or that is outside the default1 class
(`Default1`), the TRUE MSRs force no more than the others, and 64-bit
processors have the IA-32e controls (`CapabilityAssumption`); a 64-bit system runs a
flat code segment, has a TSS, and the GDT entry of a loaded selector is a present one of
its kind (`SegmentAssumption`).

`VmcsInv` says what each step has left in the VMCS (`SegsWritten`, `ControlsWritten`,
`RegistersWritten`, `EptWritten`). The one step that rewrites what another wrote is
`EptInit`; that it preserves `ControlsWritten` is `AdjustedControls`, about
`VmxAdjustControls` with any request. `LaunchVerdict` goes through the checks of VM
entry and shows that the field it judges fails exactly when `RefusedWhen` says: a
selector of the LDT, a null selector other than 0, a data segment above 2 GB, CS or TR at
a multiple of 32, or what lies in the fields that are never written. `ExitsAreHandled`
compares what the code requests and what the default1 class may add with all the controls
that make a guest exit: EPT violations and accesses to CR3 are left, and both have a case.

### VmExitProofs

For any program over any set of instructions, registers of any width, any answers of
CPUID and any choice of exits:

| Theorem | States |
|---|---|
| `ExitInvariance` | `Spec => []VInv`, inductive |
| `TypeCorrect` | `Spec => []TypeOK` |
| `RegistersKept` | `Spec => []NothingElseChanges` |
| `GuestSeesMachine` | `Spec /\ []SoundExit => Transparent` |
| `PlainGuestSeesMachine` | `Spec => Transparent`, for guests that leave the MSRs alone, execute no VMCALL but that of `VmxExitCall`, move no control register from or to rsp or r8 to r15, whose CPUID has no sub-leaves, and whose exceptions and CLTS do not exit |

`VInv` says at each point of an exit where the guest's registers are: in the processor,
in `frame` and the VMCS, or on the way back, and that all of them but those the
instruction writes are the ones it came with (`ExitedAt`, `HandledOnly`). For the stop
it follows them over VMXOFF to `VmxExitPoint` (`Stopping`), where the registers of `Sys`
are the guest's again on whatever VMCALL. `MachineStep` shows that the
handler's action is one step of `GuestMachine` and that all other actions are stutters.

`SoundExit` names what the refinement needs of a guest: an instruction that exits is one
the handler emulates as the processor does, or leaves alone: no exception, no CLTS, no MOV
CR with rsp or r8 to r15, CPUID only where the sub-leaf does not matter, VMCALL only with
another number than 20h in rax, and RDMSR or WRMSR only with an upper half of rcx that is 0.
Every state of the run exit_transparent satisfies it. exit_moves is what happens
without; XSETBV, which exit_listed shows, is faithful to the guest's state and merely
never retires, a matter of liveness.

### What proving changed

* Two CASE expressions, in `VmExit!GuestCpu` and `Vmcs!DescriptorBase`, had guards that
  overlap, where the code tests one after the other; they are disjoint now.
* `LaunchExplained` needed what it had left unsaid of a null selector, for which the code
  reads no descriptor (cpu.c:58).

### Only model-checked

* Liveness, because the prover has neither fairness nor ENABLED: `ViolationResolved`,
  `EntryReturns` and `NeverHangs`.
* The properties of the runs that expect a violation, which are false.

No module declares a RECURSIVE operator. Totals are kept in variables as the code keeps
them and tables are counted by the regions they serve, so no proof needs induction over
data.

## 6. Plan

Done: `EptMapping`, `Ept`, `EptTlb`, `PhysMem`, `Driver`, `Vmcs`, `Guest`, `GuestMachine`,
`VmExit`, and proofs of every invariant of their passing runs and of the safety part of
both refinements. Left:

1. A theorem that joins `PhysMem` and `Ept`: the tables of a list of ranges are the
   `Demand` of its pages, so that `PoolHoldsRam` and `PoolLasts` speak of the
   same pool by proof and not by reading.
2. The cases in which `GuestSeesMachine` needs `SoundExit`, as a theorem of what the
   guest sees instead.

## 7. Not modelled

* `common.c`: `ClearBit`, `SetBit` and `UtLockPagablePage` have no callers.
* `regs-asm.asm`, `msr-asm.asm`: each accessor reads or writes one register and is part
  of the step that calls it; only `GetCpuIdInfo` decides anything.
* `vmx.h`, `msr.h`, `ept.h` beyond the fields that are used: encodings of VMCS fields,
  numbers of MSRs and exit reasons, structures that no code reads.
* The leak of a partly allocated pool, DbgPrint in VMX root, the alignment of HOST_RSP
  and the xmm registers, listed among the hazards without a property: whether they hurt
  is decided by Windows and the compiler.
