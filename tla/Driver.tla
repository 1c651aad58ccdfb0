-------------------------------- MODULE Driver --------------------------------
(***************************************************************************)
(* Loading the driver: DriverEntry reads the memory map, builds the EPT    *)
(* and virtualises one processor after another (main.c, vmminitstate.c,    *)
(* the bring-up half of vmx.c, common-asm.asm), while the processors that  *)
(* are guests already run and exit.                                        *)
(*                                                                         *)
(* One thread runs everything up to the return of DriverEntry; what makes  *)
(* it hard is that it moves between processors, that a failed step leaves  *)
(* the state of the steps before it, and that it may come back to a        *)
(* processor that is a guest by then.                                      *)
(***************************************************************************)
EXTENDS Naturals, FiniteSets

CONSTANTS
  MaxCpus,   \* HYPERVISOR_MAX_CPUS and the bits of a KAFFINITY, 64
  IntBits,   \* the bits of the int that RunOnProcessor shifts, 32
  NumCpus    \* the active processors are 0 .. NumCpus - 1

ASSUME CpuAssumption ==
  /\ MaxCpus \in Nat \ {0}
  /\ IntBits \in 1 .. MaxCpus
  /\ NumCpus \in 1 .. MaxCpus

Active == 0 .. NumCpus - 1
Cpu == 0 .. MaxCpus - 1

\* The allocations of InitializeVMMInitState, in order.
Regions == <<"vmxon", "vmcs", "bitmap", "stack">>
RegionSet == {"vmxon", "vmcs", "bitmap", "stack"}
\* Those made when it returns after the first k.
Made(k) == {Regions[j] : j \in 1 .. k}

\* Where StartVMX stops on a processor, in order: CPUID without VMX, the EPT
\* that is not detected, a VMX memory type that is not write-back, a feature
\* control that makes VMXON fault, a VMXON that fails, secondary controls whose
\* MSR is missing, a VMLAUNCH that fails; or nowhere.
Hardware == {"vmx", "ept", "wb", "fc", "vmxon", "ctls2", "launch", "none"}

VARIABLES
  hw,       \* for each active processor, where it stops StartVMX
  pc,       \* where the thread of DriverEntry stands
  i,        \* the loop counter of EnterVMM
  cpu,      \* the processor the thread runs on while its affinity is set
  status,   \* the Status that DriverEntry returns
  ready,    \* InitEptTable has returned STATUS_SUCCESS
  state,    \* g_VMMInitState: the regions of each processor that are not NULL
  vmxe,     \* the processors whose CR4.VMXE is set
  vmxOn,    \* the processors in VMX operation
  guest,    \* the processors that run as guests
  current,  \* the processors that have loaded their VMCS
  flags,    \* the bits of RFLAGS that are set after the last VMX instruction
  spoilt,   \* the guests whose active VMCS was written through memory
  crashed   \* the machine has stopped with a bug check

vars == <<hw, pc, i, cpu, status, ready, state, vmxe, vmxOn, guest, current,
          flags, spoilt, crashed>>

\* What the steps of StartVMX on one processor leave alone.
fixed == <<hw, i, cpu, status, ready, state>>

TypeOK ==
  /\ hw \in [Active -> Hardware]
  /\ pc \in {"e820", "ept", "scan", "alloc", "enable", "vmxon", "vmcs",
             "launch", "return", "done", "exit", "call", "clear", "gone"}
  /\ i \in 0 .. MaxCpus
  /\ cpu \in Active
  /\ status \in {"success", "failure"}
  /\ ready \in BOOLEAN
  /\ state \in [Cpu -> SUBSET RegionSet]
  /\ vmxe \in SUBSET Active /\ vmxOn \in SUBSET Active
  /\ guest \in SUBSET Active /\ current \in SUBSET Active
  /\ spoilt \in SUBSET Active
  /\ flags \in SUBSET (0 .. 31)
  /\ crashed \in BOOLEAN

Init ==
  /\ hw \in [Active -> Hardware]
  /\ pc = "e820"
  /\ i = 0
  /\ cpu = 0
  /\ status = "failure"
  /\ ready = FALSE
  /\ state = [c \in Cpu |-> {}]
  /\ vmxe = {} /\ vmxOn = {} /\ guest = {} /\ current = {} /\ spoilt = {}
  /\ flags = {}
  /\ crashed = FALSE

-----------------------------------------------------------------------------
(* DriverEntry and EnterVMM.                                               *)

\* The thread continues at pc l, and the processor has not crashed.
Goto(l) == pc' = l /\ crashed' = crashed

\* The thread dies with a bug check; nothing else happens on the machine.
Crash == crashed' = TRUE /\ pc' = pc

\* GetE820FromRegistry; on failure DriverEntry returns, and a descriptor
\* that is not memory is a bug check.  Exit0 of DriverEntry frees regions,
\* but none has been allocated when it is reached with a failure.
ReadMemoryMap ==
  /\ pc = "e820"
  /\ Goto("ept") \/ Goto("done") \/ Crash
  /\ UNCHANGED <<fixed, vmxe, vmxOn, guest, current, flags, spoilt>>

\* Mutant: the status of InitEptTable is ignored.
BuildEptUnchecked ==
  /\ pc = "ept"
  /\ \/ ready' \in BOOLEAN /\ Goto("scan")
     \/ ready' = FALSE /\ Crash
  /\ UNCHANGED <<hw, i, cpu, status, state>>
  /\ UNCHANGED <<vmxe, vmxOn, guest, current, flags, spoilt>>

\* InitEptTable, which Ept models; it fails when a page cannot be allocated,
\* and crashes when the pool is overrun.
BuildEpt ==
  /\ pc = "ept"
  /\ \/ ready' = TRUE /\ Goto("scan")
     \/ ready' = FALSE /\ (Goto("done") \/ Crash)
  /\ UNCHANGED <<hw, i, cpu, status, state>>
  /\ UNCHANGED <<vmxe, vmxOn, guest, current, flags, spoilt>>

\* Mutant: the loop runs once more.
ScanOver ==
  /\ pc = "scan"
  /\ IF i = MaxCpus + 1
     THEN /\ status' = "success" /\ pc' = "done"
          /\ i' = i
     ELSE /\ status' = status
          /\ IF i \in Active THEN pc' = "alloc" /\ i' = i ELSE pc' = "scan" /\ i' = i + 1
  /\ UNCHANGED <<hw, cpu, ready, state>>
  /\ UNCHANGED <<vmxe, vmxOn, guest, current, flags, spoilt, crashed>>

\* Mutant: DriverEntry reports the failure of EnterVMM, and undoes nothing.
ScanFails ==
  /\ pc = "scan"
  /\ IF i = MaxCpus
     THEN /\ status' = (IF guest = Active THEN "success" ELSE "failure") /\ pc' = "done"
          /\ i' = i
     ELSE /\ status' = status
          /\ IF i \in Active THEN pc' = "alloc" /\ i' = i ELSE pc' = "scan" /\ i' = i + 1
  /\ UNCHANGED <<hw, cpu, ready, state>>
  /\ UNCHANGED <<vmxe, vmxOn, guest, current, flags, spoilt, crashed>>

\* The head of the loop of EnterVMM, and what DriverEntry does after it:
\* whatever EnterVMM returned, it returns STATUS_SUCCESS.
Scan ==
  /\ pc = "scan"
  /\ IF i = MaxCpus
     THEN /\ status' = "success" /\ pc' = "done"
          /\ i' = i
     ELSE /\ status' = status
          /\ IF i \in Active THEN pc' = "alloc" /\ i' = i ELSE pc' = "scan" /\ i' = i + 1
  /\ UNCHANGED <<hw, cpu, ready, state>>
  /\ UNCHANGED <<vmxe, vmxOn, guest, current, flags, spoilt, crashed>>

\* Mutant: the shift is done in an int of two bits.
MaskNarrow(n) == {n % 2}

\* Mutant: the shift is by one too many.
MaskShifted(n) == {(n + 1) % MaxCpus}

\* (KAFFINITY)(1 << n) as the compiler builds it: the processor takes the
\* count of a 32-bit shift modulo 32, and bit 31 of the int is its sign.
Mask(n) ==
  LET bit == n % IntBits
  IN IF bit = IntBits - 1 THEN bit .. MaxCpus - 1 ELSE {bit}

\* InitializeVMMInitState may return early; its status is overwritten, and
\* RunOnProcessor moves the thread to a processor of the mask all the same.
Prepare ==
  /\ pc = "alloc"
  /\ \E k \in 0 .. 4 : state' = [state EXCEPT ![i] = Made(k)]
  /\ \E c \in Mask(i) \cap Active : cpu' = c
  /\ pc' = "enable"
  /\ UNCHANGED <<hw, i, status, ready>>
  /\ UNCHANGED <<vmxe, vmxOn, guest, current, flags, spoilt, crashed>>

\* Mutant: the loop never moves on.
ReturnStuck ==
  /\ pc = "return"
  /\ i' = i
  /\ pc' = "scan"
  /\ UNCHANGED <<hw, cpu, status, ready, state>>
  /\ UNCHANGED <<vmxe, vmxOn, guest, current, flags, spoilt, crashed>>

\* StartVMXBack: RunOnProcessor returns STATUS_SUCCESS and the loop goes on.
Return ==
  /\ pc = "return"
  /\ i' = i + 1
  /\ pc' = "scan"
  /\ UNCHANGED <<hw, cpu, status, ready, state>>
  /\ UNCHANGED <<vmxe, vmxOn, guest, current, flags, spoilt, crashed>>

-----------------------------------------------------------------------------
(* StartVMX on the processor cpu.                                          *)

\* The carry and zero flags as the bit-fields of RFLAGS declare them: the
\* fields are listed from bit 31 down but allocated from bit 0 up.
Carry(f) == 31 \in f
Zero(f) == 25 \in f

\* EnableVMX up to VMXON.  On a guest, CPUID exits and passes the processor's
\* answer on, which needs the exit handler's stack.
Enable ==
  /\ pc = "enable"
  /\ IF cpu \in guest /\ "stack" \notin state[cpu]
     THEN Crash /\ UNCHANGED vmxe
     ELSE /\ vmxe' = IF hw[cpu] \in {"vmx", "ept"} THEN vmxe ELSE vmxe \cup {cpu}
          /\ Goto(IF hw[cpu] \in {"vmx", "ept", "wb"} THEN "return" ELSE "vmxon")
  /\ UNCHANGED <<fixed, vmxOn, guest, current, flags, spoilt>>

\* The store of the revision, VMXON and the check of CF.  VMXON faults when
\* the feature-control MSR forbids it and sets CF when it fails; executed by
\* a guest it exits, and doVmxExitHandler sets CF.
VmxOn ==
  /\ pc = "vmxon"
  /\ LET fails == cpu \in guest \/ cpu \in vmxOn \/ hw[cpu] = "vmxon" IN
     IF "vmxon" \notin state[cpu] \/ (cpu \notin guest /\ hw[cpu] = "fc")
     THEN Crash /\ UNCHANGED <<vmxOn, flags>>
     ELSE /\ flags' = IF fails THEN {0} ELSE {}
          /\ vmxOn' = IF fails THEN vmxOn ELSE vmxOn \cup {cpu}
          /\ Goto(IF Carry(flags') THEN "return" ELSE "vmcs")
  /\ UNCHANGED <<fixed, vmxe, guest, current, spoilt>>

\* VmxSetupVMCS and EptInit: the store of the revision, VMCLEAR and the check
\* of CF and ZF, VMPTRLD, and the VMWRITEs.  Outside VMX operation VMCLEAR is
\* an invalid opcode; the read of the secondary controls faults on a processor
\* that has none (vmx.c:351, NoSecondary of Vmcs).
SetupVmcs ==
  /\ pc = "vmcs"
  /\ IF \/ "vmcs" \notin state[cpu]
        \/ cpu \notin guest /\ (cpu \notin vmxOn \/ hw[cpu] = "ctls2")
     THEN Crash /\ UNCHANGED <<current, flags, spoilt>>
     ELSE /\ flags' = IF cpu \in guest THEN {0} ELSE {}
          /\ spoilt' = IF cpu \in guest THEN spoilt \cup {cpu} ELSE spoilt
          /\ current' = IF cpu \in guest THEN current ELSE current \cup {cpu}
          /\ Goto(IF Carry(flags') \/ Zero(flags') THEN "return" ELSE "launch")
  /\ UNCHANGED <<fixed, vmxe, vmxOn, guest>>

\* VMLAUNCH: on success the thread goes on as a guest at StartVMXBack; after
\* a failure doStartVMX returns there too, with STATUS_SUCCESS.
Launch ==
  /\ pc = "launch"
  /\ guest' = IF cpu \in current /\ hw[cpu] # "launch" THEN guest \cup {cpu} ELSE guest
  /\ Goto("return")
  /\ UNCHANGED <<fixed, vmxe, vmxOn, current, flags, spoilt>>

-----------------------------------------------------------------------------
(* The rest of the machine.                                                *)

\* A guest exits: VmxExitHandler pushes the registers on VMMStack.  Exits
\* that succeed change nothing here.
ExitWithoutStack(c) ==
  /\ c \in guest
  /\ "stack" \notin state[c]
  /\ Crash
  /\ UNCHANGED <<fixed, vmxe, vmxOn, guest, current, flags, spoilt>>

Thread == ReadMemoryMap \/ BuildEpt \/ Scan \/ Prepare \/ Return
          \/ Enable \/ VmxOn \/ SetupVmcs \/ Launch

Next ==
  /\ ~crashed
  /\ Thread \/ \E c \in Active : ExitWithoutStack(c)

Spec == Init /\ [][Next]_vars

-----------------------------------------------------------------------------
(* ExitVMM, which undoes EnterVMM.  The driver sets no DriverUnload routine *)
(* and nothing calls it (main.c:41): Spec is the driver as it is, ExitSpec *)
(* the driver with a caller for it.                                        *)

ExitVmm ==
  /\ pc = "done" /\ status = "success"
  /\ i' = 0
  /\ pc' = "exit"
  /\ UNCHANGED <<hw, cpu, status, ready, state>>
  /\ UNCHANGED <<vmxe, vmxOn, guest, current, flags, spoilt, crashed>>

\* The head of its loop, and RunOnProcessor.
ExitScan ==
  /\ pc = "exit"
  /\ \/ i = MaxCpus /\ pc' = "gone" /\ UNCHANGED <<i, cpu>>
     \/ i < MaxCpus /\ i \notin Active /\ i' = i + 1 /\ UNCHANGED <<pc, cpu>>
     \/ i \in Active /\ cpu' \in Mask(i) \cap Active /\ pc' = "call" /\ UNCHANGED i
  /\ UNCHANGED <<hw, status, ready, state>>
  /\ UNCHANGED <<vmxe, vmxOn, guest, current, flags, spoilt, crashed>>

\* Mutant: the guest is left without VMXOFF.
StopCallStays ==
  /\ pc = "call"
  /\ guest' = guest \ {cpu}
  /\ Goto("clear")
  /\ UNCHANGED <<fixed, vmxe, vmxOn, current, flags, spoilt>>

\* StopVMX on the processor cpu: the VMCALL of VmxExitCall, which VmExit
\* models.  Of a guest it ends in VMXOFF; in VMX root operation it fails, and
\* VmxExitCall returns -1, which StopVMX ignores; outside VMX operation it is
\* an invalid opcode.
StopCall ==
  /\ pc = "call"
  /\ IF \/ cpu \in guest /\ "stack" \notin state[cpu]
        \/ cpu \notin guest /\ cpu \notin vmxOn
     THEN Crash /\ UNCHANGED <<vmxOn, guest, current>>
     ELSE /\ guest' = guest \ {cpu}
          /\ vmxOn' = IF cpu \in guest THEN vmxOn \ {cpu} ELSE vmxOn
          /\ current' = IF cpu \in guest THEN current \ {cpu} ELSE current
          /\ Goto("clear")
  /\ UNCHANGED <<fixed, vmxe, flags, spoilt>>

\* Mutant: StopVMX leaves CR4 alone.
StopClearForgotten ==
  /\ pc = "clear"
  /\ i' = i + 1
  /\ Goto("exit")
  /\ UNCHANGED <<hw, cpu, status, ready, state, vmxe, vmxOn, guest, current, flags, spoilt>>

\* It clears CR4.VMXE, which faults in VMX operation.
StopClear ==
  /\ pc = "clear"
  /\ IF cpu \in vmxOn
     THEN Crash /\ UNCHANGED <<i, vmxe>>
     ELSE /\ vmxe' = vmxe \ {cpu}
          /\ i' = i + 1
          /\ Goto("exit")
  /\ UNCHANGED <<hw, cpu, status, ready, state, vmxOn, guest, current, flags, spoilt>>

ExitThread == ExitVmm \/ ExitScan \/ StopCall \/ StopClear

ExitNext == Next \/ (~crashed /\ ExitThread)

ExitSpec == Init /\ [][ExitNext]_vars

\* The thread of DriverEntry is scheduled as long as the machine runs.
FairExitSpec == ExitSpec /\ WF_vars(~crashed /\ Thread)

-----------------------------------------------------------------------------
(* Correctness.                                                            *)

\* When DriverEntry fails, Windows unloads the driver's code: then no
\* processor may be left in VMX operation, and no region allocated
\* (main.c:131-141).
FailureLeavesNothing ==
  pc = "done" /\ status = "failure" =>
    /\ vmxe = {} /\ vmxOn = {} /\ guest = {}
    /\ \A c \in Cpu : state[c] = {}

\* The VMCS of a running guest is never written through memory
\* (vmx.c:290): StartVMX never comes back to a processor that is a guest.
ActiveVmcsUntouched == spoilt = {}

\* A guest runs only once the EPT that translates its accesses is complete
\* (main.c:119-125): what Ept assumes of Launch.
GuestHasEpt == guest # {} => ready

\* The regions that allow processor c to enter, and a c that stops nowhere.
CanEnter(c) == {"vmxon", "vmcs"} \subseteq state[c]
Capable(c) == hw[c] = "none"

\* "Initialize VMX on every CPU" (main.c:25-27): when DriverEntry has
\* returned, every active processor that is capable and has its regions is a
\* guest, whatever became of the others.
EveryCpuVirtualised ==
  pc = "done" /\ status = "success" =>
    \A c \in Active : Capable(c) /\ CanEnter(c) => c \in guest

\* The thread is in ExitVMM, or has returned from it.
Exiting == pc \in {"exit", "call", "clear", "gone"}

\* The failures that the code does not survive, and no others, crash the
\* machine until it is asked to exit: an odd memory map, an overrun pool, and,
\* on a processor that the loop has reached, an allocation whose status
\* main.c:87-90 overwrites, a feature control that nobody checks, a failed
\* VMXON that vmx.c:262 misses, and the missing secondary controls.  One
\* processor that stops StartVMX in another way crashes nothing.
CrashExplained ==
  crashed /\ ~Exiting =>
    \/ pc \in {"e820", "ept"}
    \/ \E c \in Active :
         c <= i /\ (state[c] # RegionSet \/ hw[c] \in {"fc", "vmxon", "ctls2"})

\* ExitVMM undoes the whole of EnterVMM (main.c:53-65): when it has returned,
\* no processor is left in VMX operation, or able to enter it.
ExitUndoes == pc = "gone" => vmxe = {} /\ vmxOn = {} /\ guest = {}

\* A machine on which every processor was virtualised survives ExitVMM; one
\* on which DriverEntry gave up a single processor, and reported success, does
\* not, because StopVMX does not ask whether the processor is a guest.
ExitCrashExplained ==
  Exiting =>
    /\ crashed => \E c \in Active : ~Capable(c) \/ state[c] # RegionSet
    /\ pc = "gone" => \A c \in Active : Capable(c) /\ CanEnter(c)

\* DriverEntry returns, or the machine has crashed.
EntryReturns == <>(pc = "done" \/ crashed)

-----------------------------------------------------------------------------
(* What the documentation says and the code does not do.                   *)

\* vmx.c:262-267 reports a failed VMXON and gives up the processor: the
\* failure should not take down a machine that has nothing else against it.
VmxonFailureHandled ==
  /\ \A c \in Active : hw[c] \in {"vmxon", "none"}
  /\ \A c \in Active : c <= i => state[c] = RegionSet
  /\ pc \notin {"e820", "ept"}
  => ~crashed
=============================================================================
