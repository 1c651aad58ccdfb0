----------------------------- MODULE DriverProofs -----------------------------
(***************************************************************************)
(* Theorems about Driver, for any number of processors.  Those of the      *)
(* first part hold on every machine.  Those of the second part hold with   *)
(* fewer processors than the shift of RunOnProcessor can name, which the   *)
(* run driver_many shows to be necessary.                                  *)
(***************************************************************************)
EXTENDS Driver, TLAPS

\* Where the thread is in EnterVMM, on one processor, and in ExitVMM.
OnCpu == {"enable", "vmxon", "vmcs", "launch", "return"}
Leaving == {"exit", "call", "clear", "gone"}

\* Nothing has been done to the machine yet, or it has been left alone.
Untouched == pc \in {"e820", "ept"} \/ (pc = "done" /\ status = "failure")

-----------------------------------------------------------------------------
(* The first inductive invariant.                                          *)

\* Inside the body of a loop its counter is the number of a processor.
CounterOK == pc \in OnCpu \cup {"alloc", "call", "clear"} => i \in Active

\* DriverEntry returns success only from behind the loop of EnterVMM, and
\* only there can ExitVMM start.
StatusOK ==
  /\ status = "success" => pc \in Leaving \cup {"done"}
  /\ pc \in Leaving => status = "success"

\* Before the tree is complete nothing is allocated and no processor entered.
PhaseOK ==
  /\ Untouched => /\ vmxe = {} /\ vmxOn = {} /\ guest = {}
                  /\ \A c \in Cpu : state[c] = {}
  /\ Untouched \/ ready

IInv == TypeOK /\ CounterOK /\ StatusOK /\ PhaseOK

-----------------------------------------------------------------------------
(* The second one.                                                         *)

\* The loop of EnterVMM has come to the processor i, and no further.
LoadOK ==
  /\ pc \in {"e820", "ept"} => i = 0
  /\ pc \in {"scan", "alloc"} => \A c \in vmxOn \cup guest : c < i
  /\ pc \in OnCpu =>
       /\ cpu = i
       /\ \A c \in vmxOn \cup guest : c <= i
  /\ pc \in {"enable", "vmxon"} => cpu \notin vmxOn
  /\ pc \in OnCpu \ {"return"} => cpu \notin guest
  /\ pc = "done" /\ status = "success" => i = MaxCpus
  /\ spoilt = {}

\* What StartVMX has tested before it goes on.
TestedOK ==
  /\ pc \in {"vmxon", "vmcs", "launch"} => hw[cpu] \notin {"vmx", "ept", "wb"}
  /\ pc \in {"vmcs", "launch"} => /\ hw[cpu] # "fc" /\ "vmxon" \in state[cpu]
                                  /\ cpu \in vmxOn <=> hw[cpu] # "vmxon"
  /\ pc = "launch" => /\ hw[cpu] \notin {"vmxon", "ctls2"}
                      /\ "vmcs" \in state[cpu] /\ cpu \in current
  /\ \A c \in guest : Capable(c) /\ CanEnter(c)

\* Every processor before i that is able to is a guest, and the one at i is on
\* its way.
VirtualisedOK ==
  /\ pc \in OnCpu \cup {"scan", "alloc"} =>
       \A c \in Active : c < i /\ Capable(c) /\ CanEnter(c) => c \in guest
  /\ pc = "return" /\ Capable(cpu) /\ CanEnter(cpu) => cpu \in guest
  /\ EveryCpuVirtualised

AllEntered == \A c \in Active : Capable(c) /\ CanEnter(c)

\* The loop of ExitVMM has undone every processor before i, each of which was
\* a guest; those behind it still are if all of them were.
LeaveOK ==
  /\ pc \in Leaving => \A c \in vmxe \cup vmxOn \cup guest : c >= i
  /\ pc \in {"call", "clear"} => cpu = i
  /\ pc = "clear" => cpu \notin guest
  /\ pc = "gone" => i = MaxCpus
  /\ pc \in Leaving => \A c \in Active : c < i => Capable(c) /\ CanEnter(c)
  /\ pc = "clear" => (Capable(cpu) /\ CanEnter(cpu)) \/ cpu \in vmxOn
  /\ pc \in {"exit", "call"} /\ AllEntered => \A c \in Active : c >= i => c \in guest
  /\ pc = "clear" /\ AllEntered => /\ cpu \notin vmxOn
                                   /\ \A c \in Active : c > i => c \in guest

IFew == LoadOK /\ TestedOK /\ VirtualisedOK /\ LeaveOK /\ CrashExplained /\ ExitCrashExplained

-----------------------------------------------------------------------------
(* Facts about the operators Driver is built from.                         *)

\* The active processors are processors.
LEMMA ActiveType == Active \subseteq Cpu /\ Active \subseteq 0 .. MaxCpus /\ 0 \in Active
BY CpuAssumption, SMT DEF Active, Cpu

\* InitializeVMMInitState allocates regions of VMM_INIT_STATE only.
LEMMA MadeType ==
  ASSUME NEW k \in 0 .. 4
  PROVE  Made(k) \subseteq RegionSet
<1> SUFFICES ASSUME NEW j \in 1 .. k PROVE Regions[j] \in RegionSet
  BY DEF Made
<1>1. j \in 1 .. 4
  OBVIOUS
<1>2. /\ Regions[1] = "vmxon" /\ Regions[2] = "vmcs"
      /\ Regions[3] = "bitmap" /\ Regions[4] = "stack"
  BY DEF Regions
<1> QED BY <1>1, <1>2 DEF RegionSet

-----------------------------------------------------------------------------
(* IInv holds at first, and every step preserves it.                       *)

LEMMA InitIInv == Init => IInv
<1> SUFFICES ASSUME Init PROVE IInv
  OBVIOUS
<1>1. TypeOK
  BY ActiveType, CpuAssumption DEF Init, TypeOK
<1>2. CounterOK /\ StatusOK /\ PhaseOK
  BY DEF Init, CounterOK, StatusOK, PhaseOK, Untouched, OnCpu, Leaving
<1> QED BY <1>1, <1>2 DEF IInv

LEMMA ReadMemoryMapIInv ==
  ASSUME IInv, ReadMemoryMap
  PROVE  IInv'
<1> USE DEF IInv, ReadMemoryMap, fixed, Goto, Crash
<1>1. TypeOK'
  BY DEF TypeOK
<1>2. CounterOK'
  BY DEF CounterOK, OnCpu
<1>3. StatusOK'
  BY DEF StatusOK, Leaving
<1>4. PhaseOK'
  BY DEF PhaseOK, StatusOK, Untouched, Leaving, TypeOK
<1> QED BY <1>1, <1>2, <1>3, <1>4

LEMMA BuildEptIInv ==
  ASSUME IInv, BuildEpt
  PROVE  IInv'
<1> USE DEF IInv, BuildEpt, fixed, Goto, Crash
<1>1. TypeOK'
  BY DEF TypeOK
<1>2. CounterOK'
  BY DEF CounterOK, OnCpu
<1>3. StatusOK'
  BY DEF StatusOK, Leaving
<1>4. PhaseOK'
  BY DEF PhaseOK, StatusOK, Untouched, Leaving, TypeOK
<1> QED BY <1>1, <1>2, <1>3, <1>4

LEMMA ScanIInv ==
  ASSUME IInv, Scan
  PROVE  IInv'
<1> USE DEF IInv, Scan, fixed, Goto, Crash
<1>1. TypeOK'
  BY ActiveType, CpuAssumption DEF TypeOK
<1>2. CounterOK'
  BY DEF CounterOK, OnCpu
<1>3. StatusOK'
  BY DEF StatusOK, Leaving
<1>4. PhaseOK'
  BY DEF PhaseOK, StatusOK, Untouched, Leaving
<1> QED BY <1>1, <1>2, <1>3, <1>4

LEMMA PrepareIInv ==
  ASSUME IInv, Prepare
  PROVE  IInv'
<1> USE DEF IInv, Prepare, fixed, Goto, Crash
<1>1. TypeOK'
  BY MadeType DEF TypeOK
<1>2. CounterOK'
  BY DEF CounterOK, OnCpu
<1>3. StatusOK'
  BY DEF StatusOK, Leaving
<1>4. PhaseOK'
  BY DEF PhaseOK, StatusOK, Untouched, Leaving
<1> QED BY <1>1, <1>2, <1>3, <1>4

LEMMA ReturnIInv ==
  ASSUME IInv, Return
  PROVE  IInv'
<1> USE DEF IInv, Return, fixed, Goto, Crash
<1>1. TypeOK'
  <2>1. i + 1 \in 0 .. MaxCpus
    BY CpuAssumption DEF CounterOK, OnCpu, Active
  <2> QED BY <2>1 DEF TypeOK
<1>2. CounterOK'
  BY DEF CounterOK, OnCpu
<1>3. StatusOK'
  BY DEF StatusOK, Leaving
<1>4. PhaseOK'
  BY DEF PhaseOK, StatusOK, Untouched, Leaving
<1> QED BY <1>1, <1>2, <1>3, <1>4

LEMMA EnableIInv ==
  ASSUME IInv, Enable
  PROVE  IInv'
<1> USE DEF IInv, Enable, fixed, Goto, Crash
<1>1. TypeOK'
  BY DEF TypeOK
<1>2. CounterOK'
  BY DEF CounterOK, OnCpu
<1>3. StatusOK'
  BY DEF StatusOK, Leaving
<1>4. PhaseOK'
  BY DEF PhaseOK, StatusOK, Untouched, Leaving
<1> QED BY <1>1, <1>2, <1>3, <1>4

LEMMA VmxOnIInv ==
  ASSUME IInv, VmxOn
  PROVE  IInv'
<1> USE DEF IInv, VmxOn, fixed, Goto, Crash
<1>1. TypeOK'
  <2>1. vmxOn' \in SUBSET Active
    BY DEF TypeOK
  <2>2. flags' \in SUBSET (0 .. 31)
    <3>1. flags' = flags \/ flags' = {0} \/ flags' = {}
      OBVIOUS
    <3>2. flags \in SUBSET (0 .. 31)
      BY DEF TypeOK
    <3>3. {0} \in SUBSET (0 .. 31) /\ {} \in SUBSET (0 .. 31)
      OBVIOUS
    <3> QED BY ONLY <3>1, <3>2, <3>3
  <2> QED BY <2>1, <2>2 DEF TypeOK
<1>2. CounterOK'
  BY DEF CounterOK, OnCpu
<1>3. StatusOK'
  BY DEF StatusOK, Leaving
<1>4. PhaseOK'
  BY DEF PhaseOK, StatusOK, Untouched, Leaving
<1> QED BY <1>1, <1>2, <1>3, <1>4

LEMMA SetupVmcsIInv ==
  ASSUME IInv, SetupVmcs
  PROVE  IInv'
<1> USE DEF IInv, SetupVmcs, fixed, Goto, Crash
<1>1. TypeOK'
  <2>1. current' \in SUBSET Active /\ spoilt' \in SUBSET Active
    BY DEF TypeOK
  <2>2. flags' \in SUBSET (0 .. 31)
    <3>1. flags' = flags \/ flags' = {0} \/ flags' = {}
      OBVIOUS
    <3>2. flags \in SUBSET (0 .. 31)
      BY DEF TypeOK
    <3>3. {0} \in SUBSET (0 .. 31) /\ {} \in SUBSET (0 .. 31)
      OBVIOUS
    <3> QED BY ONLY <3>1, <3>2, <3>3
  <2> QED BY <2>1, <2>2 DEF TypeOK
<1>2. CounterOK'
  BY DEF CounterOK, OnCpu
<1>3. StatusOK'
  BY DEF StatusOK, Leaving
<1>4. PhaseOK'
  BY DEF PhaseOK, StatusOK, Untouched, Leaving
<1> QED BY <1>1, <1>2, <1>3, <1>4

LEMMA LaunchIInv ==
  ASSUME IInv, Launch
  PROVE  IInv'
<1> USE DEF IInv, Launch, fixed, Goto, Crash
<1>1. TypeOK'
  BY DEF TypeOK
<1>2. CounterOK'
  BY DEF CounterOK, OnCpu
<1>3. StatusOK'
  BY DEF StatusOK, Leaving
<1>4. PhaseOK'
  BY DEF PhaseOK, StatusOK, Untouched, Leaving
<1> QED BY <1>1, <1>2, <1>3, <1>4

LEMMA ExitWithoutStackIInv ==
  ASSUME IInv, NEW c \in Active, ExitWithoutStack(c)
  PROVE  IInv'
<1> USE DEF IInv, ExitWithoutStack, fixed, Goto, Crash
<1>1. TypeOK'
  BY DEF TypeOK
<1>2. CounterOK'
  BY DEF CounterOK, OnCpu
<1>3. StatusOK'
  BY DEF StatusOK, Leaving
<1>4. PhaseOK'
  BY DEF PhaseOK, StatusOK, Untouched, Leaving
<1> QED BY <1>1, <1>2, <1>3, <1>4

LEMMA ExitVmmIInv ==
  ASSUME IInv, ExitVmm
  PROVE  IInv'
<1> USE DEF IInv, ExitVmm, fixed, Goto, Crash
<1>1. TypeOK'
  BY CpuAssumption DEF TypeOK
<1>2. CounterOK'
  BY DEF CounterOK, OnCpu
<1>3. StatusOK'
  BY DEF StatusOK, Leaving
<1>4. PhaseOK'
  BY DEF PhaseOK, StatusOK, Untouched, Leaving
<1> QED BY <1>1, <1>2, <1>3, <1>4

LEMMA ExitScanIInv ==
  ASSUME IInv, ExitScan
  PROVE  IInv'
<1> USE DEF IInv, ExitScan, fixed, Goto, Crash
<1>1. TypeOK'
  BY ActiveType, CpuAssumption DEF TypeOK
<1>2. CounterOK'
  BY DEF CounterOK, OnCpu
<1>3. StatusOK'
  BY DEF StatusOK, Leaving
<1>4. PhaseOK'
  BY DEF PhaseOK, StatusOK, Untouched, Leaving
<1> QED BY <1>1, <1>2, <1>3, <1>4

LEMMA StopCallIInv ==
  ASSUME IInv, StopCall
  PROVE  IInv'
<1> USE DEF IInv, StopCall, fixed, Goto, Crash
<1>1. TypeOK'
  BY DEF TypeOK
<1>2. CounterOK'
  BY DEF CounterOK, OnCpu
<1>3. StatusOK'
  BY DEF StatusOK, Leaving
<1>4. PhaseOK'
  BY DEF PhaseOK, StatusOK, Untouched, Leaving
<1> QED BY <1>1, <1>2, <1>3, <1>4

LEMMA StopClearIInv ==
  ASSUME IInv, StopClear
  PROVE  IInv'
<1> USE DEF IInv, StopClear, fixed, Goto, Crash
<1>1. TypeOK'
  <2>1. i + 1 \in 0 .. MaxCpus
    BY CpuAssumption DEF CounterOK, OnCpu, Active
  <2> QED BY <2>1 DEF TypeOK
<1>2. CounterOK'
  BY DEF CounterOK, OnCpu
<1>3. StatusOK'
  BY DEF StatusOK, Leaving
<1>4. PhaseOK'
  BY DEF PhaseOK, StatusOK, Untouched, Leaving
<1> QED BY <1>1, <1>2, <1>3, <1>4

LEMMA NextIInv == IInv /\ [ExitNext]_vars => IInv'
<1> SUFFICES ASSUME IInv, [ExitNext]_vars PROVE IInv'
  OBVIOUS
<1>1. CASE ReadMemoryMap
  BY <1>1, ReadMemoryMapIInv
<1>2. CASE BuildEpt
  BY <1>2, BuildEptIInv
<1>3. CASE Scan
  BY <1>3, ScanIInv
<1>4. CASE Prepare
  BY <1>4, PrepareIInv
<1>5. CASE Return
  BY <1>5, ReturnIInv
<1>6. CASE Enable
  BY <1>6, EnableIInv
<1>7. CASE VmxOn
  BY <1>7, VmxOnIInv
<1>8. CASE SetupVmcs
  BY <1>8, SetupVmcsIInv
<1>9. CASE Launch
  BY <1>9, LaunchIInv
<1>10. ASSUME NEW c \in Active, ExitWithoutStack(c) PROVE IInv'
  BY <1>10, ExitWithoutStackIInv
<1>11. CASE ExitVmm
  BY <1>11, ExitVmmIInv
<1>12. CASE ExitScan
  BY <1>12, ExitScanIInv
<1>13. CASE StopCall
  BY <1>13, StopCallIInv
<1>14. CASE StopClear
  BY <1>14, StopClearIInv
<1>15. CASE UNCHANGED vars
  BY <1>15 DEF vars, IInv, TypeOK, CounterOK, StatusOK, PhaseOK, Untouched
<1> QED
  BY <1>1, <1>2, <1>3, <1>4, <1>5, <1>6, <1>7, <1>8, <1>9, <1>10, <1>11, <1>12, <1>13, <1>14, <1>15 DEF ExitNext, Next, Thread, ExitThread

-----------------------------------------------------------------------------
(* IFew holds at first, and every step preserves it, if the shift of       *)
(* RunOnProcessor names every processor.                                   *)

\* The affinity mask of a processor below bit 31 is that processor alone.
LEMMA MaskIs ==
  ASSUME NumCpus < IntBits, NEW n \in Active
  PROVE  Mask(n) = {n}
<1>1. n \in Nat /\ n < IntBits - 1 /\ IntBits \in Nat \ {0}
  BY CpuAssumption DEF Active
<1>2. n % IntBits = n
  BY <1>1
<1> QED BY <1>1, <1>2 DEF Mask

LEMMA InitIFew == Init => IFew
<1> SUFFICES ASSUME Init PROVE IFew
  OBVIOUS
<1>1. LoadOK /\ TestedOK
  BY DEF Init, LoadOK, TestedOK, OnCpu
<1>2. VirtualisedOK /\ LeaveOK
  BY DEF Init, VirtualisedOK, EveryCpuVirtualised, LeaveOK, OnCpu, Leaving
<1>3. CrashExplained /\ ExitCrashExplained
  BY DEF Init, CrashExplained, ExitCrashExplained, Exiting
<1> QED BY <1>1, <1>2, <1>3 DEF IFew

LEMMA ReadMemoryMapIFew ==
  ASSUME IInv, IFew, ~crashed, ReadMemoryMap
  PROVE  IFew'
<1> USE DEF IInv, TypeOK, IFew, ReadMemoryMap, fixed, Goto, Crash
<1>1. LoadOK'
  BY DEF LoadOK, OnCpu, StatusOK, Leaving, PhaseOK, Untouched
<1>2. TestedOK'
  BY DEF TestedOK, LoadOK, OnCpu, CanEnter, Capable
<1>3. VirtualisedOK'
  BY DEF VirtualisedOK, EveryCpuVirtualised, OnCpu, StatusOK, Leaving
<1>4. LeaveOK'
  BY DEF LeaveOK, AllEntered, EveryCpuVirtualised, Leaving, CanEnter, Capable
<1>5. CrashExplained'
  BY DEF CrashExplained, Exiting, LoadOK, TestedOK, OnCpu, RegionSet
<1>6. ExitCrashExplained'
  BY DEF ExitCrashExplained, Exiting, LeaveOK, AllEntered, Leaving, CanEnter, Capable, RegionSet
<1> QED BY <1>1, <1>2, <1>3, <1>4, <1>5, <1>6

LEMMA BuildEptIFew ==
  ASSUME IInv, IFew, ~crashed, BuildEpt
  PROVE  IFew'
<1> USE DEF IInv, TypeOK, IFew, BuildEpt, fixed, Goto, Crash
<1>1. LoadOK'
  BY DEF LoadOK, OnCpu, StatusOK, Leaving, PhaseOK, Untouched
<1>2. TestedOK'
  BY DEF TestedOK, LoadOK, OnCpu, CanEnter, Capable
<1>3. VirtualisedOK'
  <2>1. pc = "ept" /\ i = 0 /\ UNCHANGED <<hw, i, cpu, status, state, guest>>
    BY DEF LoadOK
  <2>2. \A c \in Active : ~(c < i)
    BY <2>1 DEF Active
  <2>3. status # "success"
    BY <2>1 DEF StatusOK, Leaving
  <2>4. pc' \in {"ept", "scan", "done"}
    OBVIOUS
  <2> QED BY <2>1, <2>2, <2>3, <2>4 DEF VirtualisedOK, EveryCpuVirtualised, OnCpu
<1>4. LeaveOK'
  BY DEF LeaveOK, AllEntered, EveryCpuVirtualised, Leaving, CanEnter, Capable
<1>5. CrashExplained'
  BY DEF CrashExplained, Exiting, LoadOK, TestedOK, OnCpu, RegionSet
<1>6. ExitCrashExplained'
  BY DEF ExitCrashExplained, Exiting, LeaveOK, AllEntered, Leaving, CanEnter, Capable, RegionSet
<1> QED BY <1>1, <1>2, <1>3, <1>4, <1>5, <1>6

LEMMA ScanIFew ==
  ASSUME IInv, IFew, ~crashed, Scan
  PROVE  IFew'
<1> USE DEF IInv, TypeOK, IFew, Scan, fixed, Goto, Crash
<1>1. LoadOK'
  <2>1. CASE i = MaxCpus
    BY <2>1 DEF LoadOK, OnCpu
  <2>2. CASE i # MaxCpus /\ i \in Active
    BY <2>2 DEF LoadOK, OnCpu
  <2>3. CASE i # MaxCpus /\ i \notin Active
    <3>1. pc = "scan" /\ pc' = "scan" /\ i' = i + 1 /\ i \in Nat /\ Active \subseteq Nat
      BY <2>3 DEF Active
    <3> QED BY <3>1 DEF LoadOK, OnCpu
  <2> QED BY <2>1, <2>2, <2>3
<1>2. TestedOK'
  BY DEF TestedOK, LoadOK, OnCpu, CanEnter, Capable
<1>3. VirtualisedOK'
  <2>1. CASE i = MaxCpus
    <3>1. \A c \in Active : c < i
      BY <2>1, CpuAssumption DEF Active
    <3>2. \A c \in Active : Capable(c) /\ CanEnter(c) => c \in guest
      BY <3>1 DEF VirtualisedOK
    <3>3. pc' = "done" /\ UNCHANGED <<hw, state, guest>>
      BY <2>1
    <3> QED BY <3>2, <3>3 DEF VirtualisedOK, EveryCpuVirtualised, OnCpu, CanEnter, Capable
  <2>2. CASE i # MaxCpus /\ i \in Active
    BY <2>2 DEF VirtualisedOK, EveryCpuVirtualised, OnCpu, CanEnter, Capable
  <2>3. CASE i # MaxCpus /\ i \notin Active
    <3>1. /\ pc = "scan" /\ pc' = "scan" /\ i' = i + 1 /\ UNCHANGED <<hw, state, guest>>
          /\ i \in Nat /\ Active \subseteq Nat
      BY <2>3 DEF Active
    <3>2. \A c \in Active : c < i' => c < i
      BY <2>3, <3>1
    <3> QED BY <3>1, <3>2 DEF VirtualisedOK, EveryCpuVirtualised, OnCpu, CanEnter, Capable
  <2> QED BY <2>1, <2>2, <2>3
<1>4. LeaveOK'
  BY DEF LeaveOK, AllEntered, EveryCpuVirtualised, Leaving, CanEnter, Capable
<1>5. CrashExplained'
  BY DEF CrashExplained, Exiting, LoadOK, TestedOK, OnCpu, RegionSet
<1>6. ExitCrashExplained'
  BY DEF ExitCrashExplained, Exiting, LeaveOK, AllEntered, Leaving, CanEnter, Capable, RegionSet
<1> QED BY <1>1, <1>2, <1>3, <1>4, <1>5, <1>6

LEMMA PrepareIFew ==
  ASSUME NumCpus < IntBits, IInv, IFew, ~crashed, Prepare
  PROVE  IFew'
<1> USE DEF IInv, TypeOK, IFew, Prepare, fixed, Goto, Crash
<1>1. LoadOK'
  <2>1. pc = "alloc" /\ i \in Active /\ cpu' = i
    BY MaskIs DEF CounterOK
  <2>2. i \in Nat /\ Active \subseteq Nat
    BY <2>1 DEF Active
  <2> QED BY <2>1, <2>2 DEF LoadOK, OnCpu
<1>2. TestedOK'
  BY MaskIs DEF TestedOK, LoadOK, OnCpu, CanEnter, Capable
<1>3. VirtualisedOK'
  BY MaskIs DEF VirtualisedOK, LoadOK, TestedOK, EveryCpuVirtualised, OnCpu, CanEnter, Capable
<1>4. LeaveOK'
  BY MaskIs DEF LeaveOK, AllEntered, EveryCpuVirtualised, Leaving, CanEnter, Capable
<1>5. CrashExplained'
  BY MaskIs DEF CrashExplained, Exiting, LoadOK, TestedOK, OnCpu, RegionSet
<1>6. ExitCrashExplained'
  BY MaskIs DEF ExitCrashExplained, Exiting, LeaveOK, AllEntered, Leaving, CanEnter, Capable, RegionSet
<1> QED BY <1>1, <1>2, <1>3, <1>4, <1>5, <1>6

LEMMA ReturnIFew ==
  ASSUME IInv, IFew, ~crashed, Return
  PROVE  IFew'
<1> USE DEF IInv, TypeOK, IFew, Return, fixed, Goto, Crash
<1>1. LoadOK'
  <2>1. i \in Nat /\ Active \subseteq Nat
    BY DEF Active
  <2> QED BY <2>1 DEF LoadOK, OnCpu
<1>2. TestedOK'
  BY DEF TestedOK, LoadOK, OnCpu, CanEnter, Capable
<1>3. VirtualisedOK'
  <2>1. i \in Nat /\ Active \subseteq Nat
    BY DEF Active
  <2>2. \A c \in Active : c < i' => c < i \/ c = i
    BY <2>1
  <2>3. cpu = i
    BY DEF LoadOK, OnCpu
  <2> QED BY <2>2, <2>3 DEF VirtualisedOK, EveryCpuVirtualised, OnCpu, CanEnter, Capable
<1>4. LeaveOK'
  BY DEF LeaveOK, AllEntered, EveryCpuVirtualised, Leaving, CanEnter, Capable
<1>5. CrashExplained'
  BY DEF CrashExplained, Exiting, LoadOK, TestedOK, OnCpu, RegionSet
<1>6. ExitCrashExplained'
  BY DEF ExitCrashExplained, Exiting, LeaveOK, AllEntered, Leaving, CanEnter, Capable, RegionSet
<1> QED BY <1>1, <1>2, <1>3, <1>4, <1>5, <1>6

LEMMA EnableIFew ==
  ASSUME IInv, IFew, ~crashed, Enable
  PROVE  IFew'
<1> USE DEF IInv, TypeOK, IFew, Enable, fixed, Goto, Crash
<1>1. LoadOK'
  BY DEF LoadOK, OnCpu, Leaving
<1>2. TestedOK'
  BY DEF TestedOK, LoadOK, OnCpu, CanEnter, Capable
<1>3. VirtualisedOK'
  BY DEF VirtualisedOK, LoadOK, TestedOK, EveryCpuVirtualised, OnCpu, CanEnter, Capable
<1>4. LeaveOK'
  BY DEF LeaveOK, AllEntered, EveryCpuVirtualised, Leaving, CanEnter, Capable
<1>5. CrashExplained'
  BY DEF CrashExplained, Exiting, LoadOK, TestedOK, OnCpu, RegionSet
<1>6. ExitCrashExplained'
  BY DEF ExitCrashExplained, Exiting, LeaveOK, AllEntered, Leaving, CanEnter, Capable, RegionSet
<1> QED BY <1>1, <1>2, <1>3, <1>4, <1>5, <1>6

LEMMA VmxOnIFew ==
  ASSUME IInv, IFew, ~crashed, VmxOn
  PROVE  IFew'
<1> USE DEF IInv, TypeOK, IFew, VmxOn, fixed, Goto, Crash
<1>1. LoadOK'
  BY DEF LoadOK, OnCpu, Leaving
<1>2. TestedOK'
  BY DEF TestedOK, LoadOK, OnCpu, CanEnter, Capable
<1>3. VirtualisedOK'
  <2>1. cpu \notin guest /\ cpu \notin vmxOn
    BY DEF LoadOK, OnCpu
  <2>2. ~Carry({0}) /\ ~Carry({})
    BY DEF Carry
  <2>3. pc = "vmxon" /\ pc' \in {"vmxon", "vmcs"}
    BY <2>1, <2>2
  <2>4. UNCHANGED <<hw, i, state, guest, status>>
    OBVIOUS
  <2> HIDE DEF VmxOn
  <2> QED BY <2>3, <2>4 DEF VirtualisedOK, EveryCpuVirtualised, OnCpu, CanEnter, Capable
<1>4. LeaveOK'
  BY DEF LeaveOK, AllEntered, EveryCpuVirtualised, Leaving, CanEnter, Capable
<1>5. CrashExplained'
  <2>1. cpu = i /\ cpu \in Active
    BY DEF LoadOK, OnCpu
  <2>2. crashed' => "vmxon" \notin state[cpu] \/ hw[cpu] = "fc"
    OBVIOUS
  <2>3. UNCHANGED <<hw, i, state>> /\ i <= i
    OBVIOUS
  <2>4. "vmxon" \in RegionSet
    BY DEF RegionSet
  <2> HIDE DEF VmxOn
  <2> QED BY <2>1, <2>2, <2>3, <2>4 DEF CrashExplained
<1>6. ExitCrashExplained'
  BY DEF ExitCrashExplained, Exiting, LeaveOK, AllEntered, Leaving, CanEnter, Capable, RegionSet
<1> QED BY <1>1, <1>2, <1>3, <1>4, <1>5, <1>6

LEMMA SetupVmcsIFew ==
  ASSUME IInv, IFew, ~crashed, SetupVmcs
  PROVE  IFew'
<1> USE DEF IInv, TypeOK, IFew, SetupVmcs, fixed, Goto, Crash
<1>1. LoadOK'
  BY DEF LoadOK, OnCpu, Leaving
<1>2. TestedOK'
  BY DEF TestedOK, LoadOK, OnCpu, CanEnter, Capable
<1>3. VirtualisedOK'
  <2>1. cpu \notin guest
    BY DEF LoadOK, OnCpu
  <2>2. ~Carry({}) /\ ~Zero({})
    BY DEF Carry, Zero
  <2>3. pc = "vmcs" /\ pc' \in {"vmcs", "launch"}
    BY <2>1, <2>2
  <2>4. UNCHANGED <<hw, i, state, guest, status>>
    OBVIOUS
  <2> HIDE DEF SetupVmcs
  <2> QED BY <2>3, <2>4 DEF VirtualisedOK, EveryCpuVirtualised, OnCpu, CanEnter, Capable
<1>4. LeaveOK'
  BY DEF LeaveOK, AllEntered, EveryCpuVirtualised, Leaving, CanEnter, Capable
<1>5. CrashExplained'
  <2>1. cpu = i /\ cpu \in Active /\ cpu \notin guest /\ i <= i
    BY DEF LoadOK, OnCpu
  <2>2. cpu \in vmxOn <=> hw[cpu] # "vmxon"
    BY DEF TestedOK
  <2>3. crashed' => "vmcs" \notin state[cpu] \/ cpu \notin vmxOn \/ hw[cpu] = "ctls2"
    OBVIOUS
  <2>4. UNCHANGED <<hw, i, state>>
    OBVIOUS
  <2>5. "vmcs" \in RegionSet
    BY DEF RegionSet
  <2> HIDE DEF SetupVmcs
  <2> QED BY <2>1, <2>2, <2>3, <2>4, <2>5 DEF CrashExplained
<1>6. ExitCrashExplained'
  BY DEF ExitCrashExplained, Exiting, LeaveOK, AllEntered, Leaving, CanEnter, Capable, RegionSet
<1> QED BY <1>1, <1>2, <1>3, <1>4, <1>5, <1>6

LEMMA LaunchIFew ==
  ASSUME IInv, IFew, ~crashed, Launch
  PROVE  IFew'
<1> USE DEF IInv, TypeOK, IFew, Launch, fixed, Goto, Crash
<1>1. LoadOK'
  BY DEF LoadOK, OnCpu, Leaving
<1>2. TestedOK'
  <2>1. /\ pc = "launch" /\ pc' = "return" /\ UNCHANGED <<hw, cpu, vmxOn, current, state>>
        /\ guest' = (IF hw[cpu] # "launch" THEN guest \cup {cpu} ELSE guest)
    BY DEF TestedOK
  <2>2. CanEnter(cpu) /\ (hw[cpu] # "launch" => Capable(cpu))
    BY <2>1 DEF TestedOK, CanEnter, Capable, Hardware
  <2>3. \A c \in guest : Capable(c) /\ CanEnter(c)
    BY DEF TestedOK
  <2>4. \A c \in guest' : Capable(c) /\ CanEnter(c)
    BY <2>1, <2>2, <2>3
  <2> HIDE DEF Launch
  <2> QED BY <2>1, <2>4 DEF TestedOK, CanEnter, Capable
<1>3. VirtualisedOK'
  BY DEF VirtualisedOK, LoadOK, TestedOK, EveryCpuVirtualised, OnCpu, CanEnter, Capable
<1>4. LeaveOK'
  BY DEF LeaveOK, AllEntered, EveryCpuVirtualised, Leaving, CanEnter, Capable
<1>5. CrashExplained'
  BY DEF CrashExplained, Exiting, LoadOK, TestedOK, OnCpu, RegionSet
<1>6. ExitCrashExplained'
  BY DEF ExitCrashExplained, Exiting, LeaveOK, AllEntered, Leaving, CanEnter, Capable, RegionSet
<1> QED BY <1>1, <1>2, <1>3, <1>4, <1>5, <1>6

LEMMA ExitWithoutStackIFew ==
  ASSUME IInv, IFew, ~crashed, NEW c \in Active, ExitWithoutStack(c)
  PROVE  IFew'
<1> USE DEF IInv, TypeOK, IFew, ExitWithoutStack, fixed, Goto, Crash
<1>1. LoadOK'
  BY DEF LoadOK, OnCpu, Leaving
<1>2. TestedOK'
  BY DEF TestedOK, LoadOK, OnCpu, CanEnter, Capable
<1>3. VirtualisedOK'
  BY DEF VirtualisedOK, LoadOK, TestedOK, EveryCpuVirtualised, OnCpu, CanEnter, Capable
<1>4. LeaveOK'
  BY DEF LeaveOK, AllEntered, EveryCpuVirtualised, Leaving, CanEnter, Capable
<1>5. CrashExplained'
  <2> SUFFICES ASSUME ~Exiting', pc \notin {"e820", "ept"}
               PROVE  c <= i /\ state[c] # RegionSet
    BY DEF CrashExplained
  <2>1. state[c] # RegionSet
    BY DEF RegionSet
  <2>2. c <= i
    <3>1. c \in Nat /\ i \in Nat /\ MaxCpus \in Nat /\ c <= MaxCpus
      BY CpuAssumption DEF Active
    <3>2. pc \in {"scan", "alloc"} \cup OnCpu \/ (pc = "done" /\ status = "success")
      BY DEF Exiting, OnCpu, PhaseOK, Untouched
    <3> QED BY <3>1, <3>2 DEF LoadOK
  <2> QED BY <2>1, <2>2
<1>6. ExitCrashExplained'
  BY DEF ExitCrashExplained, Exiting, LeaveOK, AllEntered, Leaving, CanEnter, Capable, RegionSet
<1> QED BY <1>1, <1>2, <1>3, <1>4, <1>5, <1>6

LEMMA ExitVmmIFew ==
  ASSUME IInv, IFew, ~crashed, ExitVmm
  PROVE  IFew'
<1> USE DEF IInv, TypeOK, IFew, ExitVmm, fixed, Goto, Crash
<1>1. LoadOK'
  BY DEF LoadOK, OnCpu, Leaving
<1>2. TestedOK'
  BY DEF TestedOK, LoadOK, OnCpu, CanEnter, Capable
<1>3. VirtualisedOK'
  BY DEF VirtualisedOK, LoadOK, TestedOK, EveryCpuVirtualised, OnCpu, CanEnter, Capable
<1>4. LeaveOK'
  <2>1. \A c \in Active : c \in Nat
    BY DEF Active
  <2>2. pc' = "exit" /\ i' = 0 /\ UNCHANGED <<hw, state, vmxe, vmxOn, guest>>
    OBVIOUS
  <2>3. AllEntered => guest = Active
    BY DEF AllEntered, VirtualisedOK, EveryCpuVirtualised
  <2>4. AllEntered' => AllEntered
    BY <2>2 DEF AllEntered, CanEnter, Capable
  <2> QED BY <2>1, <2>2, <2>3, <2>4 DEF LeaveOK, Leaving
<1>5. CrashExplained'
  BY DEF CrashExplained, Exiting, LoadOK, TestedOK, OnCpu, RegionSet
<1>6. ExitCrashExplained'
  BY DEF ExitCrashExplained, Exiting, LeaveOK, AllEntered, Leaving, CanEnter, Capable, RegionSet
<1> QED BY <1>1, <1>2, <1>3, <1>4, <1>5, <1>6

LEMMA ExitScanIFew ==
  ASSUME NumCpus < IntBits, IInv, IFew, ~crashed, ExitScan
  PROVE  IFew'
<1> USE DEF IInv, TypeOK, IFew, ExitScan, fixed, Goto, Crash
<1>1. LoadOK'
  BY MaskIs DEF LoadOK, OnCpu, Leaving
<1>2. TestedOK'
  BY MaskIs DEF TestedOK, LoadOK, OnCpu, CanEnter, Capable
<1>3. VirtualisedOK'
  BY MaskIs DEF VirtualisedOK, LoadOK, TestedOK, EveryCpuVirtualised, OnCpu, CanEnter, Capable
<1>4. LeaveOK'
  <2>1. /\ UNCHANGED <<hw, state, vmxe, vmxOn, guest>>
        /\ i \in Nat /\ Active \subseteq Nat
    BY DEF Active
  <2>2. AllEntered' = AllEntered
    BY <2>1 DEF AllEntered, CanEnter, Capable
  <2>3. CASE i = MaxCpus /\ pc' = "gone" /\ UNCHANGED <<i, cpu>>
    BY <2>1, <2>3 DEF LeaveOK, Leaving, CanEnter, Capable
  <2>4. CASE i < MaxCpus /\ i \notin Active /\ i' = i + 1 /\ UNCHANGED <<pc, cpu>>
    <3>1. \A c \in Active : /\ c < i' => c < i
                            /\ c >= i => c >= i'
                            /\ c >= i' => c >= i
      BY <2>1, <2>4
    <3> HIDE DEF ExitScan
    <3>2. pc = "exit" /\ pc' = "exit"
      BY <2>4 DEF ExitScan
    <3>3. \A c \in vmxe \cup vmxOn \cup guest : c \in Active /\ c >= i
      BY <3>2 DEF LeaveOK, Leaving
    <3>4. \A c \in Active : c < i => Capable(c) /\ CanEnter(c)
      BY <3>2 DEF LeaveOK, Leaving
    <3>5. AllEntered => \A c \in Active : c >= i => c \in guest
      BY <3>2 DEF LeaveOK
    <3>6. \A c \in Active : c < i' => Capable(c) /\ CanEnter(c)
      BY <3>1, <3>4
    <3>7. (\A c \in Active : c < i => Capable(c) /\ CanEnter(c))'
      BY <2>1, <3>6 DEF CanEnter, Capable
    <3>8. \A c \in (vmxe \cup vmxOn \cup guest)' : c >= i'
      BY <2>1, <3>1, <3>3
    <3>9. AllEntered => \A c \in Active : c >= i' => c \in guest
      BY <3>1, <3>5
    <3> QED BY <2>1, <2>2, <3>2, <3>7, <3>8, <3>9 DEF LeaveOK
  <2>5. CASE i \in Active /\ cpu' \in Mask(i) \cap Active /\ pc' = "call" /\ UNCHANGED i
    <3>1. cpu' = i
      BY <2>5, MaskIs
    <3> QED BY <2>1, <2>2, <2>5, <3>1 DEF LeaveOK, Leaving, CanEnter, Capable
  <2> QED BY <2>3, <2>4, <2>5
<1>5. CrashExplained'
  BY MaskIs DEF CrashExplained, Exiting, LoadOK, TestedOK, OnCpu, RegionSet
<1>6. ExitCrashExplained'
  <2>1. \A c \in Active : c < MaxCpus
    BY CpuAssumption DEF Active
  <2>2. i = MaxCpus => \A c \in Active : Capable(c) /\ CanEnter(c)
    BY <2>1, ActiveType DEF LeaveOK, Leaving
  <2> QED BY <2>2 DEF ExitCrashExplained, Exiting, CanEnter, Capable
<1> QED BY <1>1, <1>2, <1>3, <1>4, <1>5, <1>6

LEMMA StopCallIFew ==
  ASSUME IInv, IFew, ~crashed, StopCall
  PROVE  IFew'
<1> USE DEF IInv, TypeOK, IFew, StopCall, fixed, Goto, Crash
<1>1. LoadOK'
  BY DEF LoadOK, OnCpu, Leaving
<1>2. TestedOK'
  BY DEF TestedOK, LoadOK, OnCpu, CanEnter, Capable
<1>3. VirtualisedOK'
  BY DEF VirtualisedOK, LoadOK, TestedOK, EveryCpuVirtualised, OnCpu, CanEnter, Capable
<1>4. LeaveOK'
  <2>1. /\ pc = "call" /\ cpu = i /\ cpu \in Active /\ i \in Nat
        /\ UNCHANGED <<hw, i, cpu, state, vmxe>>
        /\ Active \subseteq Nat
    BY DEF LeaveOK, Active
  <2>2. /\ \A c \in vmxe \cup vmxOn \cup guest : c >= i
        /\ \A c \in Active : c < i => Capable(c) /\ CanEnter(c)
        /\ AllEntered => \A c \in Active : c >= i => c \in guest
    BY <2>1 DEF LeaveOK, Leaving
  <2>3. /\ AllEntered' = AllEntered
        /\ \A c \in Active : Capable(c)' = Capable(c) /\ CanEnter(c)' = CanEnter(c)
    BY <2>1 DEF AllEntered, CanEnter, Capable
  <2>4. CASE crashed'
    <3>1. pc' = "call" /\ UNCHANGED <<vmxOn, guest>>
      BY <2>1, <2>4
    <3> HIDE DEF StopCall
    <3> QED BY <2>1, <2>2, <2>3, <3>1 DEF LeaveOK
  <2>5. CASE ~crashed'
    <3>1. /\ pc' = "clear" /\ guest' = guest \ {cpu}
          /\ vmxOn' = (IF cpu \in guest THEN vmxOn \ {cpu} ELSE vmxOn)
          /\ cpu \in guest \/ cpu \in vmxOn
      BY <2>5
    <3>2. \A c \in (vmxe \cup vmxOn \cup guest)' : c >= i'
      BY <2>1, <2>2, <3>1
    <3>3. (Capable(cpu) /\ CanEnter(cpu)) \/ cpu \in vmxOn'
      BY <3>1 DEF TestedOK
    <3>4. AllEntered => cpu \notin vmxOn' /\ \A c \in Active : c > i => c \in guest'
      <4> HIDE DEF StopCall
      <4> QED BY <2>1, <2>2, <3>1
    <3>5. Capable(cpu)' = Capable(cpu) /\ CanEnter(cpu)' = CanEnter(cpu)
      BY <2>1 DEF CanEnter, Capable
    <3>6. (\A c \in Active : c < i => Capable(c) /\ CanEnter(c))'
      BY <2>1, <2>2 DEF CanEnter, Capable
    <3> HIDE DEF StopCall
    <3> QED BY <2>1, <2>3, <3>1, <3>2, <3>3, <3>4, <3>5, <3>6 DEF LeaveOK
  <2> QED BY <2>4, <2>5
<1>5. CrashExplained'
  BY DEF CrashExplained, Exiting, LoadOK, TestedOK, OnCpu, RegionSet
<1>6. ExitCrashExplained'
  BY DEF ExitCrashExplained, Exiting, LeaveOK, AllEntered, Leaving, CanEnter, Capable, RegionSet
<1> QED BY <1>1, <1>2, <1>3, <1>4, <1>5, <1>6

LEMMA StopClearIFew ==
  ASSUME IInv, IFew, ~crashed, StopClear
  PROVE  IFew'
<1> USE DEF IInv, TypeOK, IFew, StopClear, fixed, Goto, Crash
<1>1. LoadOK'
  BY DEF LoadOK, OnCpu, Leaving
<1>2. TestedOK'
  BY DEF TestedOK, LoadOK, OnCpu, CanEnter, Capable
<1>3. VirtualisedOK'
  BY DEF VirtualisedOK, LoadOK, TestedOK, EveryCpuVirtualised, OnCpu, CanEnter, Capable
<1>4. LeaveOK'
  <2>1. /\ pc = "clear" /\ cpu = i /\ cpu \in Active /\ i \in Nat /\ cpu \notin guest
        /\ UNCHANGED <<hw, cpu, state, vmxOn, guest>>
        /\ Active \subseteq Nat
    BY DEF LeaveOK, Active
  <2>2. /\ \A c \in vmxe \cup vmxOn \cup guest : c \in Active /\ c >= i
        /\ \A c \in Active : c < i => Capable(c) /\ CanEnter(c)
        /\ AllEntered => cpu \notin vmxOn /\ \A c \in Active : c > i => c \in guest
        /\ (Capable(cpu) /\ CanEnter(cpu)) \/ cpu \in vmxOn
    BY <2>1 DEF LeaveOK, Leaving
  <2>3. AllEntered' = AllEntered
    BY <2>1 DEF AllEntered, CanEnter, Capable
  <2>4. CASE cpu \in vmxOn
    <3>1. pc' = "clear" /\ UNCHANGED <<i, vmxe>>
      BY <2>1, <2>4
    <3>2. Capable(cpu)' = Capable(cpu) /\ CanEnter(cpu)' = CanEnter(cpu)
      BY <2>1 DEF CanEnter, Capable
    <3>3. (\A c \in Active : c < i => Capable(c) /\ CanEnter(c))'
      BY <2>1, <2>2, <3>1 DEF CanEnter, Capable
    <3> HIDE DEF StopClear
    <3> QED BY <2>1, <2>2, <2>3, <3>1, <3>2, <3>3 DEF LeaveOK
  <2>5. CASE cpu \notin vmxOn
    <3>1. pc' = "exit" /\ i' = i + 1 /\ vmxe' = vmxe \ {cpu}
      BY <2>1, <2>5
    <3> HIDE DEF StopClear
    <3>2. \A c \in (vmxe \cup vmxOn \cup guest)' : c >= i'
      BY <2>1, <2>2, <2>5, <3>1
    <3>3. \A c \in Active : c < i' => Capable(c) /\ CanEnter(c)
      BY <2>1, <2>2, <2>5, <3>1
    <3>4. (\A c \in Active : c < i => Capable(c) /\ CanEnter(c))'
      BY <2>1, <3>3 DEF CanEnter, Capable
    <3>5. AllEntered => \A c \in Active : c >= i' => c \in guest
      BY <2>1, <2>2, <3>1
    <3> QED BY <2>1, <2>3, <3>1, <3>2, <3>4, <3>5 DEF LeaveOK
  <2> QED BY <2>4, <2>5
<1>5. CrashExplained'
  BY DEF CrashExplained, Exiting, LoadOK, TestedOK, OnCpu, RegionSet
<1>6. ExitCrashExplained'
  BY DEF ExitCrashExplained, Exiting, LeaveOK, AllEntered, Leaving, CanEnter, Capable, RegionSet
<1> QED BY <1>1, <1>2, <1>3, <1>4, <1>5, <1>6

LEMMA NextIFew ==
  ASSUME NumCpus < IntBits
  PROVE  IInv /\ IFew /\ [ExitNext]_vars => IFew'
<1> SUFFICES ASSUME IInv, IFew, [ExitNext]_vars PROVE IFew'
  OBVIOUS
<1>1. CASE ~crashed /\ ReadMemoryMap
  BY <1>1, ReadMemoryMapIFew
<1>2. CASE ~crashed /\ BuildEpt
  BY <1>2, BuildEptIFew
<1>3. CASE ~crashed /\ Scan
  BY <1>3, ScanIFew
<1>4. CASE ~crashed /\ Prepare
  BY <1>4, PrepareIFew
<1>5. CASE ~crashed /\ Return
  BY <1>5, ReturnIFew
<1>6. CASE ~crashed /\ Enable
  BY <1>6, EnableIFew
<1>7. CASE ~crashed /\ VmxOn
  BY <1>7, VmxOnIFew
<1>8. CASE ~crashed /\ SetupVmcs
  BY <1>8, SetupVmcsIFew
<1>9. CASE ~crashed /\ Launch
  BY <1>9, LaunchIFew
<1>10. ASSUME ~crashed, NEW c \in Active, ExitWithoutStack(c) PROVE IFew'
  BY <1>10, ExitWithoutStackIFew
<1>11. CASE ~crashed /\ ExitVmm
  BY <1>11, ExitVmmIFew
<1>12. CASE ~crashed /\ ExitScan
  BY <1>12, ExitScanIFew
<1>13. CASE ~crashed /\ StopCall
  BY <1>13, StopCallIFew
<1>14. CASE ~crashed /\ StopClear
  BY <1>14, StopClearIFew
<1>15. CASE UNCHANGED vars
  <2>1. LoadOK' /\ TestedOK' /\ VirtualisedOK'
    BY <1>15 DEF vars, IFew, LoadOK, TestedOK, VirtualisedOK, EveryCpuVirtualised, Capable, CanEnter
  <2>2. LeaveOK'
    BY <1>15 DEF vars, IFew, LeaveOK, AllEntered, Capable, CanEnter
  <2>3. CrashExplained' /\ ExitCrashExplained'
    BY <1>15 DEF vars, IFew, CrashExplained, ExitCrashExplained, Exiting, Capable, CanEnter
  <2> QED BY <2>1, <2>2, <2>3 DEF IFew
<1> QED
  BY <1>1, <1>2, <1>3, <1>4, <1>5, <1>6, <1>7, <1>8, <1>9, <1>10, <1>11, <1>12, <1>13, <1>14, <1>15 DEF ExitNext, Next, Thread, ExitThread

-----------------------------------------------------------------------------
(* The theorems.                                                           *)

\* The inductive invariant of the first part holds throughout.
THEOREM Invariance == ExitSpec => []IInv
<1> QED BY InitIInv, NextIInv, PTL DEF ExitSpec

\* That of the second part does too, with fewer processors than RunOnProcessor
\* can name.
THEOREM FewInvariance ==
  ASSUME NumCpus < IntBits
  PROVE  ExitSpec => []IFew
<1>1. IInv /\ IFew /\ [ExitNext]_vars => IFew'
  BY NextIFew
<1> QED BY <1>1, InitIFew, Invariance, PTL DEF ExitSpec

\* The driver as it is, which nobody asks to exit (main.c:41), is a case of
\* the driver that the theorems are about.
THEOREM AsItIs == Spec => ExitSpec
<1>1. [Next]_vars => [ExitNext]_vars
  BY DEF ExitNext
<1> QED BY <1>1, PTL DEF Spec, ExitSpec

\* Every variable of Driver has its type.
THEOREM TypeCorrect == ExitSpec => []TypeOK
<1>1. IInv => TypeOK
  BY DEF IInv
<1> QED BY <1>1, Invariance, PTL

\* When DriverEntry fails (main.c:131-141) nothing is allocated and no
\* processor has entered VMX operation, on any machine.
THEOREM FailureIsClean == ExitSpec => []FailureLeavesNothing
<1>1. IInv => FailureLeavesNothing
  BY DEF IInv, PhaseOK, Untouched, FailureLeavesNothing
<1> QED BY <1>1, Invariance, PTL

\* No guest is launched before InitEptTable has returned STATUS_SUCCESS
\* (main.c:119-125): what the action Launch of Ept assumes.
THEOREM GuestsHaveEpt == ExitSpec => []GuestHasEpt
<1>1. IInv => GuestHasEpt
  BY DEF IInv, PhaseOK, GuestHasEpt
<1> QED BY <1>1, Invariance, PTL

\* With fewer processors than RunOnProcessor can name (main.c:21), StartVMX
\* never comes back to a guest and writes into its VMCS (vmx.c:290).
THEOREM VmcsUntouched ==
  ASSUME NumCpus < IntBits
  PROVE  ExitSpec => []ActiveVmcsUntouched
<1>1. IFew => ActiveVmcsUntouched
  BY DEF IFew, LoadOK, ActiveVmcsUntouched
<1> QED BY <1>1, FewInvariance, PTL

\* With as few, every processor that is capable and has its regions is a guest
\* when DriverEntry has returned success (main.c:25-49).
THEOREM AllVirtualised ==
  ASSUME NumCpus < IntBits
  PROVE  ExitSpec => []EveryCpuVirtualised
<1>1. IFew => EveryCpuVirtualised
  BY DEF IFew, VirtualisedOK
<1> QED BY <1>1, FewInvariance, PTL

\* With as few, a crash while the driver is loaded has one of the reasons
\* that CrashExplained lists (main.c:9-49).
THEOREM CrashesExplained ==
  ASSUME NumCpus < IntBits
  PROVE  ExitSpec => []CrashExplained
<1>1. IFew => CrashExplained
  BY DEF IFew
<1> QED BY <1>1, FewInvariance, PTL

\* With as few, ExitVMM (main.c:53-65) leaves no processor in VMX operation.
THEOREM ExitIsComplete ==
  ASSUME NumCpus < IntBits
  PROVE  ExitSpec => []ExitUndoes
<1>1. IInv /\ IFew => ExitUndoes
  <2> SUFFICES ASSUME IInv, IFew, pc = "gone"
               PROVE  vmxe = {} /\ vmxOn = {} /\ guest = {}
    BY DEF ExitUndoes
  <2>1. \A c \in vmxe \cup vmxOn \cup guest : c \in Active /\ c >= MaxCpus
    BY DEF IInv, TypeOK, IFew, LeaveOK, Leaving
  <2>2. \A c \in Active : ~(c >= MaxCpus)
    BY CpuAssumption DEF Active
  <2> QED BY <2>1, <2>2
<1> QED BY <1>1, Invariance, FewInvariance, PTL

\* With as few, ExitVMM (main.c:53-65) returns only when every processor was
\* a guest, and crashes the machine only when one of them was given up.
THEOREM ExitIsExplained ==
  ASSUME NumCpus < IntBits
  PROVE  ExitSpec => []ExitCrashExplained
<1>1. IFew => ExitCrashExplained
  BY DEF IFew
<1> QED BY <1>1, FewInvariance, PTL
=============================================================================
