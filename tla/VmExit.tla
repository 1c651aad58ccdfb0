-------------------------------- MODULE VmExit --------------------------------
(***************************************************************************)
(* One processor under the hypervisor: the guest runs until an instruction *)
(* makes it exit, VmxExitHandler saves the registers on VMMStack,          *)
(* doVmxExitHandler emulates the instruction on the saved registers and on *)
(* the guest fields of the VMCS, and VMRESUME continues the guest          *)
(* (vmx-asm.asm, vmxexithandler.c, vmcall.c, exceptionnmi.c).              *)
(*                                                                         *)
(* Processors share nothing here but the EPT, which Ept models: the VMCS,  *)
(* the stack and the MSRs are each processor's own.                        *)
(***************************************************************************)
EXTENDS Guest

CONSTANTS
  ExitVmm,   \* VMCALL_EXIT_VMM, 0x20
  MayExit,   \* the instructions that may be made to exit by a field of the
             \* VMCS that the processor, or nobody, has chosen
  InitCpus,  \* the processors a run starts from
  HostSys    \* the registers of Sys on the host

ASSUME ExitAssumption ==
  /\ ExitVmm \in Word
  /\ MayExit \subseteq {"crwrite", "crread", "clts", "rdmsr", "wrmsr", "fault", "debug"}
  /\ InitCpus \subseteq Cpu
  /\ HostSys \in [Sys -> Value]

VARIABLES
  code,     \* the program of the guest
  exiting,  \* the instructions of MayExit that do exit
  mapped,   \* the page that "touch" accesses is in the EPT
  mode,     \* where the processor stands
  cpu,      \* the processor's registers
  vmcs,     \* the guest state and exit information fields of the VMCS
  frame,    \* the registers VmxExitHandler has pushed
  stack,    \* what lies on top of the guest's stack
  before    \* history: the guest when the instruction that exits began

vars == <<code, exiting, mapped, mode, cpu, vmcs, frame, stack, before>>

fixed == <<code, exiting, before>>

Modes == {"guest", "calling", "exited", "saved", "handled", "restored",
          "off", "native"}
Vmcs == [rsp : Value, rip : Addr, flags : SUBSET Flag, sys : [Sys -> Value],
         insn : Insns, len : Nat]

TypeOK ==
  /\ code \in [Addr -> Insns]
  /\ exiting \in SUBSET MayExit
  /\ mapped \in BOOLEAN
  /\ mode \in Modes
  /\ cpu \in Cpu /\ before \in Cpu
  /\ vmcs \in Vmcs
  /\ frame \in [Reg -> Value]
  /\ stack \in [regs : [Reg -> Value], flags : SUBSET Flag, ip : Addr]

Init ==
  /\ code \in [Addr -> Insns]
  /\ exiting \in SUBSET MayExit
  /\ mapped = FALSE
  /\ mode = "guest"
  /\ cpu \in InitCpus
  /\ vmcs = [rsp |-> 0, rip |-> 0, flags |-> {}, sys |-> cpu.sys,
             insn |-> code[0], len |-> 0]
  /\ frame = [r \in Reg |-> 0]
  /\ \E s \in InitCpus : stack = [regs |-> s.regs, flags |-> s.flags, ip |-> s.ip]
  /\ before = cpu

-----------------------------------------------------------------------------
(* The guest.                                                              *)

\* The instructions that exit; the MSR bitmap of InitializeVMMInitState is
\* all 0, but an MSR outside the ranges exits nevertheless.
Exits(x) ==
  \/ x.op \in {"cpuid", "vmcall", "vmx", "invd", "xsetbv"}
  \/ x.op \in exiting
  \/ x.op \in {"rdmsr", "wrmsr"} /\ Low(cpu.regs["rcx"]) \notin MsrRange
  \/ x.op = "touch" /\ ~mapped

\* An instruction the hypervisor never hears of.
Execute ==
  /\ mode = "guest"
  /\ code[cpu.ip].op # "stop"
  /\ ~Exits(code[cpu.ip])
  /\ cpu' = After(code[cpu.ip], cpu)
  /\ UNCHANGED <<fixed, mapped, mode, vmcs, frame, stack>>

\* VmxExitCall: rax is set, the flags and registers are pushed behind the
\* return address.
VmxExitCall ==
  /\ mode = "guest"
  /\ code[cpu.ip].op = "stop"
  /\ before' = cpu
  /\ LET regs == [cpu.regs EXCEPT !["rax"] = ExitVmm] IN
       /\ stack' = [regs |-> regs, flags |-> cpu.flags, ip |-> Past(cpu.ip, code[cpu.ip])]
       /\ cpu' = [cpu EXCEPT !.regs = [regs EXCEPT !["rsp"] = 0]]
  /\ mode' = "calling"
  /\ UNCHANGED <<code, exiting, mapped, vmcs, frame>>

\* A VM exit: the processor saves the guest in the VMCS, all but the general
\* registers, and loads the host.  The length of the instruction is recorded
\* but for exceptions, which leave it undefined.
Exit ==
  /\ \/ mode = "guest" /\ code[cpu.ip].op # "stop" /\ Exits(code[cpu.ip]) /\ before' = cpu
     \/ mode = "calling" /\ before' = before
  /\ LET x == code[cpu.ip] IN
     \E n \in IF x.op \in {"fault", "debug"} THEN 0 .. Size ELSE {Len(x)} :
       vmcs' = [rsp |-> cpu.regs["rsp"], rip |-> cpu.ip, flags |-> cpu.flags,
                sys |-> cpu.sys, insn |-> x, len |-> n]
  /\ cpu' = [cpu EXCEPT !.regs["rsp"] = 0, !.flags = {}, !.sys = HostSys, !.ip = 0]
  /\ mode' = "exited"
  /\ UNCHANGED <<code, exiting, mapped, frame, stack>>

-----------------------------------------------------------------------------
(* VmxExitHandler and doVmxExitHandler.                                    *)

\* HVM_SAVE_ALL_NOSEGREGS; the slot named rsp receives rbp as well.
SaveRegisters ==
  /\ mode = "exited"
  /\ frame' = [cpu.regs EXCEPT !["rsp"] = cpu.regs["rbp"]]
  /\ mode' = "saved"
  /\ UNCHANGED <<fixed, mapped, cpu, vmcs, stack>>

\* ResumeToNextInstruction, on the VMCS v.
Resumed(v) == [v EXCEPT !.rip = (v.rip + v.len) % Size]

\* doVmxExitHandler runs for an exit by an instruction of ops, and leaves the
\* volatile registers to the compiler.
Clobber(regs) == [r \in Reg |-> IF r \in {"rax", "rcx", "rdx", "r8"} THEN 0 ELSE regs[r]]
Handle(ops) ==
  /\ mode = "saved"
  /\ vmcs.insn.op \in ops
  /\ mode' = "handled"
  /\ UNCHANGED <<fixed, stack>>
Clobbered == cpu' = [cpu EXCEPT !.regs = Clobber(@)]

\* case EXIT_REASON_VMCLEAR ... EXIT_REASON_VMLAUNCH.
HandleVmxInstruction ==
  /\ Handle({"vmx"})
  /\ vmcs' = Resumed([vmcs EXCEPT !.flags = @ \cup {"CF"}])
  /\ Clobbered
  /\ UNCHANGED <<mapped, frame>>

\* HandleExceptionNmi: the exception is dropped, and a #DB ends the tracing.
HandleExceptionNmi ==
  /\ Handle({"fault", "debug"})
  /\ vmcs' = Resumed(IF vmcs.insn.op = "debug"
                     THEN [vmcs EXCEPT !.flags = @ \ {"TF", "RF"}] ELSE vmcs)
  /\ Clobbered
  /\ UNCHANGED <<mapped, frame>>

\* HandleCPUID and GetCpuIdInfo, which is called with the function in ecx.
HandleCPUID ==
  /\ Handle({"cpuid"})
  /\ LET f == Low(frame["rax"])
         answer == Cpuid[f, f]
     IN frame' = [r \in Reg |-> IF r \in DOMAIN answer THEN answer[r] ELSE frame[r]]
  /\ vmcs' = Resumed(vmcs)
  /\ Clobbered
  /\ UNCHANGED mapped

\* Mutant: rip is not advanced.
HandleInvdAgain ==
  /\ Handle({"invd"})
  /\ Clobbered
  /\ UNCHANGED <<mapped, vmcs, frame>>

\* INVD on the processor itself.
HandleInvd ==
  /\ Handle({"invd"})
  /\ vmcs' = Resumed(vmcs)
  /\ Clobbered
  /\ UNCHANGED <<mapped, frame>>

\* The general registers the switches of HandleCR list.
CrRegs == Reg \ {"r8"}

\* HandleCR; an access that is not MOV CR does nothing.
HandleCR ==
  /\ Handle({"crwrite", "crread", "clts"})
  /\ LET x == vmcs.insn IN
     /\ vmcs' = Resumed(IF x.op = "crwrite" /\ x.reg \in CrRegs
                        THEN [vmcs EXCEPT !.sys[x.cr] = frame[x.reg]] ELSE vmcs)
     /\ frame' = IF x.op = "crread" /\ x.reg \in CrRegs
                 THEN [frame EXCEPT ![x.reg] = vmcs.sys[x.cr]] ELSE frame
  /\ Clobbered
  /\ UNCHANGED mapped

\* HandleMsrRead: the range is tested on rcx, not on ecx.
HandleMsrRead ==
  /\ Handle({"rdmsr"})
  /\ LET v == IF frame["rcx"] \in MsrRange THEN cpu.msr[frame["rcx"]]
              ELSE [low |-> 0, high |-> 0]
     IN frame' = [frame EXCEPT !["rax"] = v.low, !["rdx"] = v.high]
  /\ vmcs' = Resumed(vmcs)
  /\ Clobbered
  /\ UNCHANGED mapped

\* Mutant: the halves are not cut off.
HandleMsrWriteWide ==
  /\ Handle({"wrmsr"})
  /\ LET v == [low |-> frame["rax"], high |-> frame["rdx"]]
         msr == IF frame["rcx"] \in MsrRange
                THEN [cpu.msr EXCEPT ![frame["rcx"]] = v] ELSE cpu.msr
     IN cpu' = [cpu EXCEPT !.regs = Clobber(@), !.msr = msr]
  /\ vmcs' = Resumed(vmcs)
  /\ UNCHANGED <<mapped, frame>>

\* HandleMsrWrite.
HandleMsrWrite ==
  /\ Handle({"wrmsr"})
  /\ LET v == [low |-> Low(frame["rax"]), high |-> Low(frame["rdx"])]
         msr == IF frame["rcx"] \in MsrRange
                THEN [cpu.msr EXCEPT ![frame["rcx"]] = v] ELSE cpu.msr
     IN cpu' = [cpu EXCEPT !.regs = Clobber(@), !.msr = msr]
  /\ vmcs' = Resumed(vmcs)
  /\ UNCHANGED <<mapped, frame>>

\* HandleVMCALL with another number in rax than VMCALL_EXIT_VMM: nothing.
HandleVMCALL ==
  /\ Handle({"vmcall"})
  /\ frame["rax"] # ExitVmm
  /\ vmcs' = Resumed(vmcs)
  /\ Clobbered
  /\ UNCHANGED <<mapped, frame>>

\* Mutant: the bases of FS and GS remain those of the host.
OldRegsForgotten ==
  [cpu EXCEPT !.sys = [r \in Sys |-> IF r \in {"fs_base", "gs_base"} THEN @[r] ELSE vmcs.sys[r]]]

\* VmxRestoreOldRegs: the guest's CR0, CR3, CR4, GDTR, IDTR and bases of FS and
\* GS, for the host that remains.
OldRegs == [cpu EXCEPT !.sys = vmcs.sys]

\* HandleVMCALL with VMCALL_EXIT_VMM in rax, by whatever VMCALL of the guest:
\* VmxExitOff, and on to VmxExitPoint.
VmxExitOff ==
  /\ mode = "saved"
  /\ vmcs.insn.op \in {"vmcall", "stop"}
  /\ frame["rax"] = ExitVmm
  /\ cpu' = [OldRegs EXCEPT !.regs = [Clobber(@) EXCEPT !["rsp"] = vmcs.rsp]]
  /\ mode' = "off"
  /\ UNCHANGED <<fixed, mapped, vmcs, frame, stack>>

\* HandleEptViolation: Ept shows that it maps the page.
HandleEptViolation ==
  /\ Handle({"touch"})
  /\ mapped' = TRUE
  /\ Clobbered
  /\ UNCHANGED <<vmcs, frame>>

\* The default case, which prints the reason.
Unhandled ==
  /\ Handle({"xsetbv"})
  /\ Clobbered
  /\ UNCHANGED <<mapped, vmcs, frame>>

\* Mutant: rbp is popped before the slot named rsp.
RestoredEarly(regs) ==
  [r \in Reg |-> CASE r = "rsp" -> regs["rsp"] [] r = "rbp" -> frame["rsp"] [] OTHER -> frame[r]]

\* HVM_RESTORE_ALL_NOSEGREGS: the slot named rsp goes to rbp, and is
\* overwritten by the next.
Restored(regs) == [r \in Reg |-> IF r = "rsp" THEN regs["rsp"] ELSE frame[r]]

RestoreRegisters ==
  /\ mode = "handled"
  /\ cpu' = [cpu EXCEPT !.regs = Restored(@)]
  /\ mode' = "restored"
  /\ UNCHANGED <<fixed, mapped, vmcs, frame, stack>>

\* VMRESUME: the processor loads the guest from the VMCS.
VmResume ==
  /\ mode = "restored"
  /\ cpu' = [cpu EXCEPT !.regs["rsp"] = vmcs.rsp, !.flags = vmcs.flags,
                        !.sys = vmcs.sys, !.ip = vmcs.rip]
  /\ mode' = "guest"
  /\ UNCHANGED <<fixed, mapped, vmcs, frame, stack>>

\* VmxExitPoint, without the hypervisor: the registers and flags are popped,
\* rax says STATUS_SUCCESS and the address that comes next is returned to.  It
\* all belongs to VmxExitCall, or to nothing after a VMCALL from elsewhere.
VmxExitPoint ==
  /\ mode = "off"
  /\ cpu' = [cpu EXCEPT !.regs = [stack.regs EXCEPT !["rax"] = 0],
                        !.flags = stack.flags, !.ip = stack.ip]
  /\ mode' = "native"
  /\ UNCHANGED <<fixed, mapped, vmcs, frame, stack>>

-----------------------------------------------------------------------------
Dispatch ==
  \/ HandleVmxInstruction \/ HandleExceptionNmi \/ HandleCPUID \/ HandleInvd
  \/ HandleVMCALL \/ VmxExitOff \/ HandleCR \/ HandleMsrRead \/ HandleMsrWrite
  \/ HandleEptViolation \/ Unhandled

Next ==
  \/ Execute \/ VmxExitCall \/ Exit
  \/ SaveRegisters \/ Dispatch \/ RestoreRegisters \/ VmResume \/ VmxExitPoint

Spec == Init /\ [][Next]_vars

\* A processor that is not halted goes on.
FairSpec == Spec /\ WF_vars(Next)

-----------------------------------------------------------------------------
(* Correctness.                                                            *)

\* The general registers an instruction may change.
Outputs(x) ==
  CASE x.op = "cpuid"  -> {"rax", "rbx", "rcx", "rdx"}
    [] x.op = "rdmsr"  -> {"rax", "rdx"}
    [] x.op = "crread" -> {x.reg}
    [] OTHER           -> {}

\* What the exit handler must give back: when the guest is about to continue
\* after an exit, every register and control register that the instruction
\* does not write is what it was when the instruction began, whether the
\* instruction is emulated well, badly or not at all (vmx-asm.asm:192-206).  And
\* when VMXOFF has ended the hypervisor, on whatever VMCALL, the registers that
\* the exit replaced are the guest's again (vmx.c:480-498).
NothingElseChanges ==
  /\ mode = "restored" =>
       LET x == vmcs.insn IN
       /\ \A r \in Reg \ (Outputs(x) \cup {"rsp"}) : cpu.regs[r] = before.regs[r]
       /\ vmcs.rsp = before.regs["rsp"]
       /\ x.op # "crwrite" => vmcs.sys = before.sys
       /\ x.op \notin {"vmx", "debug"} => vmcs.flags = before.flags
       /\ x.op # "wrmsr" => cpu.msr = before.msr
  /\ mode \in {"off", "native"} => cpu.sys = before.sys /\ cpu.msr = before.msr

\* The guest that the processor represents while it is in the handler.
InGuest(regs) ==
  [regs |-> [regs EXCEPT !["rsp"] = vmcs.rsp], flags |-> vmcs.flags,
   sys |-> vmcs.sys, msr |-> cpu.msr, ip |-> vmcs.rip]

GuestCpu ==
  CASE mode \in {"guest", "native"} -> cpu
    [] mode = "calling" \/ (mode \in {"exited", "saved"} /\ vmcs.insn.op = "stop") -> before
    [] mode = "off" -> [regs |-> [stack.regs EXCEPT !["rax"] = 0], flags |-> stack.flags,
                        sys |-> cpu.sys, msr |-> cpu.msr, ip |-> stack.ip]
    [] mode = "restored" \/ (mode = "exited" /\ vmcs.insn.op # "stop") -> InGuest(cpu.regs)
    [] OTHER -> InGuest(frame)

Machine == INSTANCE GuestMachine WITH
  cpu <- GuestCpu, running <- (mode \notin {"off", "native"})

\* The guest sees the processor of GuestMachine: an exit and its handler are
\* one instruction, or nothing (doVmxExitHandler, vmxexithandler.c:181-277).
Transparent == Machine!Spec

\* And it never hangs on an instruction: every exit that resumes advances rip
\* or removes its cause.
NeverHangs == Machine!FairSpec

-----------------------------------------------------------------------------
(* What the comments say and the code does not do.                         *)

\* vmxexithandler.c:190-193 lists XSETBV, GETSEC, INVEPT and INVVPID among the
\* instructions that exit unconditionally; a guest that executes one goes on.
ListedInstructionsRetire ==
  \A a \in Addr :
    (mode = "guest" /\ cpu.ip = a /\ code[a].op = "xsetbv") ~> (mode = "guest" /\ cpu.ip # a)

\* vmxexithandler.c:77, 82: MOV to CRx, "CRx <-- reg32", for every register.
MovToCrCopies ==
  mode = "restored" /\ vmcs.insn.op = "crwrite" =>
    vmcs.sys[vmcs.insn.cr] = before.regs[vmcs.insn.reg]
=============================================================================
