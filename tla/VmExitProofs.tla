----------------------------- MODULE VmExitProofs -----------------------------
(* Theorems about VmExit, for any program, any width of a register and any  *)
(* answers of CPUID: an exit changes nothing but what its instruction does, *)
(* and the guest that exits with emulated instructions sees GuestMachine.   *)
EXTENDS VmExit, TLAPS

-----------------------------------------------------------------------------
(* The inductive invariant.                                                *)

\* The guest has called VmxExitCall at before, and stack holds what it was.
Stopping ==
  /\ code[before.ip].op = "stop"
  /\ stack = [regs |-> [before.regs EXCEPT !["rax"] = ExitVmm], flags |-> before.flags,
              ip |-> Past(before.ip, code[before.ip])]

\* An exit at the instruction of before: the VMCS and regs, wherever they are
\* kept, are still those of before.
ExitedAt(regs) ==
  /\ vmcs.rip = before.ip /\ vmcs.insn = code[before.ip]
  /\ vmcs.sys = before.sys /\ vmcs.flags = before.flags
  /\ cpu.msr = before.msr
  /\ vmcs.insn.op \notin {"fault", "debug"} => vmcs.len = Len(vmcs.insn)
  /\ IF vmcs.insn.op = "stop"
     THEN Stopping /\ regs["rax"] = ExitVmm
     ELSE /\ vmcs.rsp = before.regs["rsp"]
          /\ \A r \in Reg \ {"rsp"} : regs[r] = before.regs[r]

\* The instruction has been handled: regs and the VMCS differ from before in
\* what it may change at most.
HandledOnly(regs) ==
  LET x == vmcs.insn IN
  /\ \A r \in Reg \ (Outputs(x) \cup {"rsp"}) : regs[r] = before.regs[r]
  /\ vmcs.rsp = before.regs["rsp"]
  /\ x.op # "crwrite" => vmcs.sys = before.sys
  /\ x.op \notin {"vmx", "debug"} => vmcs.flags = before.flags
  /\ x.op # "wrmsr" => cpu.msr = before.msr

ExitOK ==
  /\ mode = "calling" =>
       /\ Stopping
       /\ cpu = [before EXCEPT !.regs = [stack.regs EXCEPT !["rsp"] = 0]]
  /\ mode = "exited" => ExitedAt(cpu.regs)
  /\ mode = "saved" => ExitedAt(frame)
  /\ mode = "handled" => HandledOnly(frame)
  /\ mode = "restored" => HandledOnly(cpu.regs)
  /\ mode \in {"off", "native"} => cpu.sys = before.sys /\ cpu.msr = before.msr

VInv == TypeOK /\ ExitOK

\* The exits whose handler does what GuestMachine says, or nothing (XSETBV):
\* not those of CLTS and of exceptions, nor CPUID with a sub-leaf that matters,
\* nor a VMCALL with VMCALL_EXIT_VMM in RAX, nor a MOV of a control register
\* from or to RSP or R8 to R15, nor RDMSR and WRMSR with an upper half of RCX
\* that is not 0.
Faithful(x, regs) ==
  \/ x.op \in {"vmx", "invd", "xsetbv", "touch", "stop"}
  \/ /\ x.op = "cpuid"
     /\ LET f == Low(regs["rax"]) IN Cpuid[f, Low(regs["rcx"])] = Cpuid[f, f]
  \/ x.op = "vmcall" /\ regs["rax"] # ExitVmm
  \/ x.op \in {"crwrite", "crread"} /\ x.reg \in CrRegs \ {"rsp"}
  \/ x.op \in {"rdmsr", "wrmsr"} /\ regs["rcx"] \in Word
SoundExit ==
  mode = "guest" /\ Exits(code[cpu.ip]) => Faithful(code[cpu.ip], cpu.regs)

\* The instruction being handled is one of them.
SoundOK ==
  mode \in {"exited", "saved"} => Faithful(vmcs.insn, before.regs)

-----------------------------------------------------------------------------
(* Types.                                                                  *)

\* Half a register is a value of a register.
LEMMA WordValue == /\ Word \subseteq Value /\ 0 \in Word /\ 0 \in Value
                   /\ \A v \in Value : Low(v) \in Word
                   /\ \A v \in Word : Low(v) = v
<1>. Half \in Nat /\ Half > 1
  BY GuestAssumption, SMT
<1>1. Half * Half >= Half
  BY SMT
<1>. QED BY <1>1, SMT DEF Word, Value, Low

\* The fields of an instruction are those of its kind.
LEMMA InsnShape ==
  ASSUME NEW x \in Insns
  PROVE  /\ x.op \in {"crwrite", "crread"} => x.cr \in Cr /\ x.reg \in Reg
         /\ x.op = "set" => x.reg \in Reg /\ x.val \in Value
         /\ x.op = "load" => x.sys \in Sys /\ x.val \in Value
  BY GuestAssumption DEF Insn

\* The control registers are among those that an exit replaces.
LEMMA CrSys == Cr \subseteq Sys /\ "cr0" \in Cr
  BY DEF Cr, Sys

\* An address after an instruction is an address.
LEMMA NextAddr == /\ 0 \in Addr
                  /\ \A i \in Addr, n \in Nat : (i + n) % Size \in Addr
                  /\ \A i \in Addr, x \in Insns : Past(i, x) \in Addr
<1>. Size \in Nat /\ Size > 0
  BY GuestAssumption
<1>1. 0 \in Addr /\ \A i \in Addr, n \in Nat : (i + n) % Size \in Addr
  BY SMT DEF Addr
<1>2. \A x \in Insns : Len(x) \in Nat
  BY SMT DEF Len
<1>. QED BY <1>1, <1>2, SMT DEF Past

\* What CPUID answers, by register.
LEMMA CpuidAnswer ==
  ASSUME NEW f \in Word, NEW n \in Word
  PROVE  /\ DOMAIN Cpuid[f, n] = {"rax", "rbx", "rcx", "rdx"}
         /\ \A r \in {"rax", "rbx", "rcx", "rdx"} : Cpuid[f, n][r] \in Value
<1>1. <<f, n>> \in Word \X Word
  OBVIOUS
<1>2. Cpuid[f, n] \in [rax : Word, rbx : Word, rcx : Word, rdx : Word]
  BY <1>1, GuestAssumption
<1>. QED BY <1>2, WordValue

\* A processor one of whose fields is written is a processor.
LEMMA CpuFields ==
  ASSUME NEW s \in Cpu
  PROVE  /\ s.regs \in [Reg -> Value] /\ s.flags \in SUBSET Flag /\ s.sys \in [Sys -> Value]
         /\ s.msr \in [MsrRange -> [low : Word, high : Word]] /\ s.ip \in Addr
         /\ \A g \in [Reg -> Value] : [s EXCEPT !.regs = g] \in Cpu
         /\ \A r \in Reg, v \in Value : [s EXCEPT !.regs[r] = v] \in Cpu
         /\ \A f \in SUBSET Flag : [s EXCEPT !.flags = f] \in Cpu
         /\ \A c \in Sys, v \in Value : [s EXCEPT !.sys[c] = v] \in Cpu
         /\ \A g \in [MsrRange -> [low : Word, high : Word]] : [s EXCEPT !.msr = g] \in Cpu
         /\ \A a \in Addr : [s EXCEPT !.ip = a] \in Cpu
<1>1. /\ s.regs \in [Reg -> Value] /\ s.flags \in SUBSET Flag /\ s.sys \in [Sys -> Value]
      /\ s.msr \in [MsrRange -> [low : Word, high : Word]] /\ s.ip \in Addr
  BY DEF Cpu
<1>2. \A g \in [Reg -> Value] : [s EXCEPT !.regs = g] \in Cpu
  BY DEF Cpu
<1>3. \A r \in Reg, v \in Value : [s EXCEPT !.regs[r] = v] \in Cpu
  BY DEF Cpu
<1>4. \A f \in SUBSET Flag : [s EXCEPT !.flags = f] \in Cpu
  BY DEF Cpu
<1>5. \A c \in Sys, v \in Value : [s EXCEPT !.sys[c] = v] \in Cpu
  BY DEF Cpu
<1>6. \A g \in [MsrRange -> [low : Word, high : Word]] : [s EXCEPT !.msr = g] \in Cpu
  BY DEF Cpu
<1>7. \A a \in Addr : [s EXCEPT !.ip = a] \in Cpu
  BY DEF Cpu
<1>. QED BY <1>1, <1>2, <1>3, <1>4, <1>5, <1>6, <1>7

\* An instruction makes a processor of a processor.
LEMMA AfterType ==
  ASSUME NEW x \in Insns, NEW s \in Cpu
  PROVE  After(x, s) \in Cpu
<1>0. /\ s.regs \in [Reg -> Value] /\ s.flags \in SUBSET Flag /\ s.sys \in [Sys -> Value]
      /\ s.msr \in [MsrRange -> [low : Word, high : Word]] /\ s.ip \in Addr
  BY CpuFields
<1>1. Effect(x, s) \in Cpu
  <2>1. CASE x.op = "set"
    BY <2>1, InsnShape, CpuFields DEF Effect
  <2>2. CASE x.op = "cpuid"
    <3>1. Low(s.regs["rax"]) \in Word /\ Low(s.regs["rcx"]) \in Word
      BY <1>0, WordValue DEF Reg
    <3>2. CpuidRegs(s.regs) \in [Reg -> Value]
      BY <1>0, <3>1, CpuidAnswer DEF CpuidRegs
    <3>. QED BY <2>2, <3>2, CpuFields DEF Effect
  <2>3. CASE x.op = "rdmsr"
    <3>1. \A v \in Value, w \in Value :
            [s.regs EXCEPT !["rax"] = v, !["rdx"] = w] \in [Reg -> Value]
      BY <1>0
    <3>2. \A n \in MsrRange : s.msr[n].low \in Value /\ s.msr[n].high \in Value
      BY <1>0, WordValue
    <3>3. MsrRegs(s) \in [Reg -> Value]
      BY <3>1, <3>2, WordValue DEF MsrRegs
    <3>. QED BY <2>3, <3>3, CpuFields DEF Effect
  <2>4. CASE x.op = "wrmsr"
    <3>1. Low(s.regs["rax"]) \in Word /\ Low(s.regs["rdx"]) \in Word
      BY <1>0, WordValue DEF Reg
    <3>2. MsrWritten(s) \in [MsrRange -> [low : Word, high : Word]]
      BY <1>0, <3>1 DEF MsrWritten
    <3>. QED BY <2>4, <3>2, CpuFields DEF Effect
  <2>5. CASE x.op = "crwrite"
    <3>1. x.cr \in Sys /\ s.regs[x.reg] \in Value
      BY <1>0, <2>5, InsnShape, CrSys
    <3>. QED BY <2>5, <3>1, CpuFields DEF Effect
  <2>6. CASE x.op = "crread"
    <3>1. x.reg \in Reg /\ s.sys[x.cr] \in Value
      BY <1>0, <2>6, InsnShape, CrSys
    <3>. QED BY <2>6, <3>1, CpuFields DEF Effect
  <2>7. CASE x.op = "clts"
    <3>1. \A v \in Value : ClearTs(v) \in Value
      BY GuestAssumption, SMT DEF ClearTs, Value
    <3>2. "cr0" \in Sys /\ s.sys["cr0"] \in Value
      BY <1>0, CrSys
    <3>. QED BY <2>7, <3>1, <3>2, CpuFields DEF Effect
  <2>8. CASE x.op = "vmx"
    <3>1. s.flags \cup {"CF"} \in SUBSET Flag
      BY <1>0 DEF Flag
    <3>. QED BY <2>8, <3>1, CpuFields DEF Effect
  <2>9. CASE x.op = "stop"
    <3>1. "rax" \in Reg
      BY DEF Reg
    <3>. QED BY <2>9, <3>1, WordValue, CpuFields DEF Effect
  <2>10. CASE x.op = "load"
    BY <2>10, InsnShape, CpuFields DEF Effect
  <2>11. CASE x.op \notin {"set", "cpuid", "rdmsr", "wrmsr", "crwrite", "crread",
                           "clts", "vmx", "stop", "load"}
    BY <2>11 DEF Effect
  <2>. QED BY <2>1, <2>2, <2>3, <2>4, <2>5, <2>6, <2>7, <2>8, <2>9, <2>10, <2>11
<1>2. Vector \in Addr /\ Past(s.ip, x) \in Addr
  BY <1>0, NextAddr DEF Vector
<1>3. \A u \in Cpu, a \in Addr : [u EXCEPT !.ip = a] \in Cpu
  BY CpuFields
<1>. QED BY <1>1, <1>2, <1>3 DEF After

\* What an exit loads, and what the handler's own code leaves.
LEMMA HostType ==
  ASSUME NEW s \in Cpu
  PROVE  [s EXCEPT !.regs["rsp"] = 0, !.flags = {}, !.sys = HostSys, !.ip = 0] \in Cpu
<1>1. "rsp" \in Reg /\ HostSys \in [Sys -> Value] /\ 0 \in Value /\ 0 \in Addr
  BY ExitAssumption, WordValue, NextAddr DEF Reg
<1>. QED BY <1>1 DEF Cpu

LEMMA ClobberType ==
  ASSUME NEW g \in [Reg -> Value]
  PROVE  Clobber(g) \in [Reg -> Value]
  BY WordValue DEF Clobber

\* The VMCS after ResumeToNextInstruction.
LEMMA ResumedType ==
  ASSUME NEW v \in Vmcs
  PROVE  /\ Resumed(v) \in Vmcs
         /\ Resumed(v) = [v EXCEPT !.rip = (v.rip + v.len) % Size]
<1>1. v.rip \in Addr /\ v.len \in Nat
  BY DEF Vmcs
<1>2. (v.rip + v.len) % Size \in Addr
  BY <1>1, NextAddr
<1>. QED BY <1>2 DEF Resumed, Vmcs

\* The instructions that reach no handler leave the types as they are.
LEMMA PlainTypeStep ==
  TypeOK /\ (Execute \/ VmxExitCall \/ Exit \/ SaveRegisters \/ RestoreRegisters
             \/ VmResume \/ VmxExitPoint) => TypeOK'
<1>. SUFFICES ASSUME TypeOK,
                     Execute \/ VmxExitCall \/ Exit \/ SaveRegisters \/ RestoreRegisters
                     \/ VmResume \/ VmxExitPoint
              PROVE  TypeOK'
  OBVIOUS
<1>. USE DEF TypeOK, fixed, Modes
<1>0. /\ cpu.regs \in [Reg -> Value] /\ cpu.flags \in SUBSET Flag /\ cpu.sys \in [Sys -> Value]
      /\ cpu.msr \in [MsrRange -> [low : Word, high : Word]] /\ cpu.ip \in Addr
      /\ code[cpu.ip] \in Insns
  BY CpuFields
<1>1. CASE Execute
  <2>1. After(code[cpu.ip], cpu) \in Cpu
    BY <1>0, AfterType
  <2>. QED BY <1>1, <2>1 DEF Execute
<1>2. CASE VmxExitCall
  <2>. DEFINE regs == [cpu.regs EXCEPT !["rax"] = ExitVmm]
  <2>1. regs \in [Reg -> Value] /\ [regs EXCEPT !["rsp"] = 0] \in [Reg -> Value]
    BY <1>0, ExitAssumption, WordValue
  <2>2. stack' = [regs |-> regs, flags |-> cpu.flags, ip |-> Past(cpu.ip, code[cpu.ip])]
        /\ before' = cpu
        /\ cpu' = [cpu EXCEPT !.regs = [regs EXCEPT !["rsp"] = 0]]
    BY <1>2 DEF VmxExitCall
  <2>. HIDE DEF regs
  <2>3. stack' \in [regs : [Reg -> Value], flags : SUBSET Flag, ip : Addr]
    BY <1>0, <2>1, <2>2, NextAddr
  <2>4. cpu' \in Cpu
    BY <2>1, <2>2, CpuFields
  <2>. QED BY <1>2, <2>2, <2>3, <2>4 DEF VmxExitCall
<1>3. CASE Exit
  <2>1. PICK n \in Nat :
          vmcs' = [rsp |-> cpu.regs["rsp"], rip |-> cpu.ip, flags |-> cpu.flags,
                   sys |-> cpu.sys, insn |-> code[cpu.ip], len |-> n]
    <3>1. Size \in Nat /\ Len(code[cpu.ip]) \in Nat
      BY GuestAssumption DEF Len
    <3>. QED BY <1>3, <3>1 DEF Exit
  <2>2. vmcs' \in Vmcs
    BY <1>0, <2>1 DEF Vmcs, Reg
  <2>3. cpu' \in Cpu
    BY <1>3, HostType DEF Exit
  <2>4. before' \in Cpu
    BY <1>3 DEF Exit
  <2>. QED BY <1>3, <2>2, <2>3, <2>4 DEF Exit
<1>4. CASE SaveRegisters
  BY <1>0, <1>4 DEF SaveRegisters, Reg
<1>5. CASE RestoreRegisters
  <2>1. Restored(cpu.regs) \in [Reg -> Value]
    BY <1>0 DEF Restored, Reg
  <2>2. cpu' \in Cpu
    BY <1>5, <2>1, CpuFields DEF RestoreRegisters
  <2>. QED BY <1>5, <2>2 DEF RestoreRegisters
<1>6. CASE VmResume
  <2>1. vmcs.rsp \in Value /\ vmcs.flags \in SUBSET Flag /\ vmcs.sys \in [Sys -> Value]
        /\ vmcs.rip \in Addr
    BY DEF Vmcs
  <2>2. cpu' \in Cpu
    BY <1>6, <2>1 DEF VmResume, Cpu
  <2>. QED BY <1>6, <2>2 DEF VmResume
<1>7. CASE VmxExitPoint
  <2>1. stack.ip \in Addr
    OBVIOUS
  <2>2. [stack.regs EXCEPT !["rax"] = 0] \in [Reg -> Value] /\ stack.flags \in SUBSET Flag
    BY WordValue
  <2>3. cpu' \in Cpu
    BY <1>7, <2>1, <2>2 DEF VmxExitPoint, Cpu
  <2>. QED BY <1>7, <2>3 DEF VmxExitPoint
<1>. QED BY <1>1, <1>2, <1>3, <1>4, <1>5, <1>6, <1>7

\* Nor do the handlers, whose answers are values of a register.
LEMMA DispatchTypeStep == TypeOK /\ Dispatch => TypeOK'
<1>. SUFFICES ASSUME TypeOK, Dispatch PROVE TypeOK'
  OBVIOUS
<1>. USE DEF TypeOK, fixed, Modes, Handle
<1>0. /\ cpu.regs \in [Reg -> Value] /\ cpu.msr \in [MsrRange -> [low : Word, high : Word]]
      /\ Clobber(cpu.regs) \in [Reg -> Value]
      /\ vmcs.flags \in SUBSET Flag /\ vmcs.sys \in [Sys -> Value] /\ vmcs.insn \in Insns
      /\ vmcs.rsp \in Value
  BY CpuFields, ClobberType DEF Vmcs
<1>c. Clobbered => cpu' \in Cpu
  BY <1>0, CpuFields DEF Clobbered
<1>1. CASE HandleVmxInstruction
  <2>1. [vmcs EXCEPT !.flags = @ \cup {"CF"}] \in Vmcs
    BY <1>0 DEF Vmcs, Flag
  <2>2. vmcs' \in Vmcs
    BY <1>1, <2>1, ResumedType DEF HandleVmxInstruction
  <2>. QED BY <1>1, <2>2, <1>c DEF HandleVmxInstruction
<1>2. CASE HandleExceptionNmi
  <2>1. [vmcs EXCEPT !.flags = @ \ {"TF", "RF"}] \in Vmcs
    BY <1>0 DEF Vmcs, Flag
  <2>2. vmcs' \in Vmcs
    BY <1>2, <2>1, ResumedType DEF HandleExceptionNmi
  <2>. QED BY <1>2, <2>2, <1>c DEF HandleExceptionNmi
<1>3. CASE HandleCPUID
  <2>1. Low(frame["rax"]) \in Word
    BY WordValue DEF Reg
  <2>2. frame' \in [Reg -> Value]
    BY <1>3, <2>1, CpuidAnswer DEF HandleCPUID
  <2>. QED BY <1>3, <2>2, <1>c, ResumedType DEF HandleCPUID
<1>4. CASE HandleInvd
  BY <1>4, <1>c, ResumedType DEF HandleInvd
<1>5. CASE HandleVMCALL
  BY <1>5, <1>c, ResumedType DEF HandleVMCALL
<1>6. CASE VmxExitOff
  <2>1. [Clobber(cpu.regs) EXCEPT !["rsp"] = vmcs.rsp] \in [Reg -> Value]
    BY <1>0
  <2>2. OldRegs \in Cpu /\ OldRegs.regs = cpu.regs
    BY <1>0 DEF OldRegs, Cpu
  <2>3. cpu' \in Cpu
    BY <1>6, <2>1, <2>2, CpuFields DEF VmxExitOff
  <2>. QED BY <1>6, <2>3 DEF VmxExitOff
<1>7. CASE HandleCR
  <2>1. vmcs.insn.op \in {"crwrite", "crread"} => vmcs.insn.cr \in Sys /\ vmcs.insn.reg \in Reg
    BY <1>0, InsnShape, CrSys
  <2>2. vmcs' \in Vmcs
    <3>1. CASE vmcs.insn.op = "crwrite" /\ vmcs.insn.reg \in CrRegs
      <4>1. [vmcs EXCEPT !.sys[vmcs.insn.cr] = frame[vmcs.insn.reg]] \in Vmcs
        BY <2>1, <3>1, <1>0 DEF Vmcs
      <4>. QED BY <1>7, <3>1, <4>1, ResumedType DEF HandleCR
    <3>2. CASE ~(vmcs.insn.op = "crwrite" /\ vmcs.insn.reg \in CrRegs)
      BY <1>7, <3>2, ResumedType DEF HandleCR
    <3>. QED BY <3>1, <3>2
  <2>3. frame' \in [Reg -> Value]
    BY <1>0, <1>7, <2>1 DEF HandleCR
  <2>. QED BY <1>7, <1>c, <2>2, <2>3 DEF HandleCR
<1>8. CASE HandleMsrRead
  <2>1. \A v \in Value, w \in Value :
          [frame EXCEPT !["rax"] = v, !["rdx"] = w] \in [Reg -> Value]
    OBVIOUS
  <2>2. \A n \in MsrRange : cpu.msr[n].low \in Value /\ cpu.msr[n].high \in Value
    BY <1>0, WordValue
  <2>3. frame' \in [Reg -> Value]
    BY <1>8, <2>1, <2>2, WordValue DEF HandleMsrRead
  <2>. QED BY <1>8, <1>c, <2>3, ResumedType DEF HandleMsrRead
<1>9. CASE HandleMsrWrite
  <2>1. Low(frame["rax"]) \in Word /\ Low(frame["rdx"]) \in Word
    BY WordValue DEF Reg
  <2>2. PICK g \in [MsrRange -> [low : Word, high : Word]] :
          cpu' = [cpu EXCEPT !.regs = Clobber(@), !.msr = g]
    <3>. DEFINE g == [cpu.msr EXCEPT ![frame["rcx"]] =
                        [low |-> Low(frame["rax"]), high |-> Low(frame["rdx"])]]
    <3>1. g \in [MsrRange -> [low : Word, high : Word]]
      BY <1>0, <2>1
    <3>2. cpu' = [cpu EXCEPT !.regs = Clobber(@),
                             !.msr = IF frame["rcx"] \in MsrRange THEN g ELSE cpu.msr]
      BY <1>9 DEF HandleMsrWrite
    <3>. HIDE DEF g
    <3>3. CASE frame["rcx"] \in MsrRange
      BY <3>1, <3>2, <3>3
    <3>4. CASE frame["rcx"] \notin MsrRange
      BY <1>0, <3>2, <3>4
    <3>. QED BY <3>3, <3>4
  <2>3. cpu' \in Cpu
    BY <1>0, <2>2 DEF Cpu
  <2>. QED BY <1>9, <2>3, ResumedType DEF HandleMsrWrite
<1>10. CASE HandleEptViolation
  BY <1>10, <1>c DEF HandleEptViolation
<1>11. CASE Unhandled
  BY <1>11, <1>c DEF Unhandled
<1>. QED BY <1>1, <1>2, <1>3, <1>4, <1>5, <1>6, <1>7, <1>8, <1>9, <1>10, <1>11 DEF Dispatch

\* A step that changes nothing keeps the types.
LEMMA TypeStep == TypeOK /\ [Next]_vars => TypeOK'
<1>1. TypeOK /\ UNCHANGED vars => TypeOK'
  BY DEF TypeOK, vars
<1>. QED BY <1>1, PlainTypeStep, DispatchTypeStep DEF Next

-----------------------------------------------------------------------------
(* An exit, from the instruction to the return to the guest.               *)

\* The exit records the instruction, and the registers wait on VMMStack.
LEMMA ExitStep == VInv /\ (VmxExitCall \/ Exit \/ SaveRegisters) => ExitOK'
<1>. SUFFICES ASSUME VInv, VmxExitCall \/ Exit \/ SaveRegisters PROVE ExitOK'
  OBVIOUS
<1>. USE DEF VInv
<1>0. cpu \in Cpu /\ before \in Cpu /\ cpu.regs \in [Reg -> Value]
      /\ before.regs \in [Reg -> Value] /\ stack.regs \in [Reg -> Value]
  BY CpuFields DEF TypeOK
<1>1. CASE VmxExitCall
  <2>1. mode' = "calling"
    BY <1>1 DEF VmxExitCall
  <2>2. Stopping'
    BY <1>1 DEF VmxExitCall, Stopping
  <2>3. cpu' = [before' EXCEPT !.regs = [stack'.regs EXCEPT !["rsp"] = 0]]
    BY <1>1 DEF VmxExitCall
  <2>. QED BY <2>1, <2>2, <2>3 DEF ExitOK
<1>2. CASE Exit
  <2>1. PICK n :
          /\ vmcs' = [rsp |-> cpu.regs["rsp"], rip |-> cpu.ip, flags |-> cpu.flags,
                      sys |-> cpu.sys, insn |-> code[cpu.ip], len |-> n]
          /\ code[cpu.ip].op \notin {"fault", "debug"} => n = Len(code[cpu.ip])
    BY <1>2 DEF Exit
  <2>2. /\ mode' = "exited" /\ code' = code /\ stack' = stack
        /\ cpu' = [cpu EXCEPT !.regs["rsp"] = 0, !.flags = {}, !.sys = HostSys, !.ip = 0]
    BY <1>2 DEF Exit
  <2>3. cpu'.msr = cpu.msr /\ \A r \in Reg \ {"rsp"} : cpu'.regs[r] = cpu.regs[r]
    BY <1>0, <2>2 DEF Cpu
  <2>4. CASE mode = "guest"
    <3>1. code[cpu.ip].op # "stop" /\ before' = cpu
      BY <1>2, <2>4 DEF Exit
    <3>2. ExitedAt(cpu.regs)'
      BY <2>1, <2>2, <2>3, <3>1 DEF ExitedAt
    <3>. QED BY <2>2, <3>2 DEF ExitOK
  <2>5. CASE mode = "calling"
    <3>1. /\ before' = before /\ Stopping
          /\ cpu = [before EXCEPT !.regs = [stack.regs EXCEPT !["rsp"] = 0]]
      BY <1>2, <2>5 DEF Exit, ExitOK
    <3>2. /\ cpu.ip = before.ip /\ cpu.flags = before.flags /\ cpu.sys = before.sys
          /\ cpu.msr = before.msr /\ cpu.regs = [stack.regs EXCEPT !["rsp"] = 0]
      BY <1>0, <3>1 DEF Cpu
    <3>3. cpu.regs["rax"] = ExitVmm
      BY <1>0, <3>1, <3>2 DEF Stopping, Reg
    <3>4. Stopping' /\ code[cpu.ip].op = "stop"
      BY <2>2, <3>1, <3>2 DEF Stopping
    <3>5. cpu'.regs["rax"] = ExitVmm
      BY <2>3, <3>3 DEF Reg
    <3>6. ExitedAt(cpu.regs)'
      BY <2>1, <2>2, <2>3, <3>1, <3>2, <3>4, <3>5 DEF ExitedAt
    <3>. QED BY <2>2, <3>6 DEF ExitOK
  <2>. QED BY <1>2, <2>4, <2>5 DEF Exit
<1>3. CASE SaveRegisters
  <2>1. /\ mode = "exited" /\ mode' = "saved" /\ UNCHANGED <<code, before, cpu, vmcs, stack>>
        /\ frame' = [cpu.regs EXCEPT !["rsp"] = cpu.regs["rbp"]]
    BY <1>3 DEF SaveRegisters, fixed
  <2>2. \A r \in Reg \ {"rsp"} : frame'[r] = cpu.regs[r]
    BY <1>0, <2>1
  <2>3. ExitedAt(frame)'
    <3>1. ExitedAt(cpu.regs) /\ "rax" \in Reg \ {"rsp"}
      BY <2>1 DEF ExitOK, Reg
    <3>. QED BY <2>1, <2>2, <3>1 DEF ExitedAt, Stopping
  <2>. QED BY <2>1, <2>3 DEF ExitOK
<1>. QED BY <1>1, <1>2, <1>3

\* What a handler has when it is called.
LEMMA HandlerStarts ==
  ASSUME VInv, mode = "saved", vmcs.insn.op # "stop"
  PROVE  /\ \A r \in Reg \ {"rsp"} : frame[r] = before.regs[r]
         /\ vmcs.rsp = before.regs["rsp"] /\ vmcs.rip = before.ip
         /\ vmcs.insn = code[before.ip]
         /\ vmcs.sys = before.sys /\ vmcs.flags = before.flags /\ cpu.msr = before.msr
         /\ vmcs.insn.op \notin {"fault", "debug"} => vmcs.len = Len(vmcs.insn)
  BY DEF VInv, ExitOK, ExitedAt

\* A handler changes what the instruction does, at most.
LEMMA HandleStep == VInv /\ Dispatch /\ ~VmxExitOff => ExitOK'
<1>. SUFFICES ASSUME VInv, Dispatch, ~VmxExitOff PROVE ExitOK'
  OBVIOUS
<1>0. /\ cpu \in Cpu /\ vmcs \in Vmcs /\ frame \in [Reg -> Value] /\ before \in Cpu
      /\ vmcs.insn \in Insns
  BY DEF VInv, TypeOK, Vmcs
<1>1. /\ mode = "saved" /\ mode' = "handled" /\ vmcs.insn.op # "stop"
      /\ UNCHANGED <<code, before, stack>>
  BY DEF Dispatch, Handle, fixed, HandleVmxInstruction, HandleExceptionNmi, HandleCPUID,
         HandleInvd, HandleVMCALL, HandleCR, HandleMsrRead, HandleMsrWrite,
         HandleEptViolation, Unhandled
<1>2. /\ \A r \in Reg \ {"rsp"} : frame[r] = before.regs[r]
      /\ vmcs.rsp = before.regs["rsp"] /\ vmcs.rip = before.ip
      /\ vmcs.sys = before.sys /\ vmcs.flags = before.flags /\ cpu.msr = before.msr
  BY <1>1, HandlerStarts
<1>. DEFINE x == vmcs.insn
<1>3. /\ vmcs'.insn = x /\ vmcs'.rsp = vmcs.rsp
      /\ x.op # "crwrite" => vmcs'.sys = vmcs.sys
      /\ x.op \notin {"vmx", "debug"} => vmcs'.flags = vmcs.flags
  BY <1>0 DEF Dispatch, Handle, HandleVmxInstruction, HandleExceptionNmi, HandleCPUID,
         HandleInvd, HandleVMCALL, HandleCR, HandleMsrRead, HandleMsrWrite,
         HandleEptViolation, Unhandled, Resumed, Vmcs
<1>4. x.op # "wrmsr" => cpu'.msr = cpu.msr
  BY <1>0 DEF Dispatch, Handle, HandleVmxInstruction, HandleExceptionNmi, HandleCPUID,
         HandleInvd, HandleVMCALL, HandleCR, HandleMsrRead, HandleMsrWrite,
         HandleEptViolation, Unhandled, Clobbered, Cpu
<1>5. \A r \in Reg \ (Outputs(x) \cup {"rsp"}) : frame'[r] = frame[r]
  <2>. SUFFICES ASSUME NEW r \in Reg, r \notin Outputs(x) PROVE frame'[r] = frame[r]
    OBVIOUS
  <2>1. CASE HandleCPUID
    <3>1. Low(frame["rax"]) \in Word /\ x.op = "cpuid"
      BY <1>0, <2>1, WordValue DEF Reg, Handle, HandleCPUID
    <3>2. r \notin DOMAIN Cpuid[Low(frame["rax"]), Low(frame["rax"])]
      BY <3>1, CpuidAnswer DEF Outputs
    <3>. QED BY <2>1, <3>2 DEF HandleCPUID
  <2>2. CASE HandleCR
    BY <1>0, <2>2 DEF HandleCR, Handle, Outputs
  <2>3. CASE HandleMsrRead
    <3>1. r \notin {"rax", "rdx"}
      BY <2>3 DEF HandleMsrRead, Handle, Outputs
    <3>. QED BY <1>0, <2>3, <3>1 DEF HandleMsrRead
  <2>4. CASE ~(HandleCPUID \/ HandleCR \/ HandleMsrRead)
    BY <2>4 DEF Dispatch, HandleVmxInstruction, HandleExceptionNmi,
         HandleInvd, HandleVMCALL, HandleMsrWrite, HandleEptViolation, Unhandled
  <2>. QED BY <2>1, <2>2, <2>3, <2>4
<1>6. HandledOnly(frame)'
  <2>. HIDE DEF x
  <2>. QED BY <1>1, <1>2, <1>3, <1>4, <1>5 DEF HandledOnly, x
<1>. QED BY <1>1, <1>6 DEF ExitOK

\* VMRESUME gives the guest what the handler has left, VMXOFF gives it to the
\* processor.
LEMMA ReturnStep ==
  VInv /\ (Execute \/ VmxExitOff \/ RestoreRegisters \/ VmResume \/ VmxExitPoint) => ExitOK'
<1>. SUFFICES ASSUME VInv,
                     Execute \/ VmxExitOff \/ RestoreRegisters \/ VmResume \/ VmxExitPoint
              PROVE  ExitOK'
  OBVIOUS
<1>1. CASE Execute \/ VmResume
  <2>1. mode' = "guest"
    BY <1>1 DEF Execute, VmResume
  <2>. QED BY <2>1 DEF ExitOK
<1>2. CASE VmxExitOff
  <2>1. /\ mode = "saved" /\ mode' = "off" /\ UNCHANGED before
        /\ cpu' = [OldRegs EXCEPT !.regs = [Clobber(@) EXCEPT !["rsp"] = vmcs.rsp]]
    BY <1>2 DEF VmxExitOff, fixed
  <2>2. cpu'.sys = vmcs.sys /\ cpu'.msr = cpu.msr
    BY <2>1 DEF OldRegs, VInv, TypeOK, Cpu
  <2>3. ExitedAt(frame)
    BY <2>1 DEF VInv, ExitOK
  <2>. QED BY <2>1, <2>2, <2>3 DEF ExitOK, ExitedAt
<1>3. CASE RestoreRegisters
  <2>1. /\ mode = "handled" /\ mode' = "restored" /\ UNCHANGED <<code, before, vmcs>>
        /\ cpu' = [cpu EXCEPT !.regs = Restored(@)]
    BY <1>3 DEF RestoreRegisters, fixed
  <2>2. cpu'.msr = cpu.msr /\ \A r \in Reg \ {"rsp"} : cpu'.regs[r] = frame[r]
    BY <2>1 DEF VInv, TypeOK, Cpu, Restored
  <2>3. HandledOnly(frame)
    BY <2>1 DEF VInv, ExitOK
  <2>4. HandledOnly(cpu.regs)'
    BY <2>1, <2>2, <2>3 DEF HandledOnly
  <2>. QED BY <2>1, <2>4 DEF ExitOK
<1>4. CASE VmxExitPoint
  <2>1. /\ mode = "off" /\ mode' = "native" /\ UNCHANGED before
        /\ cpu' = [cpu EXCEPT !.regs = [stack.regs EXCEPT !["rax"] = 0],
                              !.flags = stack.flags, !.ip = stack.ip]
    BY <1>4 DEF VmxExitPoint, fixed
  <2>2. cpu'.sys = cpu.sys /\ cpu'.msr = cpu.msr
    BY <2>1 DEF VInv, TypeOK, Cpu
  <2>. QED BY <2>1, <2>2 DEF VInv, ExitOK
<1>. QED BY <1>1, <1>2, <1>3, <1>4

LEMMA ExitInit == Init => VInv
<1>. SUFFICES ASSUME Init PROVE VInv
  OBVIOUS
<1>1. cpu \in Cpu /\ 0 \in Value /\ 0 \in Addr /\ code[0] \in Insns
  BY ExitAssumption, WordValue, NextAddr DEF Init
<1>2. TypeOK
  <2>1. stack \in [regs : [Reg -> Value], flags : SUBSET Flag, ip : Addr]
    <3>1. PICK s \in InitCpus : stack = [regs |-> s.regs, flags |-> s.flags, ip |-> s.ip]
      BY DEF Init
    <3>2. s \in Cpu
      BY ExitAssumption
    <3>. QED BY <3>1, <3>2, CpuFields
  <2>. QED BY <1>1, <2>1, CpuFields DEF Init, TypeOK, Modes, Vmcs
<1>3. ExitOK
  BY DEF Init, ExitOK
<1>. QED BY <1>2, <1>3 DEF VInv

\* The invariant is inductive.
LEMMA ExitInvStep == VInv /\ [Next]_vars => VInv'
<1>1. VInv /\ [Next]_vars => TypeOK'
  BY TypeStep DEF VInv
<1>2. VInv /\ UNCHANGED vars => ExitOK'
  BY DEF VInv, ExitOK, vars, Stopping, ExitedAt, HandledOnly
<1>. QED BY <1>1, <1>2, ExitStep, HandleStep, ReturnStep DEF Next, VInv

\* At each point of an exit the guest's registers are where VmxExitHandler has
\* put them, and those its instruction does not write are as they were
\* (vmx-asm.asm:192-206, vmxexithandler.c:181-277).
THEOREM ExitInvariance == Spec => []VInv
<1>1. Init => VInv
  BY ExitInit
<1>2. VInv /\ [Next]_vars => VInv'
  BY ExitInvStep
<1>. QED BY <1>1, <1>2, PTL DEF Spec

\* Registers, MSRs and the fields of the VMCS hold values of their width
\* whatever the guest executes (vmxexithandler.c).
THEOREM TypeCorrect == Spec => []TypeOK
<1>1. VInv => TypeOK
  BY DEF VInv
<1>. QED BY <1>1, ExitInvariance, PTL

\* Whatever the instruction, the width of a register and the answers of CPUID:
\* when the guest is about to go on after an exit, all its instruction does
\* not write is as it was (VmxExitHandler, vmx-asm.asm:192-206), and when a
\* VMCALL has ended the hypervisor, all that the exit replaced is the guest's
\* again (VmxRestoreOldRegs, vmx.c:480-498).
THEOREM RegistersKept == Spec => []NothingElseChanges
<1>1. VInv => NothingElseChanges
  BY DEF VInv, ExitOK, HandledOnly, NothingElseChanges
<1>. QED BY <1>1, ExitInvariance, PTL

-----------------------------------------------------------------------------
(* The guest sees GuestMachine.                                            *)

\* GuestMachine has its own copy of what Guest defines.
LEMMA MachineIsGuest ==
  /\ Machine!Cpu = Cpu /\ Machine!Addr = Addr
  /\ \A x, s : Machine!After(x, s) = After(x, s)
<1>1. Machine!Cpu = Cpu /\ Machine!Addr = Addr
  BY DEF Machine!Cpu, Cpu, Machine!Addr, Addr, Machine!Reg, Reg, Machine!Cr, Cr, Machine!Sys, Sys,
         Machine!Flag, Flag, Machine!Value, Value, Machine!Word, Word
<1>2. /\ \A r : Machine!CpuidRegs(r) = CpuidRegs(r)
      /\ \A s : Machine!MsrRegs(s) = MsrRegs(s) /\ Machine!MsrWritten(s) = MsrWritten(s)
      /\ \A v : Machine!ClearTs(v) = ClearTs(v)
      /\ \A i, x : Machine!Past(i, x) = Past(i, x)
      /\ Machine!Vector = Vector
  BY DEF Machine!CpuidRegs, CpuidRegs, Machine!MsrRegs, MsrRegs, Machine!MsrWritten, MsrWritten,
         Machine!ClearTs, ClearTs, Machine!Past, Past, Machine!Len, Len, Machine!Vector, Vector,
         Machine!Low, Low, Machine!Reg, Reg
<1>3. \A x, s : Machine!Effect(x, s) = Effect(x, s)
  BY <1>2 DEF Machine!Effect, Effect
<1>. QED BY <1>1, <1>2, <1>3 DEF Machine!After, After

\* The guest in the registers g and the VMCS is s, if they hold what s does.
LEMMA GuestIs ==
  ASSUME NEW s \in Cpu, NEW g \in [Reg -> Value],
         \A r \in Reg \ {"rsp"} : g[r] = s.regs[r], vmcs.rsp = s.regs["rsp"],
         vmcs.flags = s.flags, vmcs.sys = s.sys, cpu.msr = s.msr, vmcs.rip = s.ip
  PROVE  InGuest(g) = s
<1>1. [g EXCEPT !["rsp"] = vmcs.rsp] = s.regs
  <2>1. s.regs \in [Reg -> Value]
    BY CpuFields
  <2>. QED BY <2>1 DEF Reg
<1>. QED BY <1>1 DEF InGuest, Cpu

\* The guest that an exit has stopped is the one of before.
LEMMA GuestIsBefore ==
  ASSUME VInv
  PROVE  /\ mode \in {"calling", "exited", "saved"} => GuestCpu = before
         /\ mode = "handled" => GuestCpu = InGuest(frame)
         /\ mode = "restored" => GuestCpu = InGuest(cpu.regs)
         /\ mode \in {"guest", "native"} => GuestCpu = cpu
<1>. cpu \in Cpu /\ before \in Cpu /\ frame \in [Reg -> Value] /\ cpu.regs \in [Reg -> Value]
  BY CpuFields DEF VInv, TypeOK
<1>1. mode \in {"calling", "exited", "saved"} => GuestCpu = before
  <2>1. CASE mode = "exited" /\ vmcs.insn.op # "stop"
    <3>1. InGuest(cpu.regs) = before
      BY <2>1, GuestIs DEF VInv, ExitOK, ExitedAt
    <3>. QED BY <2>1, <3>1 DEF GuestCpu
  <2>2. CASE mode = "saved" /\ vmcs.insn.op # "stop"
    <3>1. InGuest(frame) = before
      BY <2>2, GuestIs DEF VInv, ExitOK, ExitedAt
    <3>. QED BY <2>2, <3>1 DEF GuestCpu
  <2>3. CASE mode = "calling"
    BY <2>3 DEF GuestCpu
  <2>4. CASE mode \in {"exited", "saved"} /\ vmcs.insn.op = "stop"
    BY <2>4 DEF GuestCpu
  <2>. QED BY <2>1, <2>2, <2>3, <2>4
<1>2. mode = "handled" => GuestCpu = InGuest(frame)
  BY DEF GuestCpu
<1>3. mode = "restored" => GuestCpu = InGuest(cpu.regs)
  BY DEF GuestCpu
<1>4. mode \in {"guest", "native"} => GuestCpu = cpu
  BY DEF GuestCpu
<1>. QED BY <1>1, <1>2, <1>3, <1>4

\* A processor is its fields.
LEMMA CpuIsItsFields ==
  ASSUME NEW s \in Cpu
  PROVE  s = [regs |-> s.regs, flags |-> s.flags, sys |-> s.sys, msr |-> s.msr, ip |-> s.ip]
BY DEF Cpu

\* Until a handler has run the guest is the one of before.
GuestStopped == mode \in {"calling", "exited", "saved"} => GuestCpu = before

\* The steps of an exit but that of a handler are none of the guest's.
LEMMA ExitIsNoStep ==
  VInv /\ GuestStopped' /\ (VmxExitCall \/ Exit \/ SaveRegisters \/ RestoreRegisters
                            \/ VmResume \/ VmxExitPoint) => UNCHANGED Machine!vars
<1>. SUFFICES ASSUME VInv, GuestStopped',
                     VmxExitCall \/ Exit \/ SaveRegisters \/ RestoreRegisters
                     \/ VmResume \/ VmxExitPoint
              PROVE  UNCHANGED Machine!vars
  OBVIOUS
<1>0. /\ cpu \in Cpu /\ before \in Cpu /\ frame \in [Reg -> Value] /\ cpu.regs \in [Reg -> Value]
      /\ stack.regs \in [Reg -> Value]
  BY CpuFields DEF VInv, TypeOK
<1>1. /\ code' = code
      /\ (mode' \notin {"off", "native"}) = (mode \notin {"off", "native"})
  BY DEF VmxExitCall, Exit, SaveRegisters, RestoreRegisters, VmResume, VmxExitPoint, fixed
<1>2. GuestCpu' = GuestCpu
  <2>1. CASE VmxExitCall \/ Exit \/ SaveRegisters
    <3>1. /\ mode \in {"guest", "calling", "exited"} /\ mode' \in {"calling", "exited", "saved"}
          /\ before' = GuestCpu
      <4>1. CASE mode = "guest"
        BY <2>1, <4>1, GuestIsBefore DEF VmxExitCall, Exit, SaveRegisters
      <4>2. CASE mode # "guest"
        BY <2>1, <4>2, GuestIsBefore DEF VmxExitCall, Exit, SaveRegisters, fixed
      <4>. QED BY <4>1, <4>2
    <3>2. GuestCpu' = before'
      BY <3>1 DEF GuestStopped
    <3>. QED BY <3>1, <3>2
  <2>2. CASE RestoreRegisters
    <3>1. mode = "handled" /\ mode' = "restored" /\ vmcs' = vmcs
          /\ cpu' = [cpu EXCEPT !.regs = Restored(@)]
      BY <2>2 DEF RestoreRegisters
    <3>2. GuestCpu = InGuest(frame)
      BY <3>1, GuestIsBefore
    <3>3. cpu'.msr = cpu.msr /\ cpu'.regs = Restored(cpu.regs)
      BY <1>0, <3>1 DEF Cpu
    <3>4. [cpu'.regs EXCEPT !["rsp"] = vmcs.rsp] = [frame EXCEPT !["rsp"] = vmcs.rsp]
      BY <1>0, <3>3 DEF Restored, Reg
    <3>5. GuestCpu' = InGuest(frame)
      BY <3>1, <3>3, <3>4 DEF GuestCpu, InGuest
    <3>. QED BY <3>2, <3>5
  <2>3. CASE VmResume
    <3>1. /\ mode = "restored" /\ mode' = "guest"
          /\ cpu' = [cpu EXCEPT !.regs["rsp"] = vmcs.rsp, !.flags = vmcs.flags,
                                !.sys = vmcs.sys, !.ip = vmcs.rip]
      BY <2>3 DEF VmResume
    <3>2. GuestCpu = InGuest(cpu.regs)
      BY <3>1, GuestIsBefore
    <3>3. cpu' = InGuest(cpu.regs)
      BY <1>0, <3>1 DEF InGuest, Cpu
    <3>4. GuestCpu' = cpu'
      BY <3>1 DEF GuestCpu
    <3>. QED BY <3>2, <3>3, <3>4
  <2>4. CASE VmxExitPoint
    <3>1. /\ mode = "off" /\ mode' = "native"
          /\ cpu' = [cpu EXCEPT !.regs = [stack.regs EXCEPT !["rax"] = 0],
                                !.flags = stack.flags, !.ip = stack.ip]
      BY <2>4 DEF VmxExitPoint
    <3>2. GuestCpu = [regs |-> [stack.regs EXCEPT !["rax"] = 0], flags |-> stack.flags,
                      sys |-> cpu.sys, msr |-> cpu.msr, ip |-> stack.ip]
      BY <3>1 DEF GuestCpu
    <3>3. cpu' = GuestCpu
      <4>. DEFINE g == [stack.regs EXCEPT !["rax"] = 0]
                  f == stack.flags
                  a == stack.ip
      <4>1. g \in [Reg -> Value] /\ f \in SUBSET Flag /\ a \in Addr
        BY WordValue DEF VInv, TypeOK
      <4>2. /\ cpu' = [cpu EXCEPT !.regs = g, !.flags = f, !.ip = a]
            /\ GuestCpu = [regs |-> g, flags |-> f, sys |-> cpu.sys, msr |-> cpu.msr, ip |-> a]
        BY <3>1, <3>2
      <4>. HIDE DEF g, f, a
      <4>3. cpu' \in Cpu
        BY <1>0, <4>1, <4>2 DEF Cpu
      <4>4. cpu'.regs = g /\ cpu'.flags = f /\ cpu'.sys = cpu.sys /\ cpu'.msr = cpu.msr /\ cpu'.ip = a
        BY <1>0, <4>2 DEF Cpu
      <4>5. cpu' = [regs |-> cpu'.regs, flags |-> cpu'.flags, sys |-> cpu'.sys,
                    msr |-> cpu'.msr, ip |-> cpu'.ip]
        BY <4>3, CpuIsItsFields
      <4>. QED BY <4>2, <4>4, <4>5
    <3>. QED BY <3>1, <3>3 DEF GuestCpu
  <2>. QED BY <2>1, <2>2, <2>3, <2>4
<1>. QED BY <1>1, <1>2 DEF Machine!vars

\* An instruction that does not exit is a step of the machine.
LEMMA ExecuteIsStep == VInv /\ Execute => Machine!Step
<1>. SUFFICES ASSUME VInv, Execute PROVE Machine!Step
  OBVIOUS
<1>1. /\ mode = "guest" /\ mode' = "guest" /\ code' = code
      /\ code[cpu.ip].op # "stop" /\ cpu' = After(code[cpu.ip], cpu)
  BY DEF Execute, fixed
<1>2. GuestCpu = cpu /\ GuestCpu' = cpu'
  BY <1>1 DEF GuestCpu
<1>. QED BY <1>1, <1>2, MachineIsGuest DEF Machine!Step

\* What the guest of a handled instruction is, in terms of the handler's own
\* variables.
LEMMA HandledIs ==
  ASSUME VInv, Dispatch, ~VmxExitOff, NEW s \in Cpu,
         \A r \in Reg \ {"rsp"} : frame'[r] = s.regs[r], s.regs["rsp"] = vmcs.rsp,
         vmcs'.flags = s.flags, vmcs'.sys = s.sys, cpu'.msr = s.msr, vmcs'.rip = s.ip
  PROVE  GuestCpu' = s
<1>0. frame' \in [Reg -> Value] /\ mode' = "handled" /\ vmcs'.rsp = vmcs.rsp
  <2>1. TypeOK'
    BY DispatchTypeStep DEF VInv
  <2>2. vmcs \in Vmcs /\ frame \in [Reg -> Value] /\ cpu \in Cpu
    BY DEF VInv, TypeOK
  <2>. QED BY <2>1, <2>2 DEF TypeOK, Dispatch, Handle, HandleVmxInstruction, HandleExceptionNmi,
         HandleCPUID, HandleInvd, HandleVMCALL, HandleCR, HandleMsrRead, HandleMsrWrite,
         HandleEptViolation, Unhandled, Resumed, Vmcs
<1>1. [frame' EXCEPT !["rsp"] = vmcs'.rsp] = s.regs
  <2>1. s.regs \in [Reg -> Value]
    BY CpuFields
  <2>. QED BY <1>0, <2>1 DEF Reg
<1>2. GuestCpu' = [regs |-> s.regs, flags |-> s.flags, sys |-> s.sys, msr |-> s.msr, ip |-> s.ip]
  BY <1>0, <1>1 DEF GuestCpu, InGuest
<1>. QED BY <1>2 DEF Cpu

\* The fields of a processor after an instruction that is not an exception.
LEMMA AfterFields ==
  ASSUME NEW x \in Insns, NEW s \in Cpu, x.op \notin {"fault", "debug"}
  PROVE  /\ After(x, s).ip = Past(s.ip, x)
         /\ After(x, s).regs = CASE x.op = "set" -> [s.regs EXCEPT ![x.reg] = x.val]
                                 [] x.op = "cpuid" -> CpuidRegs(s.regs)
                                 [] x.op = "rdmsr" -> MsrRegs(s)
                                 [] x.op = "crread" -> [s.regs EXCEPT ![x.reg] = s.sys[x.cr]]
                                 [] x.op = "stop" -> [s.regs EXCEPT !["rax"] = 0]
                                 [] OTHER -> s.regs
         /\ After(x, s).flags = IF x.op = "vmx" THEN s.flags \cup {"CF"} ELSE s.flags
         /\ x.op \notin {"clts", "load"} =>
              After(x, s).sys = IF x.op = "crwrite" THEN [s.sys EXCEPT ![x.cr] = s.regs[x.reg]]
                               ELSE s.sys
         /\ After(x, s).msr = IF x.op = "wrmsr" THEN MsrWritten(s) ELSE s.msr
<1>. DEFINE e == Effect(x, s)
<1>1. /\ e.regs = CASE x.op = "set" -> [s.regs EXCEPT ![x.reg] = x.val]
                    [] x.op = "cpuid" -> CpuidRegs(s.regs)
                    [] x.op = "rdmsr" -> MsrRegs(s)
                    [] x.op = "crread" -> [s.regs EXCEPT ![x.reg] = s.sys[x.cr]]
                    [] x.op = "stop" -> [s.regs EXCEPT !["rax"] = 0]
                    [] OTHER -> s.regs
  BY DEF Effect, Cpu
<1>2. e.flags = IF x.op = "vmx" THEN s.flags \cup {"CF"} ELSE s.flags
  BY DEF Effect, Cpu
<1>3. x.op \notin {"clts", "load"} =>
        e.sys = IF x.op = "crwrite" THEN [s.sys EXCEPT ![x.cr] = s.regs[x.reg]] ELSE s.sys
  BY DEF Effect, Cpu
<1>4. e.msr = IF x.op = "wrmsr" THEN MsrWritten(s) ELSE s.msr
  BY DEF Effect, Cpu
<1>5. DOMAIN e = {"regs", "flags", "sys", "msr", "ip"}
  BY DEF Effect, Cpu
<1>. HIDE DEF e
<1>6. /\ After(x, s).ip = Past(s.ip, x) /\ After(x, s).regs = e.regs
      /\ After(x, s).flags = e.flags /\ After(x, s).sys = e.sys /\ After(x, s).msr = e.msr
  BY <1>5 DEF After, e
<1>. QED BY <1>1, <1>2, <1>3, <1>4, <1>6

\* A handler that says what GuestMachine says, on the registers that were saved.
LEMMA HandlerAnswers ==
  ASSUME VInv, SoundOK, Dispatch, ~VmxExitOff
  PROVE  GuestCpu' = After(vmcs.insn, before) \/ GuestCpu' = before
<1>. DEFINE x == vmcs.insn
            s == After(x, before)
<1>0. /\ cpu \in Cpu /\ before \in Cpu /\ vmcs \in Vmcs /\ frame \in [Reg -> Value]
      /\ x \in Insns /\ before.regs \in [Reg -> Value] /\ s \in Cpu
      /\ before.sys \in [Sys -> Value] /\ before.msr \in [MsrRange -> [low : Word, high : Word]]
  BY AfterType, CpuFields DEF VInv, TypeOK, Vmcs
<1>1. mode = "saved" /\ x.op # "stop"
  BY DEF Dispatch, Handle, HandleVmxInstruction, HandleExceptionNmi, HandleCPUID,
         HandleInvd, HandleVMCALL, HandleCR, HandleMsrRead, HandleMsrWrite,
         HandleEptViolation, Unhandled
<1>2. /\ \A r \in Reg \ {"rsp"} : frame[r] = before.regs[r]
      /\ vmcs.rsp = before.regs["rsp"] /\ vmcs.rip = before.ip
      /\ vmcs.sys = before.sys /\ vmcs.flags = before.flags /\ cpu.msr = before.msr
      /\ x.op \notin {"fault", "debug"} => vmcs.len = Len(x)
  BY <1>1, HandlerStarts
<1>3. Faithful(x, before.regs)
  BY <1>1 DEF SoundOK
<1>4. x.op \notin {"fault", "debug", "clts", "set", "load", "stop"}
  BY <1>1, <1>3 DEF Faithful
<1>. HIDE DEF x
<1>5. \A v \in Vmcs : v.rip = vmcs.rip /\ v.len = vmcs.len => Resumed(v).rip = Past(before.ip, x)
  BY <1>2, <1>4 DEF Resumed, Past, Vmcs
<1>6. \A v \in Vmcs : Resumed(v).flags = v.flags /\ Resumed(v).sys = v.sys
  BY DEF Resumed, Vmcs
<1>7. s.ip = Past(before.ip, x)
  BY <1>0, <1>4, AfterFields
<1>8. Clobbered => cpu'.msr = before.msr
  BY <1>0, <1>2 DEF Clobbered, Cpu
<1>. HIDE DEF s
<1>9. CASE HandleVmxInstruction
  <2>1. x.op = "vmx" /\ frame' = frame /\ Clobbered
    BY <1>9 DEF HandleVmxInstruction, Handle, x
  <2>. DEFINE v == [vmcs EXCEPT !.flags = @ \cup {"CF"}]
  <2>2. v \in Vmcs /\ v.rip = vmcs.rip /\ v.len = vmcs.len /\ v.sys = vmcs.sys
        /\ v.flags = vmcs.flags \cup {"CF"}
    BY <1>0 DEF Vmcs, Flag
  <2>3. vmcs' = Resumed(v)
    BY <1>9 DEF HandleVmxInstruction
  <2>. HIDE DEF v
  <2>4. /\ s.regs = before.regs /\ s.flags = before.flags \cup {"CF"} /\ s.sys = before.sys
        /\ s.msr = before.msr
    BY <1>0, <2>1, AfterFields DEF s
  <2>5. vmcs'.rip = s.ip /\ vmcs'.flags = s.flags /\ vmcs'.sys = s.sys
    BY <1>2, <1>5, <1>6, <1>7, <2>2, <2>3, <2>4
  <2>6. GuestCpu' = s
    BY <1>0, <1>2, <1>8, <2>1, <2>4, <2>5, HandledIs
  <2>. QED BY <2>6 DEF s, x
<1>10. CASE HandleCPUID
  <2>1. x.op = "cpuid" /\ Clobbered /\ vmcs' = Resumed(vmcs)
    BY <1>10 DEF HandleCPUID, Handle, x
  <2>2. /\ s.regs = CpuidRegs(before.regs) /\ s.flags = before.flags /\ s.sys = before.sys
        /\ s.msr = before.msr
    BY <1>0, <2>1, AfterFields DEF s
  <2>3. vmcs'.rip = s.ip /\ vmcs'.flags = s.flags /\ vmcs'.sys = s.sys
    BY <1>0, <1>2, <1>5, <1>6, <1>7, <2>1, <2>2
  <2>. DEFINE a == Cpuid[Low(before.regs["rax"]), Low(before.regs["rax"])]
  <2>4. frame["rax"] = before.regs["rax"]
    BY <1>2 DEF Reg
  <2>5. frame' = [r \in Reg |-> IF r \in DOMAIN a THEN a[r] ELSE frame[r]]
    BY <1>10, <2>4 DEF HandleCPUID
  <2>6. s.regs = [r \in Reg |-> IF r \in DOMAIN a THEN a[r] ELSE before.regs[r]]
    <3>1. a = Cpuid[Low(before.regs["rax"]), Low(before.regs["rcx"])]
      BY <1>3, <2>1 DEF Faithful
    <3>. HIDE DEF a
    <3>. QED BY <2>2, <3>1 DEF CpuidRegs
  <2>7. "rsp" \notin DOMAIN a
    <3>1. Low(before.regs["rax"]) \in Word
      BY <1>0, WordValue DEF Reg
    <3>. DEFINE f == Low(before.regs["rax"])
    <3>. HIDE DEF f
    <3>2. DOMAIN Cpuid[f, f] = {"rax", "rbx", "rcx", "rdx"}
      BY <3>1, CpuidAnswer DEF f
    <3>. QED BY <3>2 DEF f
  <2>. HIDE DEF a
  <2>8. \A r \in Reg \ {"rsp"} : frame'[r] = s.regs[r]
    BY <1>2, <2>5, <2>6
  <2>9. s.regs["rsp"] = vmcs.rsp
    BY <1>2, <2>6, <2>7 DEF Reg
  <2>10. GuestCpu' = s
    BY <1>0, <1>8, <2>1, <2>2, <2>3, <2>8, <2>9, HandledIs
  <2>. QED BY <2>10 DEF s, x
<1>11. CASE HandleInvd \/ HandleVMCALL
  <2>1. x.op \in {"invd", "vmcall"} /\ frame' = frame /\ Clobbered /\ vmcs' = Resumed(vmcs)
    BY <1>11 DEF HandleInvd, HandleVMCALL, Handle, x
  <2>2. s.regs = before.regs /\ s.flags = before.flags /\ s.sys = before.sys /\ s.msr = before.msr
    BY <1>0, <2>1, AfterFields DEF s
  <2>3. vmcs'.rip = s.ip /\ vmcs'.flags = s.flags /\ vmcs'.sys = s.sys
    BY <1>0, <1>2, <1>5, <1>6, <1>7, <2>1, <2>2
  <2>4. GuestCpu' = s
    BY <1>0, <1>2, <1>8, <2>1, <2>2, <2>3, HandledIs
  <2>. QED BY <2>4 DEF s, x
<1>12. CASE HandleCR
  <2>1. x.op \in {"crwrite", "crread"} /\ x.reg \in CrRegs \ {"rsp"} /\ Clobbered
    BY <1>3, <1>4, <1>12 DEF HandleCR, Handle, Faithful, x
  <2>2. x.cr \in Sys /\ x.reg \in Reg /\ frame[x.reg] = before.regs[x.reg]
    BY <1>0, <1>2, <2>1, InsnShape, CrSys
  <2>3. CASE x.op = "crwrite"
    <3>. DEFINE v == [vmcs EXCEPT !.sys[x.cr] = frame[x.reg]]
    <3>1. vmcs' = Resumed(v) /\ frame' = frame
      BY <1>12, <2>1, <2>3 DEF HandleCR, x
    <3>2. v \in Vmcs /\ v.rip = vmcs.rip /\ v.len = vmcs.len /\ v.flags = vmcs.flags
          /\ v.sys = [vmcs.sys EXCEPT ![x.cr] = frame[x.reg]]
      BY <1>0, <2>2 DEF Vmcs
    <3>. HIDE DEF v
    <3>3. /\ s.regs = before.regs /\ s.flags = before.flags /\ s.msr = before.msr
          /\ s.sys = [before.sys EXCEPT ![x.cr] = before.regs[x.reg]]
      BY <1>0, <2>3, AfterFields DEF s
    <3>4. vmcs'.rip = s.ip /\ vmcs'.flags = s.flags /\ vmcs'.sys = s.sys
      BY <1>2, <1>5, <1>6, <1>7, <2>2, <3>1, <3>2, <3>3
    <3>5. GuestCpu' = s
      BY <1>0, <1>2, <1>8, <2>1, <3>1, <3>3, <3>4, HandledIs
    <3>. QED BY <3>5 DEF s, x
  <2>4. CASE x.op = "crread"
    <3>1. vmcs' = Resumed(vmcs) /\ frame' = [frame EXCEPT ![x.reg] = vmcs.sys[x.cr]]
      BY <1>12, <2>1, <2>4 DEF HandleCR, x
    <3>2. /\ s.regs = [before.regs EXCEPT ![x.reg] = before.sys[x.cr]] /\ s.flags = before.flags
          /\ s.msr = before.msr /\ s.sys = before.sys
      BY <1>0, <2>4, AfterFields DEF s
    <3>3. vmcs'.rip = s.ip /\ vmcs'.flags = s.flags /\ vmcs'.sys = s.sys
      BY <1>0, <1>2, <1>5, <1>6, <1>7, <3>1, <3>2
    <3>4. \A r \in Reg \ {"rsp"} : frame'[r] = s.regs[r]
      BY <1>0, <1>2, <3>1, <3>2
    <3>5. s.regs["rsp"] = vmcs.rsp
      BY <1>0, <1>2, <2>1, <3>2 DEF Reg
    <3>6. GuestCpu' = s
      BY <1>0, <1>8, <2>1, <3>2, <3>3, <3>4, <3>5, HandledIs
    <3>. QED BY <3>6 DEF s, x
  <2>. QED BY <2>1, <2>3, <2>4
<1>13. CASE HandleMsrRead
  <2>1. x.op = "rdmsr" /\ Clobbered /\ vmcs' = Resumed(vmcs) /\ before.regs["rcx"] \in Word
    BY <1>3, <1>13 DEF HandleMsrRead, Handle, Faithful, x
  <2>2. /\ s.regs = MsrRegs(before) /\ s.flags = before.flags /\ s.sys = before.sys
        /\ s.msr = before.msr
    BY <1>0, <2>1, AfterFields DEF s
  <2>3. vmcs'.rip = s.ip /\ vmcs'.flags = s.flags /\ vmcs'.sys = s.sys
    BY <1>0, <1>2, <1>5, <1>6, <1>7, <2>1, <2>2
  <2>. DEFINE n == before.regs["rcx"]
              a == IF n \in MsrRange THEN before.msr[n] ELSE [low |-> 0, high |-> 0]
  <2>4. Low(n) = n /\ frame["rcx"] = n
    BY <1>2, <2>1, WordValue DEF Reg
  <2>5. frame' = [frame EXCEPT !["rax"] = a.low, !["rdx"] = a.high]
    BY <1>2, <1>13, <2>4 DEF HandleMsrRead
  <2>6. s.regs = [before.regs EXCEPT !["rax"] = a.low, !["rdx"] = a.high]
    BY <2>2, <2>4 DEF MsrRegs
  <2>. HIDE DEF a
  <2>7. \A r \in Reg \ {"rsp"} : frame'[r] = s.regs[r]
    BY <1>0, <1>2, <2>5, <2>6
  <2>8. s.regs["rsp"] = vmcs.rsp
    BY <1>0, <1>2, <2>6 DEF Reg
  <2>9. GuestCpu' = s
    BY <1>0, <1>8, <2>1, <2>2, <2>3, <2>7, <2>8, HandledIs
  <2>. QED BY <2>9 DEF s, x
<1>14. CASE HandleMsrWrite
  <2>1. x.op = "wrmsr" /\ vmcs' = Resumed(vmcs) /\ frame' = frame /\ before.regs["rcx"] \in Word
    BY <1>3, <1>14 DEF HandleMsrWrite, Handle, Faithful, x
  <2>2. /\ s.regs = before.regs /\ s.flags = before.flags /\ s.sys = before.sys
        /\ s.msr = MsrWritten(before)
    BY <1>0, <2>1, AfterFields DEF s
  <2>3. vmcs'.rip = s.ip /\ vmcs'.flags = s.flags /\ vmcs'.sys = s.sys
    BY <1>0, <1>2, <1>5, <1>6, <1>7, <2>1, <2>2
  <2>. DEFINE n == before.regs["rcx"]
              a == [low |-> Low(before.regs["rax"]), high |-> Low(before.regs["rdx"])]
  <2>4. /\ Low(n) = n /\ frame["rcx"] = n
        /\ frame["rax"] = before.regs["rax"] /\ frame["rdx"] = before.regs["rdx"]
    BY <1>2, <2>1, WordValue DEF Reg
  <2>5. cpu'.msr = IF n \in MsrRange THEN [before.msr EXCEPT ![n] = a] ELSE before.msr
    BY <1>0, <1>2, <1>14, <2>4 DEF HandleMsrWrite, Cpu
  <2>6. s.msr = [k \in MsrRange |-> IF k = n THEN a ELSE before.msr[k]]
    BY <2>2, <2>4 DEF MsrWritten
  <2>. HIDE DEF a, n
  <2>7. cpu'.msr = s.msr
    BY <1>0, <2>5, <2>6
  <2>8. GuestCpu' = s
    BY <1>0, <1>2, <2>1, <2>2, <2>3, <2>7, HandledIs
  <2>. QED BY <2>8 DEF s, x
<1>15. CASE HandleEptViolation \/ Unhandled
  <2>1. vmcs' = vmcs /\ frame' = frame /\ Clobbered
    BY <1>15 DEF HandleEptViolation, Unhandled
  <2>2. GuestCpu' = before
    BY <1>0, <1>2, <1>8, <2>1, HandledIs
  <2>. QED BY <2>2
<1>16. ~HandleExceptionNmi
  BY <1>4 DEF HandleExceptionNmi, Handle, x
<1>. QED BY <1>9, <1>10, <1>11, <1>12, <1>13, <1>14, <1>15, <1>16 DEF Dispatch

\* A handler is a step of the machine, or none.
LEMMA HandlerIsStep ==
  VInv /\ SoundOK /\ Dispatch /\ ~VmxExitOff => Machine!Step \/ UNCHANGED Machine!vars
<1>. SUFFICES ASSUME VInv, SoundOK, Dispatch, ~VmxExitOff
              PROVE  Machine!Step \/ UNCHANGED Machine!vars
  OBVIOUS
<1>1. /\ mode = "saved" /\ mode' = "handled" /\ vmcs.insn.op # "stop" /\ code' = code
  BY DEF Dispatch, Handle, fixed, HandleVmxInstruction, HandleExceptionNmi, HandleCPUID,
         HandleInvd, HandleVMCALL, HandleCR, HandleMsrRead, HandleMsrWrite,
         HandleEptViolation, Unhandled
<1>2. GuestCpu = before /\ vmcs.insn = code[before.ip]
  BY <1>1, GuestIsBefore, HandlerStarts
<1>3. GuestCpu' = After(vmcs.insn, before) \/ GuestCpu' = before
  BY HandlerAnswers
<1>4. (mode \notin {"off", "native"}) = TRUE /\ (mode' \notin {"off", "native"}) = TRUE
  BY <1>1
<1>5. CASE GuestCpu' = before
  BY <1>1, <1>2, <1>4, <1>5 DEF Machine!vars
<1>6. CASE GuestCpu' = After(vmcs.insn, before)
  BY <1>1, <1>2, <1>4, <1>6, MachineIsGuest DEF Machine!Step
<1>. QED BY <1>3, <1>5, <1>6

\* VMXOFF is the step with which the guest stops being one.
LEMMA OffIsStep == VInv /\ SoundOK /\ VmxExitOff => Machine!Step
<1>. SUFFICES ASSUME VInv, SoundOK, VmxExitOff PROVE Machine!Step
  OBVIOUS
<1>0. /\ mode = "saved" /\ vmcs.insn.op \in {"vmcall", "stop"} /\ frame["rax"] = ExitVmm
      /\ mode' = "off" /\ UNCHANGED <<code, before, vmcs, stack>>
      /\ cpu' = [OldRegs EXCEPT !.regs = [Clobber(@) EXCEPT !["rsp"] = vmcs.rsp]]
  BY DEF VmxExitOff, fixed
<1>1. /\ mode = "saved" /\ vmcs.insn.op = "stop" /\ mode' = "off"
      /\ UNCHANGED <<code, before, vmcs, stack>>
      /\ cpu' = [OldRegs EXCEPT !.regs = [Clobber(@) EXCEPT !["rsp"] = vmcs.rsp]]
  <2>1. vmcs.insn.op = "vmcall" => before.regs["rax"] # ExitVmm
    BY <1>0 DEF SoundOK, Faithful
  <2>2. vmcs.insn.op = "vmcall" => frame["rax"] = before.regs["rax"]
    BY <1>0, HandlerStarts DEF Reg
  <2>. QED BY <1>0, <2>1, <2>2
<1>2. cpu'.sys = vmcs.sys /\ cpu'.msr = cpu.msr
  BY <1>1 DEF OldRegs, VInv, TypeOK, Cpu
<1>3. /\ vmcs.rip = before.ip /\ vmcs.insn = code[before.ip] /\ vmcs.sys = before.sys
      /\ cpu.msr = before.msr
      /\ stack = [regs |-> [before.regs EXCEPT !["rax"] = ExitVmm], flags |-> before.flags,
                  ip |-> Past(before.ip, vmcs.insn)]
  BY <1>1 DEF VInv, ExitOK, ExitedAt, Stopping
<1>4. before \in Cpu /\ before.regs \in [Reg -> Value]
  BY CpuFields DEF VInv, TypeOK
<1>5. [stack.regs EXCEPT !["rax"] = 0] = [before.regs EXCEPT !["rax"] = 0]
  BY <1>3, <1>4
<1>6. GuestCpu' = [regs |-> [before.regs EXCEPT !["rax"] = 0], flags |-> before.flags,
                   sys |-> before.sys, msr |-> before.msr, ip |-> Past(before.ip, vmcs.insn)]
  BY <1>1, <1>2, <1>3, <1>5 DEF GuestCpu
<1>7. After(vmcs.insn, before) =
        [regs |-> [before.regs EXCEPT !["rax"] = 0], flags |-> before.flags,
         sys |-> before.sys, msr |-> before.msr, ip |-> Past(before.ip, vmcs.insn)]
  <2>. DEFINE s == After(vmcs.insn, before)
  <2>1. vmcs.insn \in Insns
    BY DEF VInv, TypeOK, Vmcs
  <2>2. s \in Cpu
    BY <1>4, <2>1, AfterType
  <2>3. /\ s.regs = [before.regs EXCEPT !["rax"] = 0] /\ s.flags = before.flags
        /\ s.sys = before.sys /\ s.msr = before.msr /\ s.ip = Past(before.ip, vmcs.insn)
    BY <1>1, <1>4, <2>1, AfterFields
  <2>. HIDE DEF s
  <2>4. s = [regs |-> s.regs, flags |-> s.flags, sys |-> s.sys, msr |-> s.msr, ip |-> s.ip]
    BY <2>2 DEF Cpu
  <2>5. s = [regs |-> [before.regs EXCEPT !["rax"] = 0], flags |-> before.flags,
             sys |-> before.sys, msr |-> before.msr, ip |-> Past(before.ip, vmcs.insn)]
    BY <2>3, <2>4
  <2>. QED BY <2>5 DEF s
<1>8. GuestCpu = before
  BY <1>1, GuestIsBefore
<1>9. GuestCpu' = Machine!After(code[GuestCpu.ip], GuestCpu)
  BY <1>3, <1>6, <1>7, <1>8, MachineIsGuest
<1>10. (mode \notin {"off", "native"}) = TRUE /\ (mode' \notin {"off", "native"}) = FALSE
       /\ code[GuestCpu.ip].op = "stop"
  BY <1>1, <1>3, <1>8
<1>. QED BY <1>1, <1>9, <1>10 DEF Machine!Step

\* Every step of a processor is one of the machine, or none.
LEMMA MachineStep ==
  VInv /\ SoundOK /\ GuestStopped' /\ [Next]_vars => [Machine!Step]_(Machine!vars)
<1>1. UNCHANGED vars => UNCHANGED Machine!vars
  BY DEF vars, Machine!vars, GuestCpu, InGuest
<1>. QED BY <1>1, ExitIsNoStep, ExecuteIsStep, HandlerIsStep, OffIsStep DEF Next, Dispatch

LEMMA MachineInit == Init => Machine!Init
<1>. SUFFICES ASSUME Init PROVE Machine!Init
  OBVIOUS
<1>1. cpu \in Cpu /\ mode = "guest" /\ code \in [Addr -> Insns]
  BY ExitAssumption DEF Init
<1>2. GuestCpu = cpu
  BY <1>1 DEF GuestCpu
<1>. QED BY <1>1, <1>2, MachineIsGuest DEF Machine!Init

\* An exit that begins with a faithful instruction is one.
LEMMA SoundStep == VInv /\ SoundExit /\ SoundOK /\ [Next]_vars => SoundOK'
<1>. SUFFICES ASSUME VInv, SoundExit, SoundOK, [Next]_vars PROVE SoundOK'
  OBVIOUS
<1>1. CASE Exit
  <2>1. vmcs'.insn = code[cpu.ip]
    BY <1>1 DEF Exit
  <2>2. CASE mode = "guest"
    BY <1>1, <2>1, <2>2 DEF Exit, SoundExit, SoundOK
  <2>3. CASE mode = "calling"
    <3>1. cpu.ip = before.ip /\ code[before.ip].op = "stop"
      BY <2>3 DEF VInv, ExitOK, Stopping, TypeOK, Cpu
    <3>. QED BY <2>1, <3>1 DEF SoundOK, Faithful
  <2>. QED BY <1>1, <2>2, <2>3 DEF Exit
<1>2. CASE SaveRegisters
  BY <1>2 DEF SaveRegisters, fixed, SoundOK
<1>3. CASE Dispatch \/ Execute \/ VmxExitCall \/ RestoreRegisters \/ VmResume \/ VmxExitPoint
  <2>1. mode' \notin {"exited", "saved"}
    BY <1>3 DEF Dispatch, Handle, HandleVmxInstruction, HandleExceptionNmi, HandleCPUID,
         HandleInvd, HandleVMCALL, HandleCR, HandleMsrRead, HandleMsrWrite, HandleEptViolation,
         Unhandled, VmxExitOff, Execute, VmxExitCall, RestoreRegisters, VmResume, VmxExitPoint
  <2>. QED BY <2>1 DEF SoundOK
<1>4. CASE UNCHANGED vars
  BY <1>4 DEF vars, SoundOK
<1>. QED BY <1>1, <1>2, <1>3, <1>4 DEF Next

\* A guest whose exits are all for instructions that the handler emulates, or
\* leaves alone, sees the processor of GuestMachine, on any program, with
\* registers of any width: an exit, its handler and VMRESUME are together one
\* instruction or none (doVmxExitHandler, vmxexithandler.c:181-277).
THEOREM GuestSeesMachine == Spec /\ []SoundExit => Transparent
<1>1. Init => SoundOK
  BY DEF Init, SoundOK
<1>2. VInv /\ SoundExit /\ SoundOK /\ [Next]_vars => SoundOK'
  BY SoundStep
<1>3. VInv => GuestStopped
  BY GuestIsBefore DEF GuestStopped
<1>4. VInv /\ SoundOK /\ GuestStopped' /\ [Next]_vars => [Machine!Step]_(Machine!vars)
  BY MachineStep
<1>5. Init => Machine!Init
  BY MachineInit
<1>. QED BY <1>1, <1>2, <1>3, <1>4, <1>5, ExitInvariance, PTL DEF Spec, Transparent, Machine!Spec

\* So it is for every guest that leaves the MSRs alone, executes no VMCALL but
\* that of VmxExitCall and moves no control register from or to RSP and R8 to
\* R15, on a processor whose CPUID has no sub-leaves, if the exception bitmap and
\* the masks of CR0 and CR4, which nobody writes, make neither exceptions nor
\* CLTS exit (vmminitstate.c:27).
COROLLARY PlainGuestSeesMachine ==
  ASSUME MayExit \subseteq {"crwrite", "crread"},
         \A f, n \in Word : Cpuid[f, n] = Cpuid[f, f],
         \A x \in Insns : /\ x.op \notin {"rdmsr", "wrmsr", "vmcall"}
                          /\ x.op \in {"crwrite", "crread"} => x.reg \in CrRegs \ {"rsp"}
  PROVE  Spec => Transparent
<1>1. VInv => SoundExit
  <2>. SUFFICES ASSUME VInv, Exits(code[cpu.ip]) PROVE Faithful(code[cpu.ip], cpu.regs)
    BY DEF SoundExit
  <2>1. /\ code[cpu.ip] \in Insns /\ exiting \subseteq {"crwrite", "crread"}
        /\ cpu.regs \in [Reg -> Value]
    BY DEF VInv, TypeOK, Cpu
  <2>2. Low(cpu.regs["rax"]) \in Word /\ Low(cpu.regs["rcx"]) \in Word
    BY <2>1, WordValue DEF Reg
  <2>. QED BY <2>1, <2>2 DEF Exits, Faithful
<1>. QED BY <1>1, ExitInvariance, GuestSeesMachine, PTL
=============================================================================
