--------------------------------- MODULE Guest ---------------------------------
(***************************************************************************)
(* The part of a guest that VM exits touch: the registers the exit handler *)
(* tells apart, the instructions that make a processor exit, and what each *)
(* does on the processor the guest sees.                                   *)
(*                                                                         *)
(* A 64-bit register is its two halves, v \div Half and v % Half, with Half *)
(* for 2^32.  rsi stands for rdi too, and r8 for r8 to r15.                *)
(***************************************************************************)
EXTENDS Naturals

CONSTANTS
  Half,      \* 2^32
  Size,      \* a program occupies the addresses 0 .. Size - 1, and loops
  Insns,     \* the instructions programs consist of
  MsrRange,  \* the MSR numbers of the ranges 0-1FFF and C0000000-C0001FFF, but
             \* those that a VM exit replaces
  Cpuid      \* what CPUID answers for a function and a sub-leaf

Word == 0 .. Half - 1
Value == 0 .. Half * Half - 1
Addr == 0 .. Size - 1
Low(v) == v % Half

Reg == {"rax", "rcx", "rdx", "rbx", "rsp", "rbp", "rsi", "r8"}
Cr == {"cr0", "cr3", "cr4"}
\* What a VM exit replaces by a value of the host, and the driver restores.
Sys == Cr \cup {"gdtr", "idtr", "fs_base", "gs_base"}
Flag == {"CF", "TF", "RF"}

\* "vmx" is any of VMCLEAR ... VMXON but VMCALL, "xsetbv" any of XSETBV,
\* GETSEC, INVEPT and INVVPID, "touch" an access to a page of memory that is
\* not RAM, "fault" an exception other than #DB, "debug" a #DB, "load" LGDT,
\* LIDT or the write of a base, and "stop" the call of VmxExitCall.
Insn ==
  [op : {"cpuid", "rdmsr", "wrmsr", "vmcall", "vmx", "invd", "xsetbv", "clts",
         "touch", "fault", "debug", "stop"}]
  \cup [op : {"crwrite", "crread"}, cr : Cr, reg : Reg]
  \cup [op : {"set"}, reg : Reg, val : Value]
  \cup [op : {"load"}, sys : Sys \ Cr, val : Value]

ASSUME GuestAssumption ==
  /\ Half \in Nat \ {0, 1}
  /\ Size \in Nat \ {0}
  /\ Insns \subseteq Insn
  /\ MsrRange \subseteq Word
  /\ Cpuid \in [Word \X Word -> [rax : Word, rbx : Word, rcx : Word, rdx : Word]]

\* The architectural state of a processor.
Cpu == [regs : [Reg -> Value], flags : SUBSET Flag, sys : [Sys -> Value],
        msr : [MsrRange -> [low : Word, high : Word]], ip : Addr]

\* The length of an instruction.
Len(x) == IF x.op \in {"set", "touch", "vmcall"} THEN 1 ELSE 2
Past(ip, x) == (ip + Len(x)) % Size

\* Where exceptions are delivered.
Vector == 0

\* CPUID, with the sub-leaf in ECX, RDMSR and WRMSR; an MSR outside the ranges
\* reads as 0 and ignores writes.
CpuidRegs(regs) ==
  LET a == Cpuid[Low(regs["rax"]), Low(regs["rcx"])]
  IN [r \in Reg |-> IF r \in DOMAIN a THEN a[r] ELSE regs[r]]

MsrRegs(s) ==
  LET n == Low(s.regs["rcx"])
      v == IF n \in MsrRange THEN s.msr[n] ELSE [low |-> 0, high |-> 0]
  IN [s.regs EXCEPT !["rax"] = v.low, !["rdx"] = v.high]

MsrWritten(s) ==
  [n \in MsrRange |->
     IF n = Low(s.regs["rcx"])
     THEN [low |-> Low(s.regs["rax"]), high |-> Low(s.regs["rdx"])]
     ELSE s.msr[n]]

\* Bit 3 of CR0, TS, as bit 0 of a small value.
ClearTs(v) == v - (v % 2)

\* What instruction x makes of the processor s.
Effect(x, s) ==
  CASE x.op = "set"     -> [s EXCEPT !.regs[x.reg] = x.val]
    [] x.op = "load"    -> [s EXCEPT !.sys[x.sys] = x.val]
    [] x.op = "cpuid"   -> [s EXCEPT !.regs = CpuidRegs(s.regs)]
    [] x.op = "rdmsr"   -> [s EXCEPT !.regs = MsrRegs(s)]
    [] x.op = "wrmsr"   -> [s EXCEPT !.msr = MsrWritten(s)]
    [] x.op = "crwrite" -> [s EXCEPT !.sys[x.cr] = s.regs[x.reg]]
    [] x.op = "crread"  -> [s EXCEPT !.regs[x.reg] = s.sys[x.cr]]
    [] x.op = "clts"    -> [s EXCEPT !.sys["cr0"] = ClearTs(@)]
    [] x.op = "vmx"     -> [s EXCEPT !.flags = @ \cup {"CF"}]
    [] x.op = "stop"    -> [s EXCEPT !.regs["rax"] = 0]
    [] OTHER            -> s

After(x, s) ==
  [Effect(x, s) EXCEPT
     !.ip = IF x.op \in {"fault", "debug"} THEN Vector ELSE Past(s.ip, x)]
=============================================================================
