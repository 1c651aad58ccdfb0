------------------------------- MODULE MCVmExit -------------------------------
(* Instances of VmExit for TLC: halves of a register have two bits, two     *)
(* MSRs are in the ranges and two are not, and a program is any two or      *)
(* three instructions of a configuration, which it repeats.                 *)
EXTENDS VmExit

MCMsrRange == {0, 1}

\* All four answers differ, and they differ between functions and sub-leaves.
MCCpuid ==
  [p \in Word \X Word |->
     [rax |-> p[1], rbx |-> (p[1] + 1) % Half, rcx |-> (p[1] + p[2] + 2) % Half,
      rdx |-> (p[1] + 3) % Half]]

\* A processor without sub-leaves.
MCCpuidFlat == [p \in Word \X Word |-> MCCpuid[p[1], p[1]]]

\* A processor whose registers all differ, with a high half in rax and rdx;
\* ecx is n.
MCCpuWith(n, flags) ==
  [regs |-> [r \in Reg |->
      CASE r = "rax" -> 6 [] r = "rcx" -> n [] r = "rdx" -> 7 [] r = "rbx" -> 2
        [] r = "rsp" -> 9 [] r = "rbp" -> 10 [] r = "rsi" -> 11 [] r = "r8" -> 13],
   flags |-> flags,
   sys |-> [c \in Sys |->
      CASE c = "cr0" -> 5 [] c = "cr3" -> 12 [] c = "cr4" -> 14 [] c = "gdtr" -> 1
        [] c = "idtr" -> 2 [] c = "fs_base" -> 3 [] c = "gs_base" -> 4],
   msr |-> [n0 \in MsrRange |-> [low |-> n0 + 1, high |-> 3]],
   ip |-> 0]

MCInitCpus == {MCCpuWith(1, {"TF"}), MCCpuWith(3, {})}
\* The high half of rcx is not 0.
MCInitWide == {MCCpuWith(5, {})}

MCHostSys == [c \in Sys |-> 8]

Plain == [op : {"cpuid", "rdmsr", "wrmsr", "vmcall", "vmx", "invd", "touch"}]
Moves(regs) == [op : {"crwrite", "crread"}, cr : {"cr3"}, reg : regs]
Set == [op : {"set"}, reg : {"rcx"}, val : {0}]
Load == [op : {"load"}, sys : {"fs_base"}, val : {0}]

\* The instructions that are emulated as GuestMachine says, and retire.
MCSound == Plain \cup Moves({"rax", "rbp"}) \cup Set \cup Load \cup [op : {"fault", "debug", "stop"}]
\* All kinds of instruction, and the number that ends the hypervisor in rax.
MCAll == MCSound \cup Moves({"rsp", "r8"}) \cup [op : {"clts", "xsetbv"}]
         \cup [op : {"set"}, reg : {"rax"}, val : {ExitVmm}]
MCListed == [op : {"cpuid", "invd", "xsetbv"}]
MCMoves == [op : {"crwrite"}, cr : Cr, reg : Reg]
=============================================================================
