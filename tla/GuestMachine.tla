----------------------------- MODULE GuestMachine -----------------------------
(***************************************************************************)
(* The processor a guest sees under the hypervisor: every instruction is   *)
(* one step, there are no exits, and the guest runs until it stops the     *)
(* hypervisor on its processor.  Guest lists where this processor differs  *)
(* from the one without a hypervisor.                                      *)
(***************************************************************************)
EXTENDS Guest

VARIABLES
  code,     \* the program
  cpu,      \* the processor
  running   \* the processor is a guest

vars == <<code, cpu, running>>

Init ==
  /\ code \in [Addr -> Insns]
  /\ cpu \in Cpu
  /\ running = TRUE

\* The processor executes the instruction at its ip.
Step ==
  /\ running
  /\ cpu' = After(code[cpu.ip], cpu)
  /\ running' = (code[cpu.ip].op # "stop")
  /\ UNCHANGED code

Spec == Init /\ [][Step]_vars

\* The guest never hangs on an instruction.
FairSpec == Spec /\ WF_vars(Step)
=============================================================================
