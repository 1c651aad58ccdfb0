SPECIFICATION Spec
CONSTANTS
  Half = 4
  Size = 3
  ExitVmm = 3
  MsrRange <- MCMsrRange
  Cpuid <- MCCpuid
  Insns <- MCMoves
  MayExit = {"crwrite"}
  InitCpus <- MCInitCpus
  HostSys <- MCHostSys
INVARIANTS
  MovToCrCopies
\* A processor that has left the hypervisor is not modelled any further.
CHECK_DEADLOCK FALSE
