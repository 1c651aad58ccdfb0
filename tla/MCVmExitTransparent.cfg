SPECIFICATION FairSpec
CONSTANTS
  Half = 4
  Size = 3
  ExitVmm = 3
  MsrRange <- MCMsrRange
  Cpuid <- MCCpuidFlat
  Insns <- MCSound
  MayExit = {"crwrite", "rdmsr"}
  InitCpus <- MCInitCpus
  HostSys <- MCHostSys
PROPERTIES
  Transparent
  NeverHangs
\* A processor that has left the hypervisor is not modelled any further.
CHECK_DEADLOCK FALSE
