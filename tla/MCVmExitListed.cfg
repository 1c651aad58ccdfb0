SPECIFICATION FairSpec
CONSTANTS
  Half = 4
  Size = 3
  ExitVmm = 3
  MsrRange <- MCMsrRange
  Cpuid <- MCCpuid
  Insns <- MCListed
  MayExit = {}
  InitCpus <- MCInitCpus
  HostSys <- MCHostSys
PROPERTIES
  ListedInstructionsRetire
\* A processor that has left the hypervisor is not modelled any further.
CHECK_DEADLOCK FALSE
