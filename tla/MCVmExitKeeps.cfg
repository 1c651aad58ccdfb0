SPECIFICATION Spec
CONSTANTS
  Half = 4
  Size = 2
  ExitVmm = 3
  MsrRange <- MCMsrRange
  Cpuid <- MCCpuid
  Insns <- MCAll
  MayExit = {"crwrite", "crread", "clts", "rdmsr", "wrmsr", "fault", "debug"}
  InitCpus <- MCInitWide
  HostSys <- MCHostSys
INVARIANTS
  TypeOK
  NothingElseChanges
\* A processor that has left the hypervisor is not modelled any further.
CHECK_DEADLOCK FALSE
