SPECIFICATION FairExitSpec
CONSTANTS
  MaxCpus = 4
  IntBits = 4
  NumCpus = 3
INVARIANTS
  TypeOK
  FailureLeavesNothing
  ActiveVmcsUntouched
  GuestHasEpt
  EveryCpuVirtualised
  CrashExplained
  ExitUndoes
  ExitCrashExplained
PROPERTIES
  EntryReturns
\* The system rests when DriverEntry has returned, or after a crash.
CHECK_DEADLOCK FALSE
