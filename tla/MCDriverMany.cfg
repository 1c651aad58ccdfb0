SPECIFICATION Spec
CONSTANTS
  MaxCpus = 4
  IntBits = 2
  NumCpus = 4
INVARIANTS
  EveryCpuVirtualised
\* The system rests when DriverEntry has returned, or after a crash.
CHECK_DEADLOCK FALSE
