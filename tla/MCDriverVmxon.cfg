SPECIFICATION Spec
CONSTANTS
  MaxCpus = 4
  IntBits = 4
  NumCpus = 3
INVARIANTS
  VmxonFailureHandled
\* The system rests when DriverEntry has returned, or after a crash.
CHECK_DEADLOCK FALSE
