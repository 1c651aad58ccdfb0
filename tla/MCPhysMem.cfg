SPECIFICATION Spec
CONSTANTS
  Values <- MCValues
  MaxPages = 131072
INVARIANTS
  TypeOK
  PoolHoldsRam
  SuccessMeansRead
  BugCheckIsEarly
  OverrunNeeds170GB
\* The thread has returned from InitEptTable, or the machine has stopped.
CHECK_DEADLOCK FALSE
