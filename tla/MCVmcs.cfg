SPECIFICATION Spec
CONSTANTS
  Machines <- MCMachines
  Pml4Phys <- MCPml4Phys
  Bitmap <- MCBitmap
INVARIANTS
  LaunchExplained
  RunsUnderEpt
  SameMachine
  OnlyHandledExits
\* The processor is a guest, it was refused, or the machine has crashed.
CHECK_DEADLOCK FALSE
