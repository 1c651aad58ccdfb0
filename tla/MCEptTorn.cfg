SPECIFICATION TlbSpec
CONSTANTS
  c1 = c1
  c2 = c2
  c3 = c3
  Cpus = {c1, c2}
  Boot = boot
  Free = free
  Null = null
  Unused = unused
  Fanout = 2
  NumPages = 9
  Pml4Phys <- MCPml4Phys
  PagesPhys <- MCPagesPhys
  BootMap <- MCBootMap
  GuestPages <- MCGuestPages
INVARIANTS
  CachedIdentity
\* The system rests once every page is mapped, or a processor has crashed.
CHECK_DEADLOCK FALSE
