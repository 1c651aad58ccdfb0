------------------------------ MODULE EptMapping ------------------------------
(***************************************************************************)
(* What the extended page table promises to the guest, without tables,     *)
(* locks or stores (ept.c): every guest-physical page is unmapped until    *)
(* it is mapped, once and for all, to the host page of the same number.    *)
(* RAM is mapped write-back before any guest runs (Ept11mapping); a page   *)
(* the guest touches without it being mapped is provided uncached          *)
(* (EptViolation), and the processor that touched it then goes on.         *)
(***************************************************************************)
CONSTANTS
  Cpus,     \* the processors
  Page,     \* the guest-physical pages
  Ram,      \* the pages Ept11mapping maps
  NoPage    \* what a processor that waits for no page wants

VARIABLES
  map,      \* the mapping of each page: none, write-back or uncached
  started,  \* whether some processor runs as a guest
  wants     \* the page each processor exited for

vars == <<map, started, wants>>

Init ==
  /\ map = [p \in Page |-> "none"]
  /\ started = FALSE
  /\ wants = [c \in Cpus |-> NoPage]

\* Ept11mapping.
MapRam(p) ==
  /\ ~started
  /\ p \in Ram
  /\ map[p] = "none"
  /\ map' = [map EXCEPT ![p] = "WB"]
  /\ UNCHANGED <<started, wants>>

\* The first VMLAUNCH comes after all RAM is mapped.
Start ==
  /\ ~started
  /\ \A p \in Ram : map[p] = "WB"
  /\ started' = TRUE
  /\ UNCHANGED <<map, wants>>

\* Only a page that is not mapped makes a processor exit.
Ask(c, p) ==
  /\ started
  /\ wants[c] = NoPage
  /\ map[p] = "none"
  /\ wants' = [wants EXCEPT ![c] = p]
  /\ UNCHANGED <<map, started>>

\* EptViolation, on behalf of the first of the processors that want p.
Provide(c, p) ==
  /\ wants[c] = p
  /\ map[p] = "none"
  /\ map' = [map EXCEPT ![p] = "UC"]
  /\ UNCHANGED <<started, wants>>

\* VMRESUME.
Resume(c) ==
  /\ wants[c] # NoPage
  /\ map[wants[c]] # "none"
  /\ wants' = [wants EXCEPT ![c] = NoPage]
  /\ UNCHANGED <<map, started>>

Next ==
  \/ \E p \in Page : MapRam(p)
  \/ Start
  \/ \E c \in Cpus : Resume(c) \/ (\E p \in Page : Ask(c, p) \/ Provide(c, p))

Spec == Init /\ [][Next]_vars
=============================================================================
