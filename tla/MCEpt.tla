-------------------------------- MODULE MCEpt --------------------------------
(* Instances of Ept for TLC: tables of two entries, so that the four guest  *)
(* pages share and differ in tables at every level, and pools that just     *)
(* suffice or run out.                                                      *)
EXTENDS Ept, TLC

CONSTANTS c1, c2, c3

MCSymmetry == Permutations(Cpus)

MCPml4Phys == <<1, 1, 1, 1>>

\* Distinct physical pages, none of them page 0 or the root.
MCPool == << <<0, 0, 0, 1>>, <<0, 1, 0, 0>>, <<1, 0, 0, 1>>, <<1, 1, 0, 0>>,
             <<0, 0, 1, 1>>, <<1, 0, 1, 0>>, <<0, 1, 1, 1>>, <<1, 1, 1, 0>>,
             <<0, 1, 1, 0>> >>
MCPagesPhys == [i \in 0 .. NumPages - 1 |-> MCPool[i + 1]]

\* Two pages of RAM; the second belongs to two adjacent ranges, because
\* EptMapRage includes the page after the last.
MCBootMap == << <<0, 0, 0, 0>>, <<0, 0, 0, 1>>, <<0, 0, 0, 1>> >>

\* A page of RAM, and pages that need 1, 2 and 3 more tables.
MCGuestPages == { <<0, 0, 0, 0>>, <<0, 0, 1, 0>>, <<0, 1, 0, 1>>, <<1, 0, 0, 0>> }
=============================================================================
