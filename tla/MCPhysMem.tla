------------------------------ MODULE MCPhysMem -------------------------------
(* Lists of memory ranges for TLC, at the scale of real machines.           *)
EXTENDS PhysMem

GB == 262144   \* in pages

Bytes32(start, pages) == [kind |-> "Memory", start |-> start, length |-> pages * 4096]
Large(k, start, length) == [kind |-> k, start |-> start, length |-> length]
Unknown == [kind |-> "other", start |-> 0, length |-> 0]

\* n pages of RAM, one every step pages.
Scattered(n, step) == [k \in 1 .. n |-> Bytes32(k * step - 1, 1)]

\* The memory of a PC: up to the frame buffer at 0xA0000, from 1 MB on, and
\* a range above 4 GB.
Pc(high) == << Bytes32(1, 157), Bytes32(256, 300000), high >>

MCValues ==
  { Pc(Large("Large40", 4 * GB, 16 * k)) : k \in {1, GB, 5 * GB + 7} }
  \cup { <<Large("Large48", 4 * GB, GB \div 16), Large("Large64", 512 * GB - 1048576, 2)>>,
         <<Large("Large64", 0, 43)>>,
         <<Large("Large64", 0, 41)>>,
         <<Bytes32(1, 157), Unknown, Bytes32(256, 1024)>>,
         <<>> }
  \cup { Scattered(42, s) : s \in {1, 512, GB, 2 * GB, 40 * GB} }
  \* ranges that each begin before and end behind a multiple of 1 GB
  \cup { [k \in 1 .. 42 |-> Bytes32(k * 2 * GB - 3000, 6000)] }
  \cup { Scattered(n, 2 * GB) : n \in {43, 300, 510, 511, 512} }
=============================================================================
