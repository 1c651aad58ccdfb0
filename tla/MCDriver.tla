------------------------------ MODULE MCDriver ------------------------------
(* Instances of Driver for TLC: four processors at most, and an int of as   *)
(* many bits, or of two to see a shift beyond it.                           *)
EXTENDS Driver
=============================================================================
