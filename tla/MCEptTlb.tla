------------------------------- MODULE MCEptTlb -------------------------------
(* Instances of EptTlb for TLC: those of MCEpt, with cached translations.   *)
EXTENDS MCEpt, EptTlb
=============================================================================
