------------------------------ MODULE MCChains ------------------------------
(* The instances of Chains that TLC checks. *)
EXTENDS Chains
=============================================================================
