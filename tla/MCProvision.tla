---------------------------- MODULE MCProvision ----------------------------
(* Model-checking instance of Provision.                                   *)
EXTENDS Provision, TLC

Symmetry == Permutations(Calls) \cup Permutations(IDs)
=============================================================================
