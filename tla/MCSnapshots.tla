---------------------------- MODULE MCSnapshots ----------------------------
(* Model values and symmetry for Snapshots.                                *)
EXTENDS Snapshots, TLC

Symmetry == Permutations(Calls) \cup Permutations(IDs) \cup Permutations(Volumes)

=============================================================================
