--------------------------- MODULE MCAttachDetach ---------------------------
(* Model-checking instance of AttachDetach.                                *)
EXTENDS AttachDetach, TLC

(* Calls, volumes, nodes and attachment IDs are only compared for equality.*)
Symmetry ==
  Permutations(Calls) \cup Permutations(Volumes)
    \cup Permutations(Nodes) \cup Permutations(AttIDs)
=============================================================================
