---------------------------- MODULE MCNodeServer ----------------------------
(* Model-checking instance of NodeServer.                                  *)
EXTENDS NodeServer, TLC

(* Calls for different volumes meet only at the mutex.                     *)
OneVolume == \A c, d \in Calls : req[c].vol = req[d].vol

Symmetry == Permutations(Calls)
=============================================================================
