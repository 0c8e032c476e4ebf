---------------------------- MODULE MCTaskQueue ----------------------------
(* Instances of TaskQueue for TLC: the cfg files give the constants.        *)
EXTENDS TaskQueue, TLC

Symmetry == Permutations(Claims) \cup Permutations(Issues)
=============================================================================
