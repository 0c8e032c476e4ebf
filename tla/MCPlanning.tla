----------------------------- MODULE MCPlanning -----------------------------
(* Instances of Planning for TLC: the cfg files give the constants. *)
EXTENDS Planning
=============================================================================
