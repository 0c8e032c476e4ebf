--------------------------- MODULE MCEmptyClaim ---------------------------
(* Instances of EmptyClaim for TLC. *)
EXTENDS EmptyClaim, TLC
=============================================================================
