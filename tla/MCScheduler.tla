---------------------------- MODULE MCScheduler ----------------------------
(* Instances of Scheduler for TLC. *)
EXTENDS Scheduler, TLC

Job(every, reentry) == [EveryPlan |-> every, AllowStaleReentry |-> reentry]
AnyJob == {Job(e, r) : e \in BOOLEAN, r \in BOOLEAN}

MCRetryDelay == [k \in 1 .. MaxAttempts |-> 1]
Symmetry == Permutations(Managers)
=============================================================================
