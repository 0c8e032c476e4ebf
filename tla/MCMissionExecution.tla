------------------------ MODULE MCMissionExecution ------------------------
(* Instances of MissionExecution for TLC. *)
EXTENDS MissionExecution, TLC

\* A chain whose second node is the smaller key: 2 before 1.
MCPair == {1, 2}
MCChain == [n \in MCPair |-> IF n = 1 THEN {2} ELSE {}]
MCSingle == {1}
MCNoDeps == [n \in MCSingle |-> {}]
MCFork == {1, 2, 3}
MCForkDeps == [n \in MCFork |-> IF n = 3 THEN {1, 2} ELSE {}]

Symmetry == Permutations(Agents)
=============================================================================
