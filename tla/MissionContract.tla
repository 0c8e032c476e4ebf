-------------------------- MODULE MissionContract --------------------------
(***************************************************************************)
(* What a mission promises its owner, without saying how: which work may   *)
(* be started, when a node counts as done, what an end of the mission      *)
(* means.  Runs, attempts, assignments, calls, crashes and the execution   *)
(* plane are hidden; MissionExecution implements this contract.            *)
(***************************************************************************)
EXTENDS Naturals, FiniteSets

CONSTANTS
    Nodes,        \* the task nodes of the accepted plan
    Deps,         \* Deps[n]: the nodes that n depends on
    MaxParallel   \* how many nodes may be worked on at the same time

VARIABLES
    mission,      \* mission.status
    stage,        \* stage[n]: what the owner can rely on for node n
    busy          \* the nodes an agent is working on or reviewing

vars == <<mission, stage, busy>>

Stages == {"waiting", "open", "approved", "lost"}
Ended == mission \in {"completed", "failed", "cancelled"}
Approved == {n \in Nodes : stage[n] = "approved"}
Startable == {n \in Nodes : Deps[n] \subseteq Approved}

Init ==
    /\ mission = "ready"
    /\ stage = [n \in Nodes |-> "waiting"]
    /\ busy = {}

\* Nothing is approved but by a verdict, what is approved or lost stays so, and
\* a node is opened only when its dependencies are approved.
StagesMove ==
    /\ stage' \in [Nodes -> Stages]
    /\ \A n \in Nodes : stage'[n] # stage[n] =>
         /\ stage[n] \in {"waiting", "open"}
         /\ stage'[n] # "approved"
         /\ stage'[n] = "open" => n \in Startable

\* The owner starts the accepted plan.
Start ==
    /\ mission = "ready"
    /\ mission' = "running"
    /\ StagesMove
    /\ \A n \in Nodes : stage'[n] \in {"waiting", "open"}
    /\ UNCHANGED busy

\* The mission advances: work is taken up on open nodes within the limit, nodes
\* are opened, set aside or lost; it completes when every node is approved, and
\* fails only with a lost node.
Progress ==
    /\ mission \in {"running", "blocked"}
    /\ StagesMove
    /\ busy \subseteq busy'
    /\ busy' \subseteq {n \in Nodes : stage'[n] # "approved"}
    /\ \A n \in busy' \ busy : stage'[n] = "open"
    /\ Cardinality(busy') <= MaxParallel
    /\ \/ mission' \in {"running", "blocked"}
       \/ mission' = "completed" /\ Approved = Nodes /\ busy' = {}
       \/ mission' = "failed" /\ \E n \in Nodes : stage'[n] = "lost"

\* The owner sends a stopped node back.
Resume ==
    /\ mission \in {"running", "blocked"}
    /\ mission' = "running"
    /\ UNCHANGED <<stage, busy>>

\* A reviewer approves what was delivered for an open node.
Approve(n) ==
    /\ ~Ended
    /\ n \in busy
    /\ stage[n] = "open"
    /\ stage' = [stage EXCEPT ![n] = "approved"]
    /\ busy' = busy \ {n}
    /\ UNCHANGED mission

\* Work on a node ends in any other way; the node may be lost by it.
StopWork(n) ==
    /\ n \in busy
    /\ busy' = busy \ {n}
    /\ stage' \in {stage, [stage EXCEPT ![n] = "lost"]}
    /\ stage[n] = "approved" => stage' = stage
    /\ UNCHANGED mission

\* The owner cancels the mission: everything that is not approved is lost.
Cancel ==
    /\ ~Ended
    /\ mission' = "cancelled"
    /\ stage' = [n \in Nodes |-> IF n \in Approved THEN "approved" ELSE "lost"]
    /\ UNCHANGED busy

Next ==
    \/ Start
    \/ Progress
    \/ Resume
    \/ \E n \in Nodes : Approve(n) \/ StopWork(n)
    \/ Cancel

Spec == Init /\ [][Next]_vars
=============================================================================
