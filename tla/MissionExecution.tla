------------------------- MODULE MissionExecution -------------------------
(***************************************************************************)
(* One mission of the orchestration service, from the accepted plan on     *)
(* (status "ready"): the owner's commands, the Advance loop, the           *)
(* RunReconciler, the calls one makes for the other, and the execution     *)
(* plane's task of each run.                                               *)
(*                                                                         *)
(* Every action of the service is one database transaction.  StartMission, *)
(* CancelMission, RetryTaskNode, ResolveHumanGate, AdvanceMission and      *)
(* ReconcileRun lock the mission row, so they are atomic and serialized;   *)
(* EnqueueOrchestrationRun locks its run row only, and takes two steps.    *)
(* What one transaction leaves to the next is a call held in the memory of *)
(* the process (advanceDue, enqueueDue, enqueueTx, cancelDue): a call may  *)
(* fail, and a crash loses them all.  The database survives.               *)
(*                                                                         *)
(* Not represented: budget limits (BudgetGate), planning (Planning), the   *)
(* mailbox, revisions and command replay.                                  *)
(***************************************************************************)
EXTENDS Naturals, FiniteSets, Sequences

CONSTANTS
    Nodes,         \* task nodes, numbered in node_key order
    Deps,          \* Deps[n]: the nodes that n depends on
    Agents,        \* routing candidates
    NoAgent,       \* the answer of a routing that finds no candidate
    MaxParallel,   \* limits.MaxParallelRuns
    MaxAttempts,   \* limits.MaxTaskAttempts
    MaxRework,     \* limits.MaxReworkCycles
    MaxOwnerSteps, \* bound: retries and gate resolutions by the owner
    MaxFaults,     \* bound: crashes and failed calls
    MaxHalts       \* bound: tasks cancelled outside the mission

ASSUME NodesAssumption == Nodes \subseteq Nat /\ IsFiniteSet(Nodes) /\ Nodes # {}
ASSUME DepsAssumption == Deps \in [Nodes -> SUBSET Nodes]
\* validatePlanGraph rejects dependency cycles: every set of nodes has a root.
ASSUME DepsAcyclic ==
    \A S \in (SUBSET Nodes) \ {{}} : \E n \in S : Deps[n] \cap S = {}
ASSUME AgentsAssumption == NoAgent \notin Agents
ASSUME LimitsAssumption ==
    /\ MaxParallel \in Nat \ {0}
    /\ MaxAttempts \in Nat \ {0}
    /\ MaxRework \in Nat
ASSUME BoundsAssumption ==
    MaxOwnerSteps \in Nat /\ MaxFaults \in Nat /\ MaxHalts \in Nat

VARIABLES
    mission,     \* mission.status
    node,        \* task_node.status
    rework,      \* task_node.rework_count
    asg,         \* asg[n][d]: the assignments of node n and duty d, by sequence
    runs,        \* runs[n][d]: their runs, in the order of creation
    gate,        \* the kind of the node's pending human gate, or "none"
    keys,        \* keys[n]: the dedupe keys Advance has used for node n
    advanceDue,  \* an AdvanceMission call is due
    enqueueDue,  \* runs whose Enqueue call is due
    enqueueTx,   \* runs whose Enqueue transaction has passed its check
    cancelDue,   \* runs whose execution is to be cancelled
    ownerSteps, faults, halts

db == <<mission, node, rework, asg, runs, gate, keys>>
calls == <<advanceDue, enqueueDue, enqueueTx, cancelDue>>
bounds == <<ownerSteps, faults, halts>>
vars == <<db, calls, bounds>>

MissionStatuses == {"ready", "running", "blocked", "completed", "failed", "cancelled"}
TaskStatuses == {"pending", "ready", "assigned", "running", "review", "rework",
                 "blocked", "completed", "failed", "cancelled"}
TerminalTask == {"completed", "failed", "cancelled"}
TerminalMission == {"completed", "failed", "cancelled"}

\* The executor or integrator of a node, and its independent reviewer.
Duties == {"work", "review"}
AssignmentStatuses == {"active", "fulfilled", "superseded", "revoked"}
Assignments == [agent : Agents, st : AssignmentStatuses]

LiveRun == {"queued", "dispatched", "running"}
RunStatuses == LiveRun \cup {"succeeded", "failed", "cancelled"}
\* "dispatched" also stands for waiting_local_directory, "queued" for deferred.
LiveTask == {"queued", "dispatched", "running"}
AgentTaskStatuses == LiveTask \cup {"completed", "failed", "cancelled"}
\* Failure kinds, by what EvaluateFailurePolicy makes of them.
FailureKinds == {"unreachable", "transient", "fatal"}
Decisions == {"approved", "changes_requested", "rejected"}
Runs == [asg : Nat \ {0},                          \* index of its assignment
         att : Nat \ {0},                          \* attempt
         st : RunStatuses,
         kind : FailureKinds \cup {"none"},
         task : AgentTaskStatuses \cup {"none"},   \* its agent task, if any
         of : Nat,                                 \* review: the work run whose artifact is frozen in the input
         verdict : Decisions \cup {"none"}]        \* review: the recorded verdict
ActivityKeys == {"attempts", "cycle", "routing"} \X TaskStatuses \X Nat
GateKinds == {"reviewer_unavailable", "rework_limit_exceeded"}

RunIds == UNION {{<<n, d, i>> : i \in DOMAIN runs[n][d]} : n \in Nodes, d \in Duties}
Run(r) == runs[r[1]][r[2]][r[3]]
AssignmentOf(r) == asg[r[1]][r[2]][Run(r).asg]
LiveRunIds == {r \in RunIds : Run(r).st \in LiveRun}

Last(s) == s[Len(s)]

\* An assignment is created only when no active one of the same node and duty
\* exists (the unique index of migration 317), and with its first run; so the
\* active assignment is the last one and its latest run is the last run.
HasActive(n, d) == asg[n][d] # <<>> /\ Last(asg[n][d]).st = "active"
LatestWorkSucceeded(n) == runs[n]["work"] # <<>> /\ Last(runs[n]["work"]).st = "succeeded"
Producer(n) == asg[n]["work"][Last(runs[n]["work"]).asg].agent

\* Mutant: attempts numbered from zero, against the CHECK of the run table.
NewRunFromZero(k, attempt, subject) ==
    [asg |-> k, att |-> attempt - 1, st |-> "queued", kind |-> "none",
     task |-> "none", of |-> subject, verdict |-> "none"]

NewRun(k, attempt, subject) ==
    [asg |-> k, att |-> attempt, st |-> "queued", kind |-> "none",
     task |-> "none", of |-> subject, verdict |-> "none"]

\* The runs with run r replaced.
SetRun(r, new) == [runs EXCEPT ![r[1]][r[2]][r[3]] = new]

DataOK ==
    /\ mission \in MissionStatuses
    /\ node \in [Nodes -> TaskStatuses]
    /\ rework \in [Nodes -> Nat]
    /\ asg \in [Nodes -> [Duties -> Seq(Assignments)]]
    /\ runs \in [Nodes -> [Duties -> Seq(Runs)]]
    /\ gate \in [Nodes -> GateKinds \cup {"none"}]
    /\ keys \in [Nodes -> SUBSET ActivityKeys]
CallsOK ==
    /\ advanceDue \in BOOLEAN
    /\ enqueueDue \subseteq RunIds
    /\ enqueueTx \subseteq RunIds
    /\ cancelDue \subseteq RunIds
BoundsOK == ownerSteps \in Nat /\ faults \in Nat /\ halts \in Nat

\* The statuses are the ones of the CHECKs of the tables, and every call names a
\* run that exists (CreateOrchestrationRun, EnqueueOrchestrationRun).
TypeOK == DataOK /\ CallsOK /\ BoundsOK

Init ==
    /\ mission = "ready"
    /\ node = [n \in Nodes |-> "pending"]
    /\ rework = [n \in Nodes |-> 0]
    /\ asg = [n \in Nodes |-> [d \in Duties |-> <<>>]]
    /\ runs = [n \in Nodes |-> [d \in Duties |-> <<>>]]
    /\ gate = [n \in Nodes |-> "none"]
    /\ keys = [n \in Nodes |-> {}]
    /\ advanceDue = FALSE
    /\ enqueueDue = {} /\ enqueueTx = {} /\ cancelDue = {}
    /\ ownerSteps = 0 /\ faults = 0 /\ halts = 0

-----------------------------------------------------------------------------
(* The owner's commands *)

DepsCompleted(n) == \A d \in Deps[n] : node[d] = "completed"

\* ReadyNodeKeys: the first MaxParallel nodes whose dependencies are completed.
InitiallyReady ==
    LET roots == {n \in Nodes : node[n] \in {"pending", "rework"} /\ DepsCompleted(n)}
    IN  {n \in roots : Cardinality({m \in roots : m < n}) < MaxParallel}

\* The HTTP handler advances the mission after the transaction.
StartMission ==
    /\ mission = "ready"
    /\ InitiallyReady # {}
    /\ mission' = "running"
    /\ node' = [n \in Nodes |-> IF n \in InitiallyReady THEN "ready" ELSE node[n]]
    /\ advanceDue' = TRUE
    /\ UNCHANGED <<rework, asg, runs, gate, keys, enqueueDue, enqueueTx, cancelDue, bounds>>

EndActive(s, st) == [k \in DOMAIN s |-> IF s[k].st = "active" THEN [s[k] EXCEPT !.st = st] ELSE s[k]]

\* Mutant: the update of the nodes forgets which statuses are terminal.
CancelMissionAllNodes ==
    /\ mission \in {"ready", "running", "blocked"}
    /\ mission' = "cancelled"
    /\ node' = [n \in Nodes |-> "cancelled"]
    /\ asg' = [n \in Nodes |-> [d \in Duties |-> EndActive(asg[n][d], "revoked")]]
    /\ cancelDue' = cancelDue \cup LiveRunIds
    /\ UNCHANGED <<rework, runs, gate, keys, advanceDue, enqueueDue, enqueueTx, bounds>>

\* The runs stay as they are; the service cancels the execution of the active
\* ones after the transaction, and the reconciler is to finish the rest.
CancelMission ==
    /\ mission \in {"ready", "running", "blocked"}
    /\ mission' = "cancelled"
    /\ node' = [n \in Nodes |-> IF node[n] \in TerminalTask THEN node[n] ELSE "cancelled"]
    /\ asg' = [n \in Nodes |-> [d \in Duties |-> EndActive(asg[n][d], "revoked")]]
    /\ cancelDue' = cancelDue \cup LiveRunIds
    /\ UNCHANGED <<rework, runs, gate, keys, advanceDue, enqueueDue, enqueueTx, bounds>>

\* Mutant: the retry does not look for a pending human gate.
RetryTaskNodeAnyGate(n) ==
    /\ ownerSteps < MaxOwnerSteps
    /\ mission \in {"running", "blocked"}
    /\ node[n] = "blocked"
    /\ mission' = "running"
    /\ node' = [node EXCEPT ![n] = "pending"]
    /\ advanceDue' = TRUE
    /\ ownerSteps' = ownerSteps + 1
    /\ UNCHANGED <<rework, asg, runs, gate, keys, enqueueDue, enqueueTx, cancelDue, faults, halts>>

RetryTaskNode(n) ==
    /\ ownerSteps < MaxOwnerSteps
    /\ mission \in {"running", "blocked"}
    /\ node[n] = "blocked"
    /\ gate[n] = "none"
    /\ mission' = "running"
    /\ node' = [node EXCEPT ![n] = "pending"]
    /\ advanceDue' = TRUE
    /\ ownerSteps' = ownerSteps + 1
    /\ UNCHANGED <<rework, asg, runs, gate, keys, enqueueDue, enqueueTx, cancelDue, faults, halts>>

ResolveHumanGate(n) ==
    /\ ownerSteps < MaxOwnerSteps
    /\ mission \in {"running", "blocked"}
    /\ gate[n] # "none"
    /\ node[n] = "blocked"
    /\ gate' = [gate EXCEPT ![n] = "none"]
    /\ mission' = "running"
    /\ \/ /\ gate[n] = "reviewer_unavailable"
          /\ node' = [node EXCEPT ![n] = "review"]
          /\ UNCHANGED rework
       \/ /\ gate[n] = "rework_limit_exceeded"
          /\ node' = [node EXCEPT ![n] = "rework"]
          /\ rework' = [rework EXCEPT ![n] = @ + 1]
    /\ advanceDue' = TRUE
    /\ ownerSteps' = ownerSteps + 1
    /\ UNCHANGED <<asg, runs, keys, enqueueDue, enqueueTx, cancelDue, faults, halts>>

-----------------------------------------------------------------------------
(* AdvanceMission: one transaction whose phases are loops over the nodes   *)
(* in node_key order.  The operators below give what each phase makes of   *)
(* the statuses; pick[n] is the candidate that routing returns for node n. *)

\* Phase 1: the active assignments whose latest run failed.
Stalled(n, d) == HasActive(n, d) /\ runs[n][d] # <<>> /\ Last(runs[n][d]).st = "failed"
RetriesLeft(run) == run.kind \in {"unreachable", "transient"} /\ run.att < MaxAttempts
Retries(n, d) == Stalled(n, d) /\ RetriesLeft(Last(runs[n][d]))
Exhausted(n, d) ==
    /\ Stalled(n, d)
    /\ ~RetriesLeft(Last(runs[n][d]))
    /\ node[n] \notin TerminalTask
ExhaustedStatus(n, d) ==
    IF Last(runs[n][d]).kind = "unreachable" THEN "blocked" ELSE "failed"
AfterFailures ==
    [n \in Nodes |-> CASE Exhausted(n, "work") -> ExhaustedStatus(n, "work")
                       [] Exhausted(n, "review") -> ExhaustedStatus(n, "review")
                       [] OTHER -> node[n]]
LiveAfterFailures ==
    Cardinality(LiveRunIds) + Cardinality({s \in Nodes \X Duties : Retries(s[1], s[2])})

\* Phase 2: propagation along the dependencies.  The loop updates the statuses
\* it reads, so a node sees the blocking of a dependency of a smaller key.
\* Mutant: phase 2 forgets the nodes sent back for rework.
WaitingPending(st, n) == st[n] = "pending"
Waiting(st, n) == st[n] \in {"pending", "rework"}
Obstructed(st) ==
    LET obstructed[n \in Nodes] ==
            \E d \in Deps[n] : \/ st[d] \in {"failed", "blocked", "cancelled"}
                               \/ d < n /\ Waiting(st, d) /\ obstructed[d]
    IN  {n \in Nodes : Waiting(st, n) /\ obstructed[n]}
\* Mutant: readiness asks that no dependency has failed, not that all are done.
BecomesReadyUnlessFailed(st, n) ==
    Waiting(st, n) /\ \A d \in Deps[n] : st[d] \notin {"failed", "blocked", "cancelled"}
BecomesReady(st, n) == Waiting(st, n) /\ \A d \in Deps[n] : st[d] = "completed"
AfterPropagation(st) ==
    LET obstructed == Obstructed(st)
    IN  [n \in Nodes |-> CASE BecomesReady(st, n) -> "ready"
                           [] n \in obstructed /\ ~BecomesReady(st, n) -> "blocked"
                           [] OTHER -> st[n]]

\* Phases 3 and 4 start runs while there is capacity: work for the ready nodes,
\* then an independent review of what the latest work run delivered.  A node
\* without a candidate takes no capacity.
ReadyNodes(st) == {n \in Nodes : st[n] = "ready"}
\* Mutant: a review is started while another one is active.
AwaitingReviewAgain(st) == {n \in Nodes : st[n] = "review" /\ LatestWorkSucceeded(n)}
AwaitingReview(st) ==
    {n \in Nodes : st[n] = "review" /\ LatestWorkSucceeded(n) /\ ~HasActive(n, "review")}
Routed(S, pick) == {n \in S : pick[n] # NoAgent}
\* Mutant: the limit is compared before the run is counted, and exceeded by one.
ConsideredOneMore(S, live, pick) ==
    {n \in S : live + Cardinality(Routed({m \in S : m < n}, pick)) <= MaxParallel}
Considered(S, live, pick) ==
    {n \in S : live + Cardinality(Routed({m \in S : m < n}, pick)) < MaxParallel}
\* Mutant: the reviews do not count the work started by the same Advance.
PlanUncounted(st, pick) ==
    LET forWork == Considered(ReadyNodes(st), LiveAfterFailures, pick)
        forReview == Considered(AwaitingReview(st), LiveAfterFailures, pick)
    IN  [work |-> Routed(forWork, pick), unworked |-> forWork \ Routed(forWork, pick),
         review |-> Routed(forReview, pick), unreviewed |-> forReview \ Routed(forReview, pick)]
Plan(st, pick) ==
    LET forWork == Considered(ReadyNodes(st), LiveAfterFailures, pick)
        live == LiveAfterFailures + Cardinality(Routed(forWork, pick))
        forReview == Considered(AwaitingReview(st), live, pick)
    IN  [work |-> Routed(forWork, pick), unworked |-> forWork \ Routed(forWork, pick),
         review |-> Routed(forReview, pick), unreviewed |-> forReview \ Routed(forReview, pick)]

\* Mutant: the producer is only the last resort among the reviewers.
RoutingsWithProducer(st) ==
    {pick \in [Nodes -> Agents \cup {NoAgent}] :
        \A n \in Nodes \ (ReadyNodes(st) \cup AwaitingReview(st)) : pick[n] = NoAgent}

\* Routing never returns the producer of an artifact as its reviewer.
Routings(st) ==
    {pick \in [Nodes -> Agents \cup {NoAgent}] :
        /\ \A n \in Nodes \ (ReadyNodes(st) \cup AwaitingReview(st)) : pick[n] = NoAgent
        /\ \A n \in AwaitingReview(st) : pick[n] # Producer(n)}

AfterPlan(st, plan) ==
    [n \in Nodes |-> CASE n \in plan.work -> "assigned"
                       [] n \in plan.unworked \cup plan.unreviewed -> "blocked"
                       [] OTHER -> st[n]]

Starts(n, d, plan) == n \in (IF d = "work" THEN plan.work ELSE plan.review)
AssignmentsAfter(n, d, plan, pick) ==
    CASE Starts(n, d, plan) -> Append(asg[n][d], [agent |-> pick[n], st |-> "active"])
      [] Exhausted(n, d) /\ ~Starts(n, d, plan) -> EndActive(asg[n][d], "revoked")
      [] OTHER -> asg[n][d]
RunsAfter(n, d, plan) ==
    CASE Retries(n, d) ->
            Append(runs[n][d],
                   NewRun(Last(runs[n][d]).asg, Last(runs[n][d]).att + 1, Last(runs[n][d]).of))
      [] Starts(n, d, plan) /\ ~Retries(n, d) ->
            Append(runs[n][d],
                   NewRun(Len(asg[n][d]) + 1, 1, IF d = "review" THEN Len(runs[n]["work"]) ELSE 0))
      [] OTHER -> runs[n][d]

\* The dedupe keys of the activities Advance writes for a node.  The keys of
\* assignments, runs and gates contain a fresh id and are left out.
NewKeys(n, st, plan) ==
    {<<"attempts", ExhaustedStatus(n, d), 0>> : d \in {d \in Duties : Exhausted(n, d)}}
        \cup (IF Waiting(AfterFailures, n) /\ st[n] \in {"ready", "blocked"}
              THEN {<<"cycle", st[n], rework[n]>>} ELSE {})
        \cup (IF n \in plan.unworked THEN {<<"routing", "blocked", rework[n]>>} ELSE {})

\* The last step: the mission follows from its nodes.
AdvanceChanges(after, plan) ==
    after # node \/ plan.review # {} \/ \E n \in Nodes, d \in Duties : Retries(n, d)
\* Mutant: the mission completes when its nodes have ended, cancelled ones too.
MissionAfterAnyEnd(after, plan) ==
    LET statuses == {after[n] : n \in Nodes}
    IN  CASE "completed" \in statuses /\ statuses \subseteq {"completed", "cancelled"} -> "completed"
          [] "failed" \in statuses -> "failed"
          [] OTHER -> IF AdvanceChanges(after, plan) THEN "running" ELSE mission
MissionAfter(after, plan) ==
    LET statuses == {after[n] : n \in Nodes}
        idle == LiveAfterFailures + Cardinality(plan.work) + Cardinality(plan.review) = 0
    IN  CASE statuses = {"completed"} -> "completed"
          [] "failed" \in statuses -> "failed"
          [] idle /\ "blocked" \in statuses
             /\ statuses \cap {"failed", "ready", "rework", "review"} = {} -> "blocked"
          [] OTHER -> IF AdvanceChanges(after, plan) THEN "running" ELSE mission

MissionTransitions ==
    [ready |-> {"running", "cancelled"},
     running |-> {"completed", "blocked", "failed", "cancelled"},
     blocked |-> {"running", "failed", "cancelled"},
     completed |-> {}, failed |-> {}, cancelled |-> {}]

\* What the database or the code refuses: an activity key already in use, a
\* second active assignment of a node and role, a mission transition outside
\* the table.
FreshKeys(st, plan) == \A n \in Nodes : NewKeys(n, st, plan) \cap keys[n] = {}
FreeSlots(plan) == \A n \in plan.work : ~HasActive(n, "work")
ValidMissionStep(target) == target = mission \/ target \in MissionTransitions[mission]
Admissible(st, plan) ==
    FreshKeys(st, plan) /\ FreeSlots(plan) /\ ValidMissionStep(MissionAfter(AfterPlan(st, plan), plan))

AdvanceCommits(st, plan, pick) ==
    /\ Admissible(st, plan)
    /\ node' = AfterPlan(st, plan)
    /\ asg' = [n \in Nodes |-> [d \in Duties |-> AssignmentsAfter(n, d, plan, pick)]]
    /\ runs' = [n \in Nodes |-> [d \in Duties |-> RunsAfter(n, d, plan)]]
    /\ gate' = [n \in Nodes |-> IF n \in plan.unreviewed THEN "reviewer_unavailable" ELSE gate[n]]
    /\ keys' = [n \in Nodes |-> keys[n] \cup NewKeys(n, st, plan)]
    /\ mission' = MissionAfter(AfterPlan(st, plan), plan)
    \* Service.AdvanceMission enqueues every queued run that has no task yet.
    /\ enqueueDue' = enqueueDue \cup {r \in RunIds' : Run(r)'.st = "queued" /\ Run(r)'.task = "none"}
    /\ UNCHANGED <<rework, enqueueTx, cancelDue, bounds>>

\* The transaction is rolled back and the call returns the error.
AdvanceRejected(st, plan) ==
    /\ ~Admissible(st, plan)
    /\ UNCHANGED <<db, enqueueDue, enqueueTx, cancelDue, bounds>>

AdvanceMission ==
    /\ advanceDue
    /\ mission \in {"running", "blocked"}
    /\ advanceDue' = FALSE
    /\ LET st == AfterPropagation(AfterFailures)
       IN  \E pick \in Routings(st) :
               LET plan == Plan(st, pick)
               IN  AdvanceCommits(st, plan, pick) \/ AdvanceRejected(st, plan)

\* A mission that is not running or blocked is returned as it is.
AdvanceIgnored ==
    /\ advanceDue
    /\ mission \notin {"running", "blocked"}
    /\ advanceDue' = FALSE
    /\ UNCHANGED <<db, enqueueDue, enqueueTx, cancelDue, bounds>>

-----------------------------------------------------------------------------
(* The execution gateway *)

Dispatchable(r) ==
    /\ Run(r).st = "queued"
    /\ AssignmentOf(r).st = "active"
    /\ node[r[1]] = (IF r[2] = "work" THEN "assigned" ELSE "review")

\* EnqueueOrchestrationRun locks the run row and checks; the mission, the node
\* and the assignment it reads are not locked.
BeginEnqueue(r) ==
    /\ r \in enqueueDue
    /\ r \notin enqueueTx
    /\ enqueueDue' = enqueueDue \ {r}
    /\ enqueueTx' = IF Run(r).task = "none" /\ Dispatchable(r) THEN enqueueTx \cup {r} ELSE enqueueTx
    /\ UNCHANGED <<db, advanceDue, cancelDue, bounds>>

\* ... then inserts the task, on what it read.
FinishEnqueue(r) ==
    /\ r \in enqueueTx
    /\ runs' = SetRun(r, [Run(r) EXCEPT !.task = "queued"])
    /\ enqueueTx' = enqueueTx \ {r}
    /\ UNCHANGED <<mission, node, rework, asg, gate, keys, advanceDue, enqueueDue, cancelDue, bounds>>

\* gateway.Cancel, and the Advance that follows it in the reconciler.
CancelExecution(r) ==
    /\ r \in cancelDue
    /\ runs' = IF Run(r).task \in LiveTask THEN SetRun(r, [Run(r) EXCEPT !.task = "cancelled"]) ELSE runs
    /\ cancelDue' = cancelDue \ {r}
    /\ advanceDue' = TRUE
    /\ UNCHANGED <<mission, node, rework, asg, gate, keys, enqueueDue, enqueueTx, bounds>>

-----------------------------------------------------------------------------
(* RunReconciler.  It visits the active runs, and the failed or cancelled  *)
(* runs whose task is still alive; FOR UPDATE makes it wait for an         *)
(* enqueue transaction.  One action per observation.                       *)

\* Mutant: only active runs are listed, whatever became of their tasks.
ListedActive(r) == r \notin enqueueTx /\ Run(r).st \in LiveRun

Listed(r) ==
    /\ r \notin enqueueTx
    /\ Run(r).st \in LiveRun \/ (Run(r).st \in {"failed", "cancelled"} /\ Run(r).task \in LiveTask)

\* Mutant: a failed mission does not give its other runs up.
GivenUpUnlessFailed(r) == mission = "cancelled" \/ node[r[1]] = "cancelled"

\* The mission or the node has been given up.
GivenUp(r) == mission \in {"cancelled", "failed"} \/ node[r[1]] = "cancelled"
Observable(r) == Listed(r) /\ Run(r).st \in LiveRun /\ ~GivenUp(r)

\* What follows the transaction of a run: its execution is cancelled if that
\* task still runs, otherwise the mission is advanced.
Followup(r, cancel) ==
    IF cancel
    THEN cancelDue' = cancelDue \cup {r} /\ UNCHANGED advanceDue
    ELSE advanceDue' = TRUE /\ UNCHANGED cancelDue

FailRun(r, kind, cancel) ==
    /\ runs' = SetRun(r, [Run(r) EXCEPT !.st = "failed", !.kind = kind])
    /\ Followup(r, cancel)

\* Mutant: the node of a failed run is made ready instead.
NodeBackToReady(n) == [node EXCEPT ![n] = IF @ = "running" THEN "ready" ELSE @]

\* A running node whose run failed waits in "assigned" for the next attempt.
NodeBackToAssigned(n) == [node EXCEPT ![n] = IF @ = "running" THEN "assigned" ELSE @]

ReconcileTerminalRun(r) ==
    /\ Listed(r) /\ Run(r).st \notin LiveRun
    /\ cancelDue' = cancelDue \cup {r}
    /\ UNCHANGED <<db, advanceDue, enqueueDue, enqueueTx, bounds>>

\* The run and its node become cancelled; so does the assignment if the node did.
CancelRunAndNode(r) ==
    LET n == r[1]  open == node[n] \notin TerminalTask
    IN  /\ runs' = SetRun(r, [Run(r) EXCEPT !.st = "cancelled"])
        /\ node' = [node EXCEPT ![n] = IF open THEN "cancelled" ELSE @]
        /\ asg' = IF open /\ AssignmentOf(r).st = "active"
                  THEN [asg EXCEPT ![n][r[2]][Run(r).asg].st = "revoked"]
                  ELSE asg
        /\ Followup(r, Run(r).task \in LiveTask)
        /\ UNCHANGED <<mission, rework, gate, keys, enqueueDue, enqueueTx, bounds>>

ReconcileGivenUp(r) ==
    /\ Listed(r) /\ Run(r).st \in LiveRun /\ GivenUp(r)
    /\ CancelRunAndNode(r)

ReconcileTaskCancelled(r) ==
    /\ Observable(r) /\ Run(r).task = "cancelled"
    /\ CancelRunAndNode(r)

\* The dispatch deadline has passed without a task, or with an unclaimed one.
ReconcileDispatchTimeout(r) ==
    /\ Observable(r) /\ Run(r).task \in {"none", "queued"}
    /\ FailRun(r, "unreachable", Run(r).task = "queued")
    /\ UNCHANGED <<mission, node, rework, asg, gate, keys, enqueueDue, enqueueTx, bounds>>

\* The run timeout has passed, even if the task completed after it.
ReconcileTimeout(r) ==
    /\ Observable(r) /\ Run(r).task \in {"dispatched", "running", "completed"}
    /\ FailRun(r, "transient", Run(r).task \in LiveTask)
    /\ node' = NodeBackToAssigned(r[1])
    /\ UNCHANGED <<mission, rework, asg, gate, keys, enqueueDue, enqueueTx, bounds>>

\* laterActiveRunStatus: a run that is running does not fall back.
ReconcileDispatched(r) ==
    /\ Observable(r) /\ Run(r).task = "dispatched" /\ Run(r).st = "queued"
    /\ runs' = SetRun(r, [Run(r) EXCEPT !.st = "dispatched"])
    /\ advanceDue' = TRUE
    /\ UNCHANGED <<mission, node, rework, asg, gate, keys, enqueueDue, enqueueTx, cancelDue, bounds>>

ReconcileRunning(r) ==
    /\ Observable(r) /\ Run(r).task = "running"
    /\ Run(r).st # "running" \/ node[r[1]] = "assigned"
    /\ runs' = SetRun(r, [Run(r) EXCEPT !.st = "running"])
    /\ node' = [node EXCEPT ![r[1]] = IF @ = "assigned" THEN "running" ELSE @]
    /\ advanceDue' = TRUE
    /\ UNCHANGED <<mission, rework, asg, gate, keys, enqueueDue, enqueueTx, cancelDue, bounds>>

ReconcileTaskFailed(r) ==
    /\ Observable(r) /\ Run(r).task = "failed"
    /\ \E kind \in FailureKinds : FailRun(r, kind, FALSE)
    /\ node' = NodeBackToAssigned(r[1])
    /\ UNCHANGED <<mission, rework, asg, gate, keys, enqueueDue, enqueueTx, bounds>>

\* The task completed with a receipt that does not decode, or with a kind of
\* artifact the node does not allow: protocol_error.
ReconcileInvalidReceipt(r) ==
    /\ Observable(r) /\ Run(r).task = "completed"
    /\ FailRun(r, "fatal", FALSE)
    /\ UNCHANGED <<mission, node, rework, asg, gate, keys, enqueueDue, enqueueTx, bounds>>

\* The work run succeeds, its artifact is recorded and the node awaits review.
\* validateTaskTransition and recordReconciledArtifactInTx refuse any other case.
ReconcileDelivered(r) ==
    /\ Observable(r) /\ Run(r).task = "completed" /\ r[2] = "work"
    /\ node[r[1]] \in {"assigned", "running", "review"}
    /\ r[3] = Len(runs[r[1]]["work"])
    /\ runs' = SetRun(r, [Run(r) EXCEPT !.st = "succeeded"])
    /\ node' = [node EXCEPT ![r[1]] = "review"]
    /\ advanceDue' = TRUE
    /\ UNCHANGED <<mission, rework, asg, gate, keys, enqueueDue, enqueueTx, cancelDue, bounds>>

VerdictStatus(n, decision) ==
    CASE decision = "approved" -> "completed"
      [] decision = "rejected" -> "failed"
      [] decision = "changes_requested" /\ rework[n] < MaxRework -> "rework"
      [] decision = "changes_requested" /\ rework[n] >= MaxRework -> "blocked"

\* Mutant: the verdict leaves the producer's assignment active.
ReconcileVerdictReviewerOnly(r, decision) ==
    LET n == r[1]  target == VerdictStatus(n, decision)
    IN  /\ Observable(r) /\ Run(r).task = "completed" /\ r[2] = "review"
        /\ node[n] \in {"assigned", "running", "review"}
        /\ runs' = SetRun(r, [Run(r) EXCEPT !.st = "succeeded", !.verdict = decision])
        /\ node' = [node EXCEPT ![n] = target]
        /\ rework' = [rework EXCEPT ![n] = IF target = "rework" THEN @ + 1 ELSE @]
        /\ gate' = [gate EXCEPT ![n] = IF target = "blocked" THEN "rework_limit_exceeded" ELSE @]
        /\ asg' = [asg EXCEPT ![n]["review"] = EndActive(@, "fulfilled")]
        /\ advanceDue' = TRUE
        /\ UNCHANGED <<mission, keys, enqueueDue, enqueueTx, cancelDue, bounds>>

\* The review run succeeds and its verdict decides the node: the reviewer's
\* assignment is fulfilled, the producer's is fulfilled or superseded.
ReconcileVerdict(r, decision) ==
    LET n == r[1]  target == VerdictStatus(n, decision)
    IN  /\ Observable(r) /\ Run(r).task = "completed" /\ r[2] = "review"
        /\ node[n] \in {"assigned", "running", "review"}
        /\ runs' = SetRun(r, [Run(r) EXCEPT !.st = "succeeded", !.verdict = decision])
        /\ node' = [node EXCEPT ![n] = target]
        /\ rework' = [rework EXCEPT ![n] = IF target = "rework" THEN @ + 1 ELSE @]
        /\ gate' = [gate EXCEPT ![n] = IF target = "blocked" THEN "rework_limit_exceeded" ELSE @]
        /\ asg' = [asg EXCEPT ![n] =
                    [d \in Duties |->
                        EndActive(@[d], IF d = "review" \/ target = "completed"
                                        THEN "fulfilled" ELSE "superseded")]]
        /\ advanceDue' = TRUE
        /\ UNCHANGED <<mission, keys, enqueueDue, enqueueTx, cancelDue, bounds>>

ReconcileRun(r) ==
    \/ ReconcileTerminalRun(r)
    \/ ReconcileGivenUp(r)
    \/ ReconcileTaskCancelled(r)
    \/ ReconcileDispatchTimeout(r)
    \/ ReconcileTimeout(r)
    \/ ReconcileDispatched(r)
    \/ ReconcileRunning(r)
    \/ ReconcileTaskFailed(r)
    \/ ReconcileInvalidReceipt(r)
    \/ ReconcileDelivered(r)
    \/ \E decision \in Decisions : ReconcileVerdict(r, decision)

-----------------------------------------------------------------------------
(* The execution plane: what daemons, sweepers and users do to a task.     *)

SetTask(r, from, to) ==
    /\ Run(r).task \in from
    /\ runs' = SetRun(r, [Run(r) EXCEPT !.task = to])
    /\ UNCHANGED <<mission, node, rework, asg, gate, keys, calls, ownerSteps, faults>>

\* ClaimAgentTask: one task of an agent and an issue at a time.
ClaimTask(r) ==
    /\ \A s \in RunIds : (s[1] = r[1] /\ AssignmentOf(s).agent = AssignmentOf(r).agent)
                            => Run(s).task \notin {"dispatched", "running"}
    /\ SetTask(r, {"queued"}, "dispatched")
    /\ UNCHANGED halts
RequeueTask(r) == SetTask(r, {"dispatched"}, "queued") /\ UNCHANGED halts
StartTask(r) == SetTask(r, {"dispatched"}, "running") /\ UNCHANGED halts
CompleteTask(r) == SetTask(r, {"running"}, "completed") /\ UNCHANGED halts
\* FailAgentTask, and FailStaleTasks / ExpireStaleQueuedTasks of the sweeper.
FailTask(r) == SetTask(r, LiveTask, "failed") /\ UNCHANGED halts
\* A user cancels the task, or archives the agent.
HaltTask(r) ==
    /\ halts < MaxHalts
    /\ SetTask(r, LiveTask, "cancelled")
    /\ halts' = halts + 1

ExecutionPlane(r) ==
    \/ ClaimTask(r) \/ RequeueTask(r) \/ StartTask(r)
    \/ CompleteTask(r) \/ FailTask(r) \/ HaltTask(r)

-----------------------------------------------------------------------------
(* Faults.  Transactions in flight roll back; calls in memory are lost.    *)

Crash ==
    /\ faults < MaxFaults
    /\ calls # <<FALSE, {}, {}, {}>>
    /\ advanceDue' = FALSE /\ enqueueDue' = {} /\ enqueueTx' = {} /\ cancelDue' = {}
    /\ faults' = faults + 1
    /\ UNCHANGED <<db, ownerSteps, halts>>

\* One call fails: no database connection, or an agent that was archived or
\* moved to another runtime.
LoseCall ==
    /\ faults < MaxFaults
    /\ \/ /\ advanceDue /\ advanceDue' = FALSE
          /\ UNCHANGED <<enqueueDue, enqueueTx, cancelDue>>
       \/ \E r \in enqueueDue : /\ enqueueDue' = enqueueDue \ {r}
                                /\ UNCHANGED <<advanceDue, enqueueTx, cancelDue>>
       \/ \E r \in enqueueTx : /\ enqueueTx' = enqueueTx \ {r}
                               /\ UNCHANGED <<advanceDue, enqueueDue, cancelDue>>
       \/ \E r \in cancelDue : /\ cancelDue' = cancelDue \ {r}
                               /\ UNCHANGED <<advanceDue, enqueueDue, enqueueTx>>
    /\ faults' = faults + 1
    /\ UNCHANGED <<db, ownerSteps, halts>>

-----------------------------------------------------------------------------
OwnerStep ==
    \/ StartMission
    \/ CancelMission
    \/ \E n \in Nodes : RetryTaskNode(n) \/ ResolveHumanGate(n)
Gateway ==
    \E r \in RunIds : BeginEnqueue(r) \/ FinishEnqueue(r) \/ CancelExecution(r)

Next ==
    \/ OwnerStep
    \/ AdvanceMission \/ AdvanceIgnored
    \/ Gateway
    \/ \E r \in RunIds : ReconcileRun(r)
    \/ \E r \in RunIds : ExecutionPlane(r)
    \/ Crash
    \/ LoseCall

Spec == Init /\ [][Next]_vars

\* The calls of a running process are made; the reconciler's cursor visits
\* every listed run again and again, and time passes, so that some observation
\* of a live run becomes true.  Owners, daemons, users and faults owe nothing.
Fairness ==
    /\ WF_vars(AdvanceMission \/ AdvanceIgnored)
    /\ WF_vars(Gateway)
    /\ \A n \in Nodes, d \in Duties :
         WF_vars(\E i \in DOMAIN runs[n][d] : ReconcileRun(<<n, d, i>>))

FairSpec == Spec /\ Fairness
-----------------------------------------------------------------------------
(* Properties *)

\* A node has passed its dependencies once it is past "pending"; only an owner's
\* retry sends it back.  Whatever the order of reviews, retries and gates, work
\* starts only on completed dependencies (AdvanceMission phase 2, StartMission).
PastDependencies == {"ready", "assigned", "running", "review", "rework", "completed"}
DependencyGate == \A n \in Nodes : node[n] \in PastDependencies => DepsCompleted(n)

\* A node is completed only by the approval, by an agent other than the
\* producer, of the artifact of its latest work run: no stale or self review
\* (phase 4 of AdvanceMission, recordReconciledReviewInTx).
ApprovedBy(n, r) ==
    /\ Run(r).verdict = "approved"
    /\ Run(r).of = Len(runs[n]["work"])
    /\ LatestWorkSucceeded(n)
    /\ AssignmentOf(r).agent # Producer(n)
ReviewGate ==
    \A n \in Nodes : node[n] = "completed" =>
        \E i \in DOMAIN runs[n]["review"] : ApprovedBy(n, <<n, "review", i>>)

\* A live run finds its node where validateTaskTransition lets its outcome move
\* it, and its assignment active, until the mission or the node is given up: no
\* observation of the reconciler is refused and retried for ever.
LiveRunFitsNode ==
    \A r \in LiveRunIds : ~GivenUp(r) =>
        /\ node[r[1]] \in (IF r[2] = "work" THEN {"assigned", "running"} ELSE {"review"})
        /\ AssignmentOf(r).st = "active"

\* At most one run of a node is live: a retry, a rework or a review never
\* overlaps the run it follows, whatever calls were lost or repeated.
OneLiveRun ==
    \A r, s \in LiveRunIds : r[1] = s[1] => r = s

\* MaxParallelRuns bounds the live runs and the failed ones that phase 1 will
\* retry without looking at the limit.
ParallelCap ==
    mission \in {"running", "blocked"} => LiveAfterFailures <= MaxParallel

\* A pending human gate keeps its node blocked, with its dependencies completed
\* and work to return to, until it is resolved: RetryTaskNode cannot bypass it.
GateHolds ==
    \A n \in Nodes : gate[n] # "none" =>
        /\ node[n] \in {"blocked", "cancelled"}
        /\ DepsCompleted(n)
        /\ LatestWorkSucceeded(n)

\* A completed mission has nothing left to do: no live run, no live task of a
\* run that counts, no pending gate, no active assignment.
CompletedIsQuiet ==
    mission = "completed" =>
        /\ LiveRunIds = {}
        /\ \A n \in Nodes : node[n] = "completed" /\ gate[n] = "none"
        /\ \A n \in Nodes, d \in Duties : ~HasActive(n, d)

\* What is terminal stays as it is: the first outcome of a run, a node or the
\* mission wins over every late observation, verdict and command.
TerminalIsFinal ==
    [][/\ mission \in TerminalMission => mission' = mission
       /\ \A n \in Nodes : node[n] \in TerminalTask => node'[n] = node[n]
       /\ \A r \in RunIds : Run(r).st \notin LiveRun =>
            Run(r)'.st = Run(r).st /\ Run(r)'.verdict = Run(r).verdict]_vars

\* After the mission has ended nothing new is started for it: no assignment, no
\* run and no verdict appears, and no node is assigned or completed.
NothingStartsAfterEnd ==
    [][(mission \in TerminalMission) =>
        /\ RunIds' = RunIds
        /\ \A n \in Nodes : node'[n] # node[n] => node'[n] = "cancelled"
        /\ \A n \in Nodes, d \in Duties : Len(asg'[n][d]) = Len(asg[n][d])]_vars

\* The contract with the owner (MissionContract), read off the tables: a node is
\* open from "ready" on, also while its pending gate keeps it blocked; it is busy
\* while one of its runs is live.
StageOf(n) ==
    CASE node[n] = "completed" -> "approved"
      [] node[n] \in {"failed", "cancelled"} -> "lost"
      [] node[n] = "pending" \/ (node[n] = "blocked" /\ gate[n] = "none") -> "waiting"
      [] OTHER -> "open"
BusyNodes == {n \in Nodes : \E r \in LiveRunIds : r[1] = n}
Contract ==
    INSTANCE MissionContract WITH stage <- [n \in Nodes |-> StageOf(n)], busy <- BusyNodes

\* The implementation keeps the contract: whatever is lost, retried or crashes,
\* each transaction of the service is one step the owner was promised, or none.
ImplementsContract == Contract!Spec

\* Cancelling or failing a mission ends every run and every task of it, although
\* its runs are left to the reconciler, an enqueue may be half done and calls get
\* lost.
EndedDrains ==
    mission \in {"cancelled", "failed"} ~>
        (LiveRunIds = {} /\ \A r \in RunIds : Run(r).task \notin LiveTask)

\* A mission that is not disturbed comes to rest: it ends, or it waits for its
\* owner with nothing running.
MissionSettles ==
    mission = "running" ~> mission # "running"
=============================================================================
