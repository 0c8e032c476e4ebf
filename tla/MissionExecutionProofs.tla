----------------------- MODULE MissionExecutionProofs -----------------------
(***************************************************************************)
(* What is proved of MissionExecution for every plan, every set of agents, *)
(* every limit and every bound: the types, the dependency gate and the     *)
(* finality of what is terminal.                                           *)
(***************************************************************************)
EXTENDS MissionExecution, SequenceTheorems, TLAPS

RunTable == [Nodes -> [Duties -> Seq(Runs)]]
AssignmentTable == [Nodes -> [Duties -> Seq(Assignments)]]

-----------------------------------------------------------------------------
(* Sequences and run ids *)

\* A function on 1..n with values in S is a sequence over S.
LEMMA FunctionIsSeq ==
    ASSUME NEW S, NEW n \in Nat, NEW f \in [1..n -> S]
    PROVE  f \in Seq(S)
BY SeqDef

\* EndActive rewrites the status of the active assignments and keeps the rest.
LEMMA EndActiveType ==
    ASSUME NEW s \in Seq(Assignments), NEW st \in AssignmentStatuses
    PROVE  EndActive(s, st) \in Seq(Assignments)
<1>1. s \in [1..Len(s) -> Assignments] /\ Len(s) \in Nat
  BY LenProperties
<1>2. \A k \in 1..Len(s) : [s[k] EXCEPT !.st = st] \in Assignments
  BY <1>1 DEF Assignments
<1>3. EndActive(s, st) \in [1..Len(s) -> Assignments]
  BY <1>1, <1>2 DEF EndActive
<1> QED
  BY <1>1, <1>3, FunctionIsSeq

\* A run id names a node, a duty and a run of theirs ...
LEMMA RunIdParts ==
    ASSUME NEW r \in RunIds
    PROVE  /\ r[1] \in Nodes /\ r[2] \in Duties
           /\ r[3] \in DOMAIN runs[r[1]][r[2]]
           /\ r = <<r[1], r[2], r[3]>>
BY DEF RunIds

\* ... and every run of a node and duty has one.
LEMMA RunIdOf ==
    ASSUME NEW n \in Nodes, NEW d \in Duties, NEW i \in DOMAIN runs[n][d]
    PROVE  <<n, d, i>> \in RunIds
<1> DEFINE ids(m, e) == {<<m, e, j>> : j \in DOMAIN runs[m][e]}
<1>1. <<n, d, i>> \in ids(n, d)
  OBVIOUS
<1>2. ids(n, d) \in {ids(m, e) : m \in Nodes, e \in Duties}
  OBVIOUS
<1>3. RunIds = UNION {ids(m, e) : m \in Nodes, e \in Duties}
  BY DEF RunIds
<1> HIDE DEF ids
<1> QED
  BY <1>1, <1>2, <1>3

\* Runs are never removed: the ids of a table that only grows stay ids.
LEMMA RunIdsGrow ==
    ASSUME \A n \in Nodes, d \in Duties : DOMAIN runs[n][d] \subseteq DOMAIN runs'[n][d]
    PROVE  RunIds \subseteq RunIds'
<1> SUFFICES ASSUME NEW r \in RunIds PROVE r \in RunIds'
  OBVIOUS
<1>1. PICK n \in Nodes, d \in Duties : \E i \in DOMAIN runs[n][d] : r = <<n, d, i>>
  BY DEF RunIds
<1>2. PICK i \in DOMAIN runs[n][d] : r = <<n, d, i>>
  BY <1>1
<1>3. i \in DOMAIN runs'[n][d]
  BY <1>2
<1> DEFINE ids(m, e) == {<<m, e, j>> : j \in DOMAIN runs'[m][e]}
<1>4. r \in ids(n, d)
  BY <1>2, <1>3
<1>5. ids(n, d) \in {ids(m, e) : m \in Nodes, e \in Duties}
  OBVIOUS
<1>6. RunIds' = UNION {ids(m, e) : m \in Nodes, e \in Duties}
  BY DEF RunIds
<1> HIDE DEF ids
<1> QED
  BY <1>4, <1>5, <1>6

\* A run of a well-typed table is a run record.
LEMMA RunType ==
    ASSUME runs \in RunTable, NEW r \in RunIds
    PROVE  Run(r) \in Runs
<1>1. r[1] \in Nodes /\ r[2] \in Duties /\ r[3] \in DOMAIN runs[r[1]][r[2]]
  BY RunIdParts
<1>2. runs[r[1]][r[2]] \in Seq(Runs)
  BY <1>1 DEF RunTable
<1>3. DOMAIN runs[r[1]][r[2]] = 1..Len(runs[r[1]][r[2]])
  BY <1>2, LenProperties
<1> QED
  BY <1>1, <1>2, <1>3, ElementOfSeq DEF Run

\* SetRun replaces one run and neither adds nor removes any.
LEMMA SetRunEffect ==
    ASSUME runs \in RunTable, NEW r \in RunIds, NEW new \in Runs
    PROVE  /\ SetRun(r, new) \in RunTable
           /\ \A n \in Nodes, d \in Duties :
                /\ DOMAIN SetRun(r, new)[n][d] = DOMAIN runs[n][d]
                /\ \A i \in DOMAIN runs[n][d] :
                     SetRun(r, new)[n][d][i] = IF <<n, d, i>> = r THEN new ELSE runs[n][d][i]
<1> DEFINE seq == runs[r[1]][r[2]]
           changed == [seq EXCEPT ![r[3]] = new]
<1>1. r[1] \in Nodes /\ r[2] \in Duties /\ r[3] \in DOMAIN seq /\ r = <<r[1], r[2], r[3]>>
  BY RunIdParts
<1>2. seq \in Seq(Runs) /\ DOMAIN seq = 1..Len(seq)
  BY <1>1, LenProperties DEF RunTable
<1>3. changed \in Seq(Runs) /\ DOMAIN changed = DOMAIN seq
  BY <1>1, <1>2, ExceptSeq
<1>4. SetRun(r, new) = [runs EXCEPT ![r[1]] = [@ EXCEPT ![r[2]] = changed]]
  BY DEF SetRun
<1>5. SetRun(r, new) \in RunTable
  BY <1>1, <1>3, <1>4 DEF RunTable
<1>6. ASSUME NEW n \in Nodes, NEW d \in Duties
      PROVE  SetRun(r, new)[n][d] = IF n = r[1] /\ d = r[2] THEN changed ELSE runs[n][d]
  BY <1>1, <1>4 DEF RunTable
<1>7. ASSUME NEW n \in Nodes, NEW d \in Duties
      PROVE  /\ DOMAIN SetRun(r, new)[n][d] = DOMAIN runs[n][d]
             /\ \A i \in DOMAIN runs[n][d] :
                  SetRun(r, new)[n][d][i] = IF <<n, d, i>> = r THEN new ELSE runs[n][d][i]
  <2>1. CASE n = r[1] /\ d = r[2]
    BY <2>1, <1>1, <1>2, <1>3, <1>6
  <2>2. CASE ~(n = r[1] /\ d = r[2])
    BY <2>2, <1>1, <1>6
  <2> QED
    BY <2>1, <2>2
<1> QED
  BY <1>5, <1>7

-----------------------------------------------------------------------------
(* What the phases of AdvanceMission make of the statuses *)

\* Phase 1 writes "blocked" or "failed", and to nodes that are not terminal.
LEMMA AfterFailuresEffect ==
    ASSUME node \in [Nodes -> TaskStatuses]
    PROVE  /\ AfterFailures \in [Nodes -> TaskStatuses]
           /\ \A n \in Nodes :
                \/ AfterFailures[n] = node[n]
                \/ node[n] \notin TerminalTask /\ AfterFailures[n] \in {"blocked", "failed"}
<1>1. \A n \in Nodes, d \in Duties : ExhaustedStatus(n, d) \in {"blocked", "failed"}
  BY DEF ExhaustedStatus
<1>2. \A n \in Nodes, d \in Duties : Exhausted(n, d) => node[n] \notin TerminalTask
  BY DEF Exhausted
<1>3. "work" \in Duties /\ "review" \in Duties
  BY DEF Duties
<1>4. ASSUME NEW n \in Nodes
      PROVE  \/ AfterFailures[n] = node[n]
             \/ node[n] \notin TerminalTask /\ AfterFailures[n] \in {"blocked", "failed"}
  BY <1>1, <1>2, <1>3 DEF AfterFailures
<1>5. AfterFailures \in [Nodes -> TaskStatuses]
  BY <1>1, <1>3 DEF AfterFailures, TaskStatuses
<1> QED
  BY <1>4, <1>5

\* Phase 2 moves waiting nodes only: to "ready", and then every dependency is
\* completed, or to "blocked".
LEMMA AfterPropagationEffect ==
    ASSUME NEW st \in [Nodes -> TaskStatuses]
    PROVE  /\ AfterPropagation(st) \in [Nodes -> TaskStatuses]
           /\ \A n \in Nodes :
                \/ AfterPropagation(st)[n] = st[n]
                \/ /\ Waiting(st, n)
                   /\ AfterPropagation(st)[n] = "ready"
                   /\ \A d \in Deps[n] : st[d] = "completed"
                \/ /\ Waiting(st, n)
                   /\ AfterPropagation(st)[n] = "blocked"
<1>1. \A n \in Obstructed(st) : n \in Nodes /\ Waiting(st, n)
  BY DEF Obstructed
<1>2. ASSUME NEW n \in Nodes
      PROVE  \/ AfterPropagation(st)[n] = st[n]
             \/ /\ Waiting(st, n)
                /\ AfterPropagation(st)[n] = "ready"
                /\ \A d \in Deps[n] : st[d] = "completed"
             \/ /\ Waiting(st, n)
                /\ AfterPropagation(st)[n] = "blocked"
  BY <1>1 DEF AfterPropagation, BecomesReady
<1>3. AfterPropagation(st) \in [Nodes -> TaskStatuses]
  BY DEF AfterPropagation, TaskStatuses
<1> QED
  BY <1>2, <1>3

\* Phases 3 and 4 choose ready nodes, and nodes in review whose latest work run
\* delivered; what they start has a candidate.
LEMMA PlanShape ==
    ASSUME NEW st, NEW pick \in Routings(st)
    PROVE  LET plan == Plan(st, pick)
           IN  /\ \A n \in plan.work : n \in Nodes /\ st[n] = "ready" /\ pick[n] \in Agents
               /\ \A n \in plan.unworked : n \in Nodes /\ st[n] = "ready"
               /\ \A n \in plan.review : /\ n \in Nodes /\ st[n] = "review"
                                        /\ LatestWorkSucceeded(n) /\ pick[n] \in Agents
               /\ \A n \in plan.unreviewed : n \in Nodes /\ st[n] = "review" /\ LatestWorkSucceeded(n)
BY AgentsAssumption DEF Plan, Routings, Routed, Considered, ReadyNodes, AwaitingReview

\* The statuses after phases 3 and 4.
LEMMA AfterPlanEffect ==
    ASSUME NEW st \in [Nodes -> TaskStatuses], NEW pick \in Routings(st)
    PROVE  /\ AfterPlan(st, Plan(st, pick)) \in [Nodes -> TaskStatuses]
           /\ \A n \in Nodes :
                LET after == AfterPlan(st, Plan(st, pick))[n]
                IN  \/ after = st[n]
                    \/ st[n] = "ready" /\ after \in {"assigned", "blocked"}
                    \/ st[n] = "review" /\ after = "blocked"
<1>1. ASSUME NEW n \in Nodes
      PROVE  LET after == AfterPlan(st, Plan(st, pick))[n]
             IN  \/ after = st[n]
                 \/ st[n] = "ready" /\ after \in {"assigned", "blocked"}
                 \/ st[n] = "review" /\ after = "blocked"
  BY PlanShape DEF AfterPlan
<1>2. AfterPlan(st, Plan(st, pick)) \in [Nodes -> TaskStatuses]
  BY DEF AfterPlan, TaskStatuses
<1> QED
  BY <1>1, <1>2

-----------------------------------------------------------------------------
(* Types *)

\* Advance appends at most one run to a node and duty.
LEMMA RunsAfterType ==
    ASSUME runs \in RunTable, asg \in AssignmentTable,
           NEW n \in Nodes, NEW d \in Duties, NEW plan
    PROVE  /\ RunsAfter(n, d, plan) \in Seq(Runs)
           /\ \/ RunsAfter(n, d, plan) = runs[n][d]
              \/ \E run \in Runs : RunsAfter(n, d, plan) = Append(runs[n][d], run)
<1> DEFINE last == Last(runs[n][d])
<1>1. runs[n][d] \in Seq(Runs) /\ runs[n]["work"] \in Seq(Runs) /\ asg[n][d] \in Seq(Assignments)
  BY DEF RunTable, AssignmentTable, Duties
<1>2. CASE Retries(n, d)
  <2>1. runs[n][d] # <<>>
    BY <1>2 DEF Retries, Stalled
  <2>2. last \in Runs
    BY <1>1, <2>1 DEF Last
  <2>3. NewRun(last.asg, last.att + 1, last.of) \in Runs
    BY <2>2 DEF NewRun, Runs, RunStatuses, LiveRun
  <2> QED
    BY <1>1, <1>2, <2>3 DEF RunsAfter
<1>3. CASE Starts(n, d, plan) /\ ~Retries(n, d)
  <2>1. NewRun(Len(asg[n][d]) + 1, 1, IF d = "review" THEN Len(runs[n]["work"]) ELSE 0) \in Runs
    BY <1>1 DEF NewRun, Runs, RunStatuses, LiveRun
  <2> QED
    BY <1>1, <1>3, <2>1 DEF RunsAfter
<1>4. CASE ~Retries(n, d) /\ ~Starts(n, d, plan)
  BY <1>1, <1>4 DEF RunsAfter
<1> QED
  BY <1>2, <1>3, <1>4

\* The transaction of AdvanceMission keeps the types.
LEMMA AdvanceTypes ==
    ASSUME TypeOK, NEW pick \in Routings(AfterPropagation(AfterFailures)),
           AdvanceCommits(AfterPropagation(AfterFailures),
                          Plan(AfterPropagation(AfterFailures), pick), pick)
    PROVE  DataOK' /\ RunIds \subseteq RunIds' /\ enqueueDue' \subseteq RunIds'
<1> DEFINE st == AfterPropagation(AfterFailures)
           plan == Plan(st, pick)
<1>1. st \in [Nodes -> TaskStatuses]
  BY AfterFailuresEffect, AfterPropagationEffect DEF TypeOK, DataOK
<1>2. runs \in RunTable /\ asg \in AssignmentTable
  BY DEF TypeOK, DataOK, RunTable, AssignmentTable
<1>3. AdvanceCommits(st, plan, pick) /\ pick \in Routings(st)
  OBVIOUS
<1> HIDE DEF st
<1>4. node' \in [Nodes -> TaskStatuses]
  BY <1>1, <1>3, AfterPlanEffect DEF AdvanceCommits
<1>5. asg' \in AssignmentTable
  <2>1. ASSUME NEW n \in Nodes, NEW d \in Duties
        PROVE  AssignmentsAfter(n, d, plan, pick) \in Seq(Assignments)
    <3>1. asg[n][d] \in Seq(Assignments)
      BY <1>2 DEF AssignmentTable
    <3>2. CASE Starts(n, d, plan)
      <4>1. pick[n] \in Agents
        BY <1>3, <3>2, PlanShape DEF Starts
      <4>2. [agent |-> pick[n], st |-> "active"] \in Assignments
        BY <4>1 DEF Assignments, AssignmentStatuses
      <4> QED
        BY <3>1, <3>2, <4>2 DEF AssignmentsAfter
    <3>3. CASE ~Starts(n, d, plan)
      BY <3>1, <3>3, EndActiveType DEF AssignmentsAfter, AssignmentStatuses
    <3> QED
      BY <3>2, <3>3
  <2> QED
    BY <1>3, <2>1 DEF AdvanceCommits, AssignmentTable
<1>6. runs' \in RunTable
  BY <1>2, <1>3, RunsAfterType DEF AdvanceCommits, RunTable
<1>7. RunIds \subseteq RunIds'
  <2>1. ASSUME NEW n \in Nodes, NEW d \in Duties
        PROVE  DOMAIN runs[n][d] \subseteq DOMAIN runs'[n][d]
    <3>1. runs'[n][d] = RunsAfter(n, d, plan)
      BY <1>3 DEF AdvanceCommits
    <3>2. runs[n][d] \in Seq(Runs)
      BY <1>2 DEF RunTable
    <3> QED
      BY <1>2, <3>1, <3>2, RunsAfterType
  <2> QED
    BY <2>1, RunIdsGrow
<1>8. gate' \in [Nodes -> GateKinds \cup {"none"}]
  BY <1>3 DEF AdvanceCommits, TypeOK, DataOK, GateKinds
<1>9. keys' \in [Nodes -> SUBSET ActivityKeys]
  <2>1. ASSUME NEW n \in Nodes
        PROVE  NewKeys(n, st, plan) \subseteq ActivityKeys
    <3>1. rework[n] \in Nat
      BY DEF TypeOK, DataOK
    <3>2. \A d \in Duties : <<"attempts", ExhaustedStatus(n, d), 0>> \in ActivityKeys
      BY DEF ActivityKeys, ExhaustedStatus, TaskStatuses
    <3>3. /\ st[n] \in {"ready", "blocked"} => <<"cycle", st[n], rework[n]>> \in ActivityKeys
          /\ <<"routing", "blocked", rework[n]>> \in ActivityKeys
      BY <3>1 DEF ActivityKeys, TaskStatuses
    <3> QED
      BY <3>2, <3>3 DEF NewKeys
  <2> QED
    BY <1>3, <2>1 DEF AdvanceCommits, TypeOK, DataOK
<1>10. mission' \in MissionStatuses
  BY <1>3 DEF AdvanceCommits, MissionAfter, MissionStatuses, TypeOK, DataOK
<1>11. rework' \in [Nodes -> Nat]
  BY <1>3 DEF AdvanceCommits, TypeOK, DataOK
<1>12. enqueueDue' \subseteq RunIds'
  BY <1>3, <1>7 DEF AdvanceCommits, TypeOK, CallsOK
<1> QED
  BY <1>4, <1>5, <1>6, <1>7, <1>8, <1>9, <1>10, <1>11, <1>12 DEF DataOK, AssignmentTable, RunTable

\* An action that leaves the runs alone leaves the run ids alone.
LEMMA SameRunIds ==
    ASSUME UNCHANGED runs
    PROVE  RunIds' = RunIds
BY DEF RunIds

\* Replacing a run by a run keeps the table well typed and the ids in place.
LEMMA SetRunTypes ==
    ASSUME TypeOK, NEW r \in RunIds, NEW new \in Runs, runs' = SetRun(r, new)
    PROVE  runs' \in [Nodes -> [Duties -> Seq(Runs)]] /\ RunIds \subseteq RunIds'
<1>1. runs \in RunTable
  BY DEF TypeOK, DataOK, RunTable
<1> QED
  BY <1>1, SetRunEffect, RunIdsGrow DEF RunTable

\* Revoking one assignment of a node and duty keeps the table well typed.
LEMMA RevokeType ==
    ASSUME asg \in AssignmentTable, NEW n \in Nodes, NEW d \in Duties, NEW k
    PROVE  [asg EXCEPT ![n][d][k].st = "revoked"] \in AssignmentTable
<1> DEFINE seq == asg[n][d]
           changed == [seq EXCEPT ![k] = [@ EXCEPT !.st = "revoked"]]
<1>1. seq \in [1..Len(seq) -> Assignments] /\ Len(seq) \in Nat
  BY LenProperties DEF AssignmentTable
<1>2. \A j \in 1..Len(seq) : [seq[j] EXCEPT !.st = "revoked"] \in Assignments
  BY <1>1 DEF Assignments, AssignmentStatuses
<1>3. changed \in [1..Len(seq) -> Assignments]
  BY <1>1, <1>2
<1>4. changed \in Seq(Assignments)
  BY <1>1, <1>3, FunctionIsSeq
<1> QED
  BY <1>4 DEF AssignmentTable

\* The owner's commands keep the types.
LEMMA OwnerTypes ==
    ASSUME TypeOK, OwnerStep
    PROVE  TypeOK'
<1> USE DEF TypeOK, DataOK, CallsOK, BoundsOK
<1>1. CASE StartMission
  BY <1>1, SameRunIds DEF StartMission, MissionStatuses, TaskStatuses, bounds
<1>2. CASE CancelMission
  <2>1. \A n \in Nodes, d \in Duties : EndActive(asg[n][d], "revoked") \in Seq(Assignments)
    BY EndActiveType DEF AssignmentStatuses
  <2>2. asg' \in [Nodes -> [Duties -> Seq(Assignments)]]
    BY <1>2, <2>1 DEF CancelMission
  <2>3. node' \in [Nodes -> TaskStatuses] /\ mission' \in MissionStatuses
    BY <1>2 DEF CancelMission, TaskStatuses, MissionStatuses
  <2>4. cancelDue' \subseteq RunIds
    BY <1>2 DEF CancelMission, LiveRunIds
  <2> QED
    BY <1>2, <2>2, <2>3, <2>4, SameRunIds DEF CancelMission, bounds
<1>3. ASSUME NEW n \in Nodes, RetryTaskNode(n) PROVE TypeOK'
  BY <1>3, SameRunIds DEF RetryTaskNode, MissionStatuses, TaskStatuses
<1>4. ASSUME NEW n \in Nodes, ResolveHumanGate(n) PROVE TypeOK'
  <2>1. node' \in [Nodes -> TaskStatuses]
    BY <1>4 DEF ResolveHumanGate, TaskStatuses
  <2>3. rework' \in [Nodes -> Nat]
    <3>1. rework[n] + 1 \in Nat
      OBVIOUS
    <3>2. rework' = rework \/ rework' = [rework EXCEPT ![n] = rework[n] + 1]
      BY <1>4 DEF ResolveHumanGate
    <3> QED
      BY <3>1, <3>2
  <2>2. gate' \in [Nodes -> GateKinds \cup {"none"}] /\ mission' \in MissionStatuses
    BY <1>4 DEF ResolveHumanGate, MissionStatuses
  <2> QED
    BY <1>4, <2>1, <2>2, <2>3, SameRunIds DEF ResolveHumanGate
<1> QED
  BY <1>1, <1>2, <1>3, <1>4 DEF OwnerStep

\* The calls to the gateway keep the types.
LEMMA GatewayTypes ==
    ASSUME TypeOK, Gateway
    PROVE  TypeOK'
<1> USE DEF TypeOK, DataOK, CallsOK, BoundsOK
<1>1. PICK r \in RunIds : BeginEnqueue(r) \/ FinishEnqueue(r) \/ CancelExecution(r)
  BY DEF Gateway
<1>2. Run(r) \in Runs
  BY RunType DEF RunTable
<1>3. /\ [Run(r) EXCEPT !.task = "queued"] \in Runs
      /\ [Run(r) EXCEPT !.task = "cancelled"] \in Runs
  BY <1>2 DEF Runs, AgentTaskStatuses, LiveTask
<1>4. CASE BeginEnqueue(r)
  BY <1>4, SameRunIds DEF BeginEnqueue, db, bounds
<1>5. CASE FinishEnqueue(r)
  <2>1. runs' \in [Nodes -> [Duties -> Seq(Runs)]] /\ RunIds \subseteq RunIds'
    BY <1>3, <1>5, SetRunTypes DEF FinishEnqueue
  <2> QED
    BY <1>5, <2>1 DEF FinishEnqueue, bounds
<1>6. CASE CancelExecution(r)
  <2>1. runs' \in [Nodes -> [Duties -> Seq(Runs)]] /\ RunIds \subseteq RunIds'
    BY <1>3, <1>6, SetRunTypes, SameRunIds DEF CancelExecution
  <2> QED
    BY <1>6, <2>1 DEF CancelExecution, bounds
<1> QED
  BY <1>1, <1>4, <1>5, <1>6

\* What daemons, sweepers and users do to a task keeps the types.
LEMMA ExecutionTypes ==
    ASSUME TypeOK, NEW r \in RunIds, ExecutionPlane(r)
    PROVE  TypeOK'
<1> USE DEF TypeOK, DataOK, CallsOK, BoundsOK
<1>1. ASSUME NEW from, NEW to \in AgentTaskStatuses, SetTask(r, from, to), halts' \in Nat
      PROVE  TypeOK'
  <2>1. [Run(r) EXCEPT !.task = to] \in Runs
    BY RunType DEF RunTable, Runs
  <2>2. runs' \in [Nodes -> [Duties -> Seq(Runs)]] /\ RunIds \subseteq RunIds'
    BY <1>1, <2>1, SetRunTypes DEF SetTask
  <2> QED
    BY <1>1, <2>2 DEF SetTask, calls
<1>2. LiveTask \cup {"completed", "failed", "cancelled"} \subseteq AgentTaskStatuses
  BY DEF AgentTaskStatuses
<1> QED
  BY <1>1, <1>2
     DEF ExecutionPlane, ClaimTask, RequeueTask, StartTask, CompleteTask, FailTask, HaltTask, LiveTask

\* Crashes and lost calls keep the types.
LEMMA FaultTypes ==
    ASSUME TypeOK, Crash \/ LoseCall
    PROVE  TypeOK'
<1> USE DEF TypeOK, DataOK, CallsOK, BoundsOK
<1>1. RunIds' = RunIds /\ DataOK'
  BY SameRunIds DEF Crash, LoseCall, db
<1>2. CASE Crash
  <2>1. CallsOK'
    BY <1>2 DEF Crash
  <2>2. BoundsOK'
    BY <1>2 DEF Crash
  <2> QED
    BY <1>1, <2>1, <2>2
<1>3. CASE LoseCall
  <2>1. CallsOK'
    BY <1>1, <1>3 DEF LoseCall
  <2>2. BoundsOK'
    BY <1>3 DEF LoseCall
  <2> QED
    BY <1>1, <2>1, <2>2
<1> QED
  BY <1>2, <1>3

\* Every observation of the reconciler keeps the types.
LEMMA ReconcileTypes ==
    ASSUME TypeOK, NEW r \in RunIds, ReconcileRun(r)
    PROVE  TypeOK'
<1> USE DEF TypeOK, DataOK, CallsOK, BoundsOK
<1>1. /\ r[1] \in Nodes /\ r[2] \in Duties
      /\ Run(r) \in Runs
  BY RunIdParts, RunType DEF RunTable
<1>2. \A st \in {"dispatched", "running", "succeeded", "cancelled"} :
        [Run(r) EXCEPT !.st = st] \in Runs
  BY <1>1 DEF Runs, RunStatuses, LiveRun
<1>3. \A kind \in FailureKinds : [Run(r) EXCEPT !.st = "failed", !.kind = kind] \in Runs
  BY <1>1 DEF Runs, RunStatuses
<1>4. \A verdict \in Decisions : [Run(r) EXCEPT !.st = "succeeded", !.verdict = verdict] \in Runs
  BY <1>1 DEF Runs, RunStatuses
<1>5. ASSUME NEW new \in Runs, runs' = SetRun(r, new)
      PROVE  runs' \in [Nodes -> [Duties -> Seq(Runs)]] /\ RunIds \subseteq RunIds'
  BY <1>5, SetRunTypes
<1>6. ASSUME NEW cancel, Followup(r, cancel)
      PROVE  advanceDue' \in BOOLEAN /\ cancelDue' \subseteq RunIds
  BY <1>6 DEF Followup
<1>7. NodeBackToAssigned(r[1]) \in [Nodes -> TaskStatuses]
  BY DEF NodeBackToAssigned, TaskStatuses
<1>8. CASE ReconcileTerminalRun(r)
  BY <1>8, SameRunIds DEF ReconcileTerminalRun, db, bounds
<1>9. CASE CancelRunAndNode(r)
  <2>1. runs' \in [Nodes -> [Duties -> Seq(Runs)]] /\ RunIds \subseteq RunIds'
    BY <1>2, <1>5, <1>9 DEF CancelRunAndNode
  <2>2. node' \in [Nodes -> TaskStatuses]
    BY <1>9 DEF CancelRunAndNode, TaskStatuses
  <2>3. asg' \in [Nodes -> [Duties -> Seq(Assignments)]]
    BY <1>1, <1>9, RevokeType DEF CancelRunAndNode, AssignmentTable
  <2> QED
    BY <1>6, <1>9, <2>1, <2>2, <2>3 DEF CancelRunAndNode, bounds
<1>10. CASE ReconcileDispatchTimeout(r) \/ ReconcileInvalidReceipt(r)
  <2>1. runs' \in [Nodes -> [Duties -> Seq(Runs)]] /\ RunIds \subseteq RunIds'
    BY <1>3, <1>5, <1>10 DEF ReconcileDispatchTimeout, ReconcileInvalidReceipt, FailRun, FailureKinds
  <2> QED
    BY <1>6, <1>10, <2>1 DEF ReconcileDispatchTimeout, ReconcileInvalidReceipt, FailRun, bounds
<1>11. CASE ReconcileTimeout(r) \/ ReconcileTaskFailed(r)
  <2>1. runs' \in [Nodes -> [Duties -> Seq(Runs)]] /\ RunIds \subseteq RunIds'
    BY <1>3, <1>5, <1>11 DEF ReconcileTimeout, ReconcileTaskFailed, FailRun, FailureKinds
  <2> QED
    BY <1>6, <1>7, <1>11, <2>1 DEF ReconcileTimeout, ReconcileTaskFailed, FailRun, bounds
<1>12. CASE ReconcileDispatched(r)
  <2>1. runs' \in [Nodes -> [Duties -> Seq(Runs)]] /\ RunIds \subseteq RunIds'
    BY <1>2, <1>5, <1>12 DEF ReconcileDispatched
  <2> QED
    BY <1>12, <2>1 DEF ReconcileDispatched, bounds
<1>13. CASE ReconcileRunning(r)
  <2>1. runs' \in [Nodes -> [Duties -> Seq(Runs)]] /\ RunIds \subseteq RunIds'
    BY <1>2, <1>5, <1>13 DEF ReconcileRunning
  <2> QED
    BY <1>13, <2>1 DEF ReconcileRunning, bounds, TaskStatuses
<1>14. CASE ReconcileDelivered(r)
  <2>1. runs' \in [Nodes -> [Duties -> Seq(Runs)]] /\ RunIds \subseteq RunIds'
    BY <1>2, <1>5, <1>14 DEF ReconcileDelivered
  <2> QED
    BY <1>14, <2>1 DEF ReconcileDelivered, bounds, TaskStatuses
<1>15. ASSUME NEW decision \in Decisions, ReconcileVerdict(r, decision)
       PROVE  TypeOK'
  <2>1. runs' \in [Nodes -> [Duties -> Seq(Runs)]] /\ RunIds \subseteq RunIds'
    BY <1>4, <1>5, <1>15 DEF ReconcileVerdict
  <2>2. VerdictStatus(r[1], decision) \in TaskStatuses
    BY <1>1, <1>15, LimitsAssumption DEF VerdictStatus, TaskStatuses, Decisions
  <2>3. node' \in [Nodes -> TaskStatuses]
    BY <1>15, <2>2 DEF ReconcileVerdict
  <2>7. rework' \in [Nodes -> Nat]
    <3>1. rework[r[1]] \in Nat /\ rework[r[1]] + 1 \in Nat
      BY <1>1
    <3> QED
      BY <1>15, <3>1 DEF ReconcileVerdict
  <2>4. gate' \in [Nodes -> GateKinds \cup {"none"}]
    BY <1>15 DEF ReconcileVerdict, GateKinds
  <2>5. \A d \in Duties : \A st \in {"fulfilled", "superseded"} :
          EndActive(asg[r[1]][d], st) \in Seq(Assignments)
    BY <1>1, EndActiveType DEF AssignmentStatuses
  <2>6. asg' \in [Nodes -> [Duties -> Seq(Assignments)]]
    BY <1>1, <1>15, <2>5 DEF ReconcileVerdict
  <2> QED
    BY <1>15, <2>1, <2>3, <2>4, <2>6, <2>7 DEF ReconcileVerdict, bounds
<1> QED
  BY <1>8, <1>9, <1>10, <1>11, <1>12, <1>13, <1>14, <1>15
     DEF ReconcileRun, ReconcileGivenUp, ReconcileTaskCancelled

\* Every reachable state is well typed: statuses stay in the sets that the
\* database checks, and every pending call names a run that exists.
THEOREM TypeCorrect == Spec => []TypeOK
<1>1. Init => TypeOK
  <2> SUFFICES ASSUME Init PROVE TypeOK
    OBVIOUS
  <2>1. <<>> \in Seq(Assignments) /\ <<>> \in Seq(Runs)
    BY EmptySeq
  <2>2. DataOK
    BY <2>1 DEF Init, DataOK, MissionStatuses, TaskStatuses
  <2> QED
    BY <2>2 DEF Init, TypeOK, CallsOK, BoundsOK
<1>2. TypeOK /\ [Next]_vars => TypeOK'
  <2> SUFFICES ASSUME TypeOK, [Next]_vars PROVE TypeOK'
    OBVIOUS
  <2>1. CASE OwnerStep
    BY <2>1, OwnerTypes
  <2>2. CASE AdvanceMission
    <3>1. PICK pick \in Routings(AfterPropagation(AfterFailures)) :
             \/ AdvanceCommits(AfterPropagation(AfterFailures),
                               Plan(AfterPropagation(AfterFailures), pick), pick)
             \/ AdvanceRejected(AfterPropagation(AfterFailures),
                                Plan(AfterPropagation(AfterFailures), pick))
      BY <2>2 DEF AdvanceMission
    <3>2. advanceDue' = FALSE
      BY <2>2 DEF AdvanceMission
    <3>3. CASE AdvanceCommits(AfterPropagation(AfterFailures),
                              Plan(AfterPropagation(AfterFailures), pick), pick)
      <4>1. DataOK' /\ RunIds \subseteq RunIds' /\ enqueueDue' \subseteq RunIds'
        BY <3>3, AdvanceTypes
      <4>2. UNCHANGED <<enqueueTx, cancelDue, ownerSteps, faults, halts>>
        BY <3>3 DEF AdvanceCommits, bounds
      <4> QED
        BY <3>2, <4>1, <4>2 DEF TypeOK, CallsOK, BoundsOK
    <3>4. CASE AdvanceRejected(AfterPropagation(AfterFailures),
                               Plan(AfterPropagation(AfterFailures), pick))
      BY <3>2, <3>4, SameRunIds DEF AdvanceRejected, db, bounds, TypeOK, DataOK, CallsOK, BoundsOK
    <3> QED
      BY <3>1, <3>3, <3>4
  <2>3. CASE AdvanceIgnored
    BY <2>3, SameRunIds DEF AdvanceIgnored, db, bounds, TypeOK, DataOK, CallsOK, BoundsOK
  <2>4. CASE Gateway
    BY <2>4, GatewayTypes
  <2>5. CASE \E r \in RunIds : ReconcileRun(r)
    BY <2>5, ReconcileTypes
  <2>6. CASE \E r \in RunIds : ExecutionPlane(r)
    BY <2>6, ExecutionTypes
  <2>7. CASE Crash \/ LoseCall
    BY <2>7, FaultTypes
  <2>8. CASE UNCHANGED vars
    BY <2>8, SameRunIds DEF vars, db, calls, bounds, TypeOK, DataOK, CallsOK, BoundsOK
  <2> QED
    BY <2>1, <2>2, <2>3, <2>4, <2>5, <2>6, <2>7, <2>8 DEF Next
<1> QED
  BY <1>1, <1>2, PTL DEF Spec

-----------------------------------------------------------------------------
(* The dependency gate *)

\* How one step may change a node: a terminal node stays; a node that has not
\* passed its dependencies passes them only if they are completed, or by the
\* resolution of its gate.
NodeMoves(n) ==
    \/ node'[n] = node[n]
    \/ /\ node[n] \notin TerminalTask
       /\ \/ node'[n] \notin PastDependencies
          \/ node[n] \in PastDependencies
          \/ DepsCompleted(n)
          \/ gate[n] # "none"
\* A gate is opened for a node that has passed its dependencies.
GateMoves(n) ==
    gate'[n] # "none" => gate[n] # "none" \/ node[n] \in PastDependencies

\* The transaction of AdvanceMission moves nodes and gates that way.
LEMMA AdvanceMoves ==
    ASSUME TypeOK, AdvanceMission, NEW n \in Nodes
    PROVE  NodeMoves(n) /\ GateMoves(n)
<1> DEFINE st == AfterPropagation(AfterFailures)
<1>1. PICK pick \in Routings(st) :
         AdvanceCommits(st, Plan(st, pick), pick) \/ AdvanceRejected(st, Plan(st, pick))
  BY DEF AdvanceMission
<1>2. node \in [Nodes -> TaskStatuses] /\ gate \in [Nodes -> GateKinds \cup {"none"}]
  BY DEF TypeOK, DataOK
<1>3. AfterFailures \in [Nodes -> TaskStatuses] /\ st \in [Nodes -> TaskStatuses]
  BY <1>2, AfterFailuresEffect, AfterPropagationEffect
<1>4. \/ AfterFailures[n] = node[n]
      \/ node[n] \notin TerminalTask /\ AfterFailures[n] \in {"blocked", "failed"}
  BY <1>2, AfterFailuresEffect
<1>5. \A d \in Deps[n] : AfterFailures[d] = "completed" => node[d] = "completed"
  <2> SUFFICES ASSUME NEW d \in Deps[n], AfterFailures[d] = "completed" PROVE node[d] = "completed"
    OBVIOUS
  <2>1. d \in Nodes
    BY DepsAssumption
  <2> QED
    BY <1>2, <2>1, AfterFailuresEffect
<1>6. \/ st[n] = AfterFailures[n]
      \/ Waiting(AfterFailures, n) /\ st[n] = "ready" /\ DepsCompleted(n)
      \/ Waiting(AfterFailures, n) /\ st[n] = "blocked"
  BY <1>3, <1>5, AfterPropagationEffect DEF DepsCompleted
<1> HIDE DEF st
<1>7. CASE AdvanceCommits(st, Plan(st, pick), pick)
  <2>1. \/ node'[n] = st[n]
        \/ st[n] = "ready" /\ node'[n] \in {"assigned", "blocked"}
        \/ st[n] = "review" /\ node'[n] = "blocked"
    BY <1>3, <1>7, AfterPlanEffect DEF AdvanceCommits
  <2>2. NodeMoves(n)
    BY <1>4, <1>6, <2>1 DEF NodeMoves, Waiting, TerminalTask, PastDependencies
  <2>3. gate'[n] = gate[n] \/ st[n] = "review"
    BY <1>7, PlanShape DEF AdvanceCommits
  <2>4. GateMoves(n)
    BY <1>4, <1>6, <2>3 DEF GateMoves, Waiting, PastDependencies
  <2> QED
    BY <2>2, <2>4
<1>8. CASE AdvanceRejected(st, Plan(st, pick))
  BY <1>8 DEF AdvanceRejected, db, NodeMoves, GateMoves
<1> QED
  BY <1>1, <1>7, <1>8

\* An observation of the reconciler moves nodes and gates that way.
LEMMA ReconcileMoves ==
    ASSUME TypeOK, NEW r \in RunIds, ReconcileRun(r), NEW n \in Nodes
    PROVE  NodeMoves(n) /\ GateMoves(n)
<1> USE DEF NodeMoves, GateMoves, PastDependencies, TerminalTask
<1>1. node \in [Nodes -> TaskStatuses] /\ gate \in [Nodes -> GateKinds \cup {"none"}]
  BY DEF TypeOK, DataOK
<1>2. CASE ReconcileTerminalRun(r)
  BY <1>2 DEF ReconcileTerminalRun, db
<1>3. CASE CancelRunAndNode(r)
  BY <1>1, <1>3 DEF CancelRunAndNode
<1>4. CASE ReconcileDispatchTimeout(r) \/ ReconcileInvalidReceipt(r) \/ ReconcileDispatched(r)
  BY <1>4 DEF ReconcileDispatchTimeout, ReconcileInvalidReceipt, ReconcileDispatched
<1>5. CASE ReconcileTimeout(r) \/ ReconcileTaskFailed(r)
  BY <1>1, <1>5 DEF ReconcileTimeout, ReconcileTaskFailed, NodeBackToAssigned
<1>6. CASE ReconcileRunning(r)
  BY <1>1, <1>6 DEF ReconcileRunning
<1>7. CASE ReconcileDelivered(r)
  BY <1>1, <1>7 DEF ReconcileDelivered
<1>8. ASSUME NEW decision \in Decisions, ReconcileVerdict(r, decision)
      PROVE  NodeMoves(n) /\ GateMoves(n)
  BY <1>1, <1>8 DEF ReconcileVerdict
<1> QED
  BY <1>2, <1>3, <1>4, <1>5, <1>6, <1>7, <1>8
     DEF ReconcileRun, ReconcileGivenUp, ReconcileTaskCancelled

\* Every step moves nodes and gates that way.
LEMMA StepMoves ==
    ASSUME TypeOK, [Next]_vars, NEW n \in Nodes
    PROVE  NodeMoves(n) /\ GateMoves(n)
<1>1. node \in [Nodes -> TaskStatuses] /\ gate \in [Nodes -> GateKinds \cup {"none"}]
  BY DEF TypeOK, DataOK
<1>2. CASE StartMission
  BY <1>2 DEF StartMission, InitiallyReady, NodeMoves, GateMoves, TerminalTask
<1>3. CASE CancelMission
  BY <1>3 DEF CancelMission, NodeMoves, GateMoves, PastDependencies
<1>4. ASSUME NEW m \in Nodes, RetryTaskNode(m)
      PROVE  NodeMoves(n) /\ GateMoves(n)
  BY <1>1, <1>4 DEF RetryTaskNode, NodeMoves, GateMoves, PastDependencies, TerminalTask
<1>5. ASSUME NEW m \in Nodes, ResolveHumanGate(m)
      PROVE  NodeMoves(n) /\ GateMoves(n)
  BY <1>1, <1>5 DEF ResolveHumanGate, NodeMoves, GateMoves, TerminalTask
<1>6. CASE AdvanceMission
  BY <1>6, AdvanceMoves
<1>7. CASE AdvanceIgnored \/ Gateway \/ Crash \/ LoseCall \/ UNCHANGED vars
  BY <1>7 DEF AdvanceIgnored, Gateway, BeginEnqueue, FinishEnqueue, CancelExecution, Crash, LoseCall,
              vars, db, NodeMoves, GateMoves
<1>8. CASE \E r \in RunIds : ReconcileRun(r)
  BY <1>8, ReconcileMoves
<1>9. CASE \E r \in RunIds : ExecutionPlane(r)
  BY <1>9 DEF ExecutionPlane, ClaimTask, RequeueTask, StartTask, CompleteTask, FailTask, HaltTask,
              SetTask, NodeMoves, GateMoves
<1> QED
  BY <1>2, <1>3, <1>4, <1>5, <1>6, <1>7, <1>8, <1>9 DEF Next, OwnerStep

\* DependencyGate is not inductive: resolving a gate returns a blocked node to
\* review or rework.  A gate is only ever opened past the dependencies.
DependencyInv ==
    /\ DependencyGate
    /\ \A n \in Nodes : gate[n] # "none" => DepsCompleted(n)

\* DependencyInv is inductive: completed nodes stay completed, and a node or gate
\* moves only as StepMoves says.
LEMMA DependencyHolds == Spec => []DependencyInv
<1>1. Init => DependencyInv
  BY DEF Init, DependencyInv, DependencyGate, PastDependencies
<1>2. TypeOK /\ DependencyInv /\ [Next]_vars => DependencyInv'
  <2> SUFFICES ASSUME TypeOK, DependencyInv, [Next]_vars PROVE DependencyInv'
    OBVIOUS
  <2>1. \A n \in Nodes : node[n] = "completed" => node'[n] = "completed"
    BY StepMoves DEF NodeMoves, TerminalTask
  <2>2. \A n \in Nodes : DepsCompleted(n) => DepsCompleted(n)'
    <3> SUFFICES ASSUME NEW n \in Nodes, DepsCompleted(n), NEW d \in Deps[n]
                 PROVE  node'[d] = "completed"
      BY DEF DepsCompleted
    <3>1. d \in Nodes
      BY DepsAssumption
    <3> QED
      BY <2>1, <3>1 DEF DepsCompleted
  <2>3. DependencyGate'
    BY <2>2, StepMoves DEF DependencyInv, DependencyGate, NodeMoves
  <2>4. \A n \in Nodes : gate'[n] # "none" => DepsCompleted(n)'
    BY <2>2, StepMoves DEF DependencyInv, DependencyGate, GateMoves
  <2> QED
    BY <2>3, <2>4 DEF DependencyInv
<1> QED
  BY <1>1, <1>2, TypeCorrect, PTL DEF Spec

\* In every reachable state a node that is past "pending" has all its
\* dependencies completed (AdvanceMission phase 2, StartMission), for every plan,
\* every order of commands and observations and every loss of calls.
THEOREM DependencySafe == Spec => []DependencyGate
<1>1. DependencyInv => DependencyGate
  BY DEF DependencyInv
<1> QED
  BY <1>1, DependencyHolds, PTL

-----------------------------------------------------------------------------
(* What is terminal stays *)

\* The outcome of a run that has one: status and verdict.
OutcomeStays(r) ==
    Run(r).st \notin LiveRun => Run(r)'.st = Run(r).st /\ Run(r)'.verdict = Run(r).verdict

\* SetRun changes the run it names and no other.
LEMMA SetRunValue ==
    ASSUME runs \in RunTable, NEW r \in RunIds, NEW s \in RunIds, NEW new
    PROVE  SetRun(s, new)[r[1]][r[2]][r[3]] = IF r = s THEN new ELSE Run(r)
<1>1. /\ r[1] \in Nodes /\ r[2] \in Duties /\ r[3] \in DOMAIN runs[r[1]][r[2]]
      /\ r = <<r[1], r[2], r[3]>>
  BY RunIdParts
<1>2. /\ s[1] \in Nodes /\ s[2] \in Duties /\ s[3] \in DOMAIN runs[s[1]][s[2]]
      /\ s = <<s[1], s[2], s[3]>>
  BY RunIdParts
<1>3. runs[r[1]][r[2]] \in [1..Len(runs[r[1]][r[2]]) -> Runs]
  BY <1>1, LenProperties DEF RunTable
<1>4. CASE r = s
  BY <1>1, <1>3, <1>4 DEF SetRun, RunTable
<1>5. CASE r # s
  <2>1. r[1] # s[1] \/ r[2] # s[2] \/ r[3] # s[3]
    BY <1>1, <1>2, <1>5
  <2> QED
    BY <1>1, <1>2, <1>3, <1>5, <2>1 DEF SetRun, RunTable, Run
<1> QED
  BY <1>4, <1>5

\* A step that replaces a live run, or that keeps the outcome of the run it
\* replaces, keeps every outcome.
LEMMA OutcomeKept ==
    ASSUME TypeOK, NEW r \in RunIds, NEW s \in RunIds, NEW new, runs' = SetRun(s, new),
           Run(s).st \in LiveRun \/ (new.st = Run(s).st /\ new.verdict = Run(s).verdict)
    PROVE  OutcomeStays(r)
<1>1. runs \in RunTable
  BY DEF TypeOK, DataOK, RunTable
<1>2. Run(r)' = IF r = s THEN new ELSE Run(r)
  BY <1>1, SetRunValue DEF Run
<1> QED
  BY <1>2 DEF OutcomeStays

\* The gateway and the execution plane only write the task of a run.
LEMMA TaskKept ==
    ASSUME TypeOK, NEW r \in RunIds, NEW s \in RunIds, NEW task,
           runs' = SetRun(s, [Run(s) EXCEPT !.task = task])
    PROVE  OutcomeStays(r)
<1>1. Run(s) \in Runs
  BY RunType DEF RunTable, TypeOK, DataOK
<1>2. /\ [Run(s) EXCEPT !.task = task].st = Run(s).st
      /\ [Run(s) EXCEPT !.task = task].verdict = Run(s).verdict
  BY <1>1 DEF Runs
<1> QED
  BY <1>2, OutcomeKept

\* Runs that do not change keep their outcome.
LEMMA SameRunsKept ==
    ASSUME UNCHANGED runs, NEW r \in RunIds
    PROVE  OutcomeStays(r)
BY DEF OutcomeStays, Run

\* Advance appends runs: those that exist stay as they are.
LEMMA AdvanceKeeps ==
    ASSUME TypeOK, AdvanceMission, NEW r \in RunIds
    PROVE  OutcomeStays(r)
<1> DEFINE st == AfterPropagation(AfterFailures)
<1>1. PICK pick \in Routings(st) :
         AdvanceCommits(st, Plan(st, pick), pick) \/ AdvanceRejected(st, Plan(st, pick))
  BY DEF AdvanceMission
<1> HIDE DEF st
<1>2. CASE AdvanceCommits(st, Plan(st, pick), pick)
  <2>1. runs \in RunTable /\ asg \in AssignmentTable
    BY DEF TypeOK, DataOK, RunTable, AssignmentTable
  <2>2. r[1] \in Nodes /\ r[2] \in Duties /\ r[3] \in DOMAIN runs[r[1]][r[2]]
    BY RunIdParts
  <2>3. runs'[r[1]][r[2]] = RunsAfter(r[1], r[2], Plan(st, pick))
    BY <1>2, <2>2 DEF AdvanceCommits
  <2>4. runs[r[1]][r[2]] \in Seq(Runs)
    BY <2>1, <2>2 DEF RunTable
  <2>5. \/ runs'[r[1]][r[2]] = runs[r[1]][r[2]]
        \/ \E run \in Runs : runs'[r[1]][r[2]] = Append(runs[r[1]][r[2]], run)
    BY <2>1, <2>2, <2>3, RunsAfterType
  <2>6. r[3] \in 1..Len(runs[r[1]][r[2]])
    BY <2>2, <2>4, LenProperties
  <2>7. runs'[r[1]][r[2]][r[3]] = runs[r[1]][r[2]][r[3]]
    BY <2>4, <2>5, <2>6
  <2> QED
    BY <2>7 DEF OutcomeStays, Run
<1>3. CASE AdvanceRejected(st, Plan(st, pick))
  BY <1>3, SameRunsKept DEF AdvanceRejected, db
<1> QED
  BY <1>1, <1>2, <1>3

\* The reconciler writes an outcome to a live run only.
LEMMA ReconcileKeeps ==
    ASSUME TypeOK, NEW s \in RunIds, ReconcileRun(s), NEW r \in RunIds
    PROVE  OutcomeStays(r)
<1>1. CASE ReconcileTerminalRun(s)
  BY <1>1, SameRunsKept DEF ReconcileTerminalRun, db
<1>2. CASE ReconcileGivenUp(s) \/ ReconcileTaskCancelled(s)
  BY <1>2, OutcomeKept DEF ReconcileGivenUp, ReconcileTaskCancelled, CancelRunAndNode, Observable
<1>3. CASE ReconcileDispatchTimeout(s) \/ ReconcileTimeout(s) \/ ReconcileTaskFailed(s) \/ ReconcileInvalidReceipt(s)
  BY <1>3, OutcomeKept DEF ReconcileDispatchTimeout, ReconcileTimeout, ReconcileTaskFailed,
                           ReconcileInvalidReceipt, FailRun, Observable
<1>4. CASE ReconcileDispatched(s) \/ ReconcileRunning(s) \/ ReconcileDelivered(s)
  BY <1>4, OutcomeKept DEF ReconcileDispatched, ReconcileRunning, ReconcileDelivered, Observable
<1>5. CASE \E decision \in Decisions : ReconcileVerdict(s, decision)
  BY <1>5, OutcomeKept DEF ReconcileVerdict, Observable
<1> QED
  BY <1>1, <1>2, <1>3, <1>4, <1>5 DEF ReconcileRun

\* Every step keeps the outcomes of the runs.
LEMMA StepKeeps ==
    ASSUME TypeOK, [Next]_vars, NEW r \in RunIds
    PROVE  OutcomeStays(r)
<1>1. CASE OwnerStep \/ AdvanceIgnored \/ Crash \/ LoseCall \/ UNCHANGED vars
  BY <1>1, SameRunsKept
     DEF OwnerStep, StartMission, CancelMission, RetryTaskNode, ResolveHumanGate, AdvanceIgnored,
         Crash, LoseCall, vars, db
<1>2. CASE AdvanceMission
  BY <1>2, AdvanceKeeps
<1>3. CASE Gateway
  <2>1. PICK s \in RunIds : BeginEnqueue(s) \/ FinishEnqueue(s) \/ CancelExecution(s)
    BY <1>3 DEF Gateway
  <2> QED
    BY <2>1, SameRunsKept, TaskKept DEF BeginEnqueue, FinishEnqueue, CancelExecution, db
<1>4. CASE \E s \in RunIds : ReconcileRun(s)
  BY <1>4, ReconcileKeeps
<1>5. CASE \E s \in RunIds : ExecutionPlane(s)
  BY <1>5, TaskKept
     DEF ExecutionPlane, ClaimTask, RequeueTask, StartTask, CompleteTask, FailTask, HaltTask, SetTask
<1> QED
  BY <1>1, <1>2, <1>3, <1>4, <1>5 DEF Next

\* The mission, a node or a run that has an outcome keeps it: no command,
\* observation, verdict or Advance that comes late writes another one
\* (the status guards of the transactions and of AdvanceMission).
THEOREM TerminalStays == Spec => TerminalIsFinal
<1>1. TypeOK /\ [Next]_vars =>
        /\ mission \in TerminalMission => mission' = mission
        /\ \A n \in Nodes : node[n] \in TerminalTask => node'[n] = node[n]
        /\ \A r \in RunIds : OutcomeStays(r)
  <2> SUFFICES ASSUME TypeOK, [Next]_vars
               PROVE  /\ mission \in TerminalMission => mission' = mission
                      /\ \A n \in Nodes : node[n] \in TerminalTask => node'[n] = node[n]
                      /\ \A r \in RunIds : OutcomeStays(r)
    OBVIOUS
  <2>1. mission \in TerminalMission => mission' = mission
    BY DEF Next, vars, db, TerminalMission, OwnerStep, StartMission, CancelMission, RetryTaskNode,
           ResolveHumanGate, AdvanceMission, AdvanceIgnored, Gateway, BeginEnqueue, FinishEnqueue,
           CancelExecution, ReconcileRun, ReconcileTerminalRun, ReconcileGivenUp, ReconcileTaskCancelled,
           CancelRunAndNode, ReconcileDispatchTimeout, ReconcileTimeout, ReconcileDispatched,
           ReconcileRunning, ReconcileTaskFailed, ReconcileInvalidReceipt, ReconcileDelivered,
           ReconcileVerdict, ExecutionPlane, ClaimTask, RequeueTask, StartTask, CompleteTask, FailTask,
           HaltTask, SetTask, Crash, LoseCall
  <2>2. \A n \in Nodes : node[n] \in TerminalTask => node'[n] = node[n]
    BY StepMoves DEF NodeMoves
  <2> QED
    BY <2>1, <2>2, StepKeeps
<1>2. TypeOK /\ [Next]_vars =>
        [/\ mission \in TerminalMission => mission' = mission
         /\ \A n \in Nodes : node[n] \in TerminalTask => node'[n] = node[n]
         /\ \A r \in RunIds : Run(r).st \notin LiveRun =>
              Run(r)'.st = Run(r).st /\ Run(r)'.verdict = Run(r).verdict]_vars
  BY <1>1 DEF OutcomeStays
<1> QED
  BY <1>2, TypeCorrect, PTL DEF Spec, TerminalIsFinal
=============================================================================
