-------------------------- MODULE PlanningProofs --------------------------
(***************************************************************************)
(* Proofs about Planning, for every number of owners, rounds, versions,    *)
(* attempts and units of work.                                             *)
(*                                                                         *)
(* A round's assignment is decided once: rejected rounds are revoked, the  *)
(* round of the accepted plan is fulfilled.  On a draft every round that   *)
(* still works is assigned, and the next round waits for the last one to   *)
(* be decided.                                                             *)
(***************************************************************************)
EXTENDS Planning, SequenceTheorems, TLAPS

\* The tables as sequences, and work that is left while the mission runs.
Shapes ==
    /\ planners \in Seq(Rounds)
    /\ proposals \in Seq(Nat)
    /\ plan \in [kind : {"none", "proposal", "template"}, version : Nat]
    /\ page \in [Owners -> [revision : Nat, latest : Nat]]
    /\ mission \in {"draft", "ready", "running"} => done < Work

\* On a draft, a planner at work is assigned.
DraftAssigned == mission = "draft" => LiveRounds \subseteq ActiveRounds

\* Only the newest round is undecided.
NewestActive == ActiveRounds \subseteq {Len(planners)}

\* How a round was decided, from the versions of it.
RejectedRevoked == \A v \in rejected : planners[proposals[v]].asg = "revoked"
AcceptedFulfilled ==
    plan.kind = "proposal" => planners[proposals[plan.version]].asg = "fulfilled"

Types == TypeOK /\ Shapes
Inv == Types /\ OnePlanner /\ DraftAssigned /\ NewestActive
       /\ RejectedRevoked /\ AcceptedFulfilled

USE BoundsAssumption
-----------------------------------------------------------------------------
(* What a reconciliation sees                                              *)

\* An observation that differs from the run's status is one of the facts, or a
\* deadline or a cancellation (normalizeRunObservation).
LEMMA ObservedValues ==
    ASSUME NEW p \in Rounds, Observed(p).run # p.run
    PROVE  Observed(p) \in
             {Saw("dispatched", "none"), Saw("running", "none"), Saw("succeeded", "none"),
              Saw("failed", "final"), Saw("failed", "retryable"), Saw("cancelled", "none")}
<1>1. Fact(p).run # p.run => Fact(p) \in
        {Saw("dispatched", "none"), Saw("running", "none"), Saw("succeeded", "none"),
         Saw("failed", "final"), Saw("failed", "retryable"), Saw("cancelled", "none")}
  <2>1. CASE p.task \notin DOMAIN Facts
    BY <2>1 DEF Fact, Saw
  <2>2. CASE p.task \in DOMAIN Facts
    <3>1. DOMAIN Facts = {"dispatched", "running", "proposal", "rubbish", "broken", "failed",
                          "cancelled"}
      BY DEF Facts
    <3>2. Fact(p) = Facts[p.task]
      BY <2>2 DEF Fact
    <3> QED
      BY <2>2, <3>1, <3>2 DEF Facts
  <2> QED
    BY <2>1, <2>2
<1> QED
  BY <1>1 DEF Observed

\* The observation a reconciliation writes, as a status and a failure.
LEMMA ObservedRun ==
    ASSUME NEW p \in Rounds, Observed(p).run # p.run
    PROVE  /\ Observed(p).run \in {"dispatched", "running", "succeeded", "failed", "cancelled"}
           /\ Observed(p).failure \in {"none", "retryable", "final"}
           /\ Observed(p).run = "failed" <=> Observed(p).failure # "none"
BY ObservedValues DEF Saw

-----------------------------------------------------------------------------
(* The rounds                                                              *)

\* What a round looks like to the others: how it was decided, whether it works,
\* whether it has succeeded.
SameRound(p, q) ==
    /\ q.asg = p.asg
    /\ q.run \in LiveRun => p.run \in LiveRun
    /\ p.run = "succeeded" => q.run = "succeeded"

\* A step of a planner's run or task (EnqueueOrchestrationRun, ReconcileRun and the
\* daemon), with the version that a success brings.
LEMMA RoundStep ==
    ASSUME Inv, NEW k \in DOMAIN planners, NEW p \in Rounds,
           SameRound(planners[k], p), p.run = "failed" <=> p.failure # "none",
           planners' = [planners EXCEPT ![k] = p],
           \/ UNCHANGED proposals
           \/ proposals' = Append(proposals, k) /\ p.run = "succeeded",
           UNCHANGED <<mission, revision, plan, rejected, pages, done>>
    PROVE  Inv'
<1> USE DEF Inv, Types, Shapes
<1>0. /\ DOMAIN planners = 1 .. Len(planners) /\ Len(planners) \in Nat
      /\ \A j \in DOMAIN planners : planners[j] \in Rounds
      /\ k \in Nat
  BY LenProperties, ElementOfSeq
<1>1. /\ planners' \in Seq(Rounds) /\ Len(planners') = Len(planners)
      /\ DOMAIN planners' = DOMAIN planners
      /\ planners'[k] = p
      /\ \A j \in DOMAIN planners : j # k => planners'[j] = planners[j]
  BY <1>0, ExceptSeq
<1>2. \A j \in DOMAIN planners : SameRound(planners[j], planners'[j])
  BY <1>1 DEF SameRound
<1>3. /\ proposals' \in Seq(Nat) /\ Len(proposals') \in Nat
      /\ Len(proposals) \in Nat /\ Len(proposals) <= Len(proposals')
      /\ \A v \in 1 .. Len(proposals) : proposals'[v] = proposals[v]
      /\ \A v \in 1 .. Len(proposals') :
            proposals'[v] \in DOMAIN planners /\ planners'[proposals'[v]].run = "succeeded"
  <2>1. CASE UNCHANGED proposals
    BY <1>1, <1>2, <2>1, LenProperties DEF TypeOK, Versions, SameRound
  <2>2. CASE proposals' = Append(proposals, k) /\ p.run = "succeeded"
    <3>1. /\ proposals' \in Seq(Nat) /\ Len(proposals') = Len(proposals) + 1
          /\ Len(proposals) \in Nat
          /\ \A v \in 1 .. Len(proposals) : proposals'[v] = proposals[v]
          /\ proposals'[Len(proposals) + 1] = k
      BY <1>0, <2>2, AppendProperties, LenProperties
    <3> QED
      BY <1>1, <1>2, <2>2, <3>1 DEF TypeOK, Versions, SameRound
  <2> QED
    BY <2>1, <2>2
<1>4. /\ ActiveRounds' = ActiveRounds /\ LiveRounds' \subseteq LiveRounds
  BY <1>1, <1>2 DEF ActiveRounds, LiveRounds, SameRound
<1>5. TypeOK'
  BY <1>0, <1>1, <1>3 DEF TypeOK, Versions, pages
<1>6. OnePlanner' /\ DraftAssigned' /\ NewestActive'
  BY <1>1, <1>4 DEF OnePlanner, DraftAssigned, NewestActive
<1>7. RejectedRevoked' /\ AcceptedFulfilled'
  <2>1. \A v \in 1 .. Len(proposals) : planners'[proposals'[v]].asg = planners[proposals[v]].asg
    BY <1>2, <1>3 DEF TypeOK, Versions, SameRound
  <2>2. rejected \subseteq 1 .. Len(proposals) /\ rejected' = rejected
    BY DEF TypeOK, Versions
  <2>3. plan' = plan /\ (plan.kind = "proposal" => plan.version \in 1 .. Len(proposals))
    BY DEF TypeOK, Versions
  <2>4. RejectedRevoked'
    BY <2>1, <2>2 DEF RejectedRevoked
  <2>5. AcceptedFulfilled'
    BY <2>1, <2>3 DEF AcceptedFulfilled
  <2> QED
    BY <2>4, <2>5
<1> QED
  BY <1>1, <1>3, <1>5, <1>6, <1>7 DEF pages

\* RequestPlan: the next round.
LEMMA RequestStep ==
    ASSUME Inv, NEW o \in Owners, RequestPlan(o)
    PROVE  Inv'
<1> USE DEF Inv, Types, Shapes
<1>0. /\ DOMAIN planners = 1 .. Len(planners) /\ Len(planners) \in Nat
      /\ NewRound \in Rounds
  BY LenProperties DEF NewRound, Rounds, LiveRun
<1>1. /\ planners' \in Seq(Rounds) /\ Len(planners') = Len(planners) + 1
      /\ DOMAIN planners' = 1 .. Len(planners) + 1
      /\ planners'[Len(planners) + 1] = NewRound
      /\ \A j \in DOMAIN planners : planners'[j] = planners[j]
  BY <1>0, AppendProperties DEF RequestPlan
<1>2. ActiveRounds = {} /\ LiveRounds = {}
  BY DEF RequestPlan, OnDraft, DraftAssigned
<1>3. ActiveRounds' \subseteq {Len(planners')} /\ LiveRounds' \subseteq ActiveRounds'
  <2>1. \A j \in DOMAIN planners' : j # Len(planners') => j \in DOMAIN planners
    BY <1>0, <1>1
  <2>2. \A j \in DOMAIN planners :
          planners'[j].asg # "active" /\ planners'[j].run \notin LiveRun
    BY <1>1, <1>2 DEF ActiveRounds, LiveRounds
  <2>3. planners'[Len(planners')].asg = "active"
    BY <1>1 DEF NewRound
  <2>4. \A j \in DOMAIN planners' :
          planners'[j].asg = "active" \/ planners'[j].run \in LiveRun => j = Len(planners')
    BY <2>1, <2>2
  <2> QED
    BY <2>3, <2>4 DEF ActiveRounds, LiveRounds
<1>4. TypeOK'
  BY <1>0, <1>1 DEF TypeOK, Versions, pages, RequestPlan, NewRound
<1>5. OnePlanner' /\ DraftAssigned' /\ NewestActive'
  BY <1>3 DEF OnePlanner, DraftAssigned, NewestActive
<1>6. RejectedRevoked' /\ AcceptedFulfilled'
  BY <1>0, <1>1 DEF RejectedRevoked, AcceptedFulfilled, TypeOK, Versions, RequestPlan
<1> QED
  BY <1>1, <1>4, <1>5, <1>6 DEF RequestPlan, pages

-----------------------------------------------------------------------------
(* The owners' decisions                                                   *)

\* Steps that leave the rounds, the versions and the decisions on them alone keep
\* what relates them.
LEMMA SameTables ==
    ASSUME Inv, UNCHANGED <<planners, proposals, rejected, plan>>,
           mission' = "draft" => mission = "draft"
    PROVE  /\ OnePlanner' /\ DraftAssigned' /\ NewestActive'
           /\ RejectedRevoked' /\ AcceptedFulfilled'
BY DEF Inv, OnePlanner, DraftAssigned, NewestActive, RejectedRevoked, AcceptedFulfilled,
       ActiveRounds, LiveRounds

\* What is true after the assignments of the rounds S have ended as st.
Ends(S, st) ==
    /\ planners' \in Seq(Rounds) /\ Len(planners') = Len(planners)
    /\ DOMAIN planners' = DOMAIN planners
    /\ \A j \in DOMAIN planners :
          /\ planners[j] \in Rounds /\ planners'[j] \in Rounds
          /\ planners'[j].run = planners[j].run
          /\ planners'[j].failure = planners[j].failure
          /\ planners'[j].asg = IF j \in S THEN st ELSE planners[j].asg
    /\ ActiveRounds' = ActiveRounds \ S
    /\ LiveRounds' = LiveRounds
    /\ OnePlanner' /\ NewestActive'
    /\ \A v \in rejected : planners'[proposals[v]].asg = "revoked"
    /\ plan.kind = "proposal" => planners'[proposals[plan.version]].asg = "fulfilled"

\* Assignments that end: the round of a decision, or all that are active.
LEMMA Decided ==
    ASSUME Inv, NEW S \in SUBSET ActiveRounds, NEW st \in {"revoked", "fulfilled"},
           planners' = [j \in DOMAIN planners |->
                          IF j \in S THEN [planners[j] EXCEPT !.asg = st] ELSE planners[j]]
    PROVE  Ends(S, st)
<1> USE DEF Inv, Types, Shapes
<1>0. /\ DOMAIN planners = 1 .. Len(planners) /\ Len(planners) \in Nat
      /\ \A j \in DOMAIN planners : planners[j] \in Rounds
  BY LenProperties, ElementOfSeq
<1>1. \A j \in DOMAIN planners :
        /\ planners'[j] \in Rounds
        /\ planners'[j].run = planners[j].run
        /\ planners'[j].failure = planners[j].failure
        /\ planners'[j].asg = IF j \in S THEN st ELSE planners[j].asg
  BY <1>0 DEF Rounds
<1>2. DOMAIN planners' = DOMAIN planners
  OBVIOUS
<1>3. planners' \in Seq(Rounds) /\ Len(planners') = Len(planners)
  <2>1. planners' = [j \in 1 .. Len(planners) |-> planners'[j]]
    BY <1>0
  <2>2. planners' \in Seq(Rounds)
    BY <1>0, <1>1, <2>1, IsASeq
  <2> QED
    BY <1>0, <1>2, <2>2, LenProperties
<1>4. ActiveRounds' = ActiveRounds \ S /\ LiveRounds' = LiveRounds
  BY <1>1, <1>2 DEF ActiveRounds, LiveRounds
<1>5. OnePlanner' /\ NewestActive'
  BY <1>3, <1>4 DEF OnePlanner, NewestActive
<1>6. \A j \in DOMAIN planners : planners[j].asg # "active" => planners'[j].asg = planners[j].asg
  BY <1>1 DEF ActiveRounds
<1>7. \A v \in rejected : planners'[proposals[v]].asg = "revoked"
  <2>1. \A v \in rejected : proposals[v] \in DOMAIN planners
    BY DEF TypeOK
  <2> QED
    BY <1>6, <2>1 DEF RejectedRevoked
<1>8. plan.kind = "proposal" => planners'[proposals[plan.version]].asg = "fulfilled"
  <2>1. plan.kind = "proposal" => proposals[plan.version] \in DOMAIN planners
    BY DEF TypeOK
  <2> QED
    BY <1>6, <2>1 DEF AcceptedFulfilled
<1> QED
  BY <1>0, <1>1, <1>2, <1>3, <1>4, <1>5, <1>7, <1>8 DEF Ends

\* The version that a decision names, and its round.
LEMMA OpenVersion ==
    ASSUME Inv, NEW v \in Versions, OpenRound(v), NEW st \in {"revoked", "fulfilled"}
    PROVE  /\ proposals[v] \in ActiveRounds
           /\ planners[proposals[v]].run = "succeeded"
           /\ proposals[v] \notin LiveRounds
           /\ EndRound(proposals[v], st) =
                [j \in DOMAIN planners |-> IF j \in {proposals[v]}
                    THEN [planners[j] EXCEPT !.asg = st] ELSE planners[j]]
<1>1. proposals[v] \in DOMAIN planners
  BY DEF Inv, Types, TypeOK
<1> QED
  BY <1>1 DEF OpenRound, ActiveRounds, LiveRounds, LiveRun, EndRound

\* RejectPlanProposal revokes the round of the version.
LEMMA RejectStep ==
    ASSUME Inv, NEW o \in Owners, NEW v \in Versions, RejectPlanProposal(o, v)
    PROVE  Inv'
<1> DEFINE k == proposals[v]
<1>0. /\ k \in ActiveRounds /\ k \notin LiveRounds
      /\ planners' = [j \in DOMAIN planners |-> IF j \in {k}
                        THEN [planners[j] EXCEPT !.asg = "revoked"] ELSE planners[j]]
  BY OpenVersion DEF RejectPlanProposal, Pending
<1> HIDE DEF k
<1>1. Ends({k}, "revoked")
  <2>1. {k} \in SUBSET ActiveRounds
    BY <1>0
  <2> QED
    BY <1>0, <2>1, Decided
<1>2. TypeOK'
  BY <1>1 DEF Ends, Inv, Types, TypeOK, Versions, RejectPlanProposal, pages
<1>3. Shapes'
  BY <1>1 DEF Ends, Inv, Types, Shapes, RejectPlanProposal, pages
<1>4. DraftAssigned'
  BY <1>0, <1>1 DEF Ends, Inv, DraftAssigned, RejectPlanProposal
<1>5. RejectedRevoked' /\ AcceptedFulfilled'
  <2>1. k \in DOMAIN planners /\ planners'[k].asg = "revoked"
    BY <1>0, <1>1 DEF Ends, ActiveRounds
  <2> QED
    BY <1>1, <2>1 DEF Ends, RejectedRevoked, AcceptedFulfilled, RejectPlanProposal, k
<1> QED
  BY <1>1, <1>2, <1>3, <1>4, <1>5 DEF Ends, Inv, Types

\* SubmitPlan with a source fulfills the round of the version.
LEMMA ApproveStep ==
    ASSUME Inv, NEW o \in Owners, NEW v \in Versions, ApprovePlanProposal(o, v)
    PROVE  Inv'
<1> DEFINE k == proposals[v]
<1>0. /\ k \in ActiveRounds
      /\ planners' = [j \in DOMAIN planners |-> IF j \in {k}
                        THEN [planners[j] EXCEPT !.asg = "fulfilled"] ELSE planners[j]]
  BY OpenVersion DEF ApprovePlanProposal
<1> HIDE DEF k
<1>1. Ends({k}, "fulfilled")
  <2>1. {k} \in SUBSET ActiveRounds
    BY <1>0
  <2> QED
    BY <1>0, <2>1, Decided
<1>2. /\ plan' = [kind |-> "proposal", version |-> v] /\ v \in 1 .. Len(proposals)
      /\ v \in Nat /\ mission' = "ready" /\ mission = "draft"
  BY DEF ApprovePlanProposal, OnDraft, Versions
<1>3. TypeOK'
  BY <1>1, <1>2 DEF Ends, Inv, Types, TypeOK, Versions, ApprovePlanProposal, pages, NoPlan
<1>4. Shapes'
  BY <1>1, <1>2 DEF Ends, Inv, Types, Shapes, ApprovePlanProposal, pages
<1>5. RejectedRevoked' /\ AcceptedFulfilled'
  <2>1. planners'[k].asg = "fulfilled"
    BY <1>0, <1>1 DEF Ends, ActiveRounds
  <2> QED
    BY <1>1, <1>2, <2>1 DEF Ends, RejectedRevoked, AcceptedFulfilled, ApprovePlanProposal, k
<1> QED
  BY <1>1, <1>2, <1>3, <1>4, <1>5 DEF Ends, Inv, Types, DraftAssigned

\* CancelMission revokes every round that is active.
LEMMA CancelStep ==
    ASSUME Inv, NEW o \in Owners, CancelMission(o)
    PROVE  Inv'
<1>1. Ends(ActiveRounds, "revoked")
  BY Decided DEF CancelMission
<1>2. TypeOK'
  BY <1>1 DEF Ends, Inv, Types, TypeOK, Versions, CancelMission, pages
<1>3. Shapes'
  BY <1>1 DEF Ends, Inv, Types, Shapes, CancelMission, pages
<1>4. RejectedRevoked' /\ AcceptedFulfilled' /\ DraftAssigned'
  BY <1>1 DEF Ends, RejectedRevoked, AcceptedFulfilled, DraftAssigned, CancelMission
<1> QED
  BY <1>1, <1>2, <1>3, <1>4 DEF Ends, Inv, Types

\* EditPlanProposal adds a version to a round that is neither rejected nor accepted.
LEMMA EditStep ==
    ASSUME Inv, NEW o \in Owners, NEW v \in Versions, EditPlanProposal(o, v)
    PROVE  Inv'
<1> USE DEF Inv, Types, Shapes
<1>1. /\ proposals' \in Seq(Nat) /\ Len(proposals') = Len(proposals) + 1
      /\ Len(proposals) \in Nat
      /\ \A w \in 1 .. Len(proposals) : proposals'[w] = proposals[w]
      /\ proposals'[Len(proposals) + 1] = proposals[v]
  <2>1. proposals[v] \in Nat
    BY ElementOfSeq DEF Versions
  <2> QED
    BY <2>1, AppendProperties, LenProperties DEF EditPlanProposal
<1>2. TypeOK'
  <2>0. Versions = 1 .. Len(proposals) /\ Versions' = 1 .. Len(proposals) + 1
    BY <1>1 DEF Versions
  <2>1. /\ Versions \subseteq Versions'
        /\ \A w \in Versions' : w \in Versions \/ proposals'[w] = proposals[v]
    <3> HIDE DEF Inv, Types, Shapes
    <3> QED
      BY <1>1, <2>0
  <2>2. \A w \in Versions' : /\ proposals'[w] \in DOMAIN planners
                            /\ planners[proposals'[w]].run = "succeeded"
    <3>1. \A w \in Versions : /\ proposals[w] \in DOMAIN planners
                             /\ planners[proposals[w]].run = "succeeded"
      BY DEF TypeOK
    <3>2. \A w \in Versions : proposals'[w] = proposals[w]
      BY <1>1, <2>0
    <3> HIDE DEF Inv, Types, Shapes
    <3> QED
      BY <2>1, <3>1, <3>2
  <2>3. \A u \in Owners : page[u].revision \in 0 .. revision + 1 /\ page[u].latest \in 0 .. Len(proposals')
    BY <1>1 DEF TypeOK
  <2>4. /\ revision' \in Nat \ {0} /\ quick \in 1 .. revision'
        /\ revision' = revision + 1
    BY DEF TypeOK, EditPlanProposal
  <2> QED
    BY <2>1, <2>2, <2>3, <2>4 DEF TypeOK, EditPlanProposal, pages
<1>3. RejectedRevoked' /\ AcceptedFulfilled'
  BY <1>1 DEF RejectedRevoked, AcceptedFulfilled, TypeOK, Versions, EditPlanProposal
<1> QED
  BY <1>1, <1>2, <1>3 DEF EditPlanProposal, pages, OnePlanner, DraftAssigned, NewestActive,
                          ActiveRounds, LiveRounds

\* A page is loaded; what it shows is not ahead of the tables.
LEMMA LoadStep ==
    ASSUME Inv, NEW o \in Owners, LoadPage(o)
    PROVE  Inv'
<1>1. Len(proposals) \in Nat /\ revision \in Nat
  BY LenProperties DEF Inv, Types, Shapes, TypeOK
<1>2. /\ page' \in [Owners -> [revision : Nat, latest : Nat]]
      /\ \A u \in Owners : /\ page'[u].revision \in 0 .. revision
                            /\ page'[u].latest \in 0 .. Len(proposals)
  BY <1>1 DEF LoadPage, Inv, Types, Shapes, TypeOK
<1>3. TypeOK' /\ Shapes'
  BY <1>2 DEF LoadPage, Inv, Types, Shapes, TypeOK, Versions
<1> QED
  BY <1>3, SameTables DEF LoadPage, Inv, Types

\* StartMission, QuickCreate's replay and Advance leave the planning tables.
LEMMA MissionStep ==
    ASSUME Inv, \/ \E o \in Owners : StartMission(o)
                \/ ReplayCreate \/ Advance
    PROVE  Inv'
<1>1. UNCHANGED <<planners, proposals, rejected, plan>> /\ (mission' = "draft" => mission = "draft")
  BY DEF StartMission, ReplayCreate, Advance
<1>2. CASE \E o \in Owners : StartMission(o)
  <2>1. /\ mission = "ready" /\ mission' = "running" /\ revision' = revision + 1
        /\ UNCHANGED <<page, quick, done>>
    BY <1>2 DEF StartMission, pages
  <2>2. /\ revision' \in Nat \ {0} /\ quick \in 1 .. revision'
        /\ \A o \in Owners : page[o].revision \in 0 .. revision'
    BY <2>1 DEF Inv, Types, TypeOK
  <2>3. TypeOK' /\ Shapes'
    BY <1>1, <2>1, <2>2 DEF Inv, Types, Shapes, TypeOK, Versions
  <2> QED
    BY <1>1, <2>3, SameTables DEF Inv, Types
<1>3. CASE ReplayCreate
  BY <1>1, <1>3, SameTables DEF ReplayCreate, Inv, Types, Shapes, TypeOK, Versions
<1>4. CASE Advance
  <2>1. /\ done' \in 0 .. Work /\ (mission' = "running" => done' < Work)
        /\ mission' \in {"running", "failed", "completed"} /\ mission = "running"
        /\ revision' \in {revision, revision + 1}
    BY <1>4 DEF Advance, Inv, Types, Shapes, TypeOK
  <2>2. /\ revision' \in Nat \ {0} /\ quick \in 1 .. revision'
        /\ \A o \in Owners : page[o].revision \in 0 .. revision'
    BY <2>1 DEF Inv, Types, TypeOK
  <2>3. TypeOK' /\ Shapes'
    BY <1>4, <2>1, <2>2 DEF Advance, pages, Inv, Types, Shapes, TypeOK, Versions
  <2> QED
    BY <1>1, <2>3, SameTables DEF Inv, Types
<1> QED
  BY <1>2, <1>3, <1>4

\* SubmitPlan without a source leaves the planner as it is.
LEMMA TemplateStep == ASSUME Inv, SubmitTemplate PROVE Inv'
<1>1. plan' = [kind |-> "template", version |-> 0] /\ mission = "draft" /\ mission' = "ready"
  BY DEF SubmitTemplate
<1>2. TypeOK' /\ Shapes'
  BY <1>1 DEF SubmitTemplate, pages, Inv, Types, Shapes, TypeOK, Versions, NoPlan
<1> QED
  BY <1>1, <1>2 DEF SubmitTemplate, Inv, Types, OnePlanner, DraftAssigned, NewestActive,
                    RejectedRevoked, AcceptedFulfilled, ActiveRounds, LiveRounds

-----------------------------------------------------------------------------
(* The planner                                                             *)

\* A step of a planner's task leaves its run and how it was decided.
LEMMA SetTaskStep ==
    ASSUME Inv, NEW k \in DOMAIN planners,
           NEW p \in Rounds, SetRound(k, p),
           p.asg = planners[k].asg, p.run = planners[k].run, p.failure = planners[k].failure
    PROVE  Inv'
BY RoundStep DEF SetRound, SameRound, Inv, Types, TypeOK

\* The gateway, the daemon, users and deadlines.
LEMMA TaskStep ==
    ASSUME Inv, NEW k \in DOMAIN planners,
           Enqueue(k) \/ DaemonStep(k) \/ HaltTask(k) \/ PassDeadline(k) \/ CancelExecution(k)
    PROVE  Inv'
<1>0. planners[k] \in Rounds
  BY DEF Inv, Types, TypeOK
<1>1. ASSUME NEW from, NEW to \in LiveTask \cup {"proposal", "rubbish", "broken", "failed", "cancelled"},
             SetTask(k, from, to)
      PROVE  Inv'
  <2>1. [planners[k] EXCEPT !.task = to] \in Rounds
    BY <1>0 DEF Rounds
  <2> QED
    BY <1>0, <1>1, <2>1, SetTaskStep DEF SetTask, Rounds
<1>2. CASE ClaimTask(k)
  <2>1. [planners[k] EXCEPT !.task = "dispatched", !.due = FALSE] \in Rounds
    BY <1>0 DEF Rounds, LiveTask
  <2> QED
    BY <1>0, <1>2, <2>1, SetTaskStep DEF ClaimTask, Rounds
<1>3. CASE StartTask(k)
  <2>1. [planners[k] EXCEPT !.task = "running", !.due = FALSE] \in Rounds
    BY <1>0 DEF Rounds, LiveTask
  <2> QED
    BY <1>0, <1>3, <2>1, SetTaskStep DEF StartTask, Rounds
<1>4. CASE PassDeadline(k)
  <2>1. [planners[k] EXCEPT !.due = TRUE] \in Rounds
    BY <1>0 DEF Rounds
  <2> QED
    BY <1>0, <1>4, <2>1, SetTaskStep DEF PassDeadline, Rounds
<1>5. CASE Enqueue(k)
  BY <1>1, <1>5 DEF Enqueue, LiveTask
<1>6. CASE CompleteTask(k) \/ FailTask(k) \/ HaltTask(k) \/ CancelExecution(k)
  BY <1>1, <1>6 DEF CompleteTask, FailTask, HaltTask, CancelExecution
<1> QED
  BY <1>2, <1>3, <1>4, <1>5, <1>6 DEF DaemonStep

\* ReconcileRun: a run that works is observed, and its success brings a version.
LEMMA ReconcileStep ==
    ASSUME Inv, NEW k \in DOMAIN planners, Reconcile(k)
    PROVE  Inv'
<1> DEFINE seen == Observed(planners[k])
           p == [planners[k] EXCEPT !.run = seen.run, !.failure = seen.failure]
<1>0. planners[k] \in Rounds /\ planners \in Seq(Rounds)
  BY DEF Inv, Types, TypeOK, Shapes
<1>1. /\ planners[k].run \in LiveRun /\ seen.run # planners[k].run
      /\ planners' = [planners EXCEPT ![k].run = seen.run, ![k].failure = seen.failure]
      /\ proposals' = IF seen.run = "succeeded" THEN Append(proposals, k) ELSE proposals
      /\ UNCHANGED <<mission, revision, plan, rejected, pages, done>>
  BY DEF Reconcile
<1>2. /\ seen.run \in {"dispatched", "running", "succeeded", "failed", "cancelled"}
      /\ seen.failure \in {"none", "retryable", "final"}
      /\ seen.run = "failed" <=> seen.failure # "none"
  BY <1>0, <1>1, ObservedRun
<1> HIDE DEF seen
<1>3. /\ p \in Rounds /\ p.run = seen.run /\ p.failure = seen.failure
      /\ p.asg = planners[k].asg
  BY <1>0, <1>2 DEF Rounds, LiveRun
<1>4. planners' = [planners EXCEPT ![k] = p]
  BY <1>0, <1>1
<1> HIDE DEF p
<1>5. SameRound(planners[k], p)
  BY <1>1, <1>3 DEF SameRound, LiveRun
<1> QED
  BY <1>1, <1>2, <1>3, <1>4, <1>5, RoundStep

-----------------------------------------------------------------------------
\* Every step keeps the invariant.
LEMMA InvStep == Inv /\ [Next]_vars => Inv'
<1> SUFFICES ASSUME Inv, [Next]_vars PROVE Inv'
  OBVIOUS
<1>1. ASSUME NEW o \in Owners, OwnerStep(o) PROVE Inv'
  BY <1>1, LoadStep, RequestStep, EditStep, RejectStep, ApproveStep, MissionStep, CancelStep
     DEF OwnerStep, Decide
<1>2. CASE UNCHANGED vars
  BY <1>2, SameTables DEF vars, Inv, Types, TypeOK, Shapes, Versions
<1> QED
  BY <1>1, <1>2, MissionStep, TemplateStep, TaskStep, ReconcileStep DEF Next

\* A draft without rounds satisfies the invariant.
LEMMA InvInit == Init => Inv
<1> SUFFICES ASSUME Init PROVE Inv
  OBVIOUS
<1>1. /\ planners = <<>> /\ proposals = <<>> /\ Len(planners) = 0 /\ Len(proposals) = 0
      /\ planners \in Seq(Rounds) /\ proposals \in Seq(Nat)
  BY EmptySeq DEF Init
<1>2. DOMAIN planners = {} /\ Versions = {}
  BY <1>1 DEF Versions
<1>3. TypeOK /\ Shapes
  BY <1>1, <1>2 DEF Init, TypeOK, Shapes, NoPlan
<1> QED
  BY <1>2, <1>3 DEF Init, Inv, Types, OnePlanner, DraftAssigned, NewestActive, RejectedRevoked,
                    AcceptedFulfilled, ActiveRounds, LiveRounds, NoPlan

\* The invariant holds throughout.
LEMMA Invariant == Spec => []Inv
BY InvInit, InvStep, PTL DEF Spec

-----------------------------------------------------------------------------
\* The tables keep their types and keys: a version comes from a run that succeeded,
\* and a mission past its draft has a plan (ReconcileRun, SubmitPlan).
THEOREM TypeCorrect == Spec => []TypeOK
<1>1. Inv => TypeOK
  BY DEF Inv, Types
<1> QED
  BY Invariant, <1>1, PTL

\* Two planners never work on one mission (RequestPlan, RejectPlanProposal).
THEOREM PlannersApart == Spec => []OnePlanner
<1>1. Inv => OnePlanner
  BY DEF Inv
<1> QED
  BY Invariant, <1>1, PTL

\* No plan comes from a round that an owner has rejected, however stale the page that
\* approves it (RejectPlanProposal, validatePlanProposalSource).
THEOREM RejectionHolds == Spec => []RejectedStaysOut
<1>1. Inv => RejectedStaysOut
  BY DEF Inv, RejectedRevoked, AcceptedFulfilled, RejectedStaysOut
<1> QED
  BY Invariant, <1>1, PTL

\* After the mission is given up no version is added, whatever the planner answers
\* (normalizeRunObservation, EditPlanProposal).
THEOREM CancelCloses == Spec => CancelClosesPlanning
<1>1. [Next]_vars => [GivenUp => proposals' = proposals]_vars
  <2> SUFFICES ASSUME [Next]_vars, GivenUp PROVE proposals' = proposals
    OBVIOUS
  <2>1. ASSUME NEW k \in DOMAIN planners, Reconcile(k) PROVE proposals' = proposals
    <3>1. Observed(planners[k]).run # "succeeded"
      <4>1. CASE planners[k].task = "rubbish"
        BY <4>1 DEF Observed, Fact, Facts, Saw
      <4>2. CASE planners[k].task # "rubbish"
        BY <4>2 DEF Observed, Saw
      <4> QED
        BY <4>1, <4>2
    <3> QED
      BY <2>1, <3>1 DEF Reconcile
  <2>2. ASSUME NEW o \in Owners, OwnerStep(o) PROVE proposals' = proposals
    BY <2>2 DEF OwnerStep, LoadPage, RequestPlan, Decide, EditPlanProposal, RejectPlanProposal,
                ApprovePlanProposal, StartMission, CancelMission, OnDraft, GivenUp
  <2>3. ASSUME NEW k \in DOMAIN planners,
               Enqueue(k) \/ DaemonStep(k) \/ HaltTask(k) \/ PassDeadline(k) \/ CancelExecution(k)
        PROVE  proposals' = proposals
    BY <2>3 DEF Enqueue, DaemonStep, ClaimTask, StartTask, CompleteTask, FailTask, HaltTask,
                PassDeadline, CancelExecution, SetTask, SetRound
  <2> QED
    BY <2>1, <2>2, <2>3 DEF Next, ReplayCreate, SubmitTemplate, Advance, vars
<1> QED
  BY <1>1, PTL DEF Spec, CancelClosesPlanning

-----------------------------------------------------------------------------
(* Stale pages                                                             *)

\* A page with the draft's revision that offers an open version offers the newest.
PageFresh ==
    mission = "draft" =>
        \A o \in Owners : page[o].revision = revision =>
            \A v \in Versions : v <= page[o].latest /\ OpenRound(v) => page[o].latest = Len(proposals)

\* A step of a planner's run or task keeps pages fresh: a result comes from the one
\* round that is active, and so from one without versions yet.
LEMMA PlannerFresh ==
    ASSUME Inv, PageFresh, NEW k \in DOMAIN planners,
           Reconcile(k) \/ Enqueue(k) \/ DaemonStep(k) \/ HaltTask(k) \/ PassDeadline(k)
             \/ CancelExecution(k)
    PROVE  PageFresh'
<1>0. /\ Len(proposals) \in Nat
      /\ \A v \in Versions : proposals[v] \in DOMAIN planners /\ planners[proposals[v]].run = "succeeded"
      /\ \A j \in DOMAIN planners : planners[j] \in Rounds
      /\ Versions = 1 .. Len(proposals)
      /\ proposals \in Seq(Nat) /\ k \in Nat
      /\ \A o \in Owners : page[o].latest \in 0 .. Len(proposals)
  BY LenProperties DEF Inv, Types, TypeOK, Shapes, Versions
<1>1. /\ mission' = mission /\ revision' = revision /\ page' = page
      /\ \A j \in DOMAIN planners : planners'[j].asg = planners[j].asg
  <2>1. CASE Reconcile(k)
    BY <1>0, <2>1 DEF Reconcile, pages, Rounds
  <2>2. CASE ~Reconcile(k)
    <3>1. PICK p : SetRound(k, p) /\ p.asg = planners[k].asg
      <4>1. ASSUME NEW from, NEW to, SetTask(k, from, to)
            PROVE  SetRound(k, [planners[k] EXCEPT !.task = to])
        BY <4>1 DEF SetTask
      <4>2. \A to : [planners[k] EXCEPT !.task = to].asg = planners[k].asg
        BY <1>0 DEF Rounds
      <4>3. CASE ClaimTask(k) \/ StartTask(k) \/ PassDeadline(k)
        <5>1. PICK p \in {[planners[k] EXCEPT !.task = "dispatched", !.due = FALSE],
                          [planners[k] EXCEPT !.task = "running", !.due = FALSE],
                          [planners[k] EXCEPT !.due = TRUE]} : SetRound(k, p)
          BY <4>3 DEF ClaimTask, StartTask, PassDeadline
        <5>2. p.asg = planners[k].asg
          BY <1>0, <5>1 DEF Rounds
        <5> QED
          BY <5>1, <5>2
      <4>4. CASE Enqueue(k) \/ CompleteTask(k) \/ FailTask(k) \/ HaltTask(k) \/ CancelExecution(k)
        BY <4>1, <4>2, <4>4 DEF Enqueue, CompleteTask, FailTask, HaltTask, CancelExecution
      <4> QED
        BY <2>2, <4>3, <4>4 DEF DaemonStep
    <3> QED
      BY <3>1 DEF SetRound, pages
  <2> QED
    BY <2>1, <2>2
<1>2. CASE proposals' = proposals
  BY <1>0, <1>1, <1>2 DEF PageFresh, OpenRound, Versions
<1>3. CASE proposals' # proposals
  <2>1. /\ proposals' = Append(proposals, k) /\ planners[k].run \in LiveRun
    BY <1>3 DEF Reconcile, Enqueue, DaemonStep, ClaimTask, StartTask, CompleteTask, FailTask,
                HaltTask, PassDeadline, CancelExecution, SetTask, SetRound
  <2>2. /\ Len(proposals') = Len(proposals) + 1
        /\ \A v \in 1 .. Len(proposals) : proposals'[v] = proposals[v]
    BY <1>0, <2>1, AppendProperties
  <2> SUFFICES ASSUME mission' = "draft", NEW o \in Owners, NEW v \in Versions',
                      v <= page'[o].latest, OpenRound(v)'
               PROVE  FALSE
    BY DEF PageFresh
  <2>3. v \in Versions /\ proposals'[v] = proposals[v]
    BY <1>0, <1>1, <2>2 DEF Versions
  <2>4. k \in ActiveRounds
    BY <1>1, <2>1 DEF Inv, DraftAssigned, LiveRounds
  <2>5. proposals[v] \in ActiveRounds
    BY <1>0, <1>1, <2>3 DEF OpenRound, ActiveRounds
  <2>6. proposals[v] = k
    BY <2>4, <2>5 DEF Inv, OnePlanner
  <2> QED
    BY <1>0, <2>1, <2>3, <2>6 DEF LiveRun
<1> QED
  BY <1>2, <1>3

\* Every other step takes a new revision, loads a page, or is not on a draft.
LEMMA FreshStep == Inv /\ PageFresh /\ [Next]_vars => PageFresh'
<1> SUFFICES ASSUME Inv, PageFresh, [Next]_vars PROVE PageFresh'
  OBVIOUS
<1>0. /\ revision \in Nat /\ Len(proposals) \in Nat
      /\ page \in [Owners -> [revision : Nat, latest : Nat]]
      /\ \A o \in Owners : page[o].revision \in 0 .. revision
  BY LenProperties DEF Inv, Types, TypeOK, Shapes
<1>1. ASSUME page' = page, revision' = revision + 1 PROVE PageFresh'
  BY <1>0, <1>1 DEF PageFresh
<1>2. ASSUME NEW o \in Owners, LoadPage(o) PROVE PageFresh'
  BY <1>0, <1>2 DEF LoadPage, PageFresh, OpenRound, Versions
<1>3. ASSUME NEW o \in Owners, OwnerStep(o), ~LoadPage(o) PROVE PageFresh'
  BY <1>1, <1>3 DEF OwnerStep, RequestPlan, Decide, EditPlanProposal, RejectPlanProposal,
                    ApprovePlanProposal, StartMission, CancelMission, pages
<1>4. CASE ReplayCreate \/ UNCHANGED vars
  BY <1>4 DEF ReplayCreate, vars, PageFresh, OpenRound, Versions
<1>5. CASE SubmitTemplate \/ Advance
  BY <1>5 DEF SubmitTemplate, Advance, PageFresh
<1> QED
  BY <1>2, <1>3, <1>4, <1>5, PlannerFresh DEF Next

\* A decision that goes through was made on a page that showed the newest version,
\* although a planner's result takes no new revision (lockPendingPlanProposal,
\* validatePlanProposalSource, RequestPlan).
THEOREM DecisionsInformed == Spec => DecidesOnWhatItSaw
<1>1. Init => PageFresh
  <2> SUFFICES ASSUME Init PROVE PageFresh
    OBVIOUS
  <2>1. Versions = {}
    BY DEF Init, Versions
  <2> QED
    BY <2>1 DEF PageFresh
<1>2. Inv /\ PageFresh /\ [Next]_vars =>
        [\A o \in Owners : Decide(o) => page[o].latest = Len(proposals)]_vars
  <2> SUFFICES ASSUME Inv, PageFresh, NEW o \in Owners, Decide(o)
               PROVE  page[o].latest = Len(proposals)
    OBVIOUS
  <2>1. PICK v \in Versions :
          /\ v <= page[o].latest
          /\ EditPlanProposal(o, v) \/ RejectPlanProposal(o, v) \/ ApprovePlanProposal(o, v)
    BY DEF Decide
  <2>2. OnDraft(o) /\ OpenRound(v)
    BY <2>1 DEF EditPlanProposal, RejectPlanProposal, ApprovePlanProposal, Pending
  <2> QED
    BY <2>1, <2>2 DEF PageFresh, OnDraft
<1> QED
  BY <1>1, <1>2, Invariant, FreshStep, PTL DEF Spec, DecidesOnWhatItSaw

-----------------------------------------------------------------------------
(* The end of the mission                                                  *)

\* A step of a planner's run or task starts no round: what works after it worked
\* before (EnqueueOrchestrationRun, ReconcileRun and the daemon).
LEMMA NoRoundStarts ==
    ASSUME Inv, NEW k \in DOMAIN planners,
           Reconcile(k) \/ Enqueue(k) \/ DaemonStep(k) \/ HaltTask(k) \/ PassDeadline(k)
             \/ CancelExecution(k)
    PROVE  LiveRounds' \subseteq LiveRounds /\ mission' = mission
<1>0. \A j \in DOMAIN planners : planners[j] \in Rounds
  BY DEF Inv, Types, TypeOK
<1>1. ASSUME NEW p, p.run = planners[k].run, SetRound(k, p)
      PROVE  LiveRounds' \subseteq LiveRounds /\ mission' = mission
  BY <1>1 DEF SetRound, LiveRounds
<1>2. ASSUME NEW from, NEW to, SetTask(k, from, to)
      PROVE  LiveRounds' \subseteq LiveRounds /\ mission' = mission
  <2>1. [planners[k] EXCEPT !.task = to].run = planners[k].run
    BY <1>0 DEF Rounds
  <2> QED
    BY <1>1, <1>2, <2>1 DEF SetTask
<1>3. CASE ClaimTask(k) \/ StartTask(k) \/ PassDeadline(k)
  <2>1. PICK p \in {[planners[k] EXCEPT !.task = "dispatched", !.due = FALSE],
                    [planners[k] EXCEPT !.task = "running", !.due = FALSE],
                    [planners[k] EXCEPT !.due = TRUE]} : SetRound(k, p)
    BY <1>3 DEF ClaimTask, StartTask, PassDeadline
  <2>2. p.run = planners[k].run
    BY <1>0, <2>1 DEF Rounds
  <2> QED
    BY <1>1, <2>1, <2>2
<1>4. CASE Enqueue(k) \/ CompleteTask(k) \/ FailTask(k) \/ HaltTask(k) \/ CancelExecution(k)
  BY <1>2, <1>4 DEF Enqueue, CompleteTask, FailTask, HaltTask, CancelExecution
<1>5. CASE Reconcile(k)
  <2>1. planners[k].run \in LiveRun /\ mission' = mission
        /\ DOMAIN planners' = DOMAIN planners
        /\ \A j \in DOMAIN planners : j # k => planners'[j] = planners[j]
    BY <1>5 DEF Reconcile
  <2> QED
    BY <2>1 DEF LiveRounds
<1> QED
  BY <1>3, <1>4, <1>5 DEF DaemonStep

\* A mission is completed only while no planner works on it, and none starts to
\* after that: the planner's run takes a slot of the Advance (countActiveRuns), and
\* a new round needs a draft (RequestPlan).
THEOREM EndIsQuiet == Spec => []QuietEnd
<1>1. Init => QuietEnd
  BY DEF Init, QuietEnd
<1>2. Inv /\ QuietEnd /\ [Next]_vars => QuietEnd'
  <2> SUFFICES ASSUME Inv, QuietEnd, [Next]_vars, mission' = "completed"
               PROVE  LiveRounds' = {}
    BY DEF QuietEnd
  <2>1. CASE Advance
    BY <2>1 DEF Advance, SlotFree, LiveRounds
  <2>2. ASSUME NEW k \in DOMAIN planners,
               Reconcile(k) \/ Enqueue(k) \/ DaemonStep(k) \/ HaltTask(k) \/ PassDeadline(k)
                 \/ CancelExecution(k)
        PROVE  LiveRounds' = {}
    BY <2>2, NoRoundStarts DEF QuietEnd
  <2>3. ASSUME NEW o \in Owners, OwnerStep(o)
        PROVE  LiveRounds' = {}
    BY <2>3 DEF OwnerStep, LoadPage, RequestPlan, Decide, EditPlanProposal, RejectPlanProposal,
                ApprovePlanProposal, StartMission, CancelMission, OnDraft, QuietEnd, LiveRounds
  <2>4. CASE ReplayCreate \/ SubmitTemplate \/ UNCHANGED vars
    BY <2>4 DEF ReplayCreate, SubmitTemplate, vars, QuietEnd, LiveRounds
  <2> QED
    BY <2>1, <2>2, <2>3, <2>4 DEF Next
<1> QED
  BY <1>1, <1>2, Invariant, PTL DEF Spec
=============================================================================
