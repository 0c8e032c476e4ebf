------------------------ MODULE MissionOutcomeProofs ------------------------
(***************************************************************************)
(* What is proved of the outcome of a mission, for every plan, every set   *)
(* of agents, every limit and every bound: who has approved a completed    *)
(* node, what a completed mission leaves behind, and what may still happen *)
(* after the end.                                                          *)
(***************************************************************************)
EXTENDS MissionRunsProofs

-----------------------------------------------------------------------------
(* Approvals *)

Approved(n) == \E i \in DOMAIN runs[n]["review"] : ApprovedBy(n, <<n, "review", i>>)

\* What an approval rests on: the delivered work, the recorded verdicts and who
\* was assigned.
EvidenceKept(n) ==
    /\ LatestWorkSucceeded(n)'
    /\ Len(runs'[n]["work"]) = Len(runs[n]["work"])
    /\ Last(runs'[n]["work"]).asg = Last(runs[n]["work"]).asg
    /\ \A i \in DOMAIN runs[n]["review"] :
         /\ i \in DOMAIN runs'[n]["review"]
         /\ runs'[n]["review"][i].verdict = runs[n]["review"][i].verdict
         /\ runs'[n]["review"][i].of = runs[n]["review"][i].of
         /\ runs'[n]["review"][i].asg = runs[n]["review"][i].asg
    /\ \A d \in Duties : \A k \in DOMAIN asg[n][d] : asg'[n][d][k].agent = asg[n][d][k].agent

\* An approval stands while that is kept.
LEMMA ApprovalKept ==
    ASSUME TypeOK, Books, NEW n \in Nodes, Approved(n), EvidenceKept(n)
    PROVE  Approved(n)'
<1>1. "work" \in Duties /\ "review" \in Duties
  BY DEF Duties
<1>2. PICK i \in DOMAIN runs[n]["review"] : ApprovedBy(n, <<n, "review", i>>)
  BY DEF Approved
<1>3. /\ runs[n]["review"][i].verdict = "approved"
      /\ runs[n]["review"][i].of = Len(runs[n]["work"])
      /\ LatestWorkSucceeded(n)
      /\ asg[n]["review"][runs[n]["review"][i].asg].agent # Producer(n)
  BY <1>2 DEF ApprovedBy, Run, AssignmentOf
<1>4. RowsFit(n, "work") /\ RowsFit(n, "review")
  BY <1>1 DEF Books, Rows
<1>5. runs[n]["review"][i].asg \in DOMAIN asg[n]["review"]
  BY <1>4 DEF RowsFit
<1>6. Last(runs[n]["work"]).asg \in DOMAIN asg[n]["work"]
  <2>1. runs[n]["work"] # <<>>
    BY <1>3 DEF LatestWorkSucceeded
  <2>2. Len(runs[n]["work"]) \in DOMAIN runs[n]["work"]
    BY <1>1, <2>1, RowTypes
  <2> QED
    BY <1>4, <2>2 DEF RowsFit, Last
<1>7. Producer(n)' = Producer(n)
  BY <1>1, <1>6 DEF EvidenceKept, Producer
<1>8. asg'[n]["review"][runs'[n]["review"][i].asg].agent
        = asg[n]["review"][runs[n]["review"][i].asg].agent
  BY <1>1, <1>2, <1>5 DEF EvidenceKept
<1>9. ApprovedBy(n, <<n, "review", i>>)'
  BY <1>2, <1>3, <1>7, <1>8 DEF EvidenceKept, ApprovedBy, Run, AssignmentOf
<1> QED
  BY <1>2, <1>9 DEF EvidenceKept, Approved

\* Steps that move no run between live and ended keep the evidence.
LEMMA EvidenceProceeds ==
    ASSUME TypeOK, TypeOK', RunsProceed, AssignmentsEnd, NEW n \in Nodes, LatestWorkSucceeded(n)
    PROVE  EvidenceKept(n)
<1>1. "work" \in Duties /\ "review" \in Duties
  BY DEF Duties
<1>2. LatestWorkSucceeded(n)'
  BY DeliveryProceeds
<1>3. SameBook(Last(runs[n]["work"]), Last(runs'[n]["work"]))
  BY <1>1, LastProceeds DEF LatestWorkSucceeded
<1> QED
  BY <1>1, <1>2, <1>3 DEF EvidenceKept, RunsProceed, SameBook, AssignmentsEnd

\* So does the end of a run, unless a verdict on the node is recorded.
LEMMA EvidenceSettles ==
    ASSUME TypeOK, TypeOK', Books, NEW r \in RunIds, NEW new, RunEnds(r, new),
           NEW n \in Nodes, LatestWorkSucceeded(n),
           n = r[1] => new.verdict = Run(r).verdict
    PROVE  EvidenceKept(n)
<1>1. "work" \in Duties /\ "review" \in Duties
  BY DEF Duties
<1>2. new \in Runs /\ Settles(r, new) /\ AssignmentsEnd
  BY DEF RunEnds
<1>3. /\ LatestWorkSucceeded(n)' /\ Len(runs'[n]["work"]) = Len(runs[n]["work"])
      /\ Last(runs'[n]["work"]) = Last(runs[n]["work"])
  BY DeliverySettles
<1>4. /\ DOMAIN runs'[n]["review"] = DOMAIN runs[n]["review"]
      /\ \A i \in DOMAIN runs[n]["review"] :
           runs'[n]["review"][i] = IF <<n, "review", i>> = r THEN new ELSE runs[n]["review"][i]
  BY <1>1, <1>2, SettledRows
<1>5. \A i \in DOMAIN runs[n]["review"] :
        <<n, "review", i>> = r => n = r[1] /\ Run(r) = runs[n]["review"][i]
  BY DEF Run
<1>6. new.of = Run(r).of /\ new.asg = Run(r).asg
  BY <1>2 DEF Settles
<1>7. \A i \in DOMAIN runs[n]["review"] :
         /\ i \in DOMAIN runs'[n]["review"]
         /\ runs'[n]["review"][i].verdict = runs[n]["review"][i].verdict
         /\ runs'[n]["review"][i].of = runs[n]["review"][i].of
         /\ runs'[n]["review"][i].asg = runs[n]["review"][i].asg
  BY <1>4, <1>5, <1>6
<1> QED
  BY <1>2, <1>3, <1>7 DEF EvidenceKept, AssignmentsEnd

\* The owner's commands start no run, and only end assignments.
LEMMA OwnerEnds ==
    ASSUME TypeOK, OwnerStep
    PROVE  RunsProceed /\ AssignmentsEnd
<1>1. RunsProceed
  BY SameRunsProceed DEF OwnerStep, StartMission, CancelMission, RetryTaskNode, ResolveHumanGate
<1>2. CASE CancelMission
  <2>1. \A n \in Nodes, d \in Duties : asg'[n][d] = EndActive(asg[n][d], "revoked")
    BY <1>2 DEF CancelMission
  <2>2. \A n \in Nodes, d \in Duties : asg[n][d] \in Seq(Assignments)
    BY DEF TypeOK, DataOK
  <2>3. "revoked" \in AssignmentStatuses \ {"active"}
    BY DEF AssignmentStatuses
  <2>4. AssignmentsEnd
    BY <2>1, <2>2, <2>3, EndActiveEnds DEF AssignmentsEnd
  <2> QED
    BY <1>1, <2>4
<1>3. CASE ~CancelMission
  <2>1. UNCHANGED asg
    BY <1>3 DEF OwnerStep, StartMission, RetryTaskNode, ResolveHumanGate
  <2> QED
    BY <1>1, <2>1 DEF AssignmentsEnd
<1> QED
  BY <1>2, <1>3

\* Every step keeps the review gate.
LEMMA StepReviews ==
    ASSUME TypeOK, TypeOK', Books, ReviewGate, [Next]_vars
    PROVE  ReviewGate'
<1> SUFFICES ASSUME NEW n \in Nodes, node'[n] = "completed"
             PROVE  Approved(n)'
  BY DEF ReviewGate, Approved
<1>1. node[n] = "completed" => Approved(n) /\ LatestWorkSucceeded(n)
  BY DEF ReviewGate, Approved, ApprovedBy
<1>2. CASE Quiet
  <2>1. node[n] = "completed" /\ RunsProceed /\ AssignmentsEnd
    BY <1>2, QuietProceeds DEF AssignmentsEnd
  <2> QED
    BY <1>1, <2>1, EvidenceProceeds, ApprovalKept
<1>3. CASE OwnerStep
  <2>1. node[n] = "completed"
    BY <1>3 DEF OwnerStep, StartMission, InitiallyReady, CancelMission, RetryTaskNode, ResolveHumanGate,
                TypeOK, DataOK
  <2> QED
    BY <1>1, <1>3, <2>1, OwnerEnds, EvidenceProceeds, ApprovalKept
<1>4. ASSUME NEW plan, NEW pick, NodeAdvances(n, plan, pick)
      PROVE  Approved(n)'
  <2>1. NodeRests(n) /\ node[n] = "completed"
    BY <1>4 DEF NodeAdvances, NodeRests, NodeUnblocked, NodeUnreviewed, RunRetried, RunGivenUp,
                ExhaustedStatus, WorkStarted, ReviewStarted
  <2>2. "work" \in Duties /\ "review" \in Duties
    BY DEF Duties
  <2>3. /\ runs'[n]["work"] = runs[n]["work"] /\ runs'[n]["review"] = runs[n]["review"]
        /\ asg'[n]["work"] = asg[n]["work"] /\ asg'[n]["review"] = asg[n]["review"]
    BY <2>1, <2>2 DEF NodeRests, RowsStay
  <2> QED
    BY <1>1, <2>1, <2>3 DEF Approved, ApprovedBy, Run, AssignmentOf, LatestWorkSucceeded, Producer
<1>5. CASE RunMovesOn
  <2>1. node[n] = "completed" /\ AssignmentsEnd
    BY <1>5 DEF AssignmentsEnd, RunMovesOn
  <2>2. RunsProceed
    BY <1>5 DEF RunMovesOn
  <2> QED
    BY <1>1, <2>1, <2>2, EvidenceProceeds, ApprovalKept
<1>6. ASSUME NEW r \in RunIds, NEW new, RunEnds(r, new)
      PROVE  Approved(n)'
  <2>1. /\ Run(r).st \in LiveRun /\ r[1] \in Nodes /\ r[2] \in Duties
        /\ new \in Runs /\ Settles(r, new) /\ AssignmentsEnd
    BY <1>6, RunIdParts DEF RunEnds, Settles
  <2>2. CASE node[n] = "completed"
    <3>1. ASSUME NEW decision \in Decisions, EndsJudged(r, new, decision) PROVE n # r[1]
      BY <2>1, <2>2, <3>1, LiveNode DEF EndsJudged
    <3>2. n = r[1] => new.verdict = Run(r).verdict
      BY <1>6, <3>1 DEF RunEnds, EndsFailed, EndsCancelled, EndsDelivered
    <3> QED
      BY <1>1, <1>6, <2>2, <3>2, EvidenceSettles, ApprovalKept
  <2>3. CASE node[n] # "completed"
    <3>1. PICK decision \in Decisions : EndsJudged(r, new, decision)
      BY <1>6, <2>3 DEF RunEnds, EndsFailed, EndsCancelled, EndsDelivered
    <3>2. n = r[1] /\ decision = "approved" /\ r[2] = "review" /\ ~Over
      <4>1. rework[n] \in Nat /\ MaxRework \in Nat
        BY LimitsAssumption DEF TypeOK, DataOK
      <4>2. rework[n] < MaxRework \/ rework[n] >= MaxRework
        BY <4>1
      <4> QED
        BY <2>3, <3>1, <4>2 DEF EndsJudged, VerdictStatus, Decisions
    <3>3. /\ LatestWorkSucceeded(n) /\ Run(r).of = Len(runs[n]["work"])
          /\ AssignmentOf(r).agent # Producer(n)
      BY <2>1, <3>2, LiveNode
    <3>4. /\ LatestWorkSucceeded(n)' /\ Len(runs'[n]["work"]) = Len(runs[n]["work"])
          /\ Last(runs'[n]["work"]) = Last(runs[n]["work"])
      BY <1>6, <3>3, DeliverySettles
    <3>5. /\ r = <<n, "review", r[3]>> /\ r[3] \in DOMAIN runs[n]["review"]
          /\ Run(r).asg \in DOMAIN asg[n]["review"]
      BY <2>1, <3>2, LiveIsLast
    <3>6. r[3] \in DOMAIN runs'[n]["review"] /\ runs'[n]["review"][r[3]] = new
      BY <2>1, <3>2, <3>5, SettledRows
    <3>7. new.verdict = "approved" /\ new.of = Run(r).of /\ new.asg = Run(r).asg
      BY <2>1, <3>1, <3>2 DEF EndsJudged, Settles
    <3>8. asg'[n]["review"][new.asg].agent = AssignmentOf(r).agent
      BY <2>1, <3>2, <3>5, <3>7 DEF AssignmentsEnd, AssignmentOf
    <3>9. Producer(n)' = Producer(n)
      <4>1. "work" \in Duties /\ runs[n]["work"] # <<>>
        BY <3>3 DEF Duties, LatestWorkSucceeded
      <4>2. RowsFit(n, "work") /\ Len(runs[n]["work"]) \in DOMAIN runs[n]["work"]
        BY <4>1, RowTypes DEF Books, Rows
      <4>3. Last(runs[n]["work"]).asg \in DOMAIN asg[n]["work"]
        BY <4>2 DEF RowsFit, Last
      <4> QED
        BY <2>1, <3>4, <4>1, <4>3 DEF Producer, AssignmentsEnd
    <3>10. ApprovedBy(n, <<n, "review", r[3]>>)'
      BY <3>3, <3>4, <3>6, <3>7, <3>8, <3>9 DEF ApprovedBy, Run, AssignmentOf
    <3> QED
      BY <3>6, <3>10 DEF Approved
  <2> QED
    BY <2>2, <2>3
<1> QED
  BY <1>2, <1>3, <1>4, <1>5, <1>6, StepCases DEF NodesAdvance

\* A node is completed only by the approval, by an agent other than the producer,
\* of the artifact of its latest work run: no stale review and no self review,
\* whatever is retried, reworked or lost (phase 4 of AdvanceMission,
\* recordReconciledReviewInTx).
THEOREM ReviewsHold == Spec => []ReviewGate
<1>1. Init => ReviewGate
  BY DEF Init, ReviewGate
<1>2. TypeOK /\ TypeOK' /\ Books /\ ReviewGate /\ [Next]_vars => ReviewGate'
  BY StepReviews
<1> QED
  BY <1>1, <1>2, TypeCorrect, BooksHold, PTL DEF Spec

-----------------------------------------------------------------------------
(* The end of a mission *)

\* A completed mission has nothing left to do: no live run, no pending gate and
\* no active assignment (the end of AdvanceMission, recordReconciledReviewInTx).
THEOREM CompletionIsQuiet == Spec => []CompletedIsQuiet
<1>1. TypeOK /\ Books /\ Ends /\ GateHolds => CompletedIsQuiet
  <2> SUFFICES ASSUME TypeOK, Books, Ends, GateHolds, mission = "completed"
               PROVE  /\ LiveRunIds = {}
                      /\ \A n \in Nodes : node[n] = "completed" /\ gate[n] = "none"
                      /\ \A n \in Nodes, d \in Duties : ~HasActive(n, d)
    BY DEF CompletedIsQuiet
  <2>1. \A n \in Nodes : node[n] = "completed" /\ gate[n] = "none"
    BY DEF Ends, GateHolds
  <2>2. \A n \in Nodes : NodeFits(n)
    BY DEF Books, Over
  <2>3. \A n \in Nodes, d \in Duties : ~HasActive(n, d)
    BY <2>1, <2>2 DEF NodeFits, ReviewFits, Duties
  <2>4. ASSUME NEW r \in LiveRunIds PROVE FALSE
    <3>1. r[1] \in Nodes /\ r[2] \in Duties /\ LastLive(r[1], r[2])
      BY LiveIsLast DEF LiveRunIds
    <3> QED
      BY <2>2, <2>3, <3>1 DEF NodeFits
  <2> QED
    BY <2>1, <2>3, <2>4
<1> QED
  BY <1>1, TypeCorrect, BooksHold, EndsHold, GatesHold, PTL

\* Rows of the same lengths have the same run ids.
LEMMA SameDomainIds ==
    ASSUME \A n \in Nodes, d \in Duties : DOMAIN runs'[n][d] = DOMAIN runs[n][d]
    PROVE  RunIds' = RunIds
<1>1. RunIds \subseteq RunIds'
  BY RunIdsGrow
<1>2. ASSUME NEW r \in RunIds' PROVE r \in RunIds
  <2>1. PICK n \in Nodes, d \in Duties : \E i \in DOMAIN runs'[n][d] : r = <<n, d, i>>
    BY DEF RunIds
  <2> QED
    BY <2>1, RunIdOf
<1> QED
  BY <1>1, <1>2

\* What a step may do once the mission has ended: finish runs and cancel nodes.
StartsNothing ==
    /\ RunIds' = RunIds
    /\ \A n \in Nodes : node'[n] # node[n] => node'[n] = "cancelled"
    /\ \A n \in Nodes, d \in Duties : Len(asg'[n][d]) = Len(asg[n][d])

\* No step of an ended mission does more than that.
LEMMA StepAfterEnd ==
    ASSUME TypeOK, TypeOK', Books, Ends, mission \in TerminalMission, [Next]_vars
    PROVE  StartsNothing
<1>1. CASE Quiet
  <2>1. RunsProceed /\ UNCHANGED <<node, asg>>
    BY <1>1, QuietProceeds
  <2> QED
    BY <2>1, SameDomainIds DEF RunsProceed, StartsNothing
<1>2. CASE OwnerStep
  BY <1>2 DEF OwnerStep, StartMission, CancelMission, RetryTaskNode, ResolveHumanGate, TerminalMission
<1>3. CASE NodesAdvance
  BY <1>3 DEF NodesAdvance, TerminalMission
<1>4. CASE RunMovesOn
  <2>1. \A n \in Nodes : node[n] = "completed"
    BY <1>4 DEF RunMovesOn, Over, TerminalMission, Ends
  <2> QED
    BY <1>4, <2>1, SameDomainIds DEF RunMovesOn, RunsProceed, StartsNothing
<1>5. ASSUME NEW r \in RunIds, NEW new, RunEnds(r, new)
      PROVE  StartsNothing
  <2>1. Run(r).st \in LiveRun /\ r[1] \in Nodes /\ new \in Runs /\ Settles(r, new) /\ AssignmentsEnd
    BY <1>5, RunIdParts DEF RunEnds, Settles
  <2>2. Over
    BY <2>1, LiveNode DEF Over, Ends, TerminalMission
  <2>3. EndsCancelled(r, new)
    BY <1>5, <2>2 DEF RunEnds, EndsFailed, EndsDelivered, EndsJudged
  <2>4. RunIds' = RunIds
    BY <2>1, SettledRows, SameDomainIds
  <2> QED
    BY <2>1, <2>3, <2>4 DEF EndsCancelled, AssignmentsEnd, StartsNothing
<1> QED
  BY <1>1, <1>2, <1>3, <1>4, <1>5, StepCases

\* After the mission has ended nothing new is started for it, by whatever call,
\* observation or command comes late (AdvanceIgnored, the guards of CancelMission
\* and RetryTaskNode, the reconciler's branch for runs that were given up).
THEOREM EndStartsNothing == Spec => NothingStartsAfterEnd
<1>1. TypeOK /\ TypeOK' /\ Books /\ Ends /\ [Next]_vars =>
        [(mission \in TerminalMission) =>
            /\ RunIds' = RunIds
            /\ \A n \in Nodes : node'[n] # node[n] => node'[n] = "cancelled"
            /\ \A n \in Nodes, d \in Duties : Len(asg'[n][d]) = Len(asg[n][d])]_vars
  BY StepAfterEnd DEF StartsNothing
<1> QED
  BY <1>1, TypeCorrect, BooksHold, EndsHold, PTL DEF Spec, NothingStartsAfterEnd
=============================================================================
