----------------------- MODULE MissionContractProofs -----------------------
(***************************************************************************)
(* What is proved of the limit on parallel runs, and that                  *)
(* MissionExecution implements MissionContract, for every plan, every set  *)
(* of agents, every limit and every bound.                                 *)
(***************************************************************************)
EXTENDS MissionOutcomeProofs, FiniteSetTheorems

-----------------------------------------------------------------------------
(* Counting *)

\* A finite set of numbers has a largest one: the set of the larger ones is
\* smallest for it.
LEMMA LargestNumber ==
    ASSUME NEW W \in SUBSET Nat, IsFiniteSet(W), W # {}
    PROVE  \E x \in W : \A y \in W : y <= x
<1> DEFINE above(x) == {y \in W : y > x}
           R == StrictSubsetOrdering(W)
           T == {above(x) : x \in W}
<1>1. IsWellFoundedOn(R, FiniteSubsetsOf(W))
  BY FS_StrictSubsetOrderingWellFounded
<1>2. \A x, y : y \in above(x) <=> y \in W /\ y > x
  OBVIOUS
<1> HIDE DEF above
<1>3. \A x : above(x) \in SUBSET W
  BY <1>2
<1>4. T \subseteq FiniteSubsetsOf(W) /\ T # {}
  <2>1. FiniteSubsetsOf(W) = SUBSET W
    BY FS_FiniteSubsetsOfFinite
  <2>2. T \subseteq SUBSET W
    BY <1>3
  <2>3. \A x \in W : above(x) \in T
    OBVIOUS
  <2> HIDE DEF T
  <2> QED
    BY <2>1, <2>2, <2>3
<1> HIDE DEF R
<1>5. PICK U \in T : \A V \in T : ~(<<V, U>> \in R)
  <2> HIDE DEF T
  <2> QED
    BY <1>1, <1>4, WFMin
<1>6. PICK x \in W : U = above(x)
  BY <1>5
<1>7. ASSUME NEW y \in W, ~(y <= x) PROVE FALSE
  <2>1. y \in Nat /\ x \in Nat /\ y > x /\ ~(y > y)
    BY <1>7
  <2>2. \A z \in W : z > y => z > x
    BY <2>1
  <2>3. above(y) \subseteq above(x) /\ above(y) # above(x)
    BY <1>2, <2>1, <2>2
  <2>4. <<above(y), above(x)>> \in R
    BY <1>3, <2>3 DEF R, StrictSubsetOrdering
  <2> QED
    BY <1>5, <1>6, <2>4
<1> QED
  BY <1>7

\* What Considered lets through stays within the limit: a node is considered only
\* while those before it leave room.
LEMMA RoutedWithinLimit ==
    ASSUME NEW S \in SUBSET Nodes, NEW live \in Nat, NEW pick, live <= MaxParallel
    PROVE  /\ IsFiniteSet(Routed(Considered(S, live, pick), pick))
           /\ Cardinality(Routed(Considered(S, live, pick), pick)) \in Nat
           /\ live + Cardinality(Routed(Considered(S, live, pick), pick)) <= MaxParallel
<1> DEFINE W == Routed(Considered(S, live, pick), pick)
           before(n) == Routed({m \in S : m < n}, pick)
<1>1. S \subseteq Nat /\ W \subseteq S
  BY NodesAssumption DEF Routed, Considered
<1>2. IsFiniteSet(Nodes) /\ MaxParallel \in Nat
  BY NodesAssumption, LimitsAssumption
<1>3. IsFiniteSet(W) /\ Cardinality(W) \in Nat
  BY <1>1, <1>2, FS_Subset, FS_CardinalityType
<1>4. CASE W = {}
  BY <1>2, <1>3, <1>4, FS_EmptySet
<1>5. CASE W # {}
  <2>1. W \in SUBSET Nat
    BY <1>1
  <2>2. PICK x \in W : \A y \in W : y <= x
    BY <1>3, <1>5, <2>1, LargestNumber
  <2>3. live + Cardinality(before(x)) < MaxParallel
    BY DEF Routed, Considered
  <2>4. before(x) \in SUBSET Nodes
    BY DEF Routed
  <2>5. IsFiniteSet(before(x)) /\ Cardinality(before(x)) \in Nat
    BY <1>2, <2>4, FS_Subset, FS_CardinalityType
  <2>6. W \ {x} \in SUBSET before(x)
    <3> SUFFICES ASSUME NEW y \in W, y # x PROVE y \in before(x)
      OBVIOUS
    <3>1. y \in Nat /\ x \in Nat /\ y <= x /\ y \in S
      BY <1>1, <2>2
    <3>2. pick[y] # NoAgent
      BY DEF Routed
    <3> QED
      BY <3>1, <3>2 DEF Routed
  <2>7. Cardinality(W \ {x}) <= Cardinality(before(x))
    BY <2>5, <2>6, FS_Subset
  <2>8. Cardinality(W \ {x}) = Cardinality(W) - 1
    BY <1>3, FS_RemoveElement
  <2> HIDE DEF W, before
  <2>9. live + Cardinality(W) <= MaxParallel
    BY <1>2, <1>3, <2>3, <2>5, <2>7, <2>8
  <2> QED
    BY <1>3, <2>9 DEF W
<1> QED
  BY <1>3, <1>4, <1>5

-----------------------------------------------------------------------------
(* The limit on parallel runs *)

\* A node and duty is taken while its last run is live or waits for a retry.
Slots == Nodes \X Duties
LiveSlots == {s \in Slots : LastLive(s[1], s[2])}
RetrySlots == {s \in Slots : Retries(s[1], s[2])}
TakenSlots == LiveSlots \cup RetrySlots
Counted == LiveAfterFailures = Cardinality(TakenSlots) /\ LiveAfterFailures \in Nat
WithinLimit == LiveAfterFailures <= MaxParallel

\* There are as many live runs as slots with a live run: a live run is the last
\* one of its row.
LEMMA LiveSlotsCount ==
    ASSUME TypeOK, Books
    PROVE  /\ IsFiniteSet(LiveRunIds) /\ IsFiniteSet(LiveSlots)
           /\ Cardinality(LiveRunIds) = Cardinality(LiveSlots)
<1> DEFINE f == [s \in LiveSlots |-> <<s[1], s[2], Len(runs[s[1]][s[2]])>>]
<1>1. IsFiniteSet(Duties)
  <2>1. Duties = {"work"} \cup {"review"}
    BY DEF Duties
  <2> QED
    BY <2>1, FS_Singleton, FS_Union
<1>2. IsFiniteSet(Slots)
  BY <1>1, NodesAssumption, FS_Product DEF Slots
<1>3. IsFiniteSet(LiveSlots)
  BY <1>2, FS_Subset DEF LiveSlots
<1>4. ASSUME NEW s \in LiveSlots
      PROVE  f[s] \in LiveRunIds
  <2>1. s[1] \in Nodes /\ s[2] \in Duties /\ LastLive(s[1], s[2])
    BY DEF LiveSlots, Slots
  <2>2. Len(runs[s[1]][s[2]]) \in DOMAIN runs[s[1]][s[2]]
    BY <2>1, RowTypes DEF LastLive
  <2>3. f[s] \in RunIds
    BY <2>1, <2>2, RunIdOf
  <2> QED
    BY <2>1, <2>3 DEF LiveRunIds, Run, LastLive, Last
<1>5. ASSUME NEW s \in LiveSlots, NEW t \in LiveSlots, f[s] = f[t]
      PROVE  s = t
  BY <1>5 DEF LiveSlots, Slots
<1>6. ASSUME NEW r \in LiveRunIds
      PROVE  \E s \in LiveSlots : f[s] = r
  <2>1. /\ r[1] \in Nodes /\ r[2] \in Duties /\ r = <<r[1], r[2], r[3]>>
        /\ r[3] = Len(runs[r[1]][r[2]]) /\ LastLive(r[1], r[2])
    BY LiveIsLast DEF LiveRunIds
  <2>2. <<r[1], r[2]>> \in LiveSlots
    BY <2>1 DEF LiveSlots, Slots
  <2> QED
    BY <2>1, <2>2
<1>7. f \in [LiveSlots -> LiveRunIds]
  BY <1>4
<1> HIDE DEF f
<1>8. f \in Bijection(LiveSlots, LiveRunIds)
  BY <1>5, <1>6, <1>7 DEF Bijection, Injection, Surjection, IsInjective
<1> QED
  BY <1>3, <1>8, FS_Bijection DEF ExistsBijection

\* LiveAfterFailures counts the slots that are taken.
LEMMA TakenCount ==
    ASSUME TypeOK, Books
    PROVE  IsFiniteSet(TakenSlots) /\ Counted
<1>1. /\ IsFiniteSet(LiveSlots) /\ Cardinality(LiveRunIds) = Cardinality(LiveSlots)
  BY LiveSlotsCount
<1>2. IsFiniteSet(Slots)
  <2>1. Duties = {"work"} \cup {"review"}
    BY DEF Duties
  <2>2. IsFiniteSet(Duties)
    BY <2>1, FS_Singleton, FS_Union
  <2> QED
    BY <2>2, NodesAssumption, FS_Product DEF Slots
<1>3. IsFiniteSet(RetrySlots)
  BY <1>2, FS_Subset DEF RetrySlots
<1>4. LiveSlots \cap RetrySlots = {}
  BY DEF LiveSlots, RetrySlots, LastLive, Retries, Stalled, LiveRun
<1>5. Cardinality(LiveSlots) \in Nat /\ Cardinality(RetrySlots) \in Nat
  BY <1>1, <1>3, FS_CardinalityType
<1>6. /\ IsFiniteSet(TakenSlots)
      /\ Cardinality(TakenSlots) = Cardinality(LiveSlots) + Cardinality(RetrySlots)
  <2>1. /\ IsFiniteSet(LiveSlots \cup RetrySlots)
        /\ Cardinality(LiveSlots \cup RetrySlots)
             = Cardinality(LiveSlots) + Cardinality(RetrySlots) - Cardinality(LiveSlots \cap RetrySlots)
    BY <1>1, <1>3, FS_Union
  <2>2. Cardinality(LiveSlots \cap RetrySlots) = 0
    BY <1>4, FS_EmptySet
  <2> QED
    BY <1>5, <2>1, <2>2 DEF TakenSlots
<1>7. LiveAfterFailures = Cardinality(LiveRunIds) + Cardinality(RetrySlots)
  BY DEF LiveAfterFailures, RetrySlots, Slots
<1> QED
  BY <1>1, <1>5, <1>6, <1>7 DEF Counted

\* Also after a step.
LEMMA TakenCountNext == TypeOK' /\ Books' => Counted'
<1>1. TypeOK /\ Books => Counted
  BY TakenCount
<1> QED
  BY <1>1, PTL

\* Steps that take no slot leave the limit as it is.
LEMMA NoneTaken ==
    ASSUME TypeOK, TypeOK', Books, Books', TakenSlots' \subseteq TakenSlots,
           WithinLimit
    PROVE  WithinLimit'
<1>1. IsFiniteSet(TakenSlots) /\ LiveAfterFailures = Cardinality(TakenSlots) /\ LiveAfterFailures \in Nat
  BY TakenCount DEF Counted
<1>2. LiveAfterFailures' = Cardinality(TakenSlots') /\ LiveAfterFailures' \in Nat
  BY TakenCountNext DEF Counted
<1>3. Cardinality(TakenSlots') <= Cardinality(TakenSlots)
  BY <1>1, FS_Subset
<1> QED
  BY <1>1, <1>2, <1>3, LimitsAssumption DEF WithinLimit

\* Such are the steps that move no run between live and ended ...
LEMMA ProceedingTakesNone ==
    ASSUME TypeOK, TypeOK', RunsProceed, AssignmentsEnd
    PROVE  TakenSlots' \subseteq TakenSlots
<1> SUFFICES ASSUME NEW n \in Nodes, NEW d \in Duties
             PROVE  /\ LastLive(n, d)' => LastLive(n, d)
                    /\ Retries(n, d)' => Retries(n, d)
  BY DEF TakenSlots, LiveSlots, RetrySlots, Slots
<1>1. /\ (runs'[n][d] = <<>>) <=> (runs[n][d] = <<>>)
      /\ runs[n][d] # <<>> => SameBook(Last(runs[n][d]), Last(runs'[n][d]))
      /\ LastLive(n, d)' <=> LastLive(n, d)
  BY LastProceeds
<1>2. HasActive(n, d)' => HasActive(n, d)
  <2>1. Len(asg'[n][d]) = Len(asg[n][d]) /\ DOMAIN asg'[n][d] = DOMAIN asg[n][d]
    BY DEF AssignmentsEnd
  <2>2. asg[n][d] # <<>> <=> asg'[n][d] # <<>>
    BY <2>1, RowTypes, RowTypesNext
  <2>3. asg[n][d] # <<>> => Len(asg[n][d]) \in DOMAIN asg[n][d]
    BY RowTypes
  <2> QED
    BY <2>1, <2>2, <2>3 DEF AssignmentsEnd, HasActive, Last
<1> QED
  BY <1>1, <1>2 DEF Retries, Stalled, RetriesLeft, SameBook, LiveRun

\* ... and the end of a run: only its own slot may still be taken, by its retry.
LEMMA EndingTakesNone ==
    ASSUME TypeOK, TypeOK', Books, NEW r \in RunIds, NEW new, RunEnds(r, new)
    PROVE  TakenSlots' \subseteq TakenSlots
<1>1. new \in Runs /\ Settles(r, new) /\ AssignmentsEnd /\ Run(r).st \in LiveRun
  BY DEF RunEnds, Settles
<1> SUFFICES ASSUME NEW n \in Nodes, NEW d \in Duties
             PROVE  LastLive(n, d)' \/ Retries(n, d)' => LastLive(n, d) \/ Retries(n, d)
  BY DEF TakenSlots, LiveSlots, RetrySlots, Slots
<1>2. CASE n = r[1] /\ d = r[2]
  BY <1>1, <1>2, LiveIsLast
<1>3. CASE ~(n = r[1] /\ d = r[2])
  <2>1. /\ (runs'[n][d] = <<>>) <=> (runs[n][d] = <<>>)
        /\ runs[n][d] # <<>> => Last(runs'[n][d]) = Last(runs[n][d])
        /\ LastLive(n, d)' => LastLive(n, d)
    BY <1>1, <1>3, SettledRows
  <2>2. Len(asg'[n][d]) = Len(asg[n][d]) /\ DOMAIN asg'[n][d] = DOMAIN asg[n][d]
    BY <1>1 DEF AssignmentsEnd
  <2>3. asg[n][d] # <<>> <=> asg'[n][d] # <<>>
    BY <2>2, RowTypes, RowTypesNext
  <2>4. asg[n][d] # <<>> => Len(asg[n][d]) \in DOMAIN asg[n][d]
    BY RowTypes
  <2>5. HasActive(n, d)' => HasActive(n, d)
    BY <1>1, <2>2, <2>3, <2>4 DEF AssignmentsEnd, HasActive, Last
  <2> QED
    BY <2>1, <2>5 DEF Retries, Stalled, RetriesLeft
<1> QED
  BY <1>2, <1>3

\* An Advance takes the slots of the work and the reviews it starts.
LEMMA AdvanceTakes ==
    ASSUME TypeOK, TypeOK', Books, NEW plan, NEW pick, NEW n \in Nodes, NodeAdvances(n, plan, pick),
           NEW d \in Duties, LastLive(n, d)' \/ Retries(n, d)'
    PROVE  \/ LastLive(n, d) \/ Retries(n, d)
           \/ d = "work" /\ n \in plan.work
           \/ d = "review" /\ n \in plan.review
<1>1. ASSUME runs'[n][d] = runs[n][d], asg'[n][d] = asg[n][d]
      PROVE  LastLive(n, d) \/ Retries(n, d)
  BY <1>1 DEF LastLive, Retries, Stalled, HasActive, RetriesLeft
<1>2. CASE NodeRests(n) \/ NodeUnblocked(n) \/ NodeUnreviewed(n)
  BY <1>1, <1>2 DEF NodeRests, NodeUnblocked, NodeUnreviewed, RowsStay
<1>3. ASSUME NEW e \in Duties, RunRetried(n, e)
      PROVE  LastLive(n, d) \/ Retries(n, d)
  BY <1>1, <1>3 DEF RunRetried, RunAppended
<1>4. ASSUME NEW e \in Duties, RunGivenUp(n, e)
      PROVE  LastLive(n, d) \/ Retries(n, d)
  <2>1. CASE d = e
    <3>1. ~LastLive(n, d)' /\ ~HasActive(n, d)'
      BY <1>4, <2>1, GivenUpRows DEF Books, Rows
    <3> QED
      BY <3>1 DEF Retries, Stalled
  <2>2. CASE d # e
    BY <1>1, <1>4, <2>2 DEF RunGivenUp
  <2> QED
    BY <2>1, <2>2
<1>5. CASE WorkStarted(n, pick[n]) /\ n \in plan.work
  BY <1>1, <1>5 DEF WorkStarted, DutyStarted, RunAppended, Duties
<1>6. CASE ReviewStarted(n, pick[n]) /\ n \in plan.review
  BY <1>1, <1>6 DEF ReviewStarted, DutyStarted, RunAppended, Duties
<1> QED
  BY <1>2, <1>3, <1>4, <1>5, <1>6 DEF NodeAdvances

\* Together they stay within the limit.
LEMMA AdvanceWithinLimit ==
    ASSUME TypeOK, TypeOK', Books, Books', WithinLimit, NodesAdvance
    PROVE  WithinLimit'
<1> DEFINE st == AfterPropagation(AfterFailures)
<1>1. PICK pick \in Routings(st) : \A n \in Nodes : NodeAdvances(n, Plan(st, pick), pick)
  BY DEF NodesAdvance
<1> DEFINE plan == Plan(st, pick)
           live == LiveAfterFailures + Cardinality(plan.work)
           work == {<<n, "work">> : n \in plan.work}
           review == {<<n, "review">> : n \in plan.review}
<1>2. LiveAfterFailures \in Nat /\ IsFiniteSet(TakenSlots) /\ LiveAfterFailures = Cardinality(TakenSlots)
  BY TakenCount DEF Counted
<1>3. ReadyNodes(st) \in SUBSET Nodes /\ AwaitingReview(st) \in SUBSET Nodes
  BY DEF ReadyNodes, AwaitingReview
<1>4. plan.work = Routed(Considered(ReadyNodes(st), LiveAfterFailures, pick), pick)
  BY DEF Plan
<1>5. plan.review = Routed(Considered(AwaitingReview(st), live, pick), pick)
  BY <1>4 DEF Plan
<1> HIDE DEF st, plan
<1>6. IsFiniteSet(plan.work) /\ Cardinality(plan.work) \in Nat /\ live <= MaxParallel /\ live \in Nat
  BY <1>2, <1>3, <1>4, RoutedWithinLimit DEF WithinLimit
<1>7. /\ IsFiniteSet(plan.review) /\ Cardinality(plan.review) \in Nat
      /\ live + Cardinality(plan.review) <= MaxParallel
  <2> HIDE DEF live
  <2> QED
    BY <1>3, <1>5, <1>6, RoutedWithinLimit
<1>8. /\ IsFiniteSet(work) /\ Cardinality(work) <= Cardinality(plan.work)
      /\ IsFiniteSet(review) /\ Cardinality(review) <= Cardinality(plan.review)
  <2> DEFINE f == [n \in plan.work |-> <<n, "work">>]
             g == [n \in plan.review |-> <<n, "review">>]
  <2>1. f \in Surjection(plan.work, work) /\ g \in Surjection(plan.review, review)
    BY DEF Surjection
  <2> HIDE DEF f, g, work, review
  <2> QED
    BY <1>6, <1>7, <2>1, FS_Surjection
<1>9. TakenSlots' \subseteq TakenSlots \cup (work \cup review)
  <2> SUFFICES ASSUME NEW n \in Nodes, NEW d \in Duties, LastLive(n, d)' \/ Retries(n, d)'
               PROVE  <<n, d>> \in TakenSlots \cup (work \cup review)
    BY DEF TakenSlots, LiveSlots, RetrySlots, Slots
  <2>1. \/ LastLive(n, d) \/ Retries(n, d)
        \/ d = "work" /\ n \in plan.work
        \/ d = "review" /\ n \in plan.review
    BY <1>1, AdvanceTakes DEF plan
  <2> QED
    BY <2>1 DEF TakenSlots, LiveSlots, RetrySlots, Slots
<1> HIDE DEF work, review
<1>10. LiveAfterFailures' = Cardinality(TakenSlots') /\ LiveAfterFailures' \in Nat
  BY TakenCountNext DEF Counted
<1>11. /\ IsFiniteSet(work \cup review) /\ Cardinality(work \cup review) \in Nat
       /\ Cardinality(work) \in Nat /\ Cardinality(review) \in Nat
       /\ Cardinality(work \cup review) <= Cardinality(work) + Cardinality(review)
  <2>1. IsFiniteSet(work \cap review)
    BY <1>8, FS_Subset
  <2>2. IsFiniteSet(work \cup review)
        /\ Cardinality(work \cup review) = Cardinality(work) + Cardinality(review) - Cardinality(work \cap review)
    BY <1>8, FS_Union
  <2> QED
    BY <1>8, <2>1, <2>2, FS_CardinalityType
<1>12. Cardinality(TakenSlots') <= Cardinality(TakenSlots) + Cardinality(work \cup review)
  <2> DEFINE started == work \cup review
             all == TakenSlots \cup started
  <2>1. /\ IsFiniteSet(all)
        /\ Cardinality(all) = Cardinality(TakenSlots) + Cardinality(started) - Cardinality(TakenSlots \cap started)
    BY <1>2, <1>11, FS_Union
  <2>2. IsFiniteSet(TakenSlots \cap started)
    BY <1>11, FS_Subset
  <2>3. Cardinality(TakenSlots \cap started) \in Nat /\ Cardinality(all) \in Nat
    BY <2>1, <2>2, FS_CardinalityType
  <2>4. Cardinality(TakenSlots') <= Cardinality(all)
    BY <1>9, <2>1, FS_Subset
  <2> HIDE DEF started, all
  <2>5. Cardinality(TakenSlots') <= Cardinality(TakenSlots) + Cardinality(started)
    BY <1>2, <1>10, <1>11, <2>1, <2>3, <2>4 DEF started
  <2> QED
    BY <2>5 DEF started
<1> QED
  BY <1>2, <1>6, <1>7, <1>8, <1>10, <1>11, <1>12, LimitsAssumption DEF WithinLimit

\* The limit holds in every state, also before the start and after the end of the
\* mission: the retries of phase 1, which do not look at it, take no new slot.
LEMMA LimitHolds == Spec => []WithinLimit
<1>1. Init /\ TypeOK /\ Books => WithinLimit
  <2> SUFFICES ASSUME Init, TypeOK, Books PROVE WithinLimit
    OBVIOUS
  <2>1. TakenSlots = {}
    BY DEF Init, TakenSlots, LiveSlots, RetrySlots, Slots, LastLive, Retries, Stalled, HasActive
  <2> QED
    BY <2>1, TakenCount, FS_EmptySet, LimitsAssumption DEF Counted, WithinLimit
<1>2. TypeOK /\ TypeOK' /\ Books /\ Books' /\ WithinLimit /\ [Next]_vars
        => WithinLimit'
  <2> SUFFICES ASSUME TypeOK, TypeOK', Books, Books', WithinLimit, [Next]_vars
               PROVE  WithinLimit'
    OBVIOUS
  <2>1. CASE Quiet
    <3>1. RunsProceed /\ AssignmentsEnd
      BY <2>1, QuietProceeds DEF AssignmentsEnd
    <3> QED
      BY <3>1, ProceedingTakesNone, NoneTaken
  <2>2. CASE OwnerStep
    BY <2>2, OwnerEnds, ProceedingTakesNone, NoneTaken
  <2>3. CASE NodesAdvance
    BY <2>3, AdvanceWithinLimit
  <2>4. CASE RunMovesOn
    <3>1. RunsProceed /\ AssignmentsEnd
      BY <2>4 DEF RunMovesOn, AssignmentsEnd
    <3> QED
      BY <3>1, ProceedingTakesNone, NoneTaken
  <2>5. CASE \E r \in RunIds : \E new : RunEnds(r, new)
    BY <2>5, EndingTakesNone, NoneTaken
  <2> QED
    BY <2>1, <2>2, <2>3, <2>4, <2>5, StepCases
<1> QED
  BY <1>1, <1>2, TypeCorrect, BooksHold, PTL DEF Spec

\* MaxParallelRuns bounds the live runs together with the failed ones that phase 1
\* of AdvanceMission will retry without looking at the limit.
THEOREM RunsWithinLimit == Spec => []ParallelCap
<1>1. WithinLimit => ParallelCap
  BY DEF ParallelCap, WithinLimit
<1> QED
  BY <1>1, LimitHolds, PTL

-----------------------------------------------------------------------------
(* Busy nodes and stages *)

Stage == [n \in Nodes |-> StageOf(n)]
BusyFits ==
    /\ BusyNodes \subseteq Nodes
    /\ \A n \in Nodes : n \in BusyNodes <=> \E d \in Duties : LastLive(n, d)

\* A node is busy while the last run of one of its duties is live.
LEMMA BusyWhileLive ==
    ASSUME TypeOK, Books
    PROVE  BusyFits
<1>1. BusyNodes \subseteq Nodes
  BY DEF BusyNodes
<1>2. ASSUME NEW n \in Nodes, n \in BusyNodes
      PROVE  \E d \in Duties : LastLive(n, d)
  <2>1. PICK r \in LiveRunIds : r[1] = n
    BY <1>2 DEF BusyNodes
  <2> QED
    BY <2>1, LiveIsLast DEF LiveRunIds
<1>3. ASSUME NEW n \in Nodes, NEW d \in Duties, LastLive(n, d)
      PROVE  n \in BusyNodes
  <2>1. Len(runs[n][d]) \in DOMAIN runs[n][d]
    BY <1>3, RowTypes DEF LastLive
  <2>2. <<n, d, Len(runs[n][d])>> \in RunIds
    BY <2>1, RunIdOf
  <2>3. <<n, d, Len(runs[n][d])>> \in LiveRunIds
    BY <1>3, <2>2 DEF LiveRunIds, Run, LastLive, Last
  <2> QED
    BY <2>3 DEF BusyNodes
<1> QED
  BY <1>1, <1>2, <1>3 DEF BusyFits

\* Also after a step.
LEMMA BusyNext == TypeOK' /\ Books' => BusyFits'
<1>1. TypeOK /\ Books => BusyFits
  BY BusyWhileLive
<1> QED
  BY <1>1, PTL

BusyWithinLimit == Cardinality(BusyNodes) <= MaxParallel

\* At most MaxParallel nodes are busy.
LEMMA BusyLimited ==
    ASSUME TypeOK, Books, WithinLimit
    PROVE  BusyWithinLimit
<1> DEFINE f == [s \in LiveSlots |-> s[1]]
<1>1. BusyFits
  BY BusyWhileLive
<1>2. \A s \in LiveSlots : f[s] \in BusyNodes
  BY <1>1 DEF BusyFits, LiveSlots, Slots
<1>3. ASSUME NEW n \in BusyNodes PROVE \E s \in LiveSlots : f[s] = n
  <2>1. n \in Nodes
    BY <1>1 DEF BusyFits
  <2>2. PICK d \in Duties : LastLive(n, d)
    BY <1>1, <2>1 DEF BusyFits
  <2>3. <<n, d>> \in LiveSlots
    BY <2>1, <2>2 DEF LiveSlots, Slots
  <2> QED
    BY <2>3
<1>4. f \in Surjection(LiveSlots, BusyNodes)
  BY <1>2, <1>3 DEF Surjection
<1>5. /\ IsFiniteSet(LiveSlots) /\ IsFiniteSet(TakenSlots) /\ Counted
      /\ LiveSlots \in SUBSET TakenSlots
  BY LiveSlotsCount, TakenCount DEF TakenSlots
<1> HIDE DEF f
<1>6. IsFiniteSet(BusyNodes) /\ Cardinality(BusyNodes) <= Cardinality(LiveSlots)
  BY <1>4, <1>5, FS_Surjection
<1>7. Cardinality(LiveSlots) <= Cardinality(TakenSlots)
  BY <1>5, FS_Subset
<1>8. Cardinality(BusyNodes) \in Nat /\ Cardinality(LiveSlots) \in Nat
  BY <1>5, <1>6, FS_CardinalityType
<1> QED
  BY <1>5, <1>6, <1>7, <1>8, LimitsAssumption DEF Counted, WithinLimit, BusyWithinLimit

\* Also after a step.
LEMMA BusyLimitedNext == TypeOK' /\ Books' /\ WithinLimit' => BusyWithinLimit'
<1>1. TypeOK /\ Books /\ WithinLimit => BusyWithinLimit
  BY BusyLimited
<1> QED
  BY <1>1, PTL

\* Where the rows proceed the same nodes stay busy.
LEMMA BusyProceeds ==
    ASSUME TypeOK, TypeOK', Books, Books', RunsProceed
    PROVE  BusyNodes' = BusyNodes
<1>1. BusyFits /\ BusyFits'
  BY BusyWhileLive, BusyNext
<1>2. \A n \in Nodes, d \in Duties : LastLive(n, d)' <=> LastLive(n, d)
  BY LastProceeds
<1> QED
  BY <1>1, <1>2 DEF BusyFits

\* The end of a run makes its node idle, and no other.
LEMMA BusyEnds ==
    ASSUME TypeOK, TypeOK', Books, Books', NEW r \in RunIds, NEW new, RunEnds(r, new)
    PROVE  r[1] \in BusyNodes /\ BusyNodes' = BusyNodes \ {r[1]}
<1>1. BusyFits /\ BusyFits'
  BY BusyWhileLive, BusyNext
<1>2. new \in Runs /\ Settles(r, new) /\ Run(r).st \in LiveRun
  BY DEF RunEnds, Settles
<1>3. /\ r[1] \in Nodes /\ r[2] \in Duties /\ LastLive(r[1], r[2])
      /\ \A d \in Duties : LastLive(r[1], d) => d = r[2]
  BY <1>2, LiveIsLast
<1>4. \A n \in Nodes, d \in Duties : LastLive(n, d)' <=> (LastLive(n, d) /\ ~(n = r[1] /\ d = r[2]))
  BY <1>2, SettledRows
<1>5. \A n \in Nodes : n \in BusyNodes' <=> n \in BusyNodes /\ n # r[1]
  BY <1>1, <1>3, <1>4 DEF BusyFits
<1> QED
  BY <1>1, <1>3, <1>5 DEF BusyFits

-----------------------------------------------------------------------------
(* The steps of the contract *)

\* The shape that the contract asks of every change of the stages.
StageMoves(n) ==
    StageOf(n)' # StageOf(n) =>
        /\ StageOf(n) \in {"waiting", "open"}
        /\ StageOf(n)' # "approved"
        /\ StageOf(n)' = "open" => DepsCompleted(n)
LEMMA StagesMoveAs ==
    ASSUME \A n \in Nodes : StageMoves(n)
    PROVE  Contract!StagesMove
<1>1. \A n \in Nodes : StageOf(n)' \in {"waiting", "open", "approved", "lost"}
  BY DEF StageOf
<1>2. \A n \in Nodes : Deps[n] \subseteq Nodes
  BY DepsAssumption
<1>3. \A d \in Nodes : node[d] = "completed" => StageOf(d) = "approved"
  BY DEF StageOf
<1>4. \A n \in Nodes : DepsCompleted(n) => Deps[n] \subseteq {m \in Nodes : StageOf(m) = "approved"}
  BY <1>2, <1>3 DEF DepsCompleted
<1> QED
  BY <1>1, <1>4 DEF StageMoves, Contract!StagesMove, Contract!Stages, Contract!Startable, Contract!Approved

\* StartMission starts the plan: nodes without dependencies are opened.
LEMMA StartIsStart ==
    ASSUME TypeOK, TypeOK', Books, Books', Ends, StartMission
    PROVE  Contract!Start
<1>1. /\ mission = "ready" /\ mission' = "running" /\ \A n \in Nodes : node[n] = "pending"
      /\ \A n \in Nodes : node'[n] = IF n \in InitiallyReady THEN "ready" ELSE node[n]
  BY DEF StartMission, Ends
<1>2. \A n \in InitiallyReady : DepsCompleted(n)
  BY DEF InitiallyReady
<1>3. \A n \in Nodes : StageMoves(n) /\ StageOf(n)' \in {"waiting", "open"}
  BY <1>1, <1>2 DEF StageMoves, StageOf
<1>4. BusyNodes' = BusyNodes
  BY BusyProceeds, SameRunsProceed DEF StartMission
<1> QED
  BY <1>1, <1>3, <1>4, StagesMoveAs DEF Contract!Start

\* CancelMission cancels: what is not approved is lost.
LEMMA CancelIsCancel ==
    ASSUME TypeOK, TypeOK', Books, Books', CancelMission
    PROVE  Contract!Cancel
<1>1. /\ mission \in {"ready", "running", "blocked"} /\ mission' = "cancelled"
      /\ \A n \in Nodes : node'[n] = IF node[n] \in TerminalTask THEN node[n] ELSE "cancelled"
  BY DEF CancelMission
<1>2. \A n \in Nodes : StageOf(n) = "approved" <=> node[n] = "completed"
  BY DEF StageOf
<1>3. \A n \in Nodes : StageOf(n)' = IF StageOf(n) = "approved" THEN "approved" ELSE "lost"
  BY <1>1, <1>2 DEF StageOf, TerminalTask
<1>4. BusyNodes' = BusyNodes
  BY BusyProceeds, SameRunsProceed DEF CancelMission
<1> QED
  BY <1>1, <1>3, <1>4 DEF Contract!Cancel, Contract!Ended, Contract!Approved

\* RetryTaskNode and ResolveHumanGate resume the mission: a stopped node goes back
\* to waiting, a gated one stays open.
LEMMA SendBackIsResume ==
    ASSUME TypeOK, TypeOK', Books, Books', NEW n \in Nodes, RetryTaskNode(n) \/ ResolveHumanGate(n)
    PROVE  Contract!Resume
<1>1. node \in [Nodes -> TaskStatuses] /\ gate \in [Nodes -> GateKinds \cup {"none"}]
  BY DEF TypeOK, DataOK
<1>2. mission \in {"running", "blocked"} /\ mission' = "running"
  BY DEF RetryTaskNode, ResolveHumanGate
<1>3. ASSUME RetryTaskNode(n)
      PROVE  \A m \in Nodes : StageOf(m)' = StageOf(m)
  <2>1. /\ node[n] = "blocked" /\ gate[n] = "none" /\ gate' = gate
        /\ \A m \in Nodes : node'[m] = IF m = n THEN "pending" ELSE node[m]
    BY <1>1, <1>3 DEF RetryTaskNode
  <2>2. \A m \in Nodes : StageOf(m)' = StageOf(m)
    BY <2>1 DEF StageOf
  <2> QED
    BY <2>2
<1>4. ASSUME ResolveHumanGate(n)
      PROVE  \A m \in Nodes : StageOf(m)' = StageOf(m)
  <2>1. /\ node[n] = "blocked" /\ gate[n] # "none"
        /\ node'[n] \in {"review", "rework"}
        /\ \A m \in Nodes \ {n} : node'[m] = node[m] /\ gate'[m] = gate[m]
    BY <1>1, <1>4 DEF ResolveHumanGate
  <2>2. \A m \in Nodes : StageOf(m)' = StageOf(m)
    BY <2>1 DEF StageOf
  <2> QED
    BY <2>2
<1>5. BusyNodes' = BusyNodes
  BY BusyProceeds, SameRunsProceed DEF RetryTaskNode, ResolveHumanGate
<1> QED
  BY <1>2, <1>3, <1>4, <1>5 DEF Contract!Resume

\* What AdvanceMission makes of the stage of a node, and of its being busy.
LEMMA AdvanceStage ==
    ASSUME TypeOK, TypeOK', Books, GateInv, ~Over, NEW n \in Nodes, NEW plan, NEW pick,
           NodeAdvances(n, plan, pick)
    PROVE  /\ StageMoves(n)
           /\ node'[n] = "completed" => node[n] = "completed"
           /\ \A d \in Duties : LastLive(n, d) => LastLive(n, d)'
           /\ \A d \in Duties : LastLive(n, d)' => node'[n] \in {"assigned", "running", "review"}
<1>1. gate[n] # "none" => node[n] \in {"blocked", "cancelled"}
  BY DEF GateInv
<1>2. NodeFits(n) /\ \A d \in Duties : RowsFit(n, d)
  BY DEF Books, Rows
<1>3. \A d \in Duties : LastLive(n, d) => node[n] \in {"assigned", "running", "review"}
  BY <1>2 DEF NodeFits, WorkFits, ReviewFits, LastLive, Duties
<1>4. ASSUME NEW d \in Duties, runs'[n][d] = runs[n][d]
      PROVE  LastLive(n, d)' <=> LastLive(n, d)
  BY <1>4 DEF LastLive
<1>5. CASE NodeRests(n)
  BY <1>3, <1>4, <1>5 DEF NodeRests, RowsStay, StageMoves, StageOf
<1>6. CASE NodeUnblocked(n)
  <2>1. \A d \in Duties : ~LastLive(n, d) /\ ~LastLive(n, d)'
    BY <1>3, <1>4, <1>6 DEF NodeUnblocked, RowsStay, BeforeWork
  <2>2. gate[n] = "none" /\ gate'[n] = "none"
    BY <1>1, <1>6 DEF NodeUnblocked, BeforeWork
  <2>3. StageMoves(n) /\ node'[n] # "completed"
    BY <1>6, <2>2 DEF NodeUnblocked, BeforeWork, StageMoves, StageOf
  <2> QED
    BY <2>1, <2>3
<1>7. CASE NodeUnreviewed(n)
  <2>1. \A d \in Duties : ~LastLive(n, d) /\ ~LastLive(n, d)'
    BY <1>2, <1>4, <1>7 DEF NodeUnreviewed, RowsStay, NodeFits, LatestWorkSucceeded, LastLive, LiveRun, Duties
  <2> QED
    BY <1>7, <2>1 DEF NodeUnreviewed, StageMoves, StageOf
<1>8. ASSUME NEW e \in Duties, RunRetried(n, e)
      PROVE  /\ StageMoves(n) /\ node'[n] # "completed"
             /\ \A d \in Duties : LastLive(n, d) => LastLive(n, d)'
             /\ node'[n] \in {"assigned", "running", "review"}
  <2>1. \A d \in Duties : LastLive(n, d) => LastLive(n, d)'
    BY <1>2, <1>4, <1>8, RetriedRows DEF RunRetried, RunAppended
  <2>2. gate'[n] = gate[n] /\ node'[n] = node[n] /\ node[n] \in {"assigned", "running", "review"}
    BY <1>8 DEF RunRetried
  <2> QED
    BY <2>1, <2>2 DEF StageMoves, StageOf
<1>9. ASSUME NEW e \in Duties, RunGivenUp(n, e)
      PROVE  /\ StageMoves(n) /\ node'[n] # "completed"
             /\ \A d \in Duties : ~LastLive(n, d) /\ ~LastLive(n, d)'
  <2>1. ~LastLive(n, e) /\ ~LastLive(n, e)' /\ HasActive(n, e)
    BY <1>2, <1>9, GivenUpRows
  <2>2. \A d \in Duties : d # e => ~LastLive(n, d)
    BY <1>2, <1>9 DEF RunGivenUp, NodeFits, WorkFits, ReviewFits, LastLive, LatestWorkSucceeded, LiveRun, Duties
  <2>3. \A d \in Duties : ~LastLive(n, d) /\ ~LastLive(n, d)'
    BY <1>4, <1>9, <2>1, <2>2 DEF RunGivenUp
  <2>4. node'[n] \in {"blocked", "failed"} /\ gate'[n] = "none" /\ gate[n] = "none"
        /\ node[n] \in {"assigned", "running", "review"}
    BY <1>1, <1>9 DEF RunGivenUp, ExhaustedStatus
  <2> QED
    BY <2>3, <2>4 DEF StageMoves, StageOf
<1>10. ASSUME NEW e \in Duties, NEW agent \in Agents, NEW subject, DutyStarted(n, e, agent, subject)
       PROVE  \A d \in Duties : LastLive(n, d) => LastLive(n, d)'
  BY <1>2, <1>4, <1>10 DEF DutyStarted, RunAppended, NodeFits
<1>11. ASSUME WorkStarted(n, pick[n]), pick[n] \in Agents
       PROVE  /\ StageMoves(n) /\ node'[n] = "assigned"
              /\ \A d \in Duties : LastLive(n, d) => LastLive(n, d)'
  <2>1. gate[n] = "none"
    BY <1>1, <1>11 DEF WorkStarted, BeforeWork
  <2>2. StageMoves(n)
    BY <1>11, <2>1 DEF WorkStarted, BeforeWork, StageMoves, StageOf
  <2> QED
    BY <1>10, <1>11, <2>2 DEF WorkStarted, Duties
<1>12. ASSUME ReviewStarted(n, pick[n]), pick[n] \in Agents
       PROVE  /\ StageMoves(n) /\ node'[n] = "review"
              /\ \A d \in Duties : LastLive(n, d) => LastLive(n, d)'
  <2>1. StageMoves(n)
    BY <1>12 DEF ReviewStarted, StageMoves, StageOf
  <2> QED
    BY <1>10, <1>12, <2>1 DEF ReviewStarted, Duties
<1> QED
  BY <1>5, <1>6, <1>7, <1>8, <1>9, <1>11, <1>12 DEF NodeAdvances

\* A committed Advance is progress: it takes up work on open nodes within the
\* limit, opens nodes whose dependencies are approved, and completes or fails the
\* mission only with its nodes.
LEMMA AdvanceIsProgress ==
    ASSUME TypeOK, TypeOK', Books, Books', GateInv, WithinLimit', NodesAdvance
    PROVE  Contract!Progress
<1>1. mission \in {"running", "blocked"} /\ ~Over
  BY DEF NodesAdvance, Over
<1>2. PICK plan, pick : /\ mission' = MissionAfter(node', plan)
                        /\ \A n \in Nodes : NodeAdvances(n, plan, pick)
  BY DEF NodesAdvance, AdvanceCommits
<1>3. \A n \in Nodes :
        /\ StageMoves(n)
        /\ node'[n] = "completed" => node[n] = "completed"
        /\ \A d \in Duties : LastLive(n, d) => LastLive(n, d)'
        /\ \A d \in Duties : LastLive(n, d)' => node'[n] \in {"assigned", "running", "review"}
  BY <1>1, <1>2, AdvanceStage
<1>4. BusyFits /\ BusyFits'
  BY BusyWhileLive, BusyNext
<1>5. BusyNodes \subseteq BusyNodes'
  BY <1>3, <1>4 DEF BusyFits
<1>6. \A n \in BusyNodes' : n \in Nodes /\ node'[n] \in {"assigned", "running", "review"}
  BY <1>3, <1>4 DEF BusyFits
<1>7. \A n \in BusyNodes' : n \in Nodes /\ StageOf(n)' = "open"
  BY <1>6 DEF StageOf
<1>8. BusyWithinLimit'
  BY BusyLimitedNext
<1>9. \/ mission' \in {"running", "blocked"}
      \/ mission' = "completed" /\ \A n \in Nodes : node'[n] = "completed"
      \/ mission' = "failed" /\ \E n \in Nodes : node'[n] = "failed"
  BY <1>1, <1>2, MissionAfterEffect
<1>10. ASSUME \A n \in Nodes : node'[n] = "completed"
       PROVE  (\A n \in Nodes : StageOf(n) = "approved") /\ BusyNodes' = {}
  BY <1>3, <1>6, <1>10 DEF StageOf
<1>11. ASSUME NEW n \in Nodes, node'[n] = "failed"
       PROVE  StageOf(n)' = "lost"
  BY <1>11 DEF StageOf
<1>12. \/ mission' \in {"running", "blocked"}
       \/ mission' = "completed" /\ (\A n \in Nodes : StageOf(n) = "approved") /\ BusyNodes' = {}
       \/ mission' = "failed" /\ \E n \in Nodes : StageOf(n)' = "lost"
  BY <1>9, <1>10, <1>11
<1>13. Contract!StagesMove
  BY <1>3, StagesMoveAs
<1>14. \A n \in Nodes : Stage[n] = StageOf(n) /\ Stage'[n] = StageOf(n)'
  BY DEF Stage
<1>15. BusyNodes' \subseteq {n \in Nodes : Stage'[n] # "approved"}
  BY <1>7, <1>14
<1>16. \A n \in BusyNodes' \ BusyNodes : Stage'[n] = "open"
  BY <1>7, <1>14
<1>17. \/ mission' \in {"running", "blocked"}
       \/ mission' = "completed" /\ {n \in Nodes : Stage[n] = "approved"} = Nodes /\ BusyNodes' = {}
       \/ mission' = "failed" /\ \E n \in Nodes : Stage'[n] = "lost"
  BY <1>12, <1>14
<1>18. Contract!Cardinality(BusyNodes') = Cardinality(BusyNodes')
  BY DEF Contract!Cardinality, Cardinality
<1> QED
  BY <1>1, <1>5, <1>8, <1>13, <1>15, <1>16, <1>17, <1>18
     DEF Contract!Progress, Contract!Approved, BusyWithinLimit, Stage

\* What the end of a run makes of the stages: its node is approved, lost or left
\* as it is, and no other node moves.
LEMMA EndStage ==
    ASSUME TypeOK, Books, Ends, NEW r \in RunIds, NEW new, RunEnds(r, new)
    PROVE  /\ \A n \in Nodes : n # r[1] => StageOf(n)' = StageOf(n)
           /\ \/ StageOf(r[1])' = StageOf(r[1])
              \/ StageOf(r[1])' = "lost" /\ StageOf(r[1]) # "approved"
              \/ StageOf(r[1])' = "approved" /\ StageOf(r[1]) = "open" /\ ~Over /\ mission # "completed"
<1>1. /\ r[1] \in Nodes /\ r[2] \in Duties /\ Run(r).st \in LiveRun
      /\ rework \in [Nodes -> Nat] /\ MaxRework \in Nat
  BY RunIdParts, LimitsAssumption DEF RunEnds, Settles, TypeOK, DataOK
<1>2. ~Over => node[r[1]] \in (IF r[2] = "work" THEN {"assigned", "running"} ELSE {"review"})
  BY <1>1, LiveNode
<1>3. CASE EndsFailed(r, new)
  BY <1>1, <1>3 DEF EndsFailed, StageOf
<1>4. CASE EndsCancelled(r, new)
  BY <1>1, <1>4 DEF EndsCancelled, StageOf, TerminalTask
<1>5. CASE EndsDelivered(r, new)
  BY <1>1, <1>2, <1>5 DEF EndsDelivered, StageOf
<1>6. ASSUME NEW decision \in Decisions, EndsJudged(r, new, decision)
      PROVE  /\ \A n \in Nodes : n # r[1] => StageOf(n)' = StageOf(n)
             /\ \/ StageOf(r[1])' = StageOf(r[1])
                \/ StageOf(r[1])' = "lost" /\ StageOf(r[1]) # "approved"
                \/ StageOf(r[1])' = "approved" /\ StageOf(r[1]) = "open" /\ ~Over /\ mission # "completed"
  <2>1. /\ ~Over /\ node[r[1]] = "review"
        /\ node'[r[1]] = VerdictStatus(r[1], decision)
        /\ gate'[r[1]] = IF VerdictStatus(r[1], decision) = "blocked"
                         THEN "rework_limit_exceeded" ELSE gate[r[1]]
    BY <1>1, <1>2, <1>6 DEF EndsJudged
  <2>2. VerdictStatus(r[1], decision) \in {"completed", "failed", "rework", "blocked"}
    <3>1. rework[r[1]] < MaxRework \/ rework[r[1]] >= MaxRework
      BY <1>1
    <3> QED
      BY <3>1 DEF VerdictStatus, Decisions
  <2>3. StageOf(r[1]) = "open"
    BY <2>1 DEF StageOf
  <2>4. StageOf(r[1])' \in {"approved", "lost", "open"}
    BY <2>1, <2>2 DEF StageOf
  <2>5. \A n \in Nodes : n # r[1] => StageOf(n)' = StageOf(n)
    BY <1>6 DEF EndsJudged, StageOf
  <2>6. mission # "completed"
    BY <1>1, <2>1 DEF Ends
  <2> QED
    BY <2>1, <2>3, <2>4, <2>5, <2>6
<1> QED
  BY <1>3, <1>4, <1>5, <1>6 DEF RunEnds

\* The end of a run is an approval of its node, or the end of the work on it.
LEMMA EndIsApproveOrStop ==
    ASSUME TypeOK, TypeOK', Books, Books', Ends, NEW r \in RunIds, NEW new, RunEnds(r, new)
    PROVE  Contract!Approve(r[1]) \/ Contract!StopWork(r[1])
<1> DEFINE n == r[1]
<1>1. n \in Nodes /\ mission' = mission /\ Run(r).st \in LiveRun
  BY RunIdParts DEF RunEnds, Settles
<1>2. n \in BusyNodes /\ BusyNodes' = BusyNodes \ {n}
  BY BusyEnds
<1>3. /\ \A m \in Nodes : m # n => StageOf(m)' = StageOf(m)
      /\ \/ StageOf(n)' = StageOf(n)
         \/ StageOf(n)' = "lost" /\ StageOf(n) # "approved"
         \/ StageOf(n)' = "approved" /\ StageOf(n) = "open" /\ ~Over /\ mission # "completed"
  BY EndStage
<1> HIDE DEF n
<1>4. \A m \in Nodes : Stage[m] = StageOf(m) /\ Stage'[m] = StageOf(m)'
  BY DEF Stage
<1>5. Stage' = [Stage EXCEPT ![n] = StageOf(n)']
  BY <1>3 DEF Stage
<1>6. CASE StageOf(n)' = StageOf(n)
  <2>1. Stage' = Stage
    BY <1>3, <1>6 DEF Stage
  <2>2. Contract!StopWork(n)
    BY <1>1, <1>2, <2>1 DEF Contract!StopWork, Stage
  <2> QED
    BY <2>2 DEF n
<1>7. CASE StageOf(n)' = "lost" /\ StageOf(n) # "approved"
  <2>1. Stage' = [Stage EXCEPT ![n] = "lost"] /\ Stage[n] # "approved"
    BY <1>1, <1>4, <1>5, <1>7
  <2>2. Contract!StopWork(n)
    BY <1>1, <1>2, <2>1 DEF Contract!StopWork, Stage
  <2> QED
    BY <2>2 DEF n
<1>8. CASE StageOf(n)' = "approved" /\ StageOf(n) = "open" /\ ~Over /\ mission # "completed"
  <2>1. Stage' = [Stage EXCEPT ![n] = "approved"] /\ Stage[n] = "open"
    BY <1>1, <1>4, <1>5, <1>8
  <2>2. mission \notin {"completed", "failed", "cancelled"}
    BY <1>8 DEF Over
  <2>3. Contract!Approve(n)
    BY <1>1, <1>2, <2>1, <2>2 DEF Contract!Approve, Contract!Ended, Stage
  <2> QED
    BY <2>3 DEF n
<1> QED
  BY <1>3, <1>6, <1>7, <1>8

\* The steps that only proceed are invisible to the owner.
LEMMA ProceedingIsStutter ==
    ASSUME TypeOK, TypeOK', Books, Books', Quiet \/ RunMovesOn
    PROVE  UNCHANGED Contract!vars
<1>1. /\ RunsProceed /\ mission' = mission
      /\ \A n \in Nodes : /\ node'[n] = node[n] \/ (node[n] = "assigned" /\ node'[n] = "running")
                          /\ gate'[n] = gate[n]
  BY QuietProceeds DEF RunMovesOn
<1>2. \A n \in Nodes : StageOf(n)' = StageOf(n)
  BY <1>1 DEF StageOf
<1>3. BusyNodes' = BusyNodes
  BY <1>1, BusyProceeds
<1> QED
  BY <1>1, <1>2, <1>3 DEF Contract!vars

\* Every step of MissionExecution is one of the contract, or none.
LEMMA StepIsContractStep ==
    ASSUME TypeOK, TypeOK', Books, Books', Ends, GateInv, WithinLimit', [Next]_vars
    PROVE  [Contract!Next]_(Contract!vars)
<1>1. CASE Quiet \/ RunMovesOn
  BY <1>1, ProceedingIsStutter
<1>2. CASE OwnerStep
  <2>1. Contract!Start \/ Contract!Cancel \/ Contract!Resume
    BY <1>2, StartIsStart, CancelIsCancel, SendBackIsResume DEF OwnerStep
  <2> QED
    BY <2>1 DEF Contract!Next
<1>3. CASE NodesAdvance
  BY <1>3, AdvanceIsProgress DEF Contract!Next
<1>4. ASSUME NEW r \in RunIds, NEW new, RunEnds(r, new)
      PROVE  Contract!Next
  <2>1. r[1] \in Nodes
    BY RunIdParts
  <2> QED
    BY <1>4, <2>1, EndIsApproveOrStop DEF Contract!Next
<1> QED
  BY <1>1, <1>2, <1>3, <1>4, StepCases

\* GateInv, as GatesHold states it of every reachable state.
LEMMA GateInvHolds == Spec => []GateInv
<1>1. GateHolds => GateInv
  BY DEF GateHolds, GateInv
<1> QED
  BY <1>1, GatesHold, PTL

\* MissionExecution implements the contract with the owner: whatever is lost,
\* retried or crashes, and in whatever order the service, the reconciler and the
\* execution plane act, each transaction is one step the owner was promised, or
\* none (StartMission, CancelMission, RetryTaskNode, ResolveHumanGate,
\* AdvanceMission, ReconcileRun).
THEOREM ContractImplemented == Spec => ImplementsContract
<1>1. Init /\ TypeOK /\ Books => Contract!Init
  <2> SUFFICES ASSUME Init, TypeOK, Books PROVE Contract!Init
    OBVIOUS
  <2>1. mission = "ready" /\ \A n \in Nodes : StageOf(n) = "waiting"
    BY DEF Init, StageOf
  <2>2. BusyNodes = {}
    BY BusyWhileLive DEF BusyFits, Init, LastLive
  <2> QED
    BY <2>1, <2>2 DEF Contract!Init
<1>2. TypeOK /\ TypeOK' /\ Books /\ Books' /\ Ends /\ GateInv /\ WithinLimit' /\ [Next]_vars
        => [Contract!Next]_(Contract!vars)
  BY StepIsContractStep
<1> QED
  BY <1>1, <1>2, TypeCorrect, BooksHold, EndsHold, GateInvHolds, LimitHolds, PTL
     DEF Spec, ImplementsContract, Contract!Spec
=============================================================================
