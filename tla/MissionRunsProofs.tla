------------------------- MODULE MissionRunsProofs -------------------------
(***************************************************************************)
(* What is proved of the runs and assignments of MissionExecution, for     *)
(* every plan, every set of agents, every limit and every bound.  The      *)
(* inductive invariant is Books: how the rows of a node fit each other and *)
(* its status.                                                             *)
(***************************************************************************)
EXTENDS MissionExecutionProofs

Over == mission \in {"cancelled", "failed"}
LastLive(n, d) == runs[n][d] # <<>> /\ Last(runs[n][d]).st \in LiveRun

\* The runs of a node and duty follow its assignments: none without the other,
\* the last run belongs to the last assignment, and only the last assignment can
\* be active, only the last run live.
RowsFit(n, d) ==
    /\ (runs[n][d] = <<>>) <=> (asg[n][d] = <<>>)
    /\ \A i \in DOMAIN runs[n][d] : runs[n][d][i].asg \in DOMAIN asg[n][d]
    /\ runs[n][d] # <<>> => Last(runs[n][d]).asg = Len(asg[n][d])
    /\ \A k \in DOMAIN asg[n][d] : asg[n][d][k].st = "active" => k = Len(asg[n][d])
    /\ \A i \in DOMAIN runs[n][d] : runs[n][d][i].st \in LiveRun => i = Len(runs[n][d])
OneDutyLive(n) == ~(LastLive(n, "work") /\ LastLive(n, "review"))

\* While the mission has not been given up: a live run has an active assignment;
\* work that runs or failed keeps its node assigned or running; a review is
\* active only for a node in review, of its latest work run, by another agent.
WorkFits(n) ==
    HasActive(n, "work") /\ Last(runs[n]["work"]).st \in LiveRun \cup {"failed"}
        => node[n] \in {"assigned", "running"}
ReviewFits(n) ==
    HasActive(n, "review") =>
        /\ node[n] = "review"
        /\ LatestWorkSucceeded(n)
        /\ Last(runs[n]["review"]).of = Len(runs[n]["work"])
        /\ Last(asg[n]["review"]).agent # Producer(n)
NodeFits(n) ==
    /\ \A d \in Duties : LastLive(n, d) => HasActive(n, d)
    /\ WorkFits(n)
    /\ ReviewFits(n)
    /\ node[n] = "completed" => ~HasActive(n, "work")
Ends ==
    /\ mission = "ready" => \A n \in Nodes : node[n] = "pending"
    /\ mission = "completed" => \A n \in Nodes : node[n] = "completed"

Rows == \A n \in Nodes : \A d \in Duties : RowsFit(n, d)
Books ==
    /\ Rows
    /\ \A n \in Nodes : OneDutyLive(n)
    /\ ~Over => \A n \in Nodes : NodeFits(n)

-----------------------------------------------------------------------------
(* Rows *)

\* The rows of a node and duty, as the sequences they are.
LEMMA RowTypes ==
    ASSUME TypeOK, NEW n \in Nodes, NEW d \in Duties
    PROVE  /\ runs[n][d] \in Seq(Runs) /\ asg[n][d] \in Seq(Assignments)
           /\ Len(runs[n][d]) \in Nat /\ Len(asg[n][d]) \in Nat
           /\ DOMAIN runs[n][d] = 1..Len(runs[n][d])
           /\ DOMAIN asg[n][d] = 1..Len(asg[n][d])
           /\ runs[n][d] = <<>> <=> Len(runs[n][d]) = 0
           /\ asg[n][d] = <<>> <=> Len(asg[n][d]) = 0
           /\ \A i \in 1..Len(runs[n][d]) : runs[n][d][i] \in Runs
           /\ \A k \in 1..Len(asg[n][d]) : asg[n][d][k] \in Assignments
<1>1. runs[n][d] \in Seq(Runs) /\ asg[n][d] \in Seq(Assignments)
  BY DEF TypeOK, DataOK
<1>2. \A i \in 1..Len(runs[n][d]) : runs[n][d][i] \in Runs
  BY <1>1, ElementOfSeq
<1>3. \A k \in 1..Len(asg[n][d]) : asg[n][d][k] \in Assignments
  BY <1>1, ElementOfSeq
<1> QED
  BY <1>1, <1>2, <1>3, LenProperties, EmptySeq

\* The rows after a step that keeps the types: empty exactly when of length 0.
LEMMA RowTypesNext ==
    ASSUME TypeOK', NEW n \in Nodes, NEW d \in Duties
    PROVE  /\ runs'[n][d] \in Seq(Runs) /\ asg'[n][d] \in Seq(Assignments)
           /\ Len(runs'[n][d]) \in Nat /\ Len(asg'[n][d]) \in Nat
           /\ DOMAIN runs'[n][d] = 1..Len(runs'[n][d])
           /\ DOMAIN asg'[n][d] = 1..Len(asg'[n][d])
           /\ runs'[n][d] = <<>> <=> Len(runs'[n][d]) = 0
           /\ asg'[n][d] = <<>> <=> Len(asg'[n][d]) = 0
<1>1. runs'[n][d] \in Seq(Runs) /\ asg'[n][d] \in Seq(Assignments)
  BY DEF TypeOK, DataOK
<1> QED
  BY <1>1, LenProperties, EmptySeq

\* A step that writes one run, or none: what becomes of the rows.
RowsWritten(r, new) ==
    \A n \in Nodes, d \in Duties :
        /\ Len(runs'[n][d]) = Len(runs[n][d])
        /\ DOMAIN runs'[n][d] = DOMAIN runs[n][d]
        /\ \A i \in DOMAIN runs[n][d] :
             runs'[n][d][i] = IF <<n, d, i>> = r THEN new ELSE runs[n][d][i]

\* SetRun writes the run it names.
LEMMA SetRunRows ==
    ASSUME TypeOK, NEW r \in RunIds, NEW new \in Runs, runs' = SetRun(r, new)
    PROVE  RowsWritten(r, new)
<1>1. runs \in RunTable
  BY DEF TypeOK, DataOK, RunTable
<1>2. SetRun(r, new) \in RunTable
  BY <1>1, SetRunEffect
<1> SUFFICES ASSUME NEW n \in Nodes, NEW d \in Duties
             PROVE  /\ Len(runs'[n][d]) = Len(runs[n][d])
                    /\ DOMAIN runs'[n][d] = DOMAIN runs[n][d]
                    /\ \A i \in DOMAIN runs[n][d] :
                         runs'[n][d][i] = IF <<n, d, i>> = r THEN new ELSE runs[n][d][i]
  BY DEF RowsWritten
<1>3. /\ DOMAIN runs'[n][d] = DOMAIN runs[n][d]
      /\ \A i \in DOMAIN runs[n][d] :
           runs'[n][d][i] = IF <<n, d, i>> = r THEN new ELSE runs[n][d][i]
  BY <1>1, SetRunEffect
<1>4. runs'[n][d] \in Seq(Runs) /\ runs[n][d] \in Seq(Runs)
  BY <1>1, <1>2 DEF RunTable
<1>5. Len(runs'[n][d]) = Len(runs[n][d])
  BY <1>3, <1>4, LenProperties
<1> QED
  BY <1>3, <1>5

\* What a step that moves no run between live and ended leaves of the rows.
SameBook(a, b) ==
    /\ b.asg = a.asg /\ b.of = a.of /\ b.att = a.att
    /\ b.kind = a.kind /\ b.verdict = a.verdict
    /\ b.st = a.st \/ (a.st \in LiveRun /\ b.st \in LiveRun)
RunsProceed ==
    \A n \in Nodes, d \in Duties :
        /\ Len(runs'[n][d]) = Len(runs[n][d])
        /\ DOMAIN runs'[n][d] = DOMAIN runs[n][d]
        /\ \A i \in DOMAIN runs[n][d] : SameBook(runs[n][d][i], runs'[n][d][i])

\* Writing the task of a run, or the progress of a live one, is such a step.
LEMMA SetRunProceeds ==
    ASSUME TypeOK, NEW r \in RunIds, NEW new \in Runs, runs' = SetRun(r, new),
           SameBook(Run(r), new)
    PROVE  RunsProceed
<1>1. RowsWritten(r, new)
  BY SetRunRows
<1>2. \A n \in Nodes, d \in Duties : \A i \in DOMAIN runs[n][d] :
        <<n, d, i>> = r => Run(r) = runs[n][d][i]
  BY DEF Run
<1>3. \A n \in Nodes, d \in Duties : \A i \in DOMAIN runs[n][d] :
        SameBook(runs[n][d][i], runs'[n][d][i])
  BY <1>1, <1>2 DEF RowsWritten, SameBook
<1> QED
  BY <1>1, <1>3 DEF RowsWritten, RunsProceed

\* The last run of a row proceeds like the others.
LEMMA LastProceeds ==
    ASSUME TypeOK, TypeOK', RunsProceed, NEW n \in Nodes, NEW d \in Duties
    PROVE  /\ (runs'[n][d] = <<>>) <=> (runs[n][d] = <<>>)
           /\ runs[n][d] # <<>> => SameBook(Last(runs[n][d]), Last(runs'[n][d]))
           /\ LastLive(n, d)' <=> LastLive(n, d)
<1>1. /\ Len(runs[n][d]) \in Nat /\ DOMAIN runs[n][d] = 1..Len(runs[n][d])
      /\ runs[n][d] = <<>> <=> Len(runs[n][d]) = 0
  BY RowTypes
<1>2. Len(runs'[n][d]) = Len(runs[n][d]) /\ DOMAIN runs'[n][d] = DOMAIN runs[n][d]
  BY DEF RunsProceed
<1>3. (runs'[n][d] = <<>>) <=> (runs[n][d] = <<>>)
  BY <1>1, <1>2, RowTypesNext
<1>4. runs[n][d] # <<>> => SameBook(Last(runs[n][d]), Last(runs'[n][d]))
  BY <1>1, <1>2 DEF RunsProceed, Last
<1> QED
  BY <1>3, <1>4 DEF LastLive, SameBook

\* Which node moves leave the books in order: nodes on which nothing is active
\* in the sense of NodeFits may move, except to "completed"; running and assigned
\* nodes may change places.
BooksAllow(n) ==
    \/ node'[n] = node[n]
    \/ /\ node[n] \notin {"assigned", "running", "review", "completed"}
       /\ node'[n] # "completed"
    \/ node[n] \in {"assigned", "running"} /\ node'[n] \in {"assigned", "running"}

\* Steps that start, end, assign and revoke nothing keep the books.
LEMMA BooksProceed ==
    ASSUME TypeOK, TypeOK', Books, RunsProceed, UNCHANGED asg, ~Over' => ~Over,
           ~Over' => \A n \in Nodes : BooksAllow(n)
    PROVE  Books'
<1>1. "work" \in Duties /\ "review" \in Duties
  BY DEF Duties
<1>2. ASSUME NEW n \in Nodes, NEW d \in Duties
      PROVE  RowsFit(n, d)'
  <2>1. RowsFit(n, d)
    BY DEF Books, Rows
  <2>2. /\ (runs'[n][d] = <<>>) <=> (runs[n][d] = <<>>)
        /\ runs[n][d] # <<>> => SameBook(Last(runs[n][d]), Last(runs'[n][d]))
    BY LastProceeds
  <2>3. /\ Len(runs'[n][d]) = Len(runs[n][d])
        /\ DOMAIN runs'[n][d] = DOMAIN runs[n][d]
        /\ \A i \in DOMAIN runs[n][d] : SameBook(runs[n][d][i], runs'[n][d][i])
    BY DEF RunsProceed
  <2> QED
    BY <2>1, <2>2, <2>3 DEF RowsFit, SameBook
<1>3. \A n \in Nodes, d \in Duties : LastLive(n, d)' <=> LastLive(n, d)
  BY LastProceeds
<1>4. ASSUME ~Over', NEW n \in Nodes
      PROVE  NodeFits(n)'
  <2>1. NodeFits(n) /\ BooksAllow(n) /\ \A d \in Duties : RowsFit(n, d)
    BY <1>4 DEF Books, Rows
  <2>2. \A d \in Duties : HasActive(n, d)' <=> HasActive(n, d)
    BY DEF HasActive
  <2>3. \A d \in Duties : HasActive(n, d) => runs[n][d] # <<>>
    BY <2>1 DEF HasActive, RowsFit
  <2>4. ASSUME NEW d \in Duties, runs[n][d] # <<>>
        PROVE  runs'[n][d] # <<>> /\ SameBook(Last(runs[n][d]), Last(runs'[n][d]))
    BY <2>4, LastProceeds
  <2>5. Len(runs'[n]["work"]) = Len(runs[n]["work"])
    BY <1>1 DEF RunsProceed
  <2>6. \A d \in Duties : LastLive(n, d)' => HasActive(n, d)'
    BY <1>3, <2>1, <2>2 DEF NodeFits
  <2>7. WorkFits(n)'
    <3>1. HasActive(n, "work") /\ Last(runs'[n]["work"]).st \in LiveRun \cup {"failed"}
            => node[n] \in {"assigned", "running"}
      BY <1>1, <2>1, <2>3, <2>4 DEF NodeFits, WorkFits, SameBook
    <3> QED
      BY <1>1, <2>1, <2>2, <3>1 DEF WorkFits, BooksAllow
  <2>8. ReviewFits(n)'
    <3> SUFFICES ASSUME HasActive(n, "review")'
                 PROVE  /\ node'[n] = "review"
                        /\ LatestWorkSucceeded(n)'
                        /\ Last(runs'[n]["review"]).of = Len(runs'[n]["work"])
                        /\ Last(asg'[n]["review"]).agent # Producer(n)'
      BY DEF ReviewFits
    <3>1. HasActive(n, "review") /\ runs[n]["review"] # <<>>
      BY <1>1, <2>2, <2>3
    <3>2. /\ node[n] = "review" /\ LatestWorkSucceeded(n)
          /\ Last(runs[n]["review"]).of = Len(runs[n]["work"])
          /\ Last(asg[n]["review"]).agent # Producer(n)
      BY <2>1, <3>1 DEF NodeFits, ReviewFits
    <3>3. node'[n] = "review"
      BY <2>1, <3>2 DEF BooksAllow
    <3>4. SameBook(Last(runs[n]["review"]), Last(runs'[n]["review"]))
      BY <1>1, <2>4, <3>1
    <3>5. runs[n]["work"] # <<>> /\ runs'[n]["work"] # <<>>
          /\ SameBook(Last(runs[n]["work"]), Last(runs'[n]["work"]))
      BY <1>1, <2>4, <3>2 DEF LatestWorkSucceeded
    <3>6. LatestWorkSucceeded(n)' /\ Producer(n)' = Producer(n)
      BY <3>2, <3>5 DEF LatestWorkSucceeded, Producer, SameBook, LiveRun
    <3> QED
      BY <2>5, <3>2, <3>3, <3>4, <3>6 DEF SameBook
  <2>9. node'[n] = "completed" => ~HasActive(n, "work")'
    BY <1>1, <2>1, <2>2 DEF NodeFits, BooksAllow
  <2> QED
    BY <2>6, <2>7, <2>8, <2>9 DEF NodeFits
<1> QED
  BY <1>1, <1>2, <1>3, <1>4 DEF Books, Rows, OneDutyLive

\* A step that leaves the runs alone.
LEMMA SameRunsProceed ==
    ASSUME UNCHANGED runs
    PROVE  RunsProceed
BY DEF RunsProceed, SameBook

-----------------------------------------------------------------------------
(* The steps that only proceed *)

\* The gateway and the execution plane only write the task of a run.
LEMMA TaskProceeds ==
    ASSUME TypeOK, NEW r \in RunIds, NEW task \in AgentTaskStatuses,
           runs' = SetRun(r, [Run(r) EXCEPT !.task = task])
    PROVE  RunsProceed
<1>1. Run(r) \in Runs
  BY RunType DEF RunTable, TypeOK, DataOK
<1>2. [Run(r) EXCEPT !.task = task] \in Runs
  BY <1>1 DEF Runs
<1>3. SameBook(Run(r), [Run(r) EXCEPT !.task = task])
  BY <1>1 DEF Runs, SameBook
<1> QED
  BY <1>2, <1>3, SetRunProceeds

\* An observation that a task was dispatched or runs keeps a live run live.
LEMMA LiveProceeds ==
    ASSUME TypeOK, NEW r \in RunIds, Run(r).st \in LiveRun, NEW st \in LiveRun,
           runs' = SetRun(r, [Run(r) EXCEPT !.st = st])
    PROVE  RunsProceed
<1>1. Run(r) \in Runs
  BY RunType DEF RunTable, TypeOK, DataOK
<1>2. [Run(r) EXCEPT !.st = st] \in Runs
  BY <1>1 DEF Runs, RunStatuses
<1>3. SameBook(Run(r), [Run(r) EXCEPT !.st = st])
  BY <1>1 DEF Runs, SameBook
<1> QED
  BY <1>2, <1>3, SetRunProceeds

\* The steps that neither start nor end a run, nor touch node, mission or gate.
Quiet ==
    \/ AdvanceIgnored \/ Gateway \/ Crash \/ LoseCall \/ UNCHANGED vars
    \/ \E r \in RunIds : ExecutionPlane(r) \/ ReconcileTerminalRun(r)
    \/ AdvanceMission /\ UNCHANGED db

\* They are stutters of the books.
LEMMA QuietProceeds ==
    ASSUME TypeOK, Quiet
    PROVE  RunsProceed /\ UNCHANGED <<mission, node, asg, gate, rework>>
<1>1. CASE \/ AdvanceIgnored \/ Crash \/ LoseCall \/ UNCHANGED vars
           \/ (AdvanceMission /\ UNCHANGED db)
           \/ \E r \in RunIds : ReconcileTerminalRun(r)
  BY <1>1, SameRunsProceed DEF AdvanceIgnored, Crash, LoseCall, vars, db, ReconcileTerminalRun
<1>2. CASE Gateway
  <2>1. PICK s \in RunIds : BeginEnqueue(s) \/ FinishEnqueue(s) \/ CancelExecution(s)
    BY <1>2 DEF Gateway
  <2>2. RunsProceed
    BY <2>1, SameRunsProceed, TaskProceeds
       DEF BeginEnqueue, FinishEnqueue, CancelExecution, db, AgentTaskStatuses, LiveTask
  <2> QED
    BY <2>1, <2>2 DEF BeginEnqueue, FinishEnqueue, CancelExecution, db
<1>3. ASSUME NEW r \in RunIds, ExecutionPlane(r)
      PROVE  RunsProceed /\ UNCHANGED <<mission, node, asg, gate, rework>>
  BY <1>3, TaskProceeds
     DEF ExecutionPlane, ClaimTask, RequeueTask, StartTask, CompleteTask, FailTask, HaltTask, SetTask,
         AgentTaskStatuses, LiveTask
<1> QED
  BY <1>1, <1>2, <1>3 DEF Quiet

-----------------------------------------------------------------------------
(* The steps that end a run *)

\* Assignments that only end: the rows keep their length and their agents, and
\* none becomes active.
AssignmentsEnd ==
    \A n \in Nodes, d \in Duties :
        /\ Len(asg'[n][d]) = Len(asg[n][d])
        /\ DOMAIN asg'[n][d] = DOMAIN asg[n][d]
        /\ \A k \in DOMAIN asg[n][d] :
             /\ asg'[n][d][k].agent = asg[n][d][k].agent
             /\ asg'[n][d][k].st = "active" => asg[n][d][k].st = "active"

\* EndActive keeps length and agents, and leaves nothing active.
LEMMA EndActiveEnds ==
    ASSUME NEW s \in Seq(Assignments), NEW st \in AssignmentStatuses \ {"active"}
    PROVE  /\ Len(EndActive(s, st)) = Len(s)
           /\ DOMAIN EndActive(s, st) = DOMAIN s
           /\ \A k \in DOMAIN s : /\ EndActive(s, st)[k].agent = s[k].agent
                                  /\ EndActive(s, st)[k].st # "active"
<1>1. s \in [1..Len(s) -> Assignments] /\ Len(s) \in Nat
  BY LenProperties
<1>2. EndActive(s, st) \in Seq(Assignments)
  BY EndActiveType
<1>3. DOMAIN EndActive(s, st) = DOMAIN s
  BY DEF EndActive
<1>4. Len(EndActive(s, st)) = Len(s)
  BY <1>1, <1>2, <1>3, LenProperties
<1>5. ASSUME NEW k \in DOMAIN s
      PROVE  EndActive(s, st)[k].agent = s[k].agent /\ EndActive(s, st)[k].st # "active"
  <2>1. s[k] \in Assignments
    BY <1>1
  <2>2. EndActive(s, st)[k] = IF s[k].st = "active" THEN [s[k] EXCEPT !.st = st] ELSE s[k]
    BY DEF EndActive
  <2>3. [s[k] EXCEPT !.st = st].agent = s[k].agent /\ [s[k] EXCEPT !.st = st].st = st
    BY <2>1 DEF Assignments
  <2> QED
    BY <2>2, <2>3
<1> QED
  BY <1>3, <1>4, <1>5

\* Revoking one assignment of a row: the others stay.
LEMMA RevokeEnds ==
    ASSUME TypeOK, NEW n \in Nodes, NEW d \in Duties, NEW k \in DOMAIN asg[n][d],
           asg' = [asg EXCEPT ![n][d][k].st = "revoked"]
    PROVE  /\ AssignmentsEnd
           /\ asg'[n][d][k].st = "revoked"
           /\ \A m \in Nodes, e \in Duties : ~(m = n /\ e = d) => asg'[m][e] = asg[m][e]
<1> DEFINE seq == asg[n][d]
           changed == [seq EXCEPT ![k] = [@ EXCEPT !.st = "revoked"]]
<1>1. /\ asg \in [Nodes -> [Duties -> Seq(Assignments)]]
      /\ seq \in [1..Len(seq) -> Assignments] /\ Len(seq) \in Nat
      /\ DOMAIN seq = 1..Len(seq)
  BY LenProperties DEF TypeOK, DataOK
<1>2. [seq[k] EXCEPT !.st = "revoked"] \in Assignments
  BY <1>1 DEF Assignments, AssignmentStatuses
<1>3. changed \in [1..Len(seq) -> Assignments]
  BY <1>1, <1>2
<1>4. changed \in Seq(Assignments) /\ DOMAIN changed = DOMAIN seq
  BY <1>1, <1>3, FunctionIsSeq
<1>5. Len(changed) = Len(seq)
  BY <1>1, <1>4, LenProperties
<1>6. ASSUME NEW m \in Nodes, NEW e \in Duties
      PROVE  asg'[m][e] = IF m = n /\ e = d THEN changed ELSE asg[m][e]
  BY <1>1
<1>7. ASSUME NEW j \in DOMAIN seq
      PROVE  changed[j].agent = seq[j].agent /\ changed[j].st = IF j = k THEN "revoked" ELSE seq[j].st
  <2>1. seq[j] \in Assignments
    BY <1>1
  <2>2. /\ [seq[j] EXCEPT !.st = "revoked"].agent = seq[j].agent
        /\ [seq[j] EXCEPT !.st = "revoked"].st = "revoked"
    BY <2>1 DEF Assignments
  <2> QED
    BY <1>1, <2>2
<1> HIDE DEF changed
<1>8. AssignmentsEnd
  BY <1>4, <1>5, <1>6, <1>7 DEF AssignmentsEnd
<1> QED
  BY <1>6, <1>7, <1>8

\* A live run is the last of its row, and no other run of its node is live.
LEMMA LiveIsLast ==
    ASSUME TypeOK, Books, NEW r \in RunIds, Run(r).st \in LiveRun
    PROVE  /\ r[1] \in Nodes /\ r[2] \in Duties /\ r = <<r[1], r[2], r[3]>>
           /\ r[3] \in DOMAIN runs[r[1]][r[2]] /\ r[3] = Len(runs[r[1]][r[2]])
           /\ runs[r[1]][r[2]] # <<>>
           /\ Run(r) = Last(runs[r[1]][r[2]])
           /\ LastLive(r[1], r[2])
           /\ \A d \in Duties : LastLive(r[1], d) => d = r[2]
           /\ Run(r) \in Runs
           /\ Run(r).asg = Len(asg[r[1]][r[2]])
           /\ Run(r).asg \in DOMAIN asg[r[1]][r[2]]
           /\ AssignmentOf(r) = Last(asg[r[1]][r[2]])
<1>1. /\ r[1] \in Nodes /\ r[2] \in Duties /\ r = <<r[1], r[2], r[3]>>
      /\ r[3] \in DOMAIN runs[r[1]][r[2]]
  BY RunIdParts
<1>2. RowsFit(r[1], r[2]) /\ OneDutyLive(r[1])
  BY <1>1 DEF Books, Rows
<1>3. r[3] = Len(runs[r[1]][r[2]])
  BY <1>1, <1>2 DEF RowsFit, Run
<1>4. runs[r[1]][r[2]] # <<>>
  BY <1>1, RowTypes
<1>5. Run(r) = Last(runs[r[1]][r[2]])
  BY <1>3 DEF Run, Last
<1>6. LastLive(r[1], r[2])
  BY <1>4, <1>5 DEF LastLive
<1>7. \A d \in Duties : LastLive(r[1], d) => d = r[2]
  BY <1>1, <1>2, <1>6 DEF OneDutyLive, Duties
<1>8. Run(r) \in Runs
  BY RunType DEF RunTable, TypeOK, DataOK
<1>9. Run(r).asg = Len(asg[r[1]][r[2]]) /\ Run(r).asg \in DOMAIN asg[r[1]][r[2]]
  BY <1>1, <1>2, <1>4, <1>5 DEF RowsFit, Run
<1>10. AssignmentOf(r) = Last(asg[r[1]][r[2]])
  BY <1>9 DEF AssignmentOf, Last
<1> QED
  BY <1>1, <1>3, <1>4, <1>5, <1>6, <1>7, <1>8, <1>9, <1>10

\* The outcome of a run replaces it in its row.
Settles(r, new) ==
    /\ Run(r).st \in LiveRun
    /\ new.asg = Run(r).asg /\ new.of = Run(r).of
    /\ new.st \notin LiveRun
    /\ runs' = SetRun(r, new)

\* What the rows are after a run has ended.
LEMMA SettledRows ==
    ASSUME TypeOK, TypeOK', Books, NEW r \in RunIds, NEW new \in Runs, Settles(r, new),
           NEW n \in Nodes, NEW d \in Duties
    PROVE  /\ Len(runs'[n][d]) = Len(runs[n][d])
           /\ DOMAIN runs'[n][d] = DOMAIN runs[n][d]
           /\ (runs'[n][d] = <<>>) <=> (runs[n][d] = <<>>)
           /\ runs[n][d] # <<>> =>
                Last(runs'[n][d]) = IF n = r[1] /\ d = r[2] THEN new ELSE Last(runs[n][d])
           /\ LastLive(n, d)' <=> (LastLive(n, d) /\ ~(n = r[1] /\ d = r[2]))
           /\ \A i \in DOMAIN runs[n][d] :
                /\ runs'[n][d][i] = IF <<n, d, i>> = r THEN new ELSE runs[n][d][i]
                /\ runs'[n][d][i].asg = runs[n][d][i].asg
                /\ runs'[n][d][i].st \in LiveRun => runs[n][d][i].st \in LiveRun
<1>1. RowsWritten(r, new)
  BY SetRunRows DEF Settles
<1>2. /\ Len(runs'[n][d]) = Len(runs[n][d])
      /\ DOMAIN runs'[n][d] = DOMAIN runs[n][d]
      /\ \A i \in DOMAIN runs[n][d] :
           runs'[n][d][i] = IF <<n, d, i>> = r THEN new ELSE runs[n][d][i]
  BY <1>1 DEF RowsWritten
<1>3. /\ Len(runs[n][d]) \in Nat /\ DOMAIN runs[n][d] = 1..Len(runs[n][d])
      /\ runs[n][d] = <<>> <=> Len(runs[n][d]) = 0
  BY RowTypes
<1>4. (runs'[n][d] = <<>>) <=> (runs[n][d] = <<>>)
  BY <1>2, <1>3, RowTypesNext
<1>5. r = <<r[1], r[2], r[3]>> /\ r[3] = Len(runs[r[1]][r[2]])
  BY LiveIsLast DEF Settles
<1>6. <<n, d, Len(runs[n][d])>> = r <=> n = r[1] /\ d = r[2]
  BY <1>5
<1>7. runs[n][d] # <<>> =>
        Last(runs'[n][d]) = IF n = r[1] /\ d = r[2] THEN new ELSE Last(runs[n][d])
  BY <1>2, <1>3, <1>6 DEF Last
<1>8. LastLive(n, d)' <=> (LastLive(n, d) /\ ~(n = r[1] /\ d = r[2]))
  BY <1>4, <1>7 DEF LastLive, Settles
<1>9. \A i \in DOMAIN runs[n][d] : <<n, d, i>> = r => Run(r) = runs[n][d][i]
  BY DEF Run
<1> QED
  BY <1>2, <1>4, <1>7, <1>8, <1>9 DEF Settles

\* The rows fit each other after a run has ended, with any assignments that end.
LEMMA SettledBooks ==
    ASSUME TypeOK, TypeOK', Books, NEW r \in RunIds, NEW new \in Runs, Settles(r, new), AssignmentsEnd
    PROVE  Rows' /\ \A n \in Nodes : OneDutyLive(n)'
<1>1. "work" \in Duties /\ "review" \in Duties
  BY DEF Duties
<1>2. ASSUME NEW n \in Nodes, NEW d \in Duties
      PROVE  RowsFit(n, d)'
  <2>1. RowsFit(n, d)
    BY DEF Books, Rows
  <2>2. /\ Len(runs'[n][d]) = Len(runs[n][d])
        /\ DOMAIN runs'[n][d] = DOMAIN runs[n][d]
        /\ (runs'[n][d] = <<>>) <=> (runs[n][d] = <<>>)
        /\ runs[n][d] # <<>> =>
             Last(runs'[n][d]) = IF n = r[1] /\ d = r[2] THEN new ELSE Last(runs[n][d])
        /\ \A i \in DOMAIN runs[n][d] :
             /\ runs'[n][d][i].asg = runs[n][d][i].asg
             /\ runs'[n][d][i].st \in LiveRun => runs[n][d][i].st \in LiveRun
    BY SettledRows
  <2>3. /\ Len(asg'[n][d]) = Len(asg[n][d])
        /\ DOMAIN asg'[n][d] = DOMAIN asg[n][d]
        /\ \A k \in DOMAIN asg[n][d] : asg'[n][d][k].st = "active" => asg[n][d][k].st = "active"
    BY DEF AssignmentsEnd
  <2>4. (asg'[n][d] = <<>>) <=> (asg[n][d] = <<>>)
    BY <2>3, RowTypes, RowTypesNext
  <2>5. runs[n][d] # <<>> => Last(runs'[n][d]).asg = Last(runs[n][d]).asg
    BY <2>2, LiveIsLast DEF Settles
  <2> QED
    BY <2>1, <2>2, <2>3, <2>4, <2>5 DEF RowsFit
<1>3. ASSUME NEW n \in Nodes
      PROVE  OneDutyLive(n)'
  <2>1. OneDutyLive(n)
    BY DEF Books
  <2>2. \A d \in Duties : LastLive(n, d)' => LastLive(n, d)
    BY SettledRows
  <2> QED
    BY <1>1, <2>1, <2>2 DEF OneDutyLive
<1> QED
  BY <1>2, <1>3 DEF Rows

\* The record of a run that has ended keeps its assignment and its subject.
EndRecord(r, new, st) ==
    /\ new \in Runs /\ new.st = st
    /\ new.asg = Run(r).asg /\ new.of = Run(r).of /\ new.att = Run(r).att

\* The three ways in which the reconciler writes the end of a run.
LEMMA OutcomeRecord ==
    ASSUME TypeOK, NEW r \in RunIds
    PROVE  /\ \A st \in {"succeeded", "cancelled"} : EndRecord(r, [Run(r) EXCEPT !.st = st], st)
           /\ \A kind \in FailureKinds :
                EndRecord(r, [Run(r) EXCEPT !.st = "failed", !.kind = kind], "failed")
           /\ \A verdict \in Decisions :
                /\ EndRecord(r, [Run(r) EXCEPT !.st = "succeeded", !.verdict = verdict], "succeeded")
                /\ [Run(r) EXCEPT !.st = "succeeded", !.verdict = verdict].verdict = verdict
<1>1. Run(r) \in Runs
  BY RunType DEF RunTable, TypeOK, DataOK
<1>2. {"succeeded", "cancelled", "failed"} \subseteq RunStatuses
  BY DEF RunStatuses
<1> QED
  BY <1>1, <1>2 DEF Runs, EndRecord

\* A node on which nothing was started fits after a run of it, or of another
\* node, has ended and its assignments stay.
LEMMA FailureFits ==
    ASSUME TypeOK, TypeOK', Books, ~Over, NEW r \in RunIds, NEW new \in Runs, Settles(r, new),
           UNCHANGED asg, new.st = "failed", NEW n \in Nodes,
           \/ node'[n] = node[n]
           \/ node[n] = "running" /\ node'[n] = "assigned"
    PROVE  NodeFits(n)'
<1>1. "work" \in Duties /\ "review" \in Duties
  BY DEF Duties
<1>2. NodeFits(n) /\ \A d \in Duties : RowsFit(n, d)
  BY DEF Books, Rows
<1>3. NodeFits(r[1]) /\ LastLive(r[1], r[2]) /\ r[2] \in Duties /\ r[1] \in Nodes
      /\ \A d \in Duties : LastLive(r[1], d) => d = r[2]
  BY LiveIsLast DEF Books, Settles
<1>4. \A d \in Duties : HasActive(n, d)' <=> HasActive(n, d)
  BY DEF HasActive
<1>5. \A d \in Duties : HasActive(n, d) => runs[n][d] # <<>>
  BY <1>2 DEF HasActive, RowsFit
<1>6. \A d \in Duties : LastLive(n, d)' => HasActive(n, d)'
  BY <1>2, <1>4, SettledRows DEF NodeFits
<1>7. WorkFits(n)'
  <2>1. HasActive(n, "work")' /\ Last(runs'[n]["work"]).st \in LiveRun \cup {"failed"}
          => Last(runs[n]["work"]).st \in LiveRun \cup {"failed"}
    BY <1>1, <1>3, <1>4, <1>5, SettledRows DEF LastLive
  <2> QED
    BY <1>1, <1>2, <1>4, <2>1 DEF NodeFits, WorkFits
<1>8. ReviewFits(n)'
  <2> SUFFICES ASSUME HasActive(n, "review") PROVE ReviewFits(n)'
    BY <1>1, <1>4 DEF ReviewFits
  <2>1. /\ node[n] = "review" /\ LatestWorkSucceeded(n)
        /\ Last(runs[n]["review"]).of = Len(runs[n]["work"])
        /\ Last(asg[n]["review"]).agent # Producer(n)
        /\ runs[n]["review"] # <<>> /\ runs[n]["work"] # <<>>
    BY <1>1, <1>2, <1>5 DEF NodeFits, ReviewFits, LatestWorkSucceeded
  <2>2. ~LastLive(n, "work")
    BY <2>1 DEF LastLive, LatestWorkSucceeded, LiveRun
  <2>3. ~(n = r[1] /\ r[2] = "work")
    BY <1>3, <2>2
  <2>4. /\ Last(runs'[n]["work"]) = Last(runs[n]["work"]) /\ runs'[n]["work"] # <<>>
        /\ Len(runs'[n]["work"]) = Len(runs[n]["work"])
        /\ Last(runs'[n]["review"]).of = Last(runs[n]["review"]).of
    BY <1>1, <1>3, <2>1, <2>3, SettledRows, LiveIsLast DEF Settles
  <2>5. LatestWorkSucceeded(n)' /\ Producer(n)' = Producer(n)
    BY <2>1, <2>4 DEF LatestWorkSucceeded, Producer
  <2> QED
    BY <2>1, <2>4, <2>5 DEF ReviewFits
<1>9. node'[n] = "completed" => ~HasActive(n, "work")'
  BY <1>1, <1>2, <1>4 DEF NodeFits
<1> QED
  BY <1>6, <1>7, <1>8, <1>9 DEF NodeFits

\* The other nodes fit as they did when a run of one node has ended.
LEMMA OthersFit ==
    ASSUME TypeOK, TypeOK', Books, ~Over, NEW r \in RunIds, NEW new \in Runs, Settles(r, new),
           NEW n \in Nodes \ {r[1]}, node'[n] = node[n],
           \A d \in Duties : asg'[n][d] = asg[n][d]
    PROVE  NodeFits(n)'
<1>1. "work" \in Duties /\ "review" \in Duties
  BY DEF Duties
<1>2. NodeFits(n) /\ \A d \in Duties : RowsFit(n, d)
  BY DEF Books, Rows
<1>3. \A d \in Duties : HasActive(n, d)' <=> HasActive(n, d)
  BY DEF HasActive
<1>4. \A d \in Duties : HasActive(n, d) => runs[n][d] # <<>>
  BY <1>2 DEF HasActive, RowsFit
<1>5. ASSUME NEW d \in Duties
      PROVE  /\ LastLive(n, d)' <=> LastLive(n, d)
             /\ Len(runs'[n][d]) = Len(runs[n][d])
             /\ (runs'[n][d] = <<>>) <=> (runs[n][d] = <<>>)
             /\ runs[n][d] # <<>> => Last(runs'[n][d]) = Last(runs[n][d])
  BY SettledRows
<1>6. WorkFits(n)'
  BY <1>1, <1>2, <1>3, <1>4, <1>5 DEF NodeFits, WorkFits
<1>7. ReviewFits(n)'
  BY <1>1, <1>2, <1>3, <1>4, <1>5 DEF NodeFits, ReviewFits, LatestWorkSucceeded, Producer
<1> QED
  BY <1>1, <1>2, <1>3, <1>5, <1>6, <1>7 DEF NodeFits

-----------------------------------------------------------------------------
(* The observations of the reconciler *)

\* Cancelling a run and its node keeps the books.
LEMMA CancelRunBooks ==
    ASSUME TypeOK, TypeOK', Books, NEW r \in RunIds, Run(r).st \in LiveRun, CancelRunAndNode(r)
    PROVE  Books'
<1> DEFINE n == r[1]
           d == r[2]
           new == [Run(r) EXCEPT !.st = "cancelled"]
           open == node[n] \notin TerminalTask
<1>1. new \in Runs /\ Settles(r, new)
  <2>1. EndRecord(r, new, "cancelled")
    BY OutcomeRecord
  <2>2. runs' = SetRun(r, new)
    BY DEF CancelRunAndNode
  <2> QED
    BY <2>1, <2>2 DEF EndRecord, Settles, LiveRun
<1>2. /\ n \in Nodes /\ d \in Duties /\ LastLive(n, d)
      /\ Run(r).asg = Len(asg[n][d]) /\ Run(r).asg \in DOMAIN asg[n][d]
      /\ AssignmentOf(r) = Last(asg[n][d])
      /\ \A e \in Duties : LastLive(n, e) => e = d
  BY LiveIsLast
<1>3. asg' = IF open /\ AssignmentOf(r).st = "active"
             THEN [asg EXCEPT ![n][d][Run(r).asg].st = "revoked"]
             ELSE asg
  BY DEF CancelRunAndNode
<1>4. AssignmentsEnd
  <2>1. CASE open /\ AssignmentOf(r).st = "active"
    BY <1>2, <1>3, <2>1, RevokeEnds
  <2>2. CASE ~(open /\ AssignmentOf(r).st = "active")
    BY <1>3, <2>2 DEF AssignmentsEnd
  <2> QED
    BY <2>1, <2>2
<1>5. Rows' /\ \A m \in Nodes : OneDutyLive(m)'
  BY <1>1, <1>4, SettledBooks
<1>6. ASSUME ~Over', NEW m \in Nodes
      PROVE  NodeFits(m)'
  <2>1. ~Over /\ mission' = mission
    BY <1>6 DEF CancelRunAndNode, Over
  <2>2. NodeFits(n) /\ RowsFit(n, d)
    BY <1>2, <2>1 DEF Books, Rows
  <2>3. HasActive(n, d) /\ asg[n][d] # <<>> /\ AssignmentOf(r).st = "active"
    BY <1>2, <2>2 DEF NodeFits, HasActive
  <2>4. node[n] \in {"assigned", "running", "review"}
    BY <1>2, <2>2, <2>3 DEF NodeFits, WorkFits, ReviewFits, LastLive, Duties
  <2>5. /\ asg' = [asg EXCEPT ![n][d][Run(r).asg].st = "revoked"]
        /\ node' = [node EXCEPT ![n] = "cancelled"]
    BY <1>3, <2>3, <2>4 DEF CancelRunAndNode, TerminalTask
  <2>6. /\ asg'[n][d][Run(r).asg].st = "revoked"
        /\ \A p \in Nodes, e \in Duties : ~(p = n /\ e = d) => asg'[p][e] = asg[p][e]
        /\ Len(asg'[n][d]) = Len(asg[n][d])
    <3>1. asg'[n][d][Run(r).asg].st = "revoked"
      BY <1>2, <2>5, RevokeEnds
    <3>2. \A p \in Nodes, e \in Duties : ~(p = n /\ e = d) => asg'[p][e] = asg[p][e]
      BY <1>2, <2>5, RevokeEnds
    <3> QED
      BY <1>2, <1>4, <3>1, <3>2 DEF AssignmentsEnd
  <2>7. ~HasActive(n, d)'
    BY <1>2, <2>6 DEF HasActive, Last
  <2>8. node \in [Nodes -> TaskStatuses]
    BY DEF TypeOK, DataOK
  <2>9. CASE m # n
    BY <1>1, <1>2, <2>1, <2>5, <2>6, <2>8, <2>9, OthersFit
  <2>10. CASE m = n
    <3>1. node'[n] = "cancelled"
      BY <1>2, <2>5, <2>8
    <3>2. \A e \in Duties : ~LastLive(n, e)'
      BY <1>1, <1>2, SettledRows
    <3>3. CASE d = "work"
      <4>1. ~HasActive(n, "review")
        BY <1>2, <2>2, <3>3 DEF NodeFits, ReviewFits, LatestWorkSucceeded, LastLive, LiveRun
      <4>2. ~HasActive(n, "review")'
        BY <1>2, <2>6, <3>3, <4>1 DEF HasActive, Duties
      <4> QED
        BY <1>2, <2>7, <2>10, <3>1, <3>2, <3>3, <4>2 DEF NodeFits, WorkFits, ReviewFits, Duties
    <3>4. CASE d = "review"
      <4>1. LatestWorkSucceeded(n)
        BY <2>2, <2>3, <3>4 DEF NodeFits, ReviewFits
      <4>2. Last(runs'[n]["work"]).st = "succeeded"
        BY <1>1, <1>2, <3>4, <4>1, SettledRows DEF LatestWorkSucceeded, Duties
      <4> QED
        BY <1>2, <2>7, <2>10, <3>1, <3>2, <3>4, <4>2 DEF NodeFits, WorkFits, ReviewFits, Duties, LiveRun
    <3> QED
      BY <1>2, <3>3, <3>4 DEF Duties
  <2> QED
    BY <2>9, <2>10
<1> QED
  BY <1>5, <1>6 DEF Books

\* A failed run keeps the books: its node waits for Advance to retry or give up.
LEMMA FailRunBooks ==
    ASSUME TypeOK, TypeOK', Books, ~Over, NEW r \in RunIds, Run(r).st \in LiveRun,
           NEW kind \in FailureKinds, NEW cancel, FailRun(r, kind, cancel),
           UNCHANGED <<mission, asg>>,
           node' = node \/ node' = NodeBackToAssigned(r[1])
    PROVE  Books'
<1> DEFINE new == [Run(r) EXCEPT !.st = "failed", !.kind = kind]
<1>1. new \in Runs /\ Settles(r, new) /\ new.st = "failed"
  <2>1. EndRecord(r, new, "failed")
    BY OutcomeRecord
  <2>2. runs' = SetRun(r, new)
    BY DEF FailRun
  <2> QED
    BY <2>1, <2>2 DEF EndRecord, Settles, LiveRun
<1> HIDE DEF new
<1>2. AssignmentsEnd
  BY DEF AssignmentsEnd
<1>3. Rows' /\ \A n \in Nodes : OneDutyLive(n)'
  BY <1>1, <1>2, SettledBooks
<1>4. r[1] \in Nodes /\ node \in [Nodes -> TaskStatuses]
  BY RunIdParts DEF TypeOK, DataOK
<1>5. ASSUME NEW n \in Nodes
      PROVE  node'[n] = node[n] \/ (node[n] = "running" /\ node'[n] = "assigned")
  BY <1>4 DEF NodeBackToAssigned
<1>6. \A n \in Nodes : NodeFits(n)'
  BY <1>1, <1>5, FailureFits
<1> QED
  BY <1>3, <1>6 DEF Books

\* What was delivered puts the node into review.
LEMMA DeliveredBooks ==
    ASSUME TypeOK, TypeOK', Books, NEW r \in RunIds, ReconcileDelivered(r)
    PROVE  Books'
<1> DEFINE n == r[1]
           new == [Run(r) EXCEPT !.st = "succeeded"]
<1>1. /\ Run(r).st \in LiveRun /\ ~Over /\ r[2] = "work" /\ asg' = asg
      /\ node' = [node EXCEPT ![n] = "review"] /\ mission' = mission
  BY DEF ReconcileDelivered, Observable, GivenUp, Over
<1>2. new \in Runs /\ Settles(r, new) /\ new.st = "succeeded"
  <2>1. EndRecord(r, new, "succeeded")
    BY OutcomeRecord
  <2>2. runs' = SetRun(r, new)
    BY DEF ReconcileDelivered
  <2> QED
    BY <1>1, <2>1, <2>2 DEF EndRecord, Settles, LiveRun
<1> HIDE DEF new
<1>3. Rows' /\ \A m \in Nodes : OneDutyLive(m)'
  <2>1. AssignmentsEnd
    BY <1>1 DEF AssignmentsEnd
  <2> QED
    BY <1>2, <2>1, SettledBooks
<1>4. /\ n \in Nodes /\ LastLive(n, "work") /\ runs[n]["work"] # <<>>
      /\ \A d \in Duties : LastLive(n, d) => d = "work"
  BY <1>1, LiveIsLast
<1>5. node \in [Nodes -> TaskStatuses] /\ "work" \in Duties /\ "review" \in Duties
  BY DEF TypeOK, DataOK, Duties
<1>6. ASSUME NEW m \in Nodes
      PROVE  NodeFits(m)'
  <2>1. CASE m # n
    <3>1. node'[m] = node[m] /\ \A d \in Duties : asg'[m][d] = asg[m][d]
      BY <1>1, <1>5, <2>1
    <3> QED
      BY <1>1, <1>2, <2>1, <3>1, OthersFit
  <2>2. CASE m = n
    <3>1. NodeFits(n)
      BY <1>1, <1>4 DEF Books
    <3>2. ~HasActive(n, "review")
      BY <1>4, <3>1 DEF NodeFits, ReviewFits, LatestWorkSucceeded, LastLive, LiveRun
    <3>3. \A d \in Duties : HasActive(n, d)' <=> HasActive(n, d)
      BY <1>1 DEF HasActive
    <3>4. \A d \in Duties : ~LastLive(n, d)'
      BY <1>1, <1>2, <1>4, SettledRows
    <3>5. Last(runs'[n]["work"]).st = "succeeded"
      BY <1>1, <1>2, <1>4, <1>5, SettledRows
    <3>6. node'[n] = "review"
      BY <1>1, <1>4, <1>5
    <3> QED
      BY <1>5, <2>2, <3>2, <3>3, <3>4, <3>5, <3>6 DEF NodeFits, WorkFits, ReviewFits, LiveRun
  <2> QED
    BY <2>1, <2>2
<1> QED
  BY <1>3, <1>6 DEF Books

\* The assignments after a verdict: those of the node have ended.
LEMMA VerdictAssignments ==
    ASSUME TypeOK, NEW r \in RunIds, NEW decision \in Decisions, ReconcileVerdict(r, decision)
    PROVE  /\ AssignmentsEnd
           /\ \A d \in Duties : ~HasActive(r[1], d)'
           /\ \A n \in Nodes \ {r[1]}, d \in Duties : asg'[n][d] = asg[n][d]
<1> DEFINE ended(d) == IF d = "review" \/ VerdictStatus(r[1], decision) = "completed"
                       THEN "fulfilled" ELSE "superseded"
<1>1. asg' = [asg EXCEPT ![r[1]] = [d \in Duties |-> EndActive(asg[r[1]][d], ended(d))]]
  BY DEF ReconcileVerdict
<1>2. r[1] \in Nodes /\ asg \in [Nodes -> [Duties -> Seq(Assignments)]]
  BY RunIdParts DEF TypeOK, DataOK
<1>3. \A d \in Duties : ended(d) \in AssignmentStatuses \ {"active"}
  BY DEF AssignmentStatuses
<1> HIDE DEF ended
<1>4. \A d \in Duties : asg'[r[1]][d] = EndActive(asg[r[1]][d], ended(d))
  BY <1>1, <1>2
<1>5. \A n \in Nodes \ {r[1]}, d \in Duties : asg'[n][d] = asg[n][d]
  BY <1>1, <1>2
<1>6. ASSUME NEW d \in Duties
      PROVE  /\ Len(asg'[r[1]][d]) = Len(asg[r[1]][d])
             /\ DOMAIN asg'[r[1]][d] = DOMAIN asg[r[1]][d]
             /\ \A k \in DOMAIN asg[r[1]][d] : /\ asg'[r[1]][d][k].agent = asg[r[1]][d][k].agent
                                               /\ asg'[r[1]][d][k].st # "active"
  <2>1. asg[r[1]][d] \in Seq(Assignments)
    BY <1>2
  <2> QED
    BY <1>3, <1>4, <2>1, EndActiveEnds
<1>7. AssignmentsEnd
  <2> SUFFICES ASSUME NEW n \in Nodes, NEW d \in Duties
               PROVE  /\ Len(asg'[n][d]) = Len(asg[n][d])
                      /\ DOMAIN asg'[n][d] = DOMAIN asg[n][d]
                      /\ \A k \in DOMAIN asg[n][d] :
                           /\ asg'[n][d][k].agent = asg[n][d][k].agent
                           /\ asg'[n][d][k].st = "active" => asg[n][d][k].st = "active"
    BY DEF AssignmentsEnd
  <2>1. CASE n = r[1]
    BY <1>6, <2>1
  <2>2. CASE n # r[1]
    BY <1>5, <2>2
  <2> QED
    BY <2>1, <2>2
<1>8. ASSUME NEW d \in Duties
      PROVE  ~HasActive(r[1], d)'
  <2>1. asg[r[1]][d] \in Seq(Assignments)
    BY <1>2
  <2>2. asg'[r[1]][d] \in Seq(Assignments)
    BY <1>3, <1>4, <2>1, EndActiveType
  <2>3. asg'[r[1]][d] # <<>> => Len(asg'[r[1]][d]) \in DOMAIN asg[r[1]][d]
    BY <1>6, <2>2, LenProperties, EmptySeq
  <2> QED
    BY <1>6, <2>3 DEF HasActive, Last
<1> QED
  BY <1>5, <1>7, <1>8

\* A verdict ends all that was active on its node.
LEMMA VerdictBooks ==
    ASSUME TypeOK, TypeOK', Books, NEW r \in RunIds, NEW decision \in Decisions,
           ReconcileVerdict(r, decision)
    PROVE  Books'
<1> DEFINE n == r[1]
           new == [Run(r) EXCEPT !.st = "succeeded", !.verdict = decision]
<1>1. /\ Run(r).st \in LiveRun /\ ~Over /\ r[2] = "review"
      /\ node' = [node EXCEPT ![n] = VerdictStatus(n, decision)] /\ mission' = mission
  BY DEF ReconcileVerdict, Observable, GivenUp, Over
<1>2. new \in Runs /\ Settles(r, new)
  <2>1. EndRecord(r, new, "succeeded")
    BY OutcomeRecord
  <2>2. runs' = SetRun(r, new)
    BY DEF ReconcileVerdict
  <2> QED
    BY <1>1, <2>1, <2>2 DEF EndRecord, Settles, LiveRun
<1> HIDE DEF new
<1>3. Rows' /\ \A m \in Nodes : OneDutyLive(m)'
  BY <1>2, VerdictAssignments, SettledBooks
<1>4. n \in Nodes /\ \A d \in Duties : LastLive(n, d) => d = r[2]
  BY <1>1, LiveIsLast
<1>5. node \in [Nodes -> TaskStatuses]
  BY DEF TypeOK, DataOK
<1>6. ASSUME NEW m \in Nodes
      PROVE  NodeFits(m)'
  <2>1. CASE m # n
    <3>1. node'[m] = node[m] /\ \A d \in Duties : asg'[m][d] = asg[m][d]
      BY <1>1, <1>5, <2>1, VerdictAssignments
    <3> QED
      BY <1>1, <1>2, <2>1, <3>1, OthersFit
  <2>2. CASE m = n
    <3>1. \A d \in Duties : ~LastLive(n, d)'
      BY <1>2, <1>4, SettledRows
    <3>2. \A d \in Duties : ~HasActive(n, d)'
      BY VerdictAssignments
    <3> QED
      BY <2>2, <3>1, <3>2 DEF NodeFits, WorkFits, ReviewFits, Duties
  <2> QED
    BY <2>1, <2>2
<1> QED
  BY <1>3, <1>6 DEF Books

\* Every observation of the reconciler keeps the books.
LEMMA ReconcileBooks ==
    ASSUME TypeOK, TypeOK', Books, NEW r \in RunIds, ReconcileRun(r)
    PROVE  Books'
<1>1. CASE ReconcileTerminalRun(r)
  BY <1>1, QuietProceeds, BooksProceed DEF Quiet, Over, BooksAllow
<1>2. CASE ReconcileGivenUp(r) \/ ReconcileTaskCancelled(r)
  BY <1>2, CancelRunBooks DEF ReconcileGivenUp, ReconcileTaskCancelled, Observable
<1>3. Observable(r) => Run(r).st \in LiveRun /\ ~Over
  BY DEF Observable, GivenUp, Over
<1>4. CASE ReconcileDispatchTimeout(r) \/ ReconcileTimeout(r) \/ ReconcileInvalidReceipt(r)
  BY <1>3, <1>4, FailRunBooks
     DEF ReconcileDispatchTimeout, ReconcileTimeout, ReconcileInvalidReceipt, FailureKinds
<1>5. CASE ReconcileTaskFailed(r)
  BY <1>3, <1>5, FailRunBooks DEF ReconcileTaskFailed
<1>6. CASE ReconcileDispatched(r) \/ ReconcileRunning(r)
  <2>1. RunsProceed /\ UNCHANGED <<mission, asg>>
    BY <1>3, <1>6, LiveProceeds DEF ReconcileDispatched, ReconcileRunning, LiveRun
  <2>2. node \in [Nodes -> TaskStatuses]
    BY DEF TypeOK, DataOK
  <2>3. \A n \in Nodes : BooksAllow(n)
    BY <1>6, <2>2 DEF ReconcileDispatched, ReconcileRunning, BooksAllow
  <2> QED
    BY <2>1, <2>3, BooksProceed DEF Over
<1>7. CASE ReconcileDelivered(r)
  BY <1>7, DeliveredBooks
<1>8. CASE \E decision \in Decisions : ReconcileVerdict(r, decision)
  BY <1>8, VerdictBooks
<1> QED
  BY <1>1, <1>2, <1>4, <1>5, <1>6, <1>7, <1>8 DEF ReconcileRun

-----------------------------------------------------------------------------
(* AdvanceMission, node by node: what one transaction makes of a node, its *)
(* rows and its gate.                                                      *)

RowsStay(n) == \A d \in Duties : runs'[n][d] = runs[n][d] /\ asg'[n][d] = asg[n][d]
RunAppended(n, d, run) ==
    \A e \in Duties : runs'[n][e] = IF e = d THEN Append(runs[n][e], run) ELSE runs[n][e]
NeverStalled(n) == \A d \in Duties : ~Stalled(n, d)
BeforeWork == {"pending", "rework", "ready"}

NodeRests(n) ==
    /\ NeverStalled(n) /\ RowsStay(n) /\ node'[n] = node[n] /\ gate'[n] = gate[n]
NodeUnblocked(n) ==
    /\ NeverStalled(n) /\ RowsStay(n) /\ gate'[n] = gate[n]
    /\ node[n] \in BeforeWork
    /\ \/ node'[n] = "ready" /\ DepsCompleted(n)
       \/ node'[n] = "ready" /\ node[n] = "ready"
       \/ node'[n] = "blocked"
NodeUnreviewed(n) ==
    /\ NeverStalled(n) /\ RowsStay(n) /\ node[n] = "review" /\ node'[n] = "blocked"
    /\ LatestWorkSucceeded(n) /\ ~HasActive(n, "review")
    /\ gate'[n] = "reviewer_unavailable"
RunRetried(n, d) ==
    /\ Retries(n, d) /\ \A e \in Duties : e # d => ~Stalled(n, e)
    /\ RunAppended(n, d, NewRun(Last(runs[n][d]).asg, Last(runs[n][d]).att + 1, Last(runs[n][d]).of))
    /\ \A e \in Duties : asg'[n][e] = asg[n][e]
    /\ node'[n] = node[n] /\ gate'[n] = gate[n]
    /\ node[n] \in (IF d = "work" THEN {"assigned", "running"} ELSE {"review"})
RunGivenUp(n, d) ==
    /\ Exhausted(n, d) /\ \A e \in Duties : e # d => ~Stalled(n, e)
    /\ \A e \in Duties : runs'[n][e] = runs[n][e]
    /\ \A e \in Duties : asg'[n][e] = IF e = d THEN EndActive(asg[n][e], "revoked") ELSE asg[n][e]
    /\ node'[n] = ExhaustedStatus(n, d) /\ gate'[n] = gate[n]
    /\ node[n] \in (IF d = "work" THEN {"assigned", "running"} ELSE {"review"})
DutyStarted(n, d, agent, subject) ==
    /\ NeverStalled(n) /\ ~HasActive(n, d)
    /\ RunAppended(n, d, NewRun(Len(asg[n][d]) + 1, 1, subject))
    /\ \A e \in Duties :
         asg'[n][e] = IF e = d THEN Append(asg[n][e], [agent |-> agent, st |-> "active"]) ELSE asg[n][e]
    /\ gate'[n] = gate[n]
WorkStarted(n, agent) ==
    /\ DutyStarted(n, "work", agent, 0)
    /\ node[n] \in BeforeWork /\ node'[n] = "assigned"
    /\ node[n] = "ready" \/ DepsCompleted(n)
ReviewStarted(n, agent) ==
    /\ DutyStarted(n, "review", agent, Len(runs[n]["work"]))
    /\ node[n] = "review" /\ node'[n] = "review"
    /\ LatestWorkSucceeded(n) /\ agent # Producer(n)

NodeAdvances(n, plan, pick) ==
    \/ NodeRests(n) /\ n \notin plan.work /\ n \notin plan.review
    \/ NodeUnblocked(n) /\ n \notin plan.work /\ n \notin plan.review
    \/ NodeUnreviewed(n) /\ n \notin plan.work /\ n \notin plan.review
    \/ \E d \in Duties : RunRetried(n, d) /\ n \notin plan.work /\ n \notin plan.review
    \/ \E d \in Duties : RunGivenUp(n, d) /\ n \notin plan.work /\ n \notin plan.review
    \/ WorkStarted(n, pick[n]) /\ pick[n] \in Agents /\ n \in plan.work /\ n \notin plan.review
    \/ ReviewStarted(n, pick[n]) /\ pick[n] \in Agents /\ n \in plan.review /\ n \notin plan.work

\* Before Advance: at most one duty of a node is stalled, and then its node waits
\* for that duty.
LEMMA StalledNode ==
    ASSUME TypeOK, Books, ~Over, NEW n \in Nodes, NEW d \in Duties, Stalled(n, d)
    PROVE  /\ \A e \in Duties : e # d => ~Stalled(n, e)
           /\ node[n] \in (IF d = "work" THEN {"assigned", "running"} ELSE {"review"})
           /\ d = "review" => HasActive(n, "review")
           /\ d = "work" => ~HasActive(n, "review")
           /\ Retries(n, d) \/ Exhausted(n, d)
<1>1. NodeFits(n)
  BY DEF Books
<1>2. CASE d = "work"
  <2>1. node[n] \in {"assigned", "running"}
    BY <1>1, <1>2 DEF NodeFits, WorkFits, Stalled
  <2>2. ~HasActive(n, "review")
    BY <1>1, <2>1 DEF NodeFits, ReviewFits
  <2> QED
    BY <1>2, <2>1, <2>2 DEF Stalled, Retries, Exhausted, TerminalTask, Duties
<1>3. CASE d = "review"
  <2>1. node[n] = "review" /\ LatestWorkSucceeded(n)
    BY <1>1, <1>3 DEF NodeFits, ReviewFits, Stalled
  <2> QED
    BY <1>3, <2>1 DEF Stalled, Retries, Exhausted, TerminalTask, Duties, LatestWorkSucceeded
<1> QED
  BY <1>2, <1>3 DEF Duties

\* Every node advances in one of these ways.
LEMMA AdvanceNodes ==
    ASSUME TypeOK, Books, ~Over,
           NEW pick \in Routings(AfterPropagation(AfterFailures)),
           AdvanceCommits(AfterPropagation(AfterFailures),
                          Plan(AfterPropagation(AfterFailures), pick), pick),
           NEW n \in Nodes
    PROVE  NodeAdvances(n, Plan(AfterPropagation(AfterFailures), pick), pick)
<1> DEFINE st == AfterPropagation(AfterFailures)
           plan == Plan(st, pick)
<1>1. "work" \in Duties /\ "review" \in Duties /\ Duties = {"work", "review"}
  BY DEF Duties
<1>2. node \in [Nodes -> TaskStatuses] /\ AfterFailures \in [Nodes -> TaskStatuses]
      /\ st \in [Nodes -> TaskStatuses]
  BY AfterFailuresEffect, AfterPropagationEffect DEF TypeOK, DataOK
<1>3. \A m \in Nodes : AfterFailures[m] = "completed" => node[m] = "completed"
  BY <1>2, AfterFailuresEffect
<1>4. \/ st[n] = AfterFailures[n]
      \/ Waiting(AfterFailures, n) /\ st[n] = "ready" /\ DepsCompleted(n)
      \/ Waiting(AfterFailures, n) /\ st[n] = "blocked"
  <2>1. \A m \in Deps[n] : m \in Nodes
    BY DepsAssumption
  <2> QED
    BY <1>2, <1>3, <2>1, AfterPropagationEffect DEF DepsCompleted
<1>5. /\ (\A d \in Duties : ~Exhausted(n, d)) => AfterFailures[n] = node[n]
      /\ \A d \in Duties : Exhausted(n, d) /\ (\A e \in Duties : e # d => ~Exhausted(n, e))
                             => AfterFailures[n] = ExhaustedStatus(n, d)
  BY <1>1 DEF AfterFailures
<1>6. AdvanceCommits(st, plan, pick) /\ pick \in Routings(st)
  OBVIOUS
<1>7. /\ n \in plan.work => st[n] = "ready" /\ pick[n] \in Agents /\ ~HasActive(n, "work")
      /\ n \in plan.unworked => st[n] = "ready"
      /\ n \in plan.review => /\ st[n] = "review" /\ LatestWorkSucceeded(n) /\ pick[n] \in Agents
      /\ n \in plan.unreviewed => st[n] = "review" /\ LatestWorkSucceeded(n)
  <2>1. n \in plan.work => ~HasActive(n, "work")
    BY <1>6 DEF AdvanceCommits, Admissible, FreeSlots
  <2> QED
    BY <1>6, <2>1, PlanShape
<1>8. /\ n \in plan.review => ~HasActive(n, "review") /\ pick[n] # Producer(n)
      /\ n \in plan.unreviewed => ~HasActive(n, "review")
  BY <1>6 DEF Plan, Routed, Considered, AwaitingReview, Routings
<1>9. /\ node'[n] = AfterPlan(st, plan)[n]
      /\ gate'[n] = IF n \in plan.unreviewed THEN "reviewer_unavailable" ELSE gate[n]
      /\ \A d \in Duties : asg'[n][d] = AssignmentsAfter(n, d, plan, pick)
      /\ \A d \in Duties : runs'[n][d] = RunsAfter(n, d, plan)
  BY <1>6 DEF AdvanceCommits
<1>9a. n \in plan.work => n \notin plan.unworked \cup plan.unreviewed
  <2>1. n \in plan.work => n \notin plan.unworked
    BY DEF Plan
  <2> QED
    BY <1>7, <2>1
<1> HIDE DEF st, plan
<1>10. node'[n] = IF n \in plan.work THEN "assigned"
                  ELSE IF n \in plan.unworked \cup plan.unreviewed THEN "blocked" ELSE st[n]
  BY <1>9, <1>9a DEF AfterPlan
<1>11. ASSUME NEW d \in Duties
       PROVE  /\ asg'[n][d] = IF Starts(n, d, plan) THEN Append(asg[n][d], [agent |-> pick[n], st |-> "active"])
                              ELSE IF Exhausted(n, d) THEN EndActive(asg[n][d], "revoked") ELSE asg[n][d]
              /\ runs'[n][d] = IF Retries(n, d)
                               THEN Append(runs[n][d], NewRun(Last(runs[n][d]).asg, Last(runs[n][d]).att + 1,
                                                              Last(runs[n][d]).of))
                               ELSE IF Starts(n, d, plan)
                               THEN Append(runs[n][d], NewRun(Len(asg[n][d]) + 1, 1,
                                             IF d = "review" THEN Len(runs[n]["work"]) ELSE 0))
                               ELSE runs[n][d]
  BY <1>9 DEF AssignmentsAfter, RunsAfter
<1>12. \A d \in Duties : Retries(n, d) => Stalled(n, d) /\ ~Exhausted(n, d)
  BY DEF Retries, Exhausted
<1>13. \A d \in Duties : Exhausted(n, d) => Stalled(n, d)
  BY DEF Exhausted
<1>14. Starts(n, "work", plan) <=> n \in plan.work
  BY DEF Starts
<1>15. Starts(n, "review", plan) <=> n \in plan.review
  BY DEF Starts
<1>16. CASE \E d \in Duties : Stalled(n, d)
  <2>1. PICK d \in Duties : Stalled(n, d)
    BY <1>16
  <2>2. /\ \A e \in Duties : e # d => ~Stalled(n, e)
        /\ node[n] \in (IF d = "work" THEN {"assigned", "running"} ELSE {"review"})
        /\ d = "review" => HasActive(n, "review")
        /\ Retries(n, d) \/ Exhausted(n, d)
    BY <2>1, StalledNode
  <2>3. CASE Retries(n, d)
    <3>1. AfterFailures[n] = node[n] /\ st[n] = node[n]
      BY <1>4, <1>5, <1>12, <1>13, <2>2, <2>3 DEF Waiting
    <3>2. n \notin plan.work /\ n \notin plan.unworked /\ n \notin plan.review /\ n \notin plan.unreviewed
      BY <1>1, <1>7, <1>8, <2>2, <3>1, <2>1, <2>3 DEF Retries, Stalled, LatestWorkSucceeded
    <3>3. RunRetried(n, d)
      BY <1>1, <1>9, <1>10, <1>11, <1>12, <1>13, <1>14, <1>15, <2>2, <2>3, <3>1, <3>2 DEF RunRetried, RunAppended
    <3> QED
      BY <3>2, <3>3 DEF NodeAdvances, st, plan
  <2>4. CASE Exhausted(n, d)
    <3>1. AfterFailures[n] = ExhaustedStatus(n, d) /\ st[n] = ExhaustedStatus(n, d)
      BY <1>4, <1>5, <1>13, <2>2, <2>4 DEF Waiting, ExhaustedStatus
    <3>2. n \notin plan.work /\ n \notin plan.unworked /\ n \notin plan.review /\ n \notin plan.unreviewed
      BY <1>7, <3>1 DEF ExhaustedStatus
    <3>3. RunGivenUp(n, d)
      BY <1>1, <1>9, <1>10, <1>11, <1>12, <1>13, <1>14, <1>15, <2>2, <2>4, <3>1, <3>2 DEF RunGivenUp
    <3> QED
      BY <3>2, <3>3 DEF NodeAdvances, st, plan
  <2> QED
    BY <2>2, <2>3, <2>4
<1>17. CASE NeverStalled(n)
  <2>1. AfterFailures[n] = node[n] /\ \A d \in Duties : ~Retries(n, d) /\ ~Exhausted(n, d)
    BY <1>5, <1>12, <1>13, <1>17 DEF NeverStalled
  <2>2. CASE n \in plan.work
    <3>1. st[n] = "ready" /\ node[n] \in BeforeWork /\ (node[n] = "ready" \/ DepsCompleted(n))
      BY <1>4, <1>7, <2>1, <2>2 DEF Waiting, BeforeWork
    <3>2. n \notin plan.review /\ n \notin plan.unreviewed
      BY <1>7, <3>1
    <3>3. WorkStarted(n, pick[n])
      BY <1>1, <1>7, <1>9, <1>10, <1>11, <1>14, <1>15, <1>17, <2>1, <2>2, <3>1, <3>2
         DEF WorkStarted, DutyStarted, RunAppended
    <3> QED
      BY <1>7, <2>2, <3>2, <3>3 DEF NodeAdvances, st, plan
  <2>3. CASE n \in plan.review
    <3>1. st[n] = "review" /\ node[n] = "review" /\ LatestWorkSucceeded(n)
      BY <1>4, <1>7, <2>1, <2>3
    <3>2. n \notin plan.work /\ n \notin plan.unworked
      BY <1>7, <3>1
    <3>4. n \notin plan.unreviewed
      BY <2>3 DEF plan, Plan
    <3>3. ReviewStarted(n, pick[n])
      BY <1>1, <1>7, <1>8, <1>9, <1>10, <1>11, <1>14, <1>15, <1>17, <2>1, <2>3, <3>1, <3>2, <3>4
         DEF ReviewStarted, DutyStarted, RunAppended
    <3> QED
      BY <1>7, <2>3, <3>2, <3>3 DEF NodeAdvances, st, plan
  <2>4. CASE n \notin plan.work /\ n \notin plan.review
    <3>1. RowsStay(n)
      BY <1>1, <1>11, <1>14, <1>15, <2>1, <2>4 DEF RowsStay
    <3>2. CASE n \in plan.unreviewed
      <4>1. NodeUnreviewed(n)
        BY <1>4, <1>7, <1>8, <1>9, <1>10, <1>17, <2>1, <2>4, <3>1, <3>2 DEF NodeUnreviewed
      <4> QED
        BY <2>4, <4>1 DEF NodeAdvances, st, plan
    <3>3. CASE n \notin plan.unreviewed
      <4>1. NodeRests(n) \/ NodeUnblocked(n)
        BY <1>4, <1>7, <1>9, <1>10, <1>17, <2>1, <2>4, <3>1, <3>3
           DEF NodeRests, NodeUnblocked, BeforeWork, Waiting
      <4> QED
        BY <2>4, <4>1 DEF NodeAdvances, st, plan
    <3> QED
      BY <3>2, <3>3
  <2> QED
    BY <2>2, <2>3, <2>4
<1> QED
  BY <1>16, <1>17 DEF NeverStalled

\* A record appended to a row.
LEMMA AppendedRow ==
    ASSUME NEW S, NEW s \in Seq(S), NEW x \in S
    PROVE  /\ Append(s, x) \in Seq(S) /\ Append(s, x) # <<>>
           /\ Len(Append(s, x)) = Len(s) + 1 /\ Last(Append(s, x)) = x
           /\ DOMAIN Append(s, x) = DOMAIN s \cup {Len(s) + 1}
           /\ \A i \in DOMAIN s : Append(s, x)[i] = s[i]
           /\ Append(s, x)[Len(s) + 1] = x
<1>1. /\ Append(s, x) \in Seq(S) /\ Len(Append(s, x)) = Len(s) + 1
      /\ \A i \in 1..Len(s) : Append(s, x)[i] = s[i]
      /\ Append(s, x)[Len(s) + 1] = x
  BY AppendProperties
<1>2. Len(s) \in Nat /\ DOMAIN s = 1..Len(s) /\ DOMAIN Append(s, x) = 1..Len(Append(s, x))
  BY <1>1, LenProperties
<1>3. Append(s, x) # <<>>
  BY <1>1, <1>2, EmptySeq
<1> QED
  BY <1>1, <1>2, <1>3 DEF Last

\* A new run is queued, for the assignment and the subject it is created with.
LEMMA NewRunRecord ==
    ASSUME NEW k \in Nat \ {0}, NEW attempt \in Nat \ {0}, NEW subject \in Nat
    PROVE  /\ NewRun(k, attempt, subject) \in Runs
           /\ NewRun(k, attempt, subject).asg = k /\ NewRun(k, attempt, subject).of = subject
           /\ NewRun(k, attempt, subject).att = attempt
           /\ NewRun(k, attempt, subject).st = "queued"
           /\ NewRun(k, attempt, subject).task = "none"
BY DEF NewRun, Runs, RunStatuses, LiveRun

\* A retry appends one live run, for the last assignment, to a row without any.
LEMMA RetriedRows ==
    ASSUME TypeOK, NEW n \in Nodes, NEW d \in Duties, RowsFit(n, d), RunRetried(n, d)
    PROVE  /\ RowsFit(n, d)' /\ LastLive(n, d)' /\ ~LastLive(n, d)
           /\ HasActive(n, d) /\ runs[n][d] # <<>> /\ Last(runs[n][d]).st = "failed"
           /\ Last(runs'[n][d]).of = Last(runs[n][d]).of
           /\ Last(runs'[n][d]).st = "queued"
           /\ Len(runs'[n][d]) = Len(runs[n][d]) + 1
<1> DEFINE old == Last(runs[n][d])
           new == NewRun(old.asg, old.att + 1, old.of)
<1>1. /\ HasActive(n, d) /\ runs[n][d] # <<>> /\ old.st = "failed"
      /\ runs'[n][d] = Append(runs[n][d], new) /\ asg'[n][d] = asg[n][d]
  BY DEF RunRetried, Retries, Stalled, RunAppended
<1>2. /\ runs[n][d] \in Seq(Runs) /\ Len(runs[n][d]) \in Nat /\ Len(runs[n][d]) # 0
      /\ DOMAIN runs[n][d] = 1..Len(runs[n][d])
  BY <1>1, RowTypes
<1>3. old \in Runs
  BY <1>2, RowTypes DEF Last
<1>4. /\ new \in Runs /\ new.asg = old.asg /\ new.of = old.of /\ new.st = "queued"
  <2>1. old.asg \in Nat \ {0} /\ old.att + 1 \in Nat \ {0} /\ old.of \in Nat
    BY <1>3 DEF Runs
  <2> QED
    BY <2>1, NewRunRecord
<1> HIDE DEF new
<1>5. /\ runs'[n][d] # <<>> /\ Last(runs'[n][d]) = new
      /\ Len(runs'[n][d]) = Len(runs[n][d]) + 1
      /\ DOMAIN runs'[n][d] = DOMAIN runs[n][d] \cup {Len(runs[n][d]) + 1}
      /\ \A i \in DOMAIN runs[n][d] : runs'[n][d][i] = runs[n][d][i]
      /\ runs'[n][d][Len(runs[n][d]) + 1] = new
  BY <1>1, <1>2, <1>4, AppendedRow
<1>6. ~LastLive(n, d)
  BY <1>1 DEF LastLive, LiveRun
<1>7. \A i \in DOMAIN runs[n][d] : runs[n][d][i].st \notin LiveRun
  BY <1>1, <1>6 DEF RowsFit, LastLive, Last
<1>8. new.asg \in DOMAIN asg[n][d] /\ new.asg = Len(asg[n][d])
  BY <1>1, <1>2, <1>4 DEF RowsFit, Last
<1>9. RowsFit(n, d)'
  BY <1>1, <1>5, <1>7, <1>8 DEF RowsFit
<1> QED
  BY <1>1, <1>4, <1>5, <1>6, <1>9 DEF LastLive, LiveRun

\* A start appends an active assignment and its first run to rows without any.
LEMMA StartedRows ==
    ASSUME TypeOK, NEW n \in Nodes, NEW d \in Duties, RowsFit(n, d), ~LastLive(n, d),
           NEW agent \in Agents, NEW subject \in Nat, DutyStarted(n, d, agent, subject)
    PROVE  /\ RowsFit(n, d)' /\ LastLive(n, d)' /\ HasActive(n, d)'
           /\ Last(runs'[n][d]).of = subject
           /\ Last(runs'[n][d]).st = "queued"
           /\ Last(asg'[n][d]).agent = agent
           /\ Len(runs'[n][d]) = Len(runs[n][d]) + 1
<1> DEFINE newRun == NewRun(Len(asg[n][d]) + 1, 1, subject)
           newAsg == [agent |-> agent, st |-> "active"]
<1>1. /\ runs'[n][d] = Append(runs[n][d], newRun)
      /\ asg'[n][d] = Append(asg[n][d], newAsg)
      /\ ~HasActive(n, d)
  BY DEF DutyStarted, RunAppended
<1>2. /\ runs[n][d] \in Seq(Runs) /\ Len(runs[n][d]) \in Nat
      /\ DOMAIN runs[n][d] = 1..Len(runs[n][d])
      /\ asg[n][d] \in Seq(Assignments) /\ Len(asg[n][d]) \in Nat
      /\ DOMAIN asg[n][d] = 1..Len(asg[n][d])
      /\ runs[n][d] = <<>> <=> Len(runs[n][d]) = 0
      /\ asg[n][d] = <<>> <=> Len(asg[n][d]) = 0
  BY RowTypes
<1>3. /\ newRun \in Runs /\ newRun.asg = Len(asg[n][d]) + 1 /\ newRun.of = subject
      /\ newRun.st = "queued"
  BY <1>2, NewRunRecord
<1>4. newAsg \in Assignments /\ newAsg.agent = agent /\ newAsg.st = "active"
  BY DEF Assignments, AssignmentStatuses
<1> HIDE DEF newRun, newAsg
<1>5. /\ runs'[n][d] # <<>> /\ Last(runs'[n][d]) = newRun
      /\ Len(runs'[n][d]) = Len(runs[n][d]) + 1
      /\ DOMAIN runs'[n][d] = DOMAIN runs[n][d] \cup {Len(runs[n][d]) + 1}
      /\ \A i \in DOMAIN runs[n][d] : runs'[n][d][i] = runs[n][d][i]
      /\ runs'[n][d][Len(runs[n][d]) + 1] = newRun
  BY <1>1, <1>2, <1>3, AppendedRow
<1>6. /\ asg'[n][d] # <<>> /\ Last(asg'[n][d]) = newAsg
      /\ Len(asg'[n][d]) = Len(asg[n][d]) + 1
      /\ DOMAIN asg'[n][d] = DOMAIN asg[n][d] \cup {Len(asg[n][d]) + 1}
      /\ \A k \in DOMAIN asg[n][d] : asg'[n][d][k] = asg[n][d][k]
      /\ asg'[n][d][Len(asg[n][d]) + 1] = newAsg
  BY <1>1, <1>2, <1>4, AppendedRow
<1>7. \A i \in DOMAIN runs[n][d] : runs[n][d][i].st \notin LiveRun
  BY <1>2 DEF RowsFit, LastLive, Last
<1>8. \A k \in DOMAIN asg[n][d] : asg[n][d][k].st # "active"
  BY <1>1, <1>2 DEF RowsFit, HasActive, Last
<1>9. RowsFit(n, d)'
  <2>1. \A i \in DOMAIN runs'[n][d] : runs'[n][d][i].asg \in DOMAIN asg'[n][d]
    BY <1>3, <1>5, <1>6 DEF RowsFit
  <2>2. \A k \in DOMAIN asg'[n][d] : asg'[n][d][k].st = "active" => k = Len(asg'[n][d])
    BY <1>6, <1>8
  <2>3. \A i \in DOMAIN runs'[n][d] : runs'[n][d][i].st \in LiveRun => i = Len(runs'[n][d])
    BY <1>5, <1>7
  <2> QED
    BY <1>3, <1>5, <1>6, <2>1, <2>2, <2>3 DEF RowsFit
<1> QED
  BY <1>3, <1>4, <1>5, <1>6, <1>9 DEF LastLive, HasActive, LiveRun

\* A row that stays keeps what it says.
LEMMA RowStays ==
    ASSUME NEW n \in Nodes, NEW d \in Duties, runs'[n][d] = runs[n][d], asg'[n][d] = asg[n][d]
    PROVE  /\ RowsFit(n, d)' <=> RowsFit(n, d)
           /\ LastLive(n, d)' <=> LastLive(n, d)
           /\ HasActive(n, d)' <=> HasActive(n, d)
BY DEF RowsFit, LastLive, HasActive

\* Giving a run up revokes the active assignment of its row.
LEMMA GivenUpRows ==
    ASSUME TypeOK, TypeOK', NEW n \in Nodes, NEW d \in Duties, RowsFit(n, d), RunGivenUp(n, d)
    PROVE  /\ RowsFit(n, d)' /\ ~LastLive(n, d)' /\ ~HasActive(n, d)'
           /\ ~LastLive(n, d) /\ HasActive(n, d)
<1>1. /\ runs'[n][d] = runs[n][d] /\ asg'[n][d] = EndActive(asg[n][d], "revoked")
      /\ Last(runs[n][d]).st = "failed" /\ HasActive(n, d)
  BY DEF RunGivenUp, Exhausted, Stalled
<1>2. asg[n][d] \in Seq(Assignments) /\ "revoked" \in AssignmentStatuses \ {"active"}
  BY RowTypes DEF AssignmentStatuses
<1>3. /\ Len(asg'[n][d]) = Len(asg[n][d]) /\ DOMAIN asg'[n][d] = DOMAIN asg[n][d]
      /\ \A k \in DOMAIN asg[n][d] : asg'[n][d][k].st # "active"
  BY <1>1, <1>2, EndActiveEnds
<1>4. (asg'[n][d] = <<>>) <=> (asg[n][d] = <<>>)
  BY <1>3, RowTypes, RowTypesNext
<1>5. RowsFit(n, d)'
  BY <1>1, <1>3, <1>4 DEF RowsFit
<1>6. ~HasActive(n, d)'
  BY <1>3, RowTypesNext DEF HasActive, Last
<1> QED
  BY <1>1, <1>5, <1>6 DEF LastLive, LiveRun

\* Advance keeps the books of every node.
LEMMA AdvancedNode ==
    ASSUME TypeOK, TypeOK', Books, ~Over, NEW n \in Nodes, NEW plan, NEW pick,
           NodeAdvances(n, plan, pick)
    PROVE  (\A d \in Duties : RowsFit(n, d)') /\ OneDutyLive(n)' /\ NodeFits(n)'
<1>1. "work" \in Duties /\ "review" \in Duties /\ Duties = {"work", "review"}
  BY DEF Duties
<1>2. NodeFits(n) /\ OneDutyLive(n) /\ \A d \in Duties : RowsFit(n, d)
  BY DEF Books, Rows
<1>3. \A d \in Duties : HasActive(n, d) => runs[n][d] # <<>>
  BY <1>2 DEF HasActive, RowsFit
<1>4. CASE NodeRests(n) \/ NodeUnblocked(n) \/ NodeUnreviewed(n)
  <2>1. RowsStay(n)
    BY <1>4 DEF NodeRests, NodeUnblocked, NodeUnreviewed
  <2>2. \A d \in Duties : /\ RowsFit(n, d)' <=> RowsFit(n, d)
                          /\ LastLive(n, d)' <=> LastLive(n, d)
                          /\ HasActive(n, d)' <=> HasActive(n, d)
    BY <2>1, RowStays DEF RowsStay
  <2>3. WorkFits(n)'
    BY <1>1, <1>2, <1>4, <2>1, <2>2
       DEF NodeFits, WorkFits, RowsStay, NodeRests, NodeUnblocked, NodeUnreviewed, BeforeWork
  <2>4. ReviewFits(n)'
    BY <1>1, <1>2, <1>4, <2>1, <2>2
       DEF NodeFits, ReviewFits, RowsStay, NodeRests, NodeUnblocked, NodeUnreviewed, BeforeWork,
           LatestWorkSucceeded, Producer
  <2>5. node'[n] = "completed" => ~HasActive(n, "work")'
    BY <1>1, <1>2, <1>4, <2>2 DEF NodeFits, NodeRests, NodeUnblocked, NodeUnreviewed
  <2> QED
    BY <1>1, <1>2, <2>2, <2>3, <2>4, <2>5 DEF NodeFits, OneDutyLive
<1>5. ASSUME NEW d \in Duties, RunRetried(n, d)
      PROVE  (\A e \in Duties : RowsFit(n, e)') /\ OneDutyLive(n)' /\ NodeFits(n)'
  <2>1. /\ RowsFit(n, d)' /\ LastLive(n, d)' /\ HasActive(n, d)
        /\ Last(runs'[n][d]).of = Last(runs[n][d]).of /\ Last(runs'[n][d]).st = "queued"
    BY <1>2, <1>5, RetriedRows
  <2>2. /\ \A e \in Duties : asg'[n][e] = asg[n][e] /\ (e # d => runs'[n][e] = runs[n][e])
        /\ node'[n] = node[n]
        /\ node[n] \in (IF d = "work" THEN {"assigned", "running"} ELSE {"review"})
    BY <1>5 DEF RunRetried, RunAppended
  <2>3. \A e \in Duties : HasActive(n, e)' <=> HasActive(n, e)
    BY <2>2 DEF HasActive
  <2>4. \A e \in Duties : e # d => /\ RowsFit(n, e)' <=> RowsFit(n, e)
                                   /\ LastLive(n, e)' <=> LastLive(n, e)
    BY <2>2, RowStays
  <2>5. \A e \in Duties : e # d => ~LastLive(n, e)
    BY <1>1, <1>2, <2>1, <2>2 DEF NodeFits, WorkFits, ReviewFits, LastLive, LatestWorkSucceeded, LiveRun
  <2>6. WorkFits(n)'
    BY <1>1, <1>2, <2>2, <2>3 DEF NodeFits, WorkFits
  <2>7. ReviewFits(n)'
    BY <1>1, <1>2, <2>1, <2>2, <2>3 DEF NodeFits, ReviewFits, LatestWorkSucceeded, Producer
  <2>8. node'[n] = "completed" => ~HasActive(n, "work")'
    BY <2>2
  <2>9. \A e \in Duties : LastLive(n, e)' => HasActive(n, e)'
    BY <2>1, <2>3, <2>4, <2>5
  <2>10. OneDutyLive(n)'
    BY <1>1, <2>4, <2>5 DEF OneDutyLive
  <2>11. \A e \in Duties : RowsFit(n, e)'
    BY <1>2, <2>1, <2>4
  <2> QED
    BY <2>6, <2>7, <2>8, <2>9, <2>10, <2>11 DEF NodeFits
<1>6. ASSUME NEW d \in Duties, RunGivenUp(n, d)
      PROVE  (\A e \in Duties : RowsFit(n, e)') /\ OneDutyLive(n)' /\ NodeFits(n)'
  <2>1. RowsFit(n, d)' /\ ~LastLive(n, d)' /\ ~HasActive(n, d)' /\ HasActive(n, d)
    BY <1>2, <1>6, GivenUpRows
  <2>2. /\ \A e \in Duties : runs'[n][e] = runs[n][e] /\ (e # d => asg'[n][e] = asg[n][e])
        /\ node'[n] \in {"blocked", "failed"}
        /\ node[n] \in (IF d = "work" THEN {"assigned", "running"} ELSE {"review"})
    BY <1>6 DEF RunGivenUp, ExhaustedStatus
  <2>3. \A e \in Duties : e # d => /\ RowsFit(n, e)' <=> RowsFit(n, e)
                                   /\ LastLive(n, e)' <=> LastLive(n, e)
                                   /\ HasActive(n, e)' <=> HasActive(n, e)
    BY <2>2, RowStays
  <2>4. d = "work" => ~HasActive(n, "review")'
    BY <1>1, <1>2, <2>2, <2>3 DEF NodeFits, ReviewFits
  <2>5. d = "review" => Last(runs'[n]["work"]).st = "succeeded"
    BY <1>1, <1>2, <2>1, <2>2 DEF NodeFits, ReviewFits, LatestWorkSucceeded
  <2>6. WorkFits(n)' /\ ReviewFits(n)'
    BY <1>1, <2>1, <2>4, <2>5 DEF WorkFits, ReviewFits, LiveRun
  <2>7. \A e \in Duties : LastLive(n, e)' => HasActive(n, e)'
    BY <1>2, <2>1, <2>3 DEF NodeFits
  <2>8. OneDutyLive(n)'
    BY <1>1, <2>1 DEF OneDutyLive
  <2>9. \A e \in Duties : RowsFit(n, e)'
    BY <1>2, <2>1, <2>3
  <2> QED
    BY <2>2, <2>6, <2>7, <2>8, <2>9 DEF NodeFits
<1>7. CASE WorkStarted(n, pick[n]) /\ pick[n] \in Agents
  <2>1. /\ ~HasActive(n, "work") /\ node[n] \in BeforeWork /\ node'[n] = "assigned"
        /\ runs'[n]["review"] = runs[n]["review"] /\ asg'[n]["review"] = asg[n]["review"]
        /\ DutyStarted(n, "work", pick[n], 0)
    BY <1>1, <1>7 DEF WorkStarted, DutyStarted, RunAppended
  <2>2. ~HasActive(n, "review") /\ \A d \in Duties : ~LastLive(n, d)
    BY <1>1, <1>2, <2>1 DEF NodeFits, ReviewFits, BeforeWork
  <2>3. RowsFit(n, "work")' /\ HasActive(n, "work")'
    BY <1>1, <1>2, <1>7, <2>1, <2>2, StartedRows
  <2>4. RowsFit(n, "review")' /\ ~HasActive(n, "review")' /\ ~LastLive(n, "review")'
    BY <1>1, <1>2, <2>1, <2>2, RowStays
  <2> QED
    BY <1>1, <2>1, <2>3, <2>4 DEF NodeFits, WorkFits, ReviewFits, OneDutyLive
<1>8. CASE ReviewStarted(n, pick[n]) /\ pick[n] \in Agents
  <2>1. /\ ~HasActive(n, "review") /\ node[n] = "review" /\ node'[n] = "review"
        /\ LatestWorkSucceeded(n) /\ pick[n] # Producer(n)
        /\ runs'[n]["work"] = runs[n]["work"] /\ asg'[n]["work"] = asg[n]["work"]
        /\ DutyStarted(n, "review", pick[n], Len(runs[n]["work"]))
    BY <1>1, <1>8 DEF ReviewStarted, DutyStarted, RunAppended
  <2>2. ~LastLive(n, "review") /\ ~LastLive(n, "work")
    BY <1>1, <1>2, <2>1 DEF NodeFits, LastLive, LatestWorkSucceeded, LiveRun
  <2>3. Len(runs[n]["work"]) \in Nat
    BY <1>1, RowTypes
  <2>4. /\ RowsFit(n, "review")' /\ HasActive(n, "review")'
        /\ Last(runs'[n]["review"]).of = Len(runs[n]["work"])
        /\ Last(asg'[n]["review"]).agent = pick[n]
    BY <1>1, <1>2, <1>8, <2>1, <2>2, <2>3, StartedRows
  <2>5. RowsFit(n, "work")' /\ ~LastLive(n, "work")'
    BY <1>1, <1>2, <2>1, <2>2, RowStays
  <2>6. ReviewFits(n)'
    BY <2>1, <2>4 DEF ReviewFits, LatestWorkSucceeded, Producer
  <2>7. WorkFits(n)'
    BY <2>1 DEF WorkFits, LatestWorkSucceeded, LiveRun
  <2> QED
    BY <1>1, <2>1, <2>4, <2>5, <2>6, <2>7 DEF NodeFits, OneDutyLive
<1> QED
  BY <1>4, <1>5, <1>6, <1>7, <1>8 DEF NodeAdvances

-----------------------------------------------------------------------------
(* Every step keeps the books *)

\* AdvanceMission, as the cases of its nodes or a rolled back transaction.
LEMMA AdvanceCases ==
    ASSUME TypeOK, Books, AdvanceMission
    PROVE  \/ UNCHANGED db
           \/ /\ ~Over
              /\ \E pick \in Routings(AfterPropagation(AfterFailures)) :
                   LET plan == Plan(AfterPropagation(AfterFailures), pick)
                   IN  /\ AdvanceCommits(AfterPropagation(AfterFailures), plan, pick)
                       /\ \A n \in Nodes : NodeAdvances(n, plan, pick)
<1> DEFINE st == AfterPropagation(AfterFailures)
<1>1. ~Over
  BY DEF AdvanceMission, Over
<1>2. PICK pick \in Routings(st) :
         AdvanceCommits(st, Plan(st, pick), pick) \/ AdvanceRejected(st, Plan(st, pick))
  BY DEF AdvanceMission
<1>3. CASE AdvanceCommits(st, Plan(st, pick), pick)
  <2>1. \A n \in Nodes : NodeAdvances(n, Plan(st, pick), pick)
    BY <1>1, <1>3, AdvanceNodes
  <2> HIDE DEF st
  <2>2. \E p \in Routings(st) :
          /\ AdvanceCommits(st, Plan(st, p), p) /\ \A n \in Nodes : NodeAdvances(n, Plan(st, p), p)
    BY <1>3, <2>1
  <2> QED
    BY <1>1, <2>2 DEF st
<1>4. CASE AdvanceRejected(st, Plan(st, pick))
  BY <1>4 DEF AdvanceRejected
<1> QED
  BY <1>2, <1>3, <1>4

\* The owner's commands start nothing by themselves.
LEMMA OwnerBooks ==
    ASSUME TypeOK, TypeOK', Books, OwnerStep
    PROVE  Books'
<1>1. node \in [Nodes -> TaskStatuses] /\ gate \in [Nodes -> GateKinds \cup {"none"}]
  BY DEF TypeOK, DataOK
<1>2. CASE StartMission \/ \E n \in Nodes : RetryTaskNode(n) \/ ResolveHumanGate(n)
  <2>1. RunsProceed /\ UNCHANGED asg /\ ~Over
    BY <1>2, SameRunsProceed DEF StartMission, RetryTaskNode, ResolveHumanGate, Over
  <2>2. \A m \in Nodes : BooksAllow(m)
    <3>1. CASE StartMission
      BY <3>1 DEF StartMission, InitiallyReady, BooksAllow
    <3>2. ASSUME NEW n \in Nodes, RetryTaskNode(n) PROVE \A m \in Nodes : BooksAllow(m)
      BY <1>1, <3>2 DEF RetryTaskNode, BooksAllow
    <3>3. ASSUME NEW n \in Nodes, ResolveHumanGate(n) PROVE \A m \in Nodes : BooksAllow(m)
      BY <1>1, <3>3 DEF ResolveHumanGate, BooksAllow
    <3> QED
      BY <1>2, <3>1, <3>2, <3>3
  <2> QED
    BY <2>1, <2>2, BooksProceed
<1>3. CASE CancelMission
  <2>1. asg' = [n \in Nodes |-> [d \in Duties |-> EndActive(asg[n][d], "revoked")]] /\ runs' = runs /\ Over'
    BY <1>3 DEF CancelMission, Over
  <2>2. ASSUME NEW n \in Nodes, NEW d \in Duties
        PROVE  RowsFit(n, d)' /\ (LastLive(n, d)' <=> LastLive(n, d))
    <3>1. asg[n][d] \in Seq(Assignments) /\ "revoked" \in AssignmentStatuses \ {"active"}
      BY RowTypes DEF AssignmentStatuses
    <3>2. asg'[n][d] = EndActive(asg[n][d], "revoked")
      BY <2>1
    <3>3. /\ Len(asg'[n][d]) = Len(asg[n][d]) /\ DOMAIN asg'[n][d] = DOMAIN asg[n][d]
          /\ \A k \in DOMAIN asg[n][d] : asg'[n][d][k].st # "active"
      BY <3>1, <3>2, EndActiveEnds
    <3>4. (asg'[n][d] = <<>>) <=> (asg[n][d] = <<>>)
      BY <3>3, RowTypes, RowTypesNext
    <3> QED
      BY <2>1, <3>3, <3>4 DEF Books, Rows, RowsFit, LastLive
  <2> QED
    BY <2>1, <2>2 DEF Books, Rows, OneDutyLive, Duties
<1> QED
  BY <1>2, <1>3 DEF OwnerStep

\* Every step keeps the books.
LEMMA StepBooks ==
    ASSUME TypeOK, TypeOK', Books, [Next]_vars
    PROVE  Books'
<1>1. CASE OwnerStep
  BY <1>1, OwnerBooks
<1>2. CASE Quiet
  BY <1>2, QuietProceeds, BooksProceed DEF Over, BooksAllow
<1>3. CASE AdvanceMission
  <2>1. CASE UNCHANGED db
    BY <1>2, <1>3, <2>1 DEF Quiet
  <2>2. CASE /\ ~Over
             /\ \E pick \in Routings(AfterPropagation(AfterFailures)) :
                  LET plan == Plan(AfterPropagation(AfterFailures), pick)
                  IN  /\ AdvanceCommits(AfterPropagation(AfterFailures), plan, pick)
                      /\ \A n \in Nodes : NodeAdvances(n, plan, pick)
    <3>1. PICK pick, plan : \A n \in Nodes : NodeAdvances(n, plan, pick)
      BY <2>2
    <3>2. \A n \in Nodes : (\A d \in Duties : RowsFit(n, d)') /\ OneDutyLive(n)' /\ NodeFits(n)'
      BY <2>2, <3>1, AdvancedNode
    <3> QED
      BY <3>2 DEF Books, Rows
  <2> QED
    BY <1>3, <2>1, <2>2, AdvanceCases
<1>4. CASE \E r \in RunIds : ReconcileRun(r)
  BY <1>4, ReconcileBooks
<1> QED
  BY <1>1, <1>2, <1>3, <1>4 DEF Next, Quiet

\* The inductive invariant: in every reachable state the rows of a node fit each
\* other and its status.
LEMMA BooksHold == Spec => []Books
<1>1. Init => Books
  <2> SUFFICES ASSUME Init PROVE Books
    OBVIOUS
  <2>1. \A n \in Nodes, d \in Duties : runs[n][d] = <<>> /\ asg[n][d] = <<>>
    BY DEF Init
  <2>2. \A n \in Nodes : node[n] = "pending"
    BY DEF Init
  <2> QED
    BY <2>1, <2>2 DEF Books, Rows, RowsFit, OneDutyLive, LastLive, NodeFits, WorkFits, ReviewFits, HasActive, Duties
<1>2. TypeOK /\ TypeOK' /\ Books /\ [Next]_vars => Books'
  BY StepBooks
<1> QED
  BY <1>1, <1>2, TypeCorrect, PTL DEF Spec

\* No two live runs of a node, whatever calls were lost, repeated or delayed
\* (the loops of AdvanceMission, the guards of the reconciler, migration 317).
THEOREM RunsApart == Spec => []OneLiveRun
<1>1. TypeOK /\ Books => OneLiveRun
  <2> SUFFICES ASSUME TypeOK, Books, NEW r \in LiveRunIds, NEW s \in LiveRunIds, r[1] = s[1]
               PROVE  r = s
    BY DEF OneLiveRun
  <2>1. /\ r \in RunIds /\ Run(r).st \in LiveRun
        /\ s \in RunIds /\ Run(s).st \in LiveRun
    BY DEF LiveRunIds
  <2>2. /\ r[2] \in Duties /\ r = <<r[1], r[2], r[3]>> /\ r[3] = Len(runs[r[1]][r[2]])
        /\ \A d \in Duties : LastLive(r[1], d) => d = r[2]
    BY <2>1, LiveIsLast
  <2>3. /\ s[2] \in Duties /\ s = <<s[1], s[2], s[3]>> /\ s[3] = Len(runs[s[1]][s[2]])
        /\ LastLive(s[1], s[2])
    BY <2>1, LiveIsLast
  <2>4. r[2] = s[2] /\ r[3] = s[3]
    BY <2>2, <2>3
  <2> QED
    BY <2>2, <2>3, <2>4
<1> QED
  BY <1>1, TypeCorrect, BooksHold, PTL

\* A live run that has not been given up finds its node and its assignment where
\* validateTaskTransition lets its outcome move them.
THEOREM RunsFitNodes == Spec => []LiveRunFitsNode
<1>1. TypeOK /\ Books => LiveRunFitsNode
  <2> SUFFICES ASSUME TypeOK, Books, NEW r \in LiveRunIds, ~GivenUp(r)
               PROVE  /\ node[r[1]] \in (IF r[2] = "work" THEN {"assigned", "running"} ELSE {"review"})
                      /\ AssignmentOf(r).st = "active"
    BY DEF LiveRunFitsNode
  <2>1. r \in RunIds /\ Run(r).st \in LiveRun
    BY DEF LiveRunIds
  <2>2. /\ r[1] \in Nodes /\ r[2] \in Duties /\ LastLive(r[1], r[2])
        /\ AssignmentOf(r) = Last(asg[r[1]][r[2]])
    BY <2>1, LiveIsLast
  <2>3. NodeFits(r[1])
    BY <2>2 DEF Books, GivenUp, Over
  <2>4. HasActive(r[1], r[2])
    BY <2>2, <2>3 DEF NodeFits
  <2> QED
    BY <2>2, <2>3, <2>4 DEF NodeFits, WorkFits, ReviewFits, LastLive, HasActive, Duties
<1> QED
  BY <1>1, TypeCorrect, BooksHold, PTL

-----------------------------------------------------------------------------
(* The end of a run, as one shape for all observations of the reconciler.  *)

EndsFailed(r, new) ==
    /\ new.st = "failed" /\ new.verdict = Run(r).verdict
    /\ ~Over /\ UNCHANGED <<asg, gate>>
    /\ \A n \in Nodes : \/ node'[n] = node[n]
                        \/ n = r[1] /\ node[n] = "running" /\ node'[n] = "assigned"
EndsCancelled(r, new) ==
    /\ new.st = "cancelled" /\ new.verdict = Run(r).verdict
    /\ UNCHANGED gate
    /\ \A n \in Nodes : node'[n] = IF n = r[1] /\ node[n] \notin TerminalTask THEN "cancelled" ELSE node[n]
EndsDelivered(r, new) ==
    /\ new.st = "succeeded" /\ new.verdict = Run(r).verdict
    /\ ~Over /\ r[2] = "work" /\ UNCHANGED <<asg, gate>>
    /\ \A n \in Nodes : node'[n] = IF n = r[1] THEN "review" ELSE node[n]
EndsJudged(r, new, decision) ==
    /\ new.st = "succeeded" /\ new.verdict = decision
    /\ ~Over /\ r[2] = "review"
    /\ \A n \in Nodes :
         /\ node'[n] = IF n = r[1] THEN VerdictStatus(n, decision) ELSE node[n]
         /\ gate'[n] = IF n = r[1] /\ VerdictStatus(n, decision) = "blocked"
                       THEN "rework_limit_exceeded" ELSE gate[n]
RunEnds(r, new) ==
    /\ new \in Runs /\ Settles(r, new) /\ AssignmentsEnd /\ mission' = mission
    /\ \/ EndsFailed(r, new)
       \/ EndsCancelled(r, new)
       \/ EndsDelivered(r, new)
       \/ \E decision \in Decisions : EndsJudged(r, new, decision)

\* The two other shapes of a step that moves the books: a live run makes progress,
\* and an Advance that is committed.
RunMovesOn ==
    /\ ~Over
    /\ RunsProceed /\ UNCHANGED <<mission, asg, gate>>
    /\ \A n \in Nodes : \/ node'[n] = node[n]
                        \/ node[n] = "assigned" /\ node'[n] = "running"
NodesAdvance ==
    /\ mission \in {"running", "blocked"}
    /\ \E pick \in Routings(AfterPropagation(AfterFailures)) :
         LET plan == Plan(AfterPropagation(AfterFailures), pick)
         IN  /\ AdvanceCommits(AfterPropagation(AfterFailures), plan, pick)
             /\ \A n \in Nodes : NodeAdvances(n, plan, pick)

\* An observation leaves the rows, moves a live run on, or ends it.
LEMMA ReconcileCases ==
    ASSUME TypeOK, Books, NEW r \in RunIds, ReconcileRun(r)
    PROVE  Quiet \/ RunMovesOn \/ \E new : RunEnds(r, new)
<1>1. /\ r[1] \in Nodes /\ r[2] \in Duties /\ r[3] \in DOMAIN runs[r[1]][r[2]]
      /\ node \in [Nodes -> TaskStatuses] /\ gate \in [Nodes -> GateKinds \cup {"none"}]
      /\ Run(r) \in Runs
  BY RunIdParts, RunType DEF RunTable, TypeOK, DataOK
<1>2. Observable(r) => Run(r).st \in LiveRun /\ ~Over
  BY DEF Observable, GivenUp, Over
<1>3. AssignmentsEnd \/ asg' # asg
  BY DEF AssignmentsEnd
<1>4. CASE ReconcileTerminalRun(r)
  BY <1>4 DEF Quiet
<1>5. CASE Run(r).st \in LiveRun /\ CancelRunAndNode(r)
  <2> DEFINE new == [Run(r) EXCEPT !.st = "cancelled"]
  <2>1. EndRecord(r, new, "cancelled") /\ new.verdict = Run(r).verdict
    BY <1>1, OutcomeRecord DEF Runs
  <2>2. runs' = SetRun(r, new) /\ mission' = mission /\ gate' = gate
    BY <1>5 DEF CancelRunAndNode
  <2>3. \A n \in Nodes : node'[n] = IF n = r[1] /\ node[n] \notin TerminalTask THEN "cancelled" ELSE node[n]
    BY <1>1, <1>5 DEF CancelRunAndNode
  <2>4. AssignmentsEnd
    <3>1. CASE asg' = asg
      BY <1>3, <3>1
    <3>2. CASE asg' # asg
      <4>1. asg' = [asg EXCEPT ![r[1]][r[2]][Run(r).asg].st = "revoked"]
        BY <1>5, <3>2 DEF CancelRunAndNode
      <4>2. Run(r).asg \in DOMAIN asg[r[1]][r[2]]
        BY <1>5, LiveIsLast
      <4> QED
        BY <1>1, <4>1, <4>2, RevokeEnds
    <3> QED
      BY <3>1, <3>2
  <2> HIDE DEF new
  <2>5. RunEnds(r, new)
    BY <1>5, <2>1, <2>2, <2>3, <2>4 DEF RunEnds, EndRecord, Settles, EndsCancelled, LiveRun
  <2> QED
    BY <2>5
<1>6. ASSUME Observable(r), NEW kind \in FailureKinds, NEW cancel, FailRun(r, kind, cancel),
             UNCHANGED <<mission, asg, gate>>, node' = node \/ node' = NodeBackToAssigned(r[1])
      PROVE  \E new : RunEnds(r, new)
  <2> DEFINE new == [Run(r) EXCEPT !.st = "failed", !.kind = kind]
  <2>1. EndRecord(r, new, "failed") /\ new.verdict = Run(r).verdict
    BY <1>1, OutcomeRecord DEF Runs
  <2>2. runs' = SetRun(r, new)
    BY <1>6 DEF FailRun
  <2>3. \A n \in Nodes : \/ node'[n] = node[n]
                         \/ n = r[1] /\ node[n] = "running" /\ node'[n] = "assigned"
    BY <1>1, <1>6 DEF NodeBackToAssigned
  <2> HIDE DEF new
  <2>4. RunEnds(r, new)
    BY <1>2, <1>3, <1>6, <2>1, <2>2, <2>3 DEF RunEnds, EndRecord, Settles, EndsFailed, LiveRun
  <2> QED
    BY <2>4
<1>7. CASE \/ ReconcileDispatchTimeout(r) \/ ReconcileTimeout(r) \/ ReconcileInvalidReceipt(r)
           \/ ReconcileTaskFailed(r)
  BY <1>6, <1>7
     DEF ReconcileDispatchTimeout, ReconcileTimeout, ReconcileInvalidReceipt, ReconcileTaskFailed, FailureKinds
<1>8. CASE ReconcileDispatched(r) \/ ReconcileRunning(r)
  <2>1. RunsProceed /\ UNCHANGED <<mission, asg, gate>>
    BY <1>2, <1>8, LiveProceeds DEF ReconcileDispatched, ReconcileRunning, LiveRun
  <2>2. \A n \in Nodes : \/ node'[n] = node[n]
                         \/ node[n] = "assigned" /\ node'[n] = "running"
    BY <1>1, <1>8 DEF ReconcileDispatched, ReconcileRunning
  <2> QED
    BY <1>2, <1>8, <2>1, <2>2 DEF RunMovesOn, ReconcileDispatched, ReconcileRunning
<1>9. CASE ReconcileDelivered(r)
  <2> DEFINE new == [Run(r) EXCEPT !.st = "succeeded"]
  <2>1. EndRecord(r, new, "succeeded") /\ new.verdict = Run(r).verdict
    BY <1>1, OutcomeRecord DEF Runs
  <2>2. /\ Observable(r) /\ r[2] = "work" /\ runs' = SetRun(r, new)
        /\ UNCHANGED <<mission, asg, gate>>
    BY <1>9 DEF ReconcileDelivered
  <2>3. \A n \in Nodes : node'[n] = IF n = r[1] THEN "review" ELSE node[n]
    BY <1>1, <1>9 DEF ReconcileDelivered
  <2> HIDE DEF new
  <2>4. RunEnds(r, new)
    BY <1>2, <1>3, <2>1, <2>2, <2>3 DEF RunEnds, EndRecord, Settles, EndsDelivered, LiveRun
  <2> QED
    BY <2>4
<1>10. ASSUME NEW decision \in Decisions, ReconcileVerdict(r, decision)
       PROVE  \E new : RunEnds(r, new)
  <2> DEFINE new == [Run(r) EXCEPT !.st = "succeeded", !.verdict = decision]
  <2>1. EndRecord(r, new, "succeeded") /\ new.verdict = decision
    BY OutcomeRecord
  <2>2. /\ Observable(r) /\ r[2] = "review" /\ runs' = SetRun(r, new) /\ mission' = mission
    BY <1>10 DEF ReconcileVerdict
  <2>3. \A n \in Nodes :
          /\ node'[n] = IF n = r[1] THEN VerdictStatus(n, decision) ELSE node[n]
          /\ gate'[n] = IF n = r[1] /\ VerdictStatus(n, decision) = "blocked"
                        THEN "rework_limit_exceeded" ELSE gate[n]
    BY <1>1, <1>10 DEF ReconcileVerdict
  <2>4. AssignmentsEnd
    BY <1>10, VerdictAssignments
  <2> HIDE DEF new
  <2>5. EndsJudged(r, new, decision)
    BY <1>2, <2>1, <2>2, <2>3 DEF EndRecord, EndsJudged
  <2>6. RunEnds(r, new)
    BY <1>2, <2>1, <2>2, <2>4, <2>5 DEF RunEnds, EndRecord, Settles, LiveRun
  <2> QED
    BY <2>6
<1> QED
  BY <1>4, <1>5, <1>7, <1>8, <1>9, <1>10
     DEF ReconcileRun, ReconcileGivenUp, ReconcileTaskCancelled, Observable

\* Every step, as one of five shapes.
LEMMA StepCases ==
    ASSUME TypeOK, Books, [Next]_vars
    PROVE  \/ Quiet \/ OwnerStep \/ NodesAdvance \/ RunMovesOn
           \/ \E r \in RunIds : \E new : RunEnds(r, new)
<1>1. CASE AdvanceMission
  BY <1>1, AdvanceCases DEF Quiet, AdvanceMission, NodesAdvance
<1>2. CASE \E r \in RunIds : ReconcileRun(r)
  BY <1>2, ReconcileCases
<1> QED
  BY <1>1, <1>2 DEF Next, Quiet

\* A live run before the mission is given up: its node is assigned or running for
\* work, in review for a review.
LEMMA LiveNode ==
    ASSUME TypeOK, Books, ~Over, NEW r \in RunIds, Run(r).st \in LiveRun
    PROVE  /\ node[r[1]] \in (IF r[2] = "work" THEN {"assigned", "running"} ELSE {"review"})
           /\ HasActive(r[1], r[2])
           /\ r[2] = "review" => /\ LatestWorkSucceeded(r[1])
                                 /\ Run(r).of = Len(runs[r[1]]["work"])
                                 /\ AssignmentOf(r).agent # Producer(r[1])
<1>1. /\ r[1] \in Nodes /\ r[2] \in Duties /\ LastLive(r[1], r[2])
      /\ Run(r) = Last(runs[r[1]][r[2]]) /\ AssignmentOf(r) = Last(asg[r[1]][r[2]])
  BY LiveIsLast
<1>2. NodeFits(r[1])
  BY <1>1 DEF Books
<1>3. HasActive(r[1], r[2])
  BY <1>1, <1>2 DEF NodeFits
<1> QED
  BY <1>1, <1>2, <1>3 DEF NodeFits, WorkFits, ReviewFits, LastLive, Duties

-----------------------------------------------------------------------------
(* Where the mission begins and ends *)

\* Where MissionAfter leads: never back to "ready", and to "completed" only when
\* every node is.
LEMMA MissionAfterEffect ==
    ASSUME mission \in {"running", "blocked"}, NEW after, NEW plan
    PROVE  /\ MissionAfter(after, plan) \in {"running", "blocked", "completed", "failed"}
           /\ MissionAfter(after, plan) = "completed" => \A n \in Nodes : after[n] = "completed"
           /\ MissionAfter(after, plan) = "failed" => \E n \in Nodes : after[n] = "failed"
BY DEF MissionAfter

\* A mission is ready before any node has moved, and completed only when all are.
LEMMA StepEnds ==
    ASSUME TypeOK, Books, Ends, [Next]_vars
    PROVE  Ends'
<1>1. \A n \in Nodes : node[n] = "completed" => node'[n] = "completed"
  BY StepMoves DEF NodeMoves, TerminalTask
<1>2. CASE Quiet
  BY <1>2, QuietProceeds DEF Ends
<1>3. CASE OwnerStep
  BY <1>1, <1>3 DEF OwnerStep, StartMission, CancelMission, RetryTaskNode, ResolveHumanGate, Ends
<1>4. CASE NodesAdvance
  <2>1. PICK plan : mission' = MissionAfter(node', plan)
    BY <1>4 DEF NodesAdvance, AdvanceCommits
  <2> QED
    BY <1>4, <2>1, MissionAfterEffect DEF Ends, NodesAdvance
<1>5. CASE RunMovesOn
  BY <1>5 DEF Ends, RunMovesOn
<1>6. ASSUME NEW r \in RunIds, NEW new, RunEnds(r, new)
      PROVE  Ends'
  <2>1. mission' = mission /\ Run(r).st \in LiveRun /\ r[1] \in Nodes
    BY <1>6, RunIdParts DEF RunEnds, Settles
  <2>2. mission # "ready"
    BY <2>1, LiveNode DEF Ends, Over
  <2> QED
    BY <1>1, <2>1, <2>2 DEF Ends
<1> QED
  BY <1>2, <1>3, <1>4, <1>5, <1>6, StepCases

\* Ends holds in every reachable state.
LEMMA EndsHold == Spec => []Ends
<1>1. Init => Ends
  BY DEF Init, Ends
<1>2. TypeOK /\ Books /\ Ends /\ [Next]_vars => Ends'
  BY StepEnds
<1> QED
  BY <1>1, <1>2, TypeCorrect, BooksHold, PTL DEF Spec

-----------------------------------------------------------------------------
(* The human gates *)

\* The part of GateHolds that follows from the books: DependencyInv has the rest.
GateInv == \A n \in Nodes : gate[n] # "none" => node[n] \in {"blocked", "cancelled"} /\ LatestWorkSucceeded(n)

\* What was delivered stays delivered while the row proceeds.
LEMMA DeliveryProceeds ==
    ASSUME TypeOK, TypeOK', RunsProceed, NEW n \in Nodes, LatestWorkSucceeded(n)
    PROVE  LatestWorkSucceeded(n)'
<1>1. "work" \in Duties
  BY DEF Duties
<1> QED
  BY <1>1, LastProceeds DEF LatestWorkSucceeded, SameBook, LiveRun

\* Also when a run of some node ends: a delivered run is not live.
LEMMA DeliverySettles ==
    ASSUME TypeOK, TypeOK', Books, NEW r \in RunIds, NEW new, RunEnds(r, new),
           NEW n \in Nodes, LatestWorkSucceeded(n)
    PROVE  /\ LatestWorkSucceeded(n)' /\ ~(n = r[1] /\ r[2] = "work")
           /\ Len(runs'[n]["work"]) = Len(runs[n]["work"])
           /\ Last(runs'[n]["work"]) = Last(runs[n]["work"])
<1>1. "work" \in Duties /\ new \in Runs /\ Settles(r, new) /\ Run(r).st \in LiveRun
  BY DEF Duties, RunEnds, Settles
<1>2. ~LastLive(n, "work")
  BY DEF LatestWorkSucceeded, LastLive, LiveRun
<1>3. ~(n = r[1] /\ r[2] = "work")
  BY <1>1, <1>2, LiveIsLast
<1>4. /\ (runs'[n]["work"] = <<>>) <=> (runs[n]["work"] = <<>>)
      /\ runs[n]["work"] # <<>> => Last(runs'[n]["work"]) = Last(runs[n]["work"])
      /\ Len(runs'[n]["work"]) = Len(runs[n]["work"])
  BY <1>1, <1>3, SettledRows
<1> QED
  BY <1>3, <1>4 DEF LatestWorkSucceeded

\* Every step keeps the gates.
LEMMA StepGates ==
    ASSUME TypeOK, TypeOK', Books, GateInv, [Next]_vars
    PROVE  GateInv'
<1> SUFFICES ASSUME NEW n \in Nodes, gate'[n] # "none"
             PROVE  node'[n] \in {"blocked", "cancelled"} /\ LatestWorkSucceeded(n)'
  BY DEF GateInv
<1>1. /\ node \in [Nodes -> TaskStatuses] /\ gate \in [Nodes -> GateKinds \cup {"none"}]
      /\ rework \in [Nodes -> Nat]
  BY DEF TypeOK, DataOK
<1>2. CASE Quiet
  BY <1>2, QuietProceeds, DeliveryProceeds DEF GateInv
<1>3. CASE OwnerStep
  <2>1. RunsProceed
    BY <1>3, SameRunsProceed DEF OwnerStep, StartMission, CancelMission, RetryTaskNode, ResolveHumanGate
  <2>2. gate[n] # "none" /\ node'[n] \in {"blocked", "cancelled"}
    BY <1>1, <1>3 DEF OwnerStep, StartMission, InitiallyReady, CancelMission, RetryTaskNode,
                      ResolveHumanGate, GateInv
  <2> QED
    BY <2>1, <2>2, DeliveryProceeds DEF GateInv
<1>4. ASSUME NEW plan, NEW pick, NodeAdvances(n, plan, pick)
      PROVE  node'[n] \in {"blocked", "cancelled"} /\ LatestWorkSucceeded(n)'
  <2>1. CASE NodeRests(n) \/ NodeUnreviewed(n)
    BY <2>1 DEF NodeRests, NodeUnreviewed, RowsStay, GateInv, LatestWorkSucceeded, Duties
  <2>2. CASE ~NodeRests(n) /\ ~NodeUnreviewed(n)
    <3>1. gate'[n] = gate[n] /\ node[n] \notin {"blocked", "cancelled"}
      BY <1>4, <2>2 DEF NodeAdvances, NodeUnblocked, RunRetried, RunGivenUp, WorkStarted, ReviewStarted,
                        DutyStarted, BeforeWork
    <3> QED
      BY <3>1 DEF GateInv
  <2> QED
    BY <2>1, <2>2
<1>5. CASE RunMovesOn
  BY <1>5, DeliveryProceeds DEF GateInv, RunMovesOn
<1>6. ASSUME NEW r \in RunIds, NEW new, RunEnds(r, new)
      PROVE  node'[n] \in {"blocked", "cancelled"} /\ LatestWorkSucceeded(n)'
  <2>1. Run(r).st \in LiveRun /\ r[1] \in Nodes
    BY <1>6, RunIdParts DEF RunEnds, Settles
  <2>2. CASE gate[n] # "none"
    <3>1. /\ node[n] \in {"blocked", "cancelled"} /\ LatestWorkSucceeded(n)'
          /\ ~(n = r[1] /\ r[2] = "work")
      BY <1>6, <2>2, DeliverySettles DEF GateInv
    <3>2. ASSUME NEW decision \in Decisions, EndsJudged(r, new, decision) PROVE n # r[1]
      BY <2>1, <3>1, <3>2, LiveNode DEF EndsJudged
    <3>3. node'[n] \in {"blocked", "cancelled"}
      BY <1>6, <3>1, <3>2 DEF RunEnds, EndsFailed, EndsCancelled, EndsDelivered, EndsJudged
    <3> QED
      BY <3>1, <3>3
  <2>3. CASE gate[n] = "none"
    <3>1. PICK decision \in Decisions : EndsJudged(r, new, decision)
      BY <1>6, <2>3 DEF RunEnds, EndsFailed, EndsCancelled, EndsDelivered
    <3>2. n = r[1] /\ VerdictStatus(n, decision) = "blocked" /\ node'[n] = "blocked"
      BY <2>3, <3>1 DEF EndsJudged
    <3>3. LatestWorkSucceeded(n)
      BY <2>1, <3>1, <3>2, LiveNode DEF EndsJudged
    <3> QED
      BY <1>6, <3>2, <3>3, DeliverySettles
  <2> QED
    BY <2>2, <2>3
<1> QED
  BY <1>2, <1>3, <1>4, <1>5, <1>6, StepCases DEF NodesAdvance

\* A pending human gate keeps its node blocked, with its dependencies completed
\* and delivered work to return to, until it is resolved: no retry, verdict or
\* Advance gets around it (RetryTaskNode, ResolveHumanGate, AdvanceMission).
THEOREM GatesHold == Spec => []GateHolds
<1>1. Init => GateInv
  BY DEF Init, GateInv
<1>2. TypeOK /\ TypeOK' /\ Books /\ GateInv /\ [Next]_vars => GateInv'
  BY StepGates
<1>3. GateInv /\ DependencyInv => GateHolds
  BY DEF GateInv, DependencyInv, GateHolds
<1> QED
  BY <1>1, <1>2, <1>3, TypeCorrect, BooksHold, DependencyHolds, PTL DEF Spec
=============================================================================
