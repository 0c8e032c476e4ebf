------------------------------ MODULE Planning ------------------------------
(***************************************************************************)
(* The planning of one mission, from its draft to the accepted plan: the   *)
(* planner's assignments and runs, the immutable proposal versions, the    *)
(* owners who edit, reject or approve them from a page that may be stale,  *)
(* the retried QuickCreate that submits the fixed template, and what the   *)
(* planner's leftovers do to the Advance loop once the mission runs.       *)
(*                                                                         *)
(* Each action is one transaction under the mission's row lock, or one     *)
(* step of the execution plane.  The work of the accepted plan is counted  *)
(* in units, each an Advance that finds a free slot and all that its run   *)
(* then does: MissionExecution has the detail.                             *)
(***************************************************************************)
EXTENDS Naturals, Sequences

CONSTANTS
    Owners,        \* the owners' pages
    MaxAttempts,   \* limits.max_task_attempts of the mission
    Work,          \* units of work of an accepted plan
    MaxRequests,   \* bound: planning rounds
    MaxVersions    \* bound: an edit makes no version beyond it

ASSUME BoundsAssumption ==
    /\ MaxAttempts \in Nat \ {0} /\ Work \in Nat \ {0}
    /\ MaxRequests \in Nat /\ MaxVersions \in Nat

VARIABLES
    mission,    \* mission.status; "blocked" is MissionExecution's
    revision,   \* mission.revision
    plan,       \* the accepted plan and where it came from
    planners,   \* the planner's assignments in sequence, each with its one run
    proposals,  \* proposals[v]: the round whose run version v descends from
    rejected,   \* the versions with a plan_proposal.rejected activity
    page,       \* what each owner's page last loaded
    quick,      \* the revision QuickCreate carries from CreateMission to SubmitPlan
    done        \* the units of work done

vars == <<mission, revision, plan, planners, proposals, rejected, page, quick, done>>
pages == <<page, quick>>

LiveRun == {"queued", "dispatched", "running"}
LiveTask == {"queued", "dispatched", "running"}
NoPlan == [kind |-> "none", version |-> 0]
Versions == 1 .. Len(proposals)

\* A round as RequestPlan makes it: the run is queued, its task is still to come.
NewRound == [asg |-> "active", run |-> "queued", failure |-> "none",
             task |-> "none", due |-> FALSE]

\* CreateMission has committed; the SubmitPlan of QuickCreate has not.
Init ==
    /\ mission = "draft" /\ revision = 1 /\ plan = NoPlan
    /\ planners = <<>> /\ proposals = <<>> /\ rejected = {}
    /\ page = [o \in Owners |-> [revision |-> 0, latest |-> 0]]
    /\ quick = 1 /\ done = 0

LiveRounds == {k \in DOMAIN planners : planners[k].run \in LiveRun}
ActiveRounds == {k \in DOMAIN planners : planners[k].asg = "active"}

-----------------------------------------------------------------------------
(* The owners.  A command carries the revision its page shows.             *)

\* GetMissionProjection, one repeatable-read snapshot.
LoadPage(o) ==
    /\ page' = [page EXCEPT ![o] = [revision |-> revision, latest |-> Len(proposals)]]
    /\ UNCHANGED <<mission, revision, plan, planners, proposals, rejected, quick, done>>

\* The checks every command on a draft makes under the mission's lock.
OnDraft(o) == mission = "draft" /\ page[o].revision = revision

EndRound(k, status) == [planners EXCEPT ![k].asg = status]

\* Mutant: a planner still assigned is not looked at.
RequestPlanAgain(o) ==
    /\ OnDraft(o)
    /\ Len(planners) < MaxRequests
    /\ planners' = Append(planners, NewRound)
    /\ revision' = revision + 1
    /\ UNCHANGED <<mission, plan, proposals, rejected, pages, done>>

RequestPlan(o) ==
    /\ OnDraft(o)
    /\ ActiveRounds = {}
    /\ Len(planners) < MaxRequests
    /\ planners' = Append(planners, NewRound)
    /\ revision' = revision + 1
    /\ UNCHANGED <<mission, plan, proposals, rejected, pages, done>>

\* lockPendingPlanProposal: the newest version, of a round that is still open.
OpenRound(v) ==
    LET p == planners[proposals[v]] IN p.run = "succeeded" /\ p.asg = "active"
Pending(v) == v = Len(proposals) /\ OpenRound(v)

\* Mutant: the edit leaves the mission's revision.
EditQuietly(o, v) ==
    /\ OnDraft(o) /\ Pending(v)
    /\ Len(proposals) < MaxVersions
    /\ proposals' = Append(proposals, proposals[v])
    /\ UNCHANGED <<mission, revision, plan, planners, rejected, pages, done>>

EditPlanProposal(o, v) ==
    /\ OnDraft(o) /\ Pending(v)
    /\ Len(proposals) < MaxVersions
    /\ proposals' = Append(proposals, proposals[v])
    /\ revision' = revision + 1
    /\ UNCHANGED <<mission, plan, planners, rejected, pages, done>>

\* Mutant: the rejection leaves the round's assignment active.
RejectOnPaper(o, v) ==
    /\ OnDraft(o) /\ Pending(v)
    /\ rejected' = rejected \cup {v}
    /\ revision' = revision + 1
    /\ UNCHANGED <<mission, plan, planners, proposals, pages, done>>

RejectPlanProposal(o, v) ==
    /\ OnDraft(o) /\ Pending(v)
    /\ planners' = EndRound(proposals[v], "revoked")
    /\ rejected' = rejected \cup {v}
    /\ revision' = revision + 1
    /\ UNCHANGED <<mission, plan, proposals, pages, done>>

\* SubmitPlan with a source: validatePlanProposalSource asks for an open round,
\* and unlike Pending not for the newest version.
ApprovePlanProposal(o, v) ==
    /\ OnDraft(o) /\ OpenRound(v)
    /\ mission' = "ready"
    /\ plan' = [kind |-> "proposal", version |-> v]
    /\ planners' = EndRound(proposals[v], "fulfilled")
    /\ revision' = revision + 1
    /\ UNCHANGED <<proposals, rejected, pages, done>>

StartMission(o) ==
    /\ mission = "ready" /\ page[o].revision = revision
    /\ mission' = "running"
    /\ revision' = revision + 1
    /\ UNCHANGED <<plan, planners, proposals, rejected, pages, done>>

\* RevokeMissionAssignments ends every active assignment; the runs are left to
\* the reconciler.
CancelMission(o) ==
    /\ mission \in {"draft", "ready", "running"} /\ page[o].revision = revision
    /\ mission' = "cancelled"
    /\ planners' = [k \in DOMAIN planners |->
                      IF k \in ActiveRounds THEN [planners[k] EXCEPT !.asg = "revoked"]
                                            ELSE planners[k]]
    /\ revision' = revision + 1
    /\ UNCHANGED <<plan, proposals, rejected, pages, done>>

\* The page names a version that it shows.
Decide(o) ==
    \E v \in Versions :
        /\ v <= page[o].latest
        /\ EditPlanProposal(o, v) \/ RejectPlanProposal(o, v) \/ ApprovePlanProposal(o, v)

-----------------------------------------------------------------------------
(* QuickCreate, retried after a failure between its two transactions.      *)

\* CreateMission replays and returns the mission as it now is.
ReplayCreate ==
    /\ quick' = revision
    /\ UNCHANGED <<mission, revision, plan, planners, proposals, rejected, page, done>>

\* SubmitPlan without a source: no look at the planner.
SubmitTemplate ==
    /\ mission = "draft" /\ quick = revision
    /\ mission' = "ready"
    /\ plan' = [kind |-> "template", version |-> 0]
    /\ revision' = revision + 1
    /\ UNCHANGED <<planners, proposals, rejected, pages, done>>

-----------------------------------------------------------------------------
(* The planner's run and its task.                                         *)

SetRound(k, p) ==
    /\ planners' = [planners EXCEPT ![k] = p]
    /\ UNCHANGED <<mission, revision, plan, proposals, rejected, pages, done>>
SetTask(k, from, to) ==
    planners[k].task \in from /\ SetRound(k, [planners[k] EXCEPT !.task = to])

\* EnqueueOrchestrationRun, called by RequestPlan, by the reconciler and by an
\* Advance; LockOrchestrationRunForEnqueue wants a draft and an active planner.
Enqueue(k) ==
    /\ mission = "draft"
    /\ planners[k].run = "queued" /\ planners[k].asg = "active"
    /\ SetTask(k, {"none"}, "queued")

\* The run timeout counts from the dispatch, then from the start: a deadline
\* that passed while the task waited no longer counts.
ClaimTask(k) ==
    /\ planners[k].task = "queued"
    /\ SetRound(k, [planners[k] EXCEPT !.task = "dispatched", !.due = FALSE])
StartTask(k) ==
    /\ planners[k].task = "dispatched"
    /\ SetRound(k, [planners[k] EXCEPT !.task = "running", !.due = FALSE])
\* A completed task's output is a valid proposal or it is not.
CompleteTask(k) == \E output \in {"proposal", "rubbish"} : SetTask(k, {"running"}, output)
\* A failure is one that the policy retries ("broken") or one that it does not.
FailTask(k) == \E fate \in {"broken", "failed"} : SetTask(k, LiveTask, fate)
\* A user cancels the task on the mission's issue, or the loop after CancelMission does.
HaltTask(k) == SetTask(k, LiveTask, "cancelled")

\* The dispatch deadline or the run timeout passes; a completed task is judged
\* by the time it completed.
PassDeadline(k) ==
    /\ planners[k].run \in LiveRun /\ ~planners[k].due
    /\ planners[k].task \in LiveTask \cup {"none"}
    /\ SetRound(k, [planners[k] EXCEPT !.due = TRUE])

\* normalizeRunObservation, and validatePlanningTaskProposal, which overrules it.
GivenUp == mission \in {"cancelled", "failed"}
Saw(run, failure) == [run |-> run, failure |-> failure]
Facts == [dispatched |-> Saw("dispatched", "none"), running |-> Saw("running", "none"),
          proposal |-> Saw("succeeded", "none"), rubbish |-> Saw("failed", "final"),
          broken |-> Saw("failed", "retryable"), failed |-> Saw("failed", "final"),
          cancelled |-> Saw("cancelled", "none")]
Fact(p) == IF p.task \in DOMAIN Facts THEN Facts[p.task] ELSE Saw(p.run, "none")
Overdue(p) == p.due /\ p.task \in LiveTask \cup {"none", "proposal"}

\* Mutant: the proposal of a completed task counts although the mission was given up.
ObservedLate(p) ==
    CASE GivenUp /\ p.task \notin {"proposal", "rubbish"} -> Saw("cancelled", "none")
      [] ~GivenUp /\ Overdue(p) -> Saw("failed", "retryable")
      [] OTHER -> Fact(p)

\* Mutant: the dispatch deadline is not looked at while there is no task.
ObservedTask(p) ==
    CASE GivenUp /\ p.task # "rubbish" -> Saw("cancelled", "none")
      [] ~GivenUp /\ Overdue(p) /\ p.task # "none" -> Saw("failed", "retryable")
      [] OTHER -> Fact(p)

Observed(p) ==
    CASE GivenUp /\ p.task # "rubbish" -> Saw("cancelled", "none")
      [] ~GivenUp /\ Overdue(p) -> Saw("failed", "retryable")
      [] OTHER -> Fact(p)

\* Mutant: any proposal of a completed task becomes a version.
ReconcileAnyProposal(k) ==
    LET seen == Observed(planners[k]) IN
    /\ planners[k].run \in LiveRun /\ seen.run # planners[k].run
    /\ planners' = [planners EXCEPT ![k].run = seen.run, ![k].failure = seen.failure]
    /\ proposals' = IF planners[k].task = "proposal" THEN Append(proposals, k) ELSE proposals
    /\ UNCHANGED <<mission, revision, plan, rejected, pages, done>>

\* ReconcileRun: the proposal of a run that succeeds becomes the next version.
\* The mission's revision stays.
Reconcile(k) ==
    LET seen == Observed(planners[k]) IN
    /\ planners[k].run \in LiveRun /\ seen.run # planners[k].run
    /\ planners' = [planners EXCEPT ![k].run = seen.run, ![k].failure = seen.failure]
    /\ proposals' = IF seen.run = "succeeded" THEN Append(proposals, k) ELSE proposals
    /\ UNCHANGED <<mission, revision, plan, rejected, pages, done>>

\* Mutant: cancelled runs are no longer listed.
ListedFailed(p) == p.run = "failed"

\* The ended runs that ListReconcilable still returns, for their tasks to be cancelled.
Listed(p) == p.run \in {"failed", "cancelled"}
CancelExecution(k) ==
    Listed(planners[k]) /\ SetTask(k, LiveTask, "cancelled")

-----------------------------------------------------------------------------
(* The mission at work.                                                    *)

\* The retry loop of an Advance finds the planner's assignment active and its
\* run to be retried, and no node to retry it on: the transaction rolls back.
AdvanceFails ==
    \E k \in ActiveRounds : /\ planners[k].run = "failed"
                            /\ planners[k].failure = "retryable"
                            /\ MaxAttempts > 1

\* countActiveRuns counts the planner's run too; QuickCreate allows one run.
SlotFree == LiveRounds = {}

\* Mutant: the planner's run takes no slot.
AdvanceUnthrottled ==
    /\ mission = "running" /\ ~AdvanceFails
    /\ done' = done + 1
    /\ \/ mission' = "failed"
       \/ mission' = IF done' = Work THEN "completed" ELSE "running"
    /\ revision' = IF mission' = mission THEN revision ELSE revision + 1
    /\ UNCHANGED <<plan, planners, proposals, rejected, pages>>

\* One unit of work, up to the Advance that finds it accepted or failed.
Advance ==
    /\ mission = "running" /\ ~AdvanceFails /\ SlotFree
    /\ done' = done + 1
    /\ \/ mission' = "failed"
       \/ mission' = IF done' = Work THEN "completed" ELSE "running"
    /\ revision' = IF mission' = mission THEN revision ELSE revision + 1
    /\ UNCHANGED <<plan, planners, proposals, rejected, pages>>

-----------------------------------------------------------------------------
OwnerStep(o) ==
    LoadPage(o) \/ RequestPlan(o) \/ Decide(o) \/ StartMission(o) \/ CancelMission(o)
DaemonStep(k) == ClaimTask(k) \/ StartTask(k) \/ CompleteTask(k) \/ FailTask(k)

Next ==
    \/ \E o \in Owners : OwnerStep(o)
    \/ ReplayCreate \/ SubmitTemplate \/ Advance
    \/ \E k \in DOMAIN planners :
          Enqueue(k) \/ DaemonStep(k) \/ HaltTask(k) \/ PassDeadline(k)
          \/ Reconcile(k) \/ CancelExecution(k)

Spec == Init /\ [][Next]_vars

\* RunReconciler is a loop, deadlines pass, and every reconciled run is followed
\* by an Advance.  Owners, users, daemons and QuickCreate's caller owe nothing.
Fairness ==
    /\ WF_vars(Advance)
    /\ \A k \in 1 .. MaxRequests :
          /\ WF_vars(k \in DOMAIN planners /\ Enqueue(k))
          /\ WF_vars(k \in DOMAIN planners /\ PassDeadline(k))
          /\ WF_vars(k \in DOMAIN planners /\ Reconcile(k))
          /\ WF_vars(k \in DOMAIN planners /\ CancelExecution(k))
FairSpec == Spec /\ Fairness

-----------------------------------------------------------------------------
(* Properties.                                                             *)

\* Types, and the CHECKs and keys of the tables: a version is the work of a run
\* that succeeded, a plan from a proposal names a version, and a mission past its
\* draft has a plan unless it was cancelled as one.
Rounds == [asg : {"active", "fulfilled", "revoked"},
           run : LiveRun \cup {"succeeded", "failed", "cancelled"},
           failure : {"none", "retryable", "final"},
           task : LiveTask \cup {"none", "proposal", "rubbish", "broken", "failed",
                                 "cancelled"},
           due : BOOLEAN]
TypeOK ==
    /\ mission \in {"draft", "ready", "running", "completed", "failed", "cancelled"}
    /\ revision \in Nat \ {0} /\ quick \in 1 .. revision /\ done \in 0 .. Work
    /\ Len(planners) <= MaxRequests
    /\ \A k \in DOMAIN planners :
          /\ planners[k] \in Rounds
          /\ planners[k].run = "failed" <=> planners[k].failure # "none"
    /\ \A v \in Versions :
          /\ proposals[v] \in DOMAIN planners
          /\ planners[proposals[v]].run = "succeeded"
    /\ rejected \subseteq Versions
    /\ plan.kind = "proposal" => plan.version \in Versions
    /\ mission \in {"ready", "running", "completed", "failed"} => plan # NoPlan
    /\ \A o \in Owners : /\ page[o].revision \in 0 .. revision
                         /\ page[o].latest \in 0 .. Len(proposals)

\* RequestPlan, RejectPlanProposal and the owners' races: at most one planner is
\* assigned, and a run that still works is the newest round's, so that two
\* planners never work on one mission and no result of an earlier round can still
\* become a version.
OnePlanner ==
    /\ \A j, k \in ActiveRounds : j = k
    /\ LiveRounds \subseteq {Len(planners)}

\* RejectPlanProposal: a plan is never accepted from a round that an owner has
\* rejected, whatever version of it the approving page shows.
RejectedStaysOut ==
    plan.kind = "proposal" =>
        \A v \in rejected : proposals[v] # proposals[plan.version]

\* Optimistic locking by revision: a decision that goes through was made on a page
\* that showed the newest version, although a planner's result adds a version
\* without a new revision.
DecidesOnWhatItSaw ==
    [][\A o \in Owners : Decide(o) => page[o].latest = Len(proposals)]_vars

\* normalizeRunObservation: once the mission is given up, a planner that answers
\* late makes no version any more.
CancelClosesPlanning == [][GivenUp => proposals' = proposals]_vars

\* countActiveRuns: a mission is never completed while a planner still works on
\* it, even one that a template's plan has overtaken.
QuietEnd == mission = "completed" => LiveRounds = {}

\* The reconciler's two passes: after the mission is given up every planning run
\* ends and every task of one is stopped, whenever the task was made.
PlanningDrains ==
    GivenUp ~> \A k \in DOMAIN planners :
                  /\ planners[k].run \notin LiveRun
                  /\ planners[k].task \notin LiveTask

\* Deadlines: a planning run ends although no daemon may ever claim its task and
\* although a task may never be made for it.
PlanningConcludes ==
    \A k \in 1 .. MaxRequests : k \in LiveRounds ~> k \notin LiveRounds

\* quick_create.go: "retrying after a crash between the two transactions safely
\* completes the draft": a mission that runs comes to an end.
RunningSettles == mission = "running" ~> mission # "running"
=============================================================================
