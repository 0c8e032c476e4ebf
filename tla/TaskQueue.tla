----------------------------- MODULE TaskQueue -----------------------------
(***************************************************************************)
(* agent_task_queue for the ordinary tasks of one agent: users that queue  *)
(* and cancel work, polls that claim it, the daemon that executes it and   *)
(* reports back, the sweepers, and the automatic retry.                    *)
(*                                                                         *)
(* Each action is one committed transaction or one autocommitted           *)
(* statement; what a request does between two of them is where others run. *)
(* A poll that claims a row of another runtime drops it without an answer, *)
(* exactly as if its answer were lost.  Wake-ups and the empty-claim cache *)
(* are EmptyClaim's matter.                                                *)
(***************************************************************************)
EXTENDS Naturals, FiniteSets

CONSTANTS
    Issues,               \* the issues the agent works on
    Claims,               \* the poll requests that may be in progress together
    Capacities,           \* the values max_concurrent_tasks is set to
    MaxAttempts,          \* max_attempts of a new row
    ProviderMaxAttempts,  \* providerNetworkMaxAttempts
    Slots,                \* the daemon's execution slots
    MaxEnqueues,          \* bound: tasks queued by users
    MaxDispatches         \* bound: times one row is dispatched

ASSUME BoundsAssumption ==
    /\ MaxAttempts \in Nat \ {0} /\ MaxEnqueues \in Nat /\ MaxDispatches \in Nat
    /\ ProviderMaxAttempts \in Nat /\ MaxAttempts <= ProviderMaxAttempts
    /\ Capacities \subseteq Nat /\ Capacities # {} /\ Slots \in Nat

\* Every task fits with all its retries: no insert fails for want of a row.
Rows == 1 .. MaxEnqueues * ProviderMaxAttempts

VARIABLES
    task,        \* the rows
    capacity,    \* agent.max_concurrent_tasks
    owed,        \* rows failed by a sweeper whose HandleFailedTasks is to come
    pc,          \* how far each poll is
    held,        \* held[c]: the claim that poll c prepares an answer for
    hand,        \* the daemon's handlers, one for each answer it received
    recovering   \* the daemon has restarted and not yet called RecoverOrphans

server == <<pc, held>>
daemon == <<hand, recovering>>
vars == <<task, capacity, owed, server, daemon>>

Active == {"dispatched", "waiting_local_directory", "running"}
Pending == {"queued", "dispatched"}
Ended == {"completed", "failed", "cancelled"}
Statuses == {"absent", "deferred", "queued"} \cup Active \cup Ended

\* failure_reason, as far as the retry tells them apart; what a handler has to
\* report is "completed" or the reason of its failure.
Reasons == {"agent_error", "timeout", "provider_network"}
retryableReasons == {"timeout", "provider_network"}
Outcomes == {"completed"} \cup Reasons

\* dispatched_at is the count of dispatches: it is only compared for equality.
Row == [status : Statuses, issue : Issues \cup {"none"}, attempt : 0..ProviderMaxAttempts,
        max_attempts : 0..ProviderMaxAttempts, parent : {0} \cup Rows,
        dispatched_at : 0..MaxDispatches]
NoClaim == [task |-> 0, dispatched_at |-> 0]
Claim == {NoClaim} \cup [task : Rows, dispatched_at : 1..MaxDispatches]
Handler == [task : Rows, dispatched_at : 1..MaxDispatches,
            step : {"preparing", "running"} \cup Outcomes]

TypeOK ==
    /\ task \in [Rows -> Row]
    /\ capacity \in Capacities
    /\ owed \subseteq Rows
    /\ pc \in [Claims -> {"idle", "promoted", "locked", "claimed"}]
    /\ held \in [Claims -> Claim]
    /\ hand \subseteq Handler
    /\ recovering \in BOOLEAN

Init ==
    /\ task = [t \in Rows |-> [status |-> "absent", issue |-> "none", attempt |-> 0,
                                max_attempts |-> 0, parent |-> 0, dispatched_at |-> 0]]
    /\ capacity \in Capacities
    /\ owed = {}
    /\ pc = [c \in Claims |-> "idle"]
    /\ held = [c \in Claims |-> NoClaim]
    /\ hand = {} /\ recovering = FALSE

In(statuses) == {t \in Rows : task[t].status \in statuses}
ActiveTasks == In(Active)

-----------------------------------------------------------------------------
(* The table: what one statement makes of it                               *)

Become(tab, S, st) == [t \in Rows |-> IF t \in S THEN [tab[t] EXCEPT !.status = st] ELSE tab[t]]

\* The next id.
Fresh(tab) == CHOOSE t \in Rows :
    /\ tab[t].status = "absent"
    /\ \A u \in 1..(t - 1) : tab[u].status # "absent"

Insert(tab, st, i, n, budget, p) ==
    [tab EXCEPT ![Fresh(tab)] = [status |-> st, issue |-> i, attempt |-> n,
                                 max_attempts |-> budget, parent |-> p, dispatched_at |-> 0]]

\* idx_one_pending_task_per_issue_agent_v2: a statement that breaks it fails.
UniquePending(tab) ==
    \A t, u \in Rows :
        tab[t].status \in Pending /\ tab[u].status \in Pending /\ tab[t].issue = tab[u].issue
            => t = u

NewTask(tab, i) == Insert(tab, "queued", i, 1, MaxAttempts, 0)

\* providerNetworkMaxAttempts widens the budget of a task whose retry is enabled.
retryAttemptCeiling(reason, budget) ==
    IF reason = "provider_network" /\ budget > 1 /\ budget < ProviderMaxAttempts
    THEN ProviderMaxAttempts ELSE budget

\* Mutant: the attempt is compared with the budget after it was used.
retryEligibleLate(reason, t) ==
    /\ reason \in retryableReasons
    /\ task[t].attempt <= retryAttemptCeiling(reason, task[t].max_attempts)

retryEligible(reason, t) ==
    /\ reason \in retryableReasons
    /\ task[t].attempt < retryAttemptCeiling(reason, task[t].max_attempts)

\* retryDelayForAttempt: the last attempt after a network failure waits.
Delayed(reason, t) == reason = "provider_network" /\ task[t].attempt >= ProviderMaxAttempts - 1

CreateRetryTask(tab, reason, t) ==
    Insert(tab, IF Delayed(reason, t) THEN "deferred" ELSE "queued", tab[t].issue,
           tab[t].attempt + 1, retryAttemptCeiling(reason, tab[t].max_attempts), t)

-----------------------------------------------------------------------------
(* Users                                                                   *)

MayEnqueue == Cardinality({t \in Rows : task[t].status # "absent" /\ task[t].parent = 0}) < MaxEnqueues

\* HasPendingTaskForIssueAndAgent is advice: the index decides.
Enqueue(i) ==
    /\ MayEnqueue
    /\ task' = NewTask(task, i)
    /\ UniquePending(task')
    /\ UNCHANGED <<capacity, owed, server, daemon>>

CancelTask(t) ==
    /\ task[t].status \in {"deferred", "queued"} \cup Active
    /\ task' = Become(task, {t}, "cancelled")
    /\ UNCHANGED <<capacity, owed, server, daemon>>

\* Cancel what the agent has on the issue, then queue it anew.  A conflict with a
\* task queued in between is the same as cancelling and not queueing.
RerunIssue(i) ==
    /\ MayEnqueue
    /\ \E t \in Rows : task[t].issue = i
    /\ task' = NewTask(Become(task, {t \in In({"deferred", "queued"} \cup Active) : task[t].issue = i},
                              "cancelled"), i)
    /\ UNCHANGED <<capacity, owed, server, daemon>>

Locked == \E c \in Claims : pc[c] = "locked"

\* UPDATE agent waits for the row lock of a claim.
SetCapacity(n) ==
    /\ n # capacity /\ ~Locked
    /\ capacity' = n
    /\ UNCHANGED <<task, owed, server, daemon>>

-----------------------------------------------------------------------------
(* A poll: ClaimTaskForRuntime and the handler around it                   *)

Answer(c) == /\ pc' = [pc EXCEPT ![c] = "idle"]
             /\ held' = [held EXCEPT ![c] = NoClaim]

Open == {c \in Claims : pc[c] # "idle"}

\* The daemon asks for no more tasks than it has free slots.
\* One UPDATE promotes everything that is due.  If it breaks the index, the
\* request ends with an error before it has claimed anything.
PromoteDueDeferred(c) ==
    /\ pc[c] = "idle" /\ ~recovering /\ Cardinality(hand) + Cardinality(Open) < Slots
    /\ \E due \in SUBSET In({"deferred"}) :
         /\ UniquePending(Become(task, due, "queued"))
         /\ task' = Become(task, due, "queued")
    /\ pc' = [pc EXCEPT ![c] = "promoted"]
    /\ UNCHANGED <<capacity, owed, held, daemon>>

\* Row t is dispatched again and this poll answers with it.
Dispatch(c, t) ==
    /\ task[t].dispatched_at < MaxDispatches
    /\ task' = [task EXCEPT ![t].status = "dispatched", ![t].dispatched_at = @ + 1]
    /\ held' = [held EXCEPT ![c] = [task |-> t, dispatched_at |-> task'[t].dispatched_at]]
    /\ pc' = [pc EXCEPT ![c] = "claimed"]

\* ReclaimStaleDispatchedTaskForRuntime: 90 seconds old and its prepare lease has
\* lapsed.  That is a matter of time, the daemon may be at work on it all the same.
ReclaimStaleDispatched(c) ==
    /\ pc[c] = "promoted"
    /\ \E t \in In({"dispatched"}) : Dispatch(c, t)
    /\ UNCHANGED <<capacity, owed, daemon>>

\* Mutant: the agent row is read without FOR UPDATE.
LockAgentPlain(c) ==
    /\ pc[c] = "promoted"
    /\ pc' = [pc EXCEPT ![c] = IF Cardinality(ActiveTasks) < capacity THEN "locked" ELSE "idle"]
    /\ UNCHANGED <<task, capacity, owed, held, daemon>>

\* GetAgentForClaimUpdate and CountRunningTasks: the transaction goes on, holding
\* the row lock, if the agent has a free slot.
LockAgent(c) ==
    /\ pc[c] = "promoted" /\ ~Locked
    /\ IF Cardinality(ActiveTasks) < capacity
       THEN pc' = [pc EXCEPT ![c] = "locked"] /\ UNCHANGED held
       ELSE Answer(c)
    /\ UNCHANGED <<task, capacity, owed, daemon>>

\* Mutant: a running task does not hold back the next one of its issue.
ClaimableAnyIssue == In({"queued"})

\* No task of the same issue is at work.
Claimable == {t \in In({"queued"}) : \A u \in ActiveTasks : task[u].issue # task[t].issue}

ClaimAgentTask(c) ==
    /\ pc[c] = "locked"
    /\ \/ (\E t \in Claimable : Dispatch(c, t))
       \/ Claimable = {} /\ Answer(c) /\ UNCHANGED task
    /\ UNCHANGED <<capacity, owed, daemon>>

\* FinalizeTaskClaim has succeeded, the answer is on its way: it arrives, or not.
Deliver(c) ==
    /\ pc[c] = "claimed"
    /\ hand' = hand \cup {[task |-> held[c].task, dispatched_at |-> held[c].dispatched_at,
                           step |-> "preparing"]}
    /\ Answer(c)
    /\ UNCHANGED <<task, capacity, owed, recovering>>

AnswerLost(c) ==
    /\ pc[c] # "idle"
    /\ Answer(c)
    /\ UNCHANGED <<task, capacity, owed, daemon>>

\* Mutant: the requeue does not compare dispatched_at.
RequeueAnyClaim(c) ==
    /\ pc[c] = "claimed"
    /\ LET t == held[c].task IN
         task' = IF task[t].status = "dispatched" THEN Become(task, {t}, "queued") ELSE task
    /\ Answer(c)
    /\ UNCHANGED <<capacity, owed, daemon>>

\* Mutant: the requeue does not look at the row's status.
RequeueAnyStatus(c) ==
    /\ pc[c] = "claimed"
    /\ LET t == held[c].task IN
         task' = IF task[t].dispatched_at = held[c].dispatched_at THEN Become(task, {t}, "queued")
                 ELSE task
    /\ Answer(c)
    /\ UNCHANGED <<capacity, owed, daemon>>

\* The answer could not be prepared: exactly this claim goes back to the queue.
RequeueAfterClaimFailure(c) ==
    /\ pc[c] = "claimed"
    /\ LET t == held[c].task
           mine == task[t].status = "dispatched" /\ task[t].dispatched_at = held[c].dispatched_at
       IN  task' = IF mine THEN Become(task, {t}, "queued") ELSE task
    /\ Answer(c)
    /\ UNCHANGED <<capacity, owed, daemon>>

-----------------------------------------------------------------------------
(* The daemon: one handler for each answer it received                     *)

Step(d, step) == hand' = (hand \ {d}) \cup {[d EXCEPT !.step = step]}

\* Mutant: StartAgentTask takes a running row, too.
StartRunning(d) ==
    /\ d.step = "preparing"
    /\ IF task[d.task].status \in Active
       THEN task' = Become(task, {d.task}, "running") /\ Step(d, "running")
       ELSE UNCHANGED task /\ Step(d, "agent_error")
    /\ UNCHANGED <<capacity, owed, server, recovering>>

\* A refused or unanswered start is reported as the task's failure.
StartTask(d) ==
    /\ d.step = "preparing"
    /\ IF task[d.task].status \in {"dispatched", "waiting_local_directory"}
       THEN /\ task' = Become(task, {d.task}, "running")
            /\ \E step \in {"running", "agent_error"} : Step(d, step)
       ELSE UNCHANGED task /\ Step(d, "agent_error")
    /\ UNCHANGED <<capacity, owed, server, recovering>>

MarkWaitingLocalDirectory(d) ==
    /\ d.step = "preparing" /\ task[d.task].status = "dispatched"
    /\ task' = Become(task, {d.task}, "waiting_local_directory")
    /\ UNCHANGED <<capacity, owed, server, daemon>>

\* The preparation fails, or the agent ends.
HandlerEnds(d) ==
    /\ \/ d.step = "preparing" /\ \E r \in Reasons : Step(d, r)
       \/ d.step = "running" /\ \E o \in Outcomes : Step(d, o)
    /\ UNCHANGED <<task, capacity, owed, server, recovering>>

\* The daemon polls the row's status and stops an agent whose task has ended.
NoticeEnded(d) ==
    /\ d.step \in {"preparing", "running"} /\ task[d.task].status \in Ended
    /\ hand' = hand \ {d}
    /\ UNCHANGED <<task, capacity, owed, server, recovering>>

\* The report is answered, or the answer is lost and the daemon repeats it.
Reported(d) == hand' \in {hand, hand \ {d}} /\ UNCHANGED <<capacity, owed, server, recovering>>

\* Mutant: a task that has ended can still be completed.
CompleteAnyTask(d) ==
    /\ d.step = "completed"
    /\ task' = Become(task, {d.task}, "completed")
    /\ Reported(d)

CompleteTask(d) ==
    /\ d.step = "completed"
    /\ task' = IF task[d.task].status = "running" THEN Become(task, {d.task}, "completed") ELSE task
    /\ Reported(d)

\* Mutant: the retry is inserted, the failure is forgotten.
RetryUnfailed(reason, t) ==
    IF retryEligible(reason, t) THEN CreateRetryTask(task, reason, t)
    ELSE Become(task, {t}, "failed")

\* FailTask's transaction: the failure, and the retry if there is to be one.
FailAndRetry(reason, t) ==
    LET failed == Become(task, {t}, "failed")
    IN  IF retryEligible(reason, t) THEN CreateRetryTask(failed, reason, t) ELSE failed

\* Mutant: the failure is recorded whatever the row's status.
FailAnyTask(d) ==
    /\ d.step \in Reasons
    /\ task' = FailAndRetry(d.step, d.task)
    /\ UniquePending(task')
    /\ Reported(d)

FailTask(d) ==
    /\ d.step \in Reasons
    /\ task' = IF task[d.task].status \in Active THEN FailAndRetry(d.step, d.task) ELSE task
    /\ UniquePending(task')
    /\ Reported(d)

\* The retry breaks the index, the transaction rolls back and the answer is 500.
\* After the last repetition the daemon drops the report and its handler.
GiveUp(d) ==
    /\ d.step \in Reasons /\ task[d.task].status \in Active
    /\ ~UniquePending(FailAndRetry(d.step, d.task))
    /\ hand' = hand \ {d}
    /\ UNCHANGED <<task, capacity, owed, server, recovering>>

\* The requests are aborted with their connection or their process.
DropPolls == /\ pc' = [c \in Claims |-> "idle"]
             /\ held' = [c \in Claims |-> NoClaim]

DaemonDies ==
    /\ ~recovering
    /\ hand' = {} /\ recovering' = TRUE
    /\ DropPolls
    /\ UNCHANGED <<task, capacity, owed>>

-----------------------------------------------------------------------------
(* Sweepers: fail, and in a later statement retry                          *)

FailAll(S) == /\ task' = Become(task, S, "failed")
              /\ owed' = owed \cup S

\* RecoverOrphanedTasksForRuntime, when the daemon is back.
RecoverOrphans ==
    /\ recovering
    /\ FailAll(ActiveTasks)
    /\ recovering' = FALSE
    /\ UNCHANGED <<capacity, server, hand>>

\* FailTasksForOfflineRuntimes (and the running branch of FailStaleTasks): no
\* heartbeat arrives, although the daemon may be at work behind a partition.
RuntimeOffline ==
    /\ ActiveTasks # {}
    /\ FailAll(ActiveTasks)
    /\ UNCHANGED <<capacity, server, daemon>>

Stray(t) == ~\E d \in hand : d.task = t


\* FailStaleTasks, the dispatched branch.
DispatchTimeout(t) ==
    /\ task[t].status = "dispatched"
    /\ FailAll({t})
    /\ UNCHANGED <<capacity, server, daemon>>

\* ExpireStaleQueuedTasks; queued_expired is never retried.
ExpireStaleQueued(t) ==
    /\ task[t].status = "queued"
    /\ task' = Become(task, {t}, "failed")
    /\ UNCHANGED <<capacity, owed, server, daemon>>

\* HandleFailedTasks; an insert that breaks the index is logged and forgotten.
\* The three reasons of the sweepers are all retryable and never delayed.
MaybeRetryFailedTask(t) ==
    /\ t \in owed
    /\ owed' = owed \ {t}
    /\ LET table == CreateRetryTask(task, "timeout", t)
       IN  task' = IF retryEligible("timeout", t) /\ UniquePending(table) THEN table ELSE task
    /\ UNCHANGED <<capacity, server, daemon>>

\* The server process stops: open transactions roll back, requests and pending
\* retries are forgotten.
ServerDies ==
    /\ owed # {} \/ Open # {}
    /\ owed' = {}
    /\ DropPolls
    /\ UNCHANGED <<task, capacity, daemon>>

-----------------------------------------------------------------------------
User ==
    \/ \E i \in Issues : Enqueue(i) \/ RerunIssue(i)
    \/ \E t \in Rows : CancelTask(t)
    \/ \E n \in Capacities : SetCapacity(n)

Poll(c) ==
    \/ PromoteDueDeferred(c) \/ ReclaimStaleDispatched(c) \/ LockAgent(c) \/ ClaimAgentTask(c)
    \/ Deliver(c) \/ AnswerLost(c) \/ RequeueAfterClaimFailure(c)

Handle(d) ==
    \/ StartTask(d) \/ MarkWaitingLocalDirectory(d) \/ HandlerEnds(d) \/ NoticeEnded(d)
    \/ CompleteTask(d) \/ FailTask(d) \/ GiveUp(d)

Sweep ==
    \/ RecoverOrphans \/ RuntimeOffline
    \/ \E t \in Rows : DispatchTimeout(t) \/ ExpireStaleQueued(t) \/ MaybeRetryFailedTask(t)

Next ==
    \/ User
    \/ \E c \in Claims : Poll(c)
    \/ \E d \in hand : Handle(d)
    \/ Sweep \/ DaemonDies \/ ServerDies

Spec == Init /\ [][Next]_vars

\* The sweeper is a loop, and the prepare lease of a task that no daemon prepares
\* is not extended.  Nobody else owes anything: no poll, handler, report or retry.
Fairness == \A t \in Rows : WF_vars(Stray(t) /\ DispatchTimeout(t))
FairSpec == Spec /\ Fairness
-----------------------------------------------------------------------------
(* Properties *)

\* No claim takes the agent beyond its limit, whatever other polls, starts and
\* changes of the limit run meanwhile (ClaimTask, GetAgentForClaimUpdate).
ClaimWithinCapacity ==
    [][ActiveTasks' \ ActiveTasks # {} => Cardinality(ActiveTasks') <= capacity']_vars

\* The agent never works twice on one issue: no requeue, promotion or retry lets
\* two of its tasks past ClaimAgentTask.
OneActivePerIssue ==
    \A t, u \in ActiveTasks : task[t].issue = task[u].issue => t = u

\* A failure is retried at most once, though reports are repeated and sweepers and
\* the daemon race, and only a failure is; the chain stays within the schedule.
OneRetryPerFailure ==
    \A t \in Rows : task[t].parent # 0 =>
        /\ task[task[t].parent].status = "failed"
        /\ \A u \in Rows : task[u].parent = task[t].parent => u = t

\* A late requeue never takes a task from the daemon that holds its newest claim or
\* executes it (RequeueAgentTaskAfterClaimFailure's comparison of dispatched_at).
HolderKeepsTask ==
    \A d \in hand :
        \/ d.dispatched_at = task[d.task].dispatched_at
        \/ d.step = "running"
        => task[d.task].status # "queued"

\* A task given out twice is executed once (StartAgentTask).
OneExecution ==
    \A d, e \in hand : d.task = e.task /\ d.step = "running" /\ e.step = "running" => d = e

\* What has ended stays as it ended, however late the reports of an execution that
\* was given up (CompleteTask, FailTask: already finalized).
EndedStays ==
    [][\A t \in Rows : task[t].status \in Ended => task'[t].status = task[t].status]_vars

\* The contract with the users (TaskContract), read off the table: deferred and
\* queued rows wait, a dispatched one is given out and started when it runs.
StageOf == [absent |-> "none", deferred |-> "waiting", queued |-> "waiting",
            dispatched |-> "given", waiting_local_directory |-> "given", running |-> "started",
            completed |-> "completed", failed |-> "failed", cancelled |-> "cancelled"]

Contract ==
    INSTANCE TaskContract WITH
        Tasks <- Rows, Limits <- Capacities, limit <- capacity,
        stage <- [t \in Rows |-> StageOf[task[t].status]],
        issue <- [t \in Rows |-> task[t].issue],
        origin <- [t \in Rows |-> task[t].parent]

\* Every poll, requeue, report, sweep, retry, crash and rerun is one step of the
\* contract or none (task.go, agent.sql).
ImplementsTaskContract == Contract!Spec

=============================================================================
