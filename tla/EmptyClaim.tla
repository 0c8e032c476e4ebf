---------------------------- MODULE EmptyClaim ----------------------------
(***************************************************************************)
(* The empty-claim cache of one runtime, between the calls that queue a    *)
(* task and the polls that claim one.                                      *)
(*                                                                         *)
(* Redis holds a version, which every queued row bumps, and at most one    *)
(* verdict "nothing is queued", which carries the version its poll saw     *)
(* before it looked.  The row is committed first and notified afterwards,  *)
(* in a second step that may fail; any number of polls run in between.     *)
(* Which agent may take a task is TaskQueue's matter: here a poll that     *)
(* sees the queue takes one of its tasks or none.                          *)
(***************************************************************************)
EXTENDS Naturals, FiniteSets

CONSTANTS
    Tasks,       \* the tasks of the runtime
    Claims,      \* the poll requests that may be in progress together
    MaxRequeues  \* bound: claims that fail after they have taken a task

ASSUME MaxRequeuesAssumption == MaxRequeues \in Nat

VARIABLES
    task,     \* agent_task_queue.status
    owed,     \* rows that became queued and whose notification is still to come
    missed,   \* queued rows whose notification did not reach Redis
    version,  \* the version key; 0 when it is absent
    verdict,  \* the value of the empty key; {} when it is absent
    pc,       \* how far each poll is
    own,      \* own[c]: the rows that poll c has promoted and has to notify
    seen,     \* seen[c]: the version that poll c has sampled
    requeues

redis == <<version, verdict>>
polls == <<pc, own, seen>>
vars == <<task, owed, missed, redis, polls, requeues>>

TaskStatuses == {"absent", "deferred", "queued", "dispatched", "running"}
Steps == {"idle", "promote", "notify", "reclaim", "check", "sample", "list", "mark", "claim"}

TypeOK ==
    /\ task \in [Tasks -> TaskStatuses]
    /\ owed \subseteq Tasks /\ missed \subseteq Tasks
    /\ version \in Nat /\ verdict \subseteq Nat
    /\ pc \in [Claims -> Steps]
    /\ own \in [Claims -> SUBSET Tasks]
    /\ seen \in [Claims -> Nat]
    /\ requeues \in 0..MaxRequeues

Init ==
    /\ task = [t \in Tasks |-> "absent"]
    /\ owed = {} /\ missed = {}
    /\ version = 0 /\ verdict = {}
    /\ pc = [c \in Claims |-> "idle"]
    /\ own = [c \in Claims |-> {}]
    /\ seen = [c \in Claims |-> 0]
    /\ requeues = 0

Queued == {t \in Tasks : task[t] = "queued"}
Become(S, st) == task' = [t \in Tasks |-> IF t \in S THEN st ELSE task[t]]
Goto(c, step) == pc' = [pc EXCEPT ![c] = step]
Forget(c) == seen' = [seen EXCEPT ![c] = 0]

-----------------------------------------------------------------------------
(* Rows.  Enqueue and retry insert a queued or a deferred row.             *)

Enqueue(t) ==
    /\ task[t] = "absent"
    /\ \/ Become({t}, "queued") /\ owed' = owed \cup {t}
       \/ Become({t}, "deferred") /\ UNCHANGED owed
    /\ UNCHANGED <<missed, redis, polls, requeues>>

\* The daemon has the response and starts the task.
StartTask(t) ==
    /\ task[t] = "dispatched"
    /\ Become({t}, "running")
    /\ UNCHANGED <<owed, missed, redis, polls, requeues>>

\* RequeueTaskAfterClaimFailure: the handler could not finish the claim.
Requeue(t) ==
    /\ task[t] = "dispatched" /\ requeues < MaxRequeues
    /\ Become({t}, "queued") /\ owed' = owed \cup {t}
    /\ requeues' = requeues + 1
    /\ UNCHANGED <<missed, redis, polls>>

\* The row has left the queue: nobody waits for its notification any more.
Dispatch(t) ==
    /\ Become({t}, "dispatched")
    /\ missed' = missed \ {t}

-----------------------------------------------------------------------------
(* The cache.  Any call to Redis may fail; the poll then asks Postgres.    *)

IsEmpty == version \in verdict

Bump == version' = version + 1 /\ UNCHANGED verdict

\* notifyRuntimeMayHaveWork, after the row was committed.
Notify(t) ==
    /\ t \in owed
    /\ owed' = owed \ {t}
    /\ Bump
    /\ UNCHANGED <<task, missed, polls, requeues>>

\* Redis does not answer, or the process dies between the commit and the call.
NotifyFails(t) ==
    /\ t \in owed
    /\ owed' = owed \ {t}
    /\ missed' = missed \cup (Queued \cap {t})
    /\ UNCHANGED <<task, redis, polls, requeues>>

\* Mutant: SET without a time to live.
VerdictExpiresNever == FALSE /\ UNCHANGED vars

VerdictExpires ==
    /\ verdict # {}
    /\ verdict' = {}
    /\ UNCHANGED <<task, owed, missed, version, polls, requeues>>

\* A day without a bump or a poll: no verdict (three minutes) and no request
\* that has sampled the version (thirty seconds) is left.
VersionExpires ==
    /\ version # 0 /\ verdict = {}
    /\ \A c \in Claims : pc[c] = "idle"
    /\ version' = 0
    /\ UNCHANGED <<task, owed, missed, verdict, polls, requeues>>

-----------------------------------------------------------------------------
(* A poll: ClaimTaskForRuntime, step by step.                              *)

BeginClaim(c) ==
    /\ pc[c] = "idle"
    /\ Goto(c, "promote")
    /\ UNCHANGED <<task, owed, missed, redis, own, seen, requeues>>

\* PromoteDueDeferredTasksForRuntime: which rows are due is a matter of time.
Promote(c) ==
    /\ pc[c] = "promote"
    /\ \E due \in SUBSET {t \in Tasks : task[t] = "deferred"} :
         /\ Become(due, "queued") /\ own' = [own EXCEPT ![c] = due]
         /\ Goto(c, IF due = {} THEN "reclaim" ELSE "notify")
    /\ UNCHANGED <<owed, missed, redis, seen, requeues>>

\* The rows it has promoted, one after the other.
NotifyPromoted(c) ==
    /\ pc[c] = "notify"
    /\ \E t \in own[c] :
         /\ own' = [own EXCEPT ![c] = @ \ {t}]
         /\ \/ Bump /\ UNCHANGED missed
            \/ missed' = missed \cup (Queued \cap {t}) /\ UNCHANGED redis
         /\ Goto(c, IF own[c] = {t} THEN "reclaim" ELSE "notify")
    /\ UNCHANGED <<task, owed, seen, requeues>>

\* ReclaimStaleDispatchedTaskForRuntime: a dispatched row whose response was
\* lost is given out again, whatever the cache says.
Reclaim(c) ==
    /\ pc[c] = "reclaim"
    /\ \/ (\E t \in Tasks : task[t] = "dispatched") /\ Goto(c, "idle")
       \/ Goto(c, "check")
    /\ UNCHANGED <<task, owed, missed, redis, own, seen, requeues>>

Check(c) ==
    /\ pc[c] = "check"
    /\ \/ IsEmpty /\ Goto(c, "idle")
       \/ Goto(c, "sample") /\ ~IsEmpty
    /\ UNCHANGED <<task, owed, missed, redis, own, seen, requeues>>

\* MGET fails: a miss.
CheckFails(c) ==
    /\ pc[c] = "check"
    /\ Goto(c, "sample")
    /\ UNCHANGED <<task, owed, missed, redis, own, seen, requeues>>

\* CurrentVersion: an error reads as 0.
Sample(c) ==
    /\ pc[c] = "sample"
    /\ \E v \in {version, 0} : seen' = [seen EXCEPT ![c] = v]
    /\ Goto(c, "list")
    /\ UNCHANGED <<task, owed, missed, redis, own, requeues>>

\* ListQueuedClaimCandidatesByRuntime.
List(c) ==
    /\ pc[c] = "list"
    /\ IF Queued = {}
       THEN Goto(c, "mark") /\ UNCHANGED seen
       ELSE Goto(c, "claim") /\ Forget(c)
    /\ UNCHANGED <<task, owed, missed, redis, own, requeues>>

\* Mutant: the verdict carries the version at the time it is written.
MarkEmptyNow(c) ==
    /\ pc[c] = "mark"
    /\ verdict' = {version}
    /\ Goto(c, "idle") /\ Forget(c)
    /\ UNCHANGED <<task, owed, missed, version, own, requeues>>

MarkEmpty(c) ==
    /\ pc[c] = "mark"
    /\ \/ verdict' = {seen[c]}
       \/ UNCHANGED verdict       \* SET fails
    /\ Goto(c, "idle") /\ Forget(c)
    /\ UNCHANGED <<task, owed, missed, version, own, requeues>>

\* ClaimTask for the agents of the candidates: one of the queued tasks is
\* dispatched, or none, when it is gone or its agent is busy.
ClaimTask(c) ==
    /\ pc[c] = "claim"
    /\ \/ \E t \in Queued : Dispatch(t)
       \/ UNCHANGED <<task, missed>>
    /\ Goto(c, "idle")
    /\ UNCHANGED <<owed, redis, own, seen, requeues>>

\* An error or the client's disconnection ends the request before it looks.
Abort(c) ==
    /\ pc[c] \in {"promote", "reclaim", "list"}
    /\ Goto(c, "idle") /\ Forget(c)
    /\ UNCHANGED <<task, owed, missed, redis, own, requeues>>

Poll(c) ==
    \/ BeginClaim(c) \/ Promote(c) \/ NotifyPromoted(c) \/ Reclaim(c)
    \/ Check(c) \/ CheckFails(c) \/ Sample(c) \/ List(c)
    \/ MarkEmpty(c) \/ ClaimTask(c)

-----------------------------------------------------------------------------
Next ==
    \/ \E t \in Tasks : Enqueue(t) \/ StartTask(t) \/ Requeue(t)
    \/ \E t \in Tasks : Notify(t) \/ NotifyFails(t)
    \/ VerdictExpires \/ VersionExpires
    \/ \E c \in Claims : Poll(c) \/ Abort(c)

\* The daemon polls again and again.  Requests may be aborted or spend themselves
\* on recovered tasks, but not all of them: a step that is possible infinitely
\* often is taken.  Keys expire, and a daemon starts what it was given.
Fairness ==
    /\ WF_vars(VerdictExpires)
    /\ \A t \in Tasks : WF_vars(StartTask(t))
    /\ \A c \in Claims :
         /\ WF_vars(Poll(c))
         /\ SF_vars(Promote(c))
         /\ SF_vars(Reclaim(c) /\ pc'[c] = "check")
         /\ SF_vars(Sample(c))
         /\ SF_vars(List(c))

Spec == Init /\ [][Next]_vars /\ Fairness
-----------------------------------------------------------------------------
(* Properties *)

\* A trusted verdict hides a queued task only until the task's notification, or
\* when that notification was lost: no order of a poll's reads, its SELECT and
\* its late MarkEmpty with an enqueue, a promotion or a requeue hides one that was
\* announced (notifyTaskAvailable, CurrentVersion before the SELECT).
Unannounced == owed \cup missed \cup UNION {own[c] : c \in Claims}
HidesOnlyUnannounced == IsEmpty => Queued \subseteq Unannounced

\* Even a task whose notification was lost is seen by a poll, once the verdict
\* that hides it has expired (EmptyClaimCacheTTL).
QueuedIsSeen ==
    \A t \in Tasks :
        task[t] = "queued" ~> (task[t] # "queued" \/ \E c \in Claims : pc[c] = "claim")
=============================================================================
