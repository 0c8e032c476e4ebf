-------------------------- MODULE TaskQueueProofs --------------------------
(***************************************************************************)
(* Proofs about TaskQueue, for every number of issues, polls, slots and    *)
(* attempts.                                                               *)
(*                                                                         *)
(* Only a claim makes a row active; every other step leaves the active     *)
(* rows or takes some away.  A claim goes through the agent's row lock,    *)
(* which one poll holds at a time, and while it is held the agent has a    *)
(* free slot: its limit does not move and nobody else claims.              *)
(*                                                                         *)
(* A retry is the next attempt of its parent's chain.  What is still to be *)
(* retried has no child yet, so every row is the only one of its chain and *)
(* attempt; that also finds every insert a free row.                       *)
(*                                                                         *)
(* A claim is a row and its count of dispatches.  Each is with one poll or *)
(* one handler; a row goes back to the queue only with its newest claim,   *)
(* out of the hands of the poll that had it.                               *)
(*                                                                         *)
(* With these invariants every statement is one step of TaskContract, or   *)
(* none: the last section goes through the actors one by one.              *)
(***************************************************************************)
EXTENDS TaskQueue, FiniteSetTheorems, TLAPS

\* A poll that has claimed holds a claim.
ClaimFits ==
    \A c \in Claims : pc[c] = "claimed" => held[c] \in [task : Rows, dispatched_at : 1..MaxDispatches]

TypeInv == TypeOK /\ ClaimFits

\* The row lock of the agent has one holder, and a slot is free while it is held.
OneLock == \A c, d \in Claims : pc[c] = "locked" /\ pc[d] = "locked" => c = d
SlotKept == \A c \in Claims : pc[c] = "locked" => Cardinality(ActiveTasks) < capacity

Inv == TypeInv /\ OneActivePerIssue /\ OneLock /\ SlotKept

USE BoundsAssumption
-----------------------------------------------------------------------------
(* The table                                                               *)

\* A statement that sets a status keeps the types.
LEMMA BecomeType ==
    ASSUME NEW tab \in [Rows -> Row], NEW S, NEW st \in Statuses
    PROVE  Become(tab, S, st) \in [Rows -> Row]
BY DEF Become, Row

\* An insert keeps the types.
LEMMA InsertType ==
    ASSUME NEW tab \in [Rows -> Row], NEW st \in Statuses, NEW i \in Issues \cup {"none"},
           NEW n \in 0..ProviderMaxAttempts, NEW b \in 0..ProviderMaxAttempts,
           NEW p \in {0} \cup Rows
    PROVE  Insert(tab, st, i, n, b, p) \in [Rows -> Row]
<1> DEFINE new == [status |-> st, issue |-> i, attempt |-> n,
                   max_attempts |-> b, parent |-> p, dispatched_at |-> 0]
<1>1. new \in Row
  BY DEF Row
<1>2. Insert(tab, st, i, n, b, p) = [tab EXCEPT ![Fresh(tab)] = new]
  BY DEF Insert
<1> HIDE DEF new
<1> QED
  BY <1>1, <1>2

\* The row of a new task (Enqueue, RerunIssue).
LEMMA NewTaskType ==
    ASSUME NEW tab \in [Rows -> Row], NEW i \in Issues
    PROVE  NewTask(tab, i) \in [Rows -> Row]
BY InsertType DEF NewTask, Statuses

\* The row of a retry: the next attempt is within the widened budget.
LEMMA RetryType ==
    ASSUME TypeOK, NEW tab \in [Rows -> Row], NEW t \in Rows, NEW reason \in Reasons,
           tab[t].issue = task[t].issue, tab[t].attempt = task[t].attempt,
           tab[t].max_attempts = task[t].max_attempts, retryEligible(reason, t)
    PROVE  CreateRetryTask(tab, reason, t) \in [Rows -> Row]
<1> DEFINE b == retryAttemptCeiling(reason, task[t].max_attempts)
           st == IF Delayed(reason, t) THEN "deferred" ELSE "queued"
<1>1. /\ task[t] \in Row /\ tab[t] \in Row
  BY DEF TypeOK
<1>2. /\ task[t].attempt \in 0..ProviderMaxAttempts
      /\ task[t].max_attempts \in 0..ProviderMaxAttempts
      /\ task[t].issue \in Issues \cup {"none"}
  BY <1>1 DEF Row
<1>3. b \in 0..ProviderMaxAttempts
  BY <1>2 DEF retryAttemptCeiling
<1>4. task[t].attempt + 1 \in 0..ProviderMaxAttempts
  BY <1>2, <1>3 DEF retryEligible
<1>5. st \in Statuses
  BY DEF Statuses
<1>6. CreateRetryTask(tab, reason, t) = Insert(tab, st, task[t].issue, task[t].attempt + 1, b, t)
  BY DEF CreateRetryTask
<1> HIDE DEF b, st
<1>7. Insert(tab, st, task[t].issue, task[t].attempt + 1, b, t) \in [Rows -> Row]
  BY <1>2, <1>3, <1>4, <1>5, InsertType, Zenon
<1> QED
  BY <1>6, <1>7

\* A failure with or without its retry (FailTask).
LEMMA FailType ==
    ASSUME TypeOK, NEW t \in Rows, NEW reason \in Reasons
    PROVE  FailAndRetry(reason, t) \in [Rows -> Row]
<1> DEFINE failed == Become(task, {t}, "failed")
<1>1. failed \in [Rows -> Row]
  BY BecomeType DEF TypeOK, Statuses, Ended
<1>2. /\ failed[t].issue = task[t].issue
      /\ failed[t].attempt = task[t].attempt
      /\ failed[t].max_attempts = task[t].max_attempts
  BY DEF Become, TypeOK, Row
<1>3. FailAndRetry(reason, t) =
        IF retryEligible(reason, t) THEN CreateRetryTask(failed, reason, t) ELSE failed
  BY DEF FailAndRetry
<1> HIDE DEF failed
<1>4. CASE retryEligible(reason, t)
  <2>1. CreateRetryTask(failed, reason, t) \in [Rows -> Row]
    BY <1>1, <1>2, <1>4, RetryType
  <2> QED
    BY <1>3, <1>4, <2>1
<1>5. CASE ~retryEligible(reason, t)
  BY <1>1, <1>3, <1>5
<1> QED
  BY <1>4, <1>5

-----------------------------------------------------------------------------
(* Types                                                                   *)

\* The commands of users keep the types.
LEMMA TypeUser == TypeInv /\ User => TypeInv'
<1> SUFFICES ASSUME TypeInv, User PROVE TypeInv'
  OBVIOUS
<1> USE DEF TypeInv
<1>1. ASSUME NEW i \in Issues, Enqueue(i) PROVE TypeInv'
  <2>1. task' \in [Rows -> Row]
    BY <1>1, NewTaskType DEF Enqueue, TypeOK
  <2> QED
    BY <1>1, <2>1 DEF Enqueue, TypeOK, ClaimFits, server, daemon
<1>2. ASSUME NEW i \in Issues, RerunIssue(i) PROVE TypeInv'
  <2> DEFINE tab == Become(task, {t \in In({"deferred", "queued"} \cup Active) : task[t].issue = i},
                           "cancelled")
  <2>1. tab \in [Rows -> Row]
    BY BecomeType DEF TypeOK, Statuses, Ended
  <2>2. task' = NewTask(tab, i)
    BY <1>2 DEF RerunIssue
  <2> HIDE DEF tab
  <2>3. task' \in [Rows -> Row]
    BY <2>1, <2>2, NewTaskType
  <2> QED
    BY <1>2, <2>3 DEF RerunIssue, TypeOK, ClaimFits, server, daemon
<1>3. ASSUME NEW t \in Rows, CancelTask(t) PROVE TypeInv'
  <2>1. task' \in [Rows -> Row]
    BY <1>3, BecomeType DEF CancelTask, TypeOK, Statuses, Ended
  <2> QED
    BY <1>3, <2>1 DEF CancelTask, TypeOK, ClaimFits, server, daemon
<1>4. ASSUME NEW n \in Capacities, SetCapacity(n) PROVE TypeInv'
  BY <1>4 DEF SetCapacity, TypeOK, ClaimFits, server, daemon
<1> QED
  BY <1>1, <1>2, <1>3, <1>4 DEF User

\* Dispatching a row keeps the types, and the poll holds a claim (ClaimAgentTask,
\* ReclaimStaleDispatched).
LEMMA TypeDispatch ==
    ASSUME TypeInv, NEW c \in Claims, NEW t \in Rows, Dispatch(c, t),
           UNCHANGED <<capacity, owed, daemon>>
    PROVE  TypeInv'
<1> USE DEF TypeInv
<1>1. task[t] \in Row /\ task[t].dispatched_at \in 0..MaxDispatches
  BY DEF TypeOK, Row
<1>2. task[t].dispatched_at + 1 \in 1..MaxDispatches
  BY <1>1 DEF Dispatch
<1>3. task' = [task EXCEPT ![t] = [task[t] EXCEPT !.status = "dispatched",
                                                 !.dispatched_at = task[t].dispatched_at + 1]]
  BY DEF Dispatch, TypeOK
<1>4. [task[t] EXCEPT !.status = "dispatched", !.dispatched_at = task[t].dispatched_at + 1] \in Row
  <2>1. "dispatched" \in Statuses
    BY DEF Statuses, Active
  <2>2. task[t].dispatched_at + 1 \in 0..MaxDispatches
    BY <1>2
  <2>3. \A n \in 0..MaxDispatches :
          [task[t] EXCEPT !.status = "dispatched", !.dispatched_at = n] \in Row
    BY <1>1, <2>1 DEF Row
  <2> QED
    BY <2>2, <2>3
<1>5. task' \in [Rows -> Row]
  BY <1>3, <1>4 DEF TypeOK
<1>6. task'[t].dispatched_at = task[t].dispatched_at + 1
  BY <1>1, <1>3 DEF TypeOK, Row
<1>7. held' = [held EXCEPT ![c] = [task |-> t, dispatched_at |-> task[t].dispatched_at + 1]]
  BY <1>6 DEF Dispatch
<1>8. [task |-> t, dispatched_at |-> task[t].dispatched_at + 1] \in
        [task : Rows, dispatched_at : 1..MaxDispatches]
  BY <1>2
<1>9. held' \in [Claims -> Claim] /\ pc' \in [Claims -> {"idle", "promoted", "locked", "claimed"}]
  BY <1>7, <1>8 DEF Dispatch, TypeOK, Claim
<1>10. ClaimFits'
  <2> SUFFICES ASSUME NEW d \in Claims, pc'[d] = "claimed"
               PROVE  held'[d] \in [task : Rows, dispatched_at : 1..MaxDispatches]
    BY DEF ClaimFits
  <2>1. CASE d = c
    BY <2>1, <1>7, <1>8 DEF TypeOK
  <2>2. CASE d # c
    BY <2>2, <1>7 DEF TypeOK, ClaimFits, Dispatch
  <2> QED
    BY <2>1, <2>2
<1> QED
  BY <1>5, <1>9, <1>10 DEF TypeOK, daemon

\* A poll that ends keeps the types.
LEMMA TypeAnswer ==
    ASSUME TypeInv, NEW c \in Claims, Answer(c)
    PROVE  /\ pc' \in [Claims -> {"idle", "promoted", "locked", "claimed"}]
           /\ held' \in [Claims -> Claim]
           /\ ClaimFits'
BY DEF TypeInv, TypeOK, ClaimFits, Answer, Claim

\* The steps of a poll keep the types.
LEMMA TypePoll ==
    ASSUME TypeInv, NEW c \in Claims, Poll(c)
    PROVE  TypeInv'
<1> USE DEF TypeInv
<1>1. CASE PromoteDueDeferred(c)
  <2>1. task' \in [Rows -> Row]
    BY <1>1, BecomeType DEF PromoteDueDeferred, TypeOK, Statuses
  <2> QED
    BY <1>1, <2>1 DEF PromoteDueDeferred, TypeOK, ClaimFits, daemon
<1>2. CASE ReclaimStaleDispatched(c)
  BY <1>2, TypeDispatch DEF ReclaimStaleDispatched, In
<1>3. CASE LockAgent(c)
  <2>1. CASE pc' = [pc EXCEPT ![c] = "locked"] /\ UNCHANGED held
    BY <1>3, <2>1 DEF LockAgent, TypeOK, ClaimFits, daemon
  <2>2. CASE Answer(c)
    BY <1>3, <2>2, TypeAnswer DEF LockAgent, TypeOK, daemon
  <2> QED
    BY <1>3, <2>1, <2>2 DEF LockAgent
<1>4. CASE ClaimAgentTask(c)
  <2>1. CASE \E t \in Claimable : Dispatch(c, t)
    BY <1>4, <2>1, TypeDispatch DEF ClaimAgentTask, Claimable, In
  <2>2. CASE Answer(c) /\ UNCHANGED task
    BY <1>4, <2>2, TypeAnswer DEF ClaimAgentTask, TypeOK, daemon
  <2> QED
    BY <1>4, <2>1, <2>2 DEF ClaimAgentTask
<1>5. CASE Deliver(c)
  <2>1. held[c] \in [task : Rows, dispatched_at : 1..MaxDispatches]
    BY <1>5 DEF Deliver, ClaimFits
  <2>2. [task |-> held[c].task, dispatched_at |-> held[c].dispatched_at, step |-> "preparing"]
          \in Handler
    BY <2>1 DEF Handler
  <2>3. hand' \subseteq Handler
    BY <1>5, <2>2 DEF Deliver, TypeOK
  <2> QED
    BY <1>5, <2>3, TypeAnswer DEF Deliver, TypeOK
<1>6. CASE AnswerLost(c)
  BY <1>6, TypeAnswer DEF AnswerLost, TypeOK, daemon
<1>7. CASE RequeueAfterClaimFailure(c)
  <2>1. task' \in [Rows -> Row]
    BY <1>7, BecomeType DEF RequeueAfterClaimFailure, TypeOK, Statuses
  <2> QED
    BY <1>7, <2>1, TypeAnswer DEF RequeueAfterClaimFailure, TypeOK, daemon
<1> QED
  BY <1>1, <1>2, <1>3, <1>4, <1>5, <1>6, <1>7 DEF Poll

\* The daemon's handlers and their reports keep the types.
LEMMA TypeHandle ==
    ASSUME TypeInv, NEW d \in hand, Handle(d)
    PROVE  TypeInv'
<1> USE DEF TypeInv
<1>1. d \in Handler /\ d.task \in Rows
  BY DEF TypeOK, Handler
<1>2. \A step \in {"preparing", "running"} \cup Outcomes :
        Step(d, step) => hand' \subseteq Handler
  BY <1>1 DEF Step, TypeOK, Handler
<1>3. CASE StartTask(d)
  <2>1. task' \in [Rows -> Row]
    BY <1>3, BecomeType DEF StartTask, TypeOK, Statuses, Active
  <2>2. hand' \subseteq Handler
    BY <1>3, <1>2 DEF StartTask, Outcomes, Reasons
  <2> QED
    BY <1>3, <2>1, <2>2 DEF StartTask, TypeOK, ClaimFits, server
<1>4. CASE MarkWaitingLocalDirectory(d)
  <2>1. task' \in [Rows -> Row]
    BY <1>4, BecomeType DEF MarkWaitingLocalDirectory, TypeOK, Statuses, Active
  <2> QED
    BY <1>4, <2>1 DEF MarkWaitingLocalDirectory, TypeOK, ClaimFits, server, daemon
<1>5. CASE HandlerEnds(d)
  <2>1. hand' \subseteq Handler
    BY <1>5, <1>2 DEF HandlerEnds, Outcomes
  <2> QED
    BY <1>5, <2>1 DEF HandlerEnds, TypeOK, ClaimFits, server
<1>6. CASE NoticeEnded(d)
  BY <1>6 DEF NoticeEnded, TypeOK, ClaimFits, server
<1>7. CASE CompleteTask(d)
  <2>1. task' \in [Rows -> Row]
    BY <1>7, BecomeType DEF CompleteTask, TypeOK, Statuses, Ended
  <2> QED
    BY <1>7, <2>1 DEF CompleteTask, Reported, TypeOK, ClaimFits, server
<1>8. CASE FailTask(d)
  <2>1. task' \in [Rows -> Row]
    BY <1>8, <1>1, FailType DEF FailTask, TypeOK
  <2> QED
    BY <1>8, <2>1 DEF FailTask, Reported, TypeOK, ClaimFits, server
<1>9. CASE GiveUp(d)
  BY <1>9 DEF GiveUp, TypeOK, ClaimFits, server
<1> QED
  BY <1>3, <1>4, <1>5, <1>6, <1>7, <1>8, <1>9 DEF Handle

\* What a sweeper fails keeps the types.
LEMMA TypeFailAll ==
    ASSUME TypeOK, NEW S \in SUBSET Rows, FailAll(S)
    PROVE  task' \in [Rows -> Row] /\ owed' \subseteq Rows
<1>1. task' \in [Rows -> Row]
  BY BecomeType DEF FailAll, TypeOK, Statuses, Ended
<1> QED
  BY <1>1 DEF FailAll, TypeOK

\* The sweepers and the retries they owe keep the types.
LEMMA TypeSweep == TypeInv /\ Sweep => TypeInv'
<1> SUFFICES ASSUME TypeInv, Sweep PROVE TypeInv'
  OBVIOUS
<1> USE DEF TypeInv
<1>0. ActiveTasks \in SUBSET Rows
  BY DEF ActiveTasks, In
<1>1. CASE RecoverOrphans
  BY <1>1, <1>0, TypeFailAll DEF RecoverOrphans, TypeOK, ClaimFits, server
<1>2. CASE RuntimeOffline
  BY <1>2, <1>0, TypeFailAll DEF RuntimeOffline, TypeOK, ClaimFits, server, daemon
<1>3. ASSUME NEW t \in Rows, DispatchTimeout(t) PROVE TypeInv'
  <2>1. {t} \in SUBSET Rows
    OBVIOUS
  <2> QED
    BY <1>3, <2>1, TypeFailAll DEF DispatchTimeout, TypeOK, ClaimFits, server, daemon
<1>4. ASSUME NEW t \in Rows, ExpireStaleQueued(t) PROVE TypeInv'
  <2>1. task' \in [Rows -> Row]
    BY <1>4, BecomeType DEF ExpireStaleQueued, TypeOK, Statuses, Ended
  <2> QED
    BY <1>4, <2>1 DEF ExpireStaleQueued, TypeOK, ClaimFits, server, daemon
<1>5. ASSUME NEW t \in Rows, MaybeRetryFailedTask(t) PROVE TypeInv'
  <2>1. task \in [Rows -> Row] /\ "timeout" \in Reasons
    BY DEF TypeOK, Reasons
  <2>2. CASE retryEligible("timeout", t)
    <3>1. CreateRetryTask(task, "timeout", t) \in [Rows -> Row]
      BY <2>1, <2>2, RetryType
    <3>2. task' \in [Rows -> Row]
      BY <1>5, <2>1, <3>1 DEF MaybeRetryFailedTask
    <3> QED
      BY <1>5, <3>2 DEF MaybeRetryFailedTask, TypeOK, ClaimFits, server, daemon
  <2>3. CASE ~retryEligible("timeout", t)
    BY <1>5, <2>3 DEF MaybeRetryFailedTask, TypeOK, ClaimFits, server, daemon
  <2> QED
    BY <2>2, <2>3
<1> QED
  BY <1>1, <1>2, <1>3, <1>4, <1>5 DEF Sweep

\* Every step keeps the types.
LEMMA TypeStep == TypeInv /\ [Next]_vars => TypeInv'
<1> SUFFICES ASSUME TypeInv, [Next]_vars PROVE TypeInv'
  OBVIOUS
<1>1. CASE DaemonDies
  BY <1>1 DEF DaemonDies, DropPolls, TypeInv, TypeOK, ClaimFits, Claim
<1>2. CASE ServerDies
  BY <1>2 DEF ServerDies, DropPolls, TypeInv, TypeOK, ClaimFits, Claim, daemon
<1>3. CASE UNCHANGED vars
  BY <1>3 DEF vars, server, daemon, TypeInv, TypeOK, ClaimFits
<1> QED
  BY <1>1, <1>2, <1>3, TypeUser, TypePoll, TypeHandle, TypeSweep DEF Next

\* The rows, polls and handlers start well-typed (an empty table).
LEMMA TypeInit == Init => TypeInv
<1> SUFFICES ASSUME Init PROVE TypeInv
  OBVIOUS
<1>1. task \in [Rows -> Row]
  BY DEF Init, Row, Statuses
<1> QED
  BY <1>1 DEF Init, TypeInv, TypeOK, ClaimFits, Claim

-----------------------------------------------------------------------------
(* Only a claim makes a row active                                         *)

\* The rows of `after` that are active were so before, on the same issue.
Shrinks(before, after) ==
    \A t \in Rows : after[t].status \in Active =>
        before[t].status \in Active /\ after[t].issue = before[t].issue

\* A statement that ends rows, or takes rows on that were active.
LEMMA BecomeShrinks ==
    ASSUME NEW tab \in [Rows -> Row], NEW S, NEW st \in Statuses,
           st \notin Active \/ \A t \in S \cap Rows : tab[t].status \in Active
    PROVE  Shrinks(tab, Become(tab, S, st))
BY DEF Become, Row, Shrinks

\* An inserted row is not active.
LEMMA InsertShrinks ==
    ASSUME NEW tab \in [Rows -> Row], NEW st, st \notin Active,
           NEW i, NEW n, NEW b, NEW p
    PROVE  Shrinks(tab, Insert(tab, st, i, n, b, p))
<1> DEFINE new == [status |-> st, issue |-> i, attempt |-> n,
                   max_attempts |-> b, parent |-> p, dispatched_at |-> 0]
<1>1. new.status \notin Active
  OBVIOUS
<1>2. Insert(tab, st, i, n, b, p) = [tab EXCEPT ![Fresh(tab)] = new]
  BY DEF Insert
<1> HIDE DEF new
<1> QED
  BY <1>1, <1>2 DEF Shrinks

\* A new task is queued (Enqueue, RerunIssue).
LEMMA NewTaskShrinks ==
    ASSUME NEW tab \in [Rows -> Row], NEW i
    PROVE  Shrinks(tab, NewTask(tab, i))
BY InsertShrinks DEF NewTask, Active

\* A retry is queued or deferred (CreateRetryTask).
LEMMA RetryShrinks ==
    ASSUME NEW tab \in [Rows -> Row], NEW t, NEW reason
    PROVE  Shrinks(tab, CreateRetryTask(tab, reason, t))
<1> DEFINE st == IF Delayed(reason, t) THEN "deferred" ELSE "queued"
<1>1. st \notin Active
  BY DEF Active
<1>2. CreateRetryTask(tab, reason, t) =
        Insert(tab, st, tab[t].issue, tab[t].attempt + 1,
               retryAttemptCeiling(reason, tab[t].max_attempts), t)
  BY DEF CreateRetryTask
<1> HIDE DEF st
<1> QED
  BY <1>1, <1>2, InsertShrinks

\* Two statements of one transaction shrink as one.
LEMMA ShrinksTransitive ==
    ASSUME NEW a, NEW b, NEW c, Shrinks(a, b), Shrinks(b, c)
    PROVE  Shrinks(a, c)
BY DEF Shrinks

\* The failure and its retry (FailTask).
LEMMA FailShrinks ==
    ASSUME TypeOK, NEW t \in Rows, NEW reason \in Reasons
    PROVE  Shrinks(task, FailAndRetry(reason, t))
<1> DEFINE failed == Become(task, {t}, "failed")
<1>1. failed \in [Rows -> Row]
  BY BecomeType DEF TypeOK, Statuses, Ended
<1>2. Shrinks(task, failed)
  BY BecomeShrinks DEF TypeOK, Statuses, Ended, Active
<1>3. FailAndRetry(reason, t) =
        IF retryEligible(reason, t) THEN CreateRetryTask(failed, reason, t) ELSE failed
  BY DEF FailAndRetry
<1> HIDE DEF failed
<1>4. Shrinks(failed, CreateRetryTask(failed, reason, t))
  BY <1>1, RetryShrinks
<1>5. Shrinks(task, CreateRetryTask(failed, reason, t))
  BY <1>2, <1>4, ShrinksTransitive
<1> QED
  BY <1>2, <1>3, <1>5

\* No step but ClaimAgentTask's makes a row active or moves an active one.
LEMMA StepShrinks ==
    ASSUME TypeInv, [Next]_vars, ~\E c \in Claims : ClaimAgentTask(c)
    PROVE  Shrinks(task, task')
<1>0. TypeOK /\ task \in [Rows -> Row] /\ Shrinks(task, task)
  BY DEF TypeInv, TypeOK, Shrinks
<1>1. ASSUME NEW i \in Issues, Enqueue(i) PROVE Shrinks(task, task')
  BY <1>0, <1>1, NewTaskShrinks DEF Enqueue
<1>2. ASSUME NEW i \in Issues, RerunIssue(i) PROVE Shrinks(task, task')
  <2> DEFINE tab == Become(task, {t \in In({"deferred", "queued"} \cup Active) : task[t].issue = i},
                           "cancelled")
  <2>1. tab \in [Rows -> Row]
    BY <1>0, BecomeType DEF Statuses, Ended
  <2>2. Shrinks(task, tab)
    BY <1>0, BecomeShrinks DEF Statuses, Ended, Active
  <2>3. task' = NewTask(tab, i)
    BY <1>2 DEF RerunIssue
  <2> HIDE DEF tab
  <2> QED
    BY <2>1, <2>2, <2>3, NewTaskShrinks, ShrinksTransitive
<1>3. ASSUME NEW t \in Rows, CancelTask(t) PROVE Shrinks(task, task')
  BY <1>0, <1>3, BecomeShrinks DEF CancelTask, Statuses, Ended, Active
<1>4. ASSUME NEW n \in Capacities, SetCapacity(n) PROVE Shrinks(task, task')
  BY <1>0, <1>4 DEF SetCapacity
<1>5. ASSUME NEW c \in Claims, Poll(c) PROVE Shrinks(task, task')
  <2>1. CASE PromoteDueDeferred(c)
    BY <1>0, <2>1, BecomeShrinks DEF PromoteDueDeferred, Statuses, Active
  <2>2. CASE ReclaimStaleDispatched(c)
    <3>1. PICK t \in In({"dispatched"}) : Dispatch(c, t)
      BY <2>2 DEF ReclaimStaleDispatched
    <3>2. task[t].status \in Active /\ t \in Rows /\ task[t] \in Row
      BY <1>0, <3>1 DEF In, Active
    <3>3. \A u \in Rows : task'[u].issue = task[u].issue /\ (u # t => task'[u] = task[u])
      BY <1>0, <3>1, <3>2 DEF Dispatch, Row
    <3> QED
      BY <3>2, <3>3 DEF Shrinks
  <2>3. CASE RequeueAfterClaimFailure(c)
    BY <1>0, <2>3, BecomeShrinks DEF RequeueAfterClaimFailure, Statuses, Active
  <2> QED
    BY <1>0, <1>5, <2>1, <2>2, <2>3 DEF Poll, LockAgent, Deliver, AnswerLost
<1>6. ASSUME NEW d \in hand, Handle(d) PROVE Shrinks(task, task')
  <2>0. d.task \in Rows
    BY <1>0 DEF TypeOK, Handler
  <2>1. CASE StartTask(d)
    BY <1>0, <2>0, <2>1, BecomeShrinks DEF StartTask, Statuses, Active
  <2>2. CASE MarkWaitingLocalDirectory(d)
    BY <1>0, <2>0, <2>2, BecomeShrinks DEF MarkWaitingLocalDirectory, Statuses, Active
  <2>3. CASE CompleteTask(d)
    BY <1>0, <2>3, BecomeShrinks DEF CompleteTask, Statuses, Ended, Active
  <2>4. CASE FailTask(d)
    BY <1>0, <2>0, <2>4, FailShrinks DEF FailTask
  <2> QED
    BY <1>0, <1>6, <2>1, <2>2, <2>3, <2>4 DEF Handle, HandlerEnds, NoticeEnded, GiveUp
<1>7. ASSUME NEW S, FailAll(S) PROVE Shrinks(task, task')
  BY <1>0, <1>7, BecomeShrinks DEF FailAll, Statuses, Ended, Active
<1>8. ASSUME NEW t \in Rows, ExpireStaleQueued(t) PROVE Shrinks(task, task')
  BY <1>0, <1>8, BecomeShrinks DEF ExpireStaleQueued, Statuses, Ended, Active
<1>9. ASSUME NEW t \in Rows, MaybeRetryFailedTask(t) PROVE Shrinks(task, task')
  BY <1>0, <1>9, RetryShrinks DEF MaybeRetryFailedTask
<1>10. CASE DaemonDies \/ ServerDies \/ UNCHANGED vars
  BY <1>0, <1>10 DEF DaemonDies, ServerDies, vars
<1>11. CASE User
  BY <1>11, <1>1, <1>2, <1>3, <1>4 DEF User
<1>12. CASE Sweep
  BY <1>12, <1>7, <1>8, <1>9 DEF Sweep, RecoverOrphans, RuntimeOffline, DispatchTimeout
<1> QED
  BY <1>5, <1>6, <1>10, <1>11, <1>12 DEF Next

-----------------------------------------------------------------------------
(* The limit of the agent and its issues                                   *)

\* Fewer rows are active after a step that shrinks, and no issue has two.
LEMMA ShrinksKeeps ==
    ASSUME TypeOK, Shrinks(task, task')
    PROVE  /\ ActiveTasks' \subseteq ActiveTasks
           /\ OneActivePerIssue => OneActivePerIssue'
BY DEF Shrinks, ActiveTasks, In, OneActivePerIssue

\* The rows are finite in number, and so are those at work.
LEMMA FiniteActive == IsFiniteSet(ActiveTasks)
<1>1. MaxEnqueues * ProviderMaxAttempts \in Nat
  OBVIOUS
<1>2. IsFiniteSet(Rows)
  BY <1>1, FS_Interval DEF Rows
<1> QED
  BY <1>2, FS_Subset DEF ActiveTasks, In

\* A claim adds one row, of an issue nothing is at work on (ClaimAgentTask).
LEMMA ClaimAddsOne ==
    ASSUME TypeOK, NEW c \in Claims, NEW t \in Claimable, Dispatch(c, t)
    PROVE  /\ ActiveTasks' = ActiveTasks \cup {t}
           /\ Cardinality(ActiveTasks') = Cardinality(ActiveTasks) + 1
           /\ OneActivePerIssue => OneActivePerIssue'
<1>1. t \in Rows /\ task[t] \in Row /\ task[t].status = "queued"
  BY DEF Claimable, In, TypeOK
<1>2. /\ task'[t].status = "dispatched"
      /\ \A u \in Rows : task'[u].issue = task[u].issue /\ (u # t => task'[u] = task[u])
  BY <1>1 DEF Dispatch, TypeOK, Row
<1>3. ActiveTasks' = ActiveTasks \cup {t} /\ t \notin ActiveTasks
  BY <1>1, <1>2 DEF ActiveTasks, In, Active
<1>4. Cardinality(ActiveTasks \cup {t}) = Cardinality(ActiveTasks) + 1
  BY <1>3, FiniteActive, FS_AddElement
<1>5. OneActivePerIssue => OneActivePerIssue'
  <2> SUFFICES ASSUME OneActivePerIssue, NEW u \in ActiveTasks', NEW v \in ActiveTasks',
                      task'[u].issue = task'[v].issue
               PROVE  u = v
    BY DEF OneActivePerIssue
  <2>1. \A w \in ActiveTasks : w \in Rows /\ task[w].issue # task[t].issue
    BY DEF Claimable, ActiveTasks, In
  <2>2. u \in Rows /\ v \in Rows /\ task[u].issue = task[v].issue
    BY <1>1, <1>2, <1>3, <2>1
  <2> QED
    BY <1>3, <2>1, <2>2 DEF OneActivePerIssue
<1> QED
  BY <1>3, <1>4, <1>5

\* Who holds the row lock after a step (GetAgentForClaimUpdate, SetCapacity).
LEMMA LockStep ==
    ASSUME TypeInv, OneLock, SlotKept, [Next]_vars
    PROVE  /\ OneLock'
           /\ \A c \in Claims : pc'[c] = "locked" =>
                 /\ Cardinality(ActiveTasks) < capacity
                 /\ capacity' = capacity
                 /\ pc[c] = "locked" \/ UNCHANGED task
<1> USE DEF OneLock, SlotKept
<1>0. pc \in [Claims -> {"idle", "promoted", "locked", "claimed"}]
  BY DEF TypeInv, TypeOK
<1>1. ASSUME pc' = pc, capacity' = capacity
      PROVE  /\ OneLock'
             /\ \A c \in Claims : pc'[c] = "locked" =>
                   /\ Cardinality(ActiveTasks) < capacity
                   /\ capacity' = capacity
                   /\ pc[c] = "locked" \/ UNCHANGED task
  BY <1>1
<1>2. CASE User
  <2>1. ASSUME NEW n \in Capacities, SetCapacity(n) PROVE OneLock' /\ \A c \in Claims : pc'[c] # "locked"
    BY <2>1 DEF SetCapacity, Locked, server
  <2> QED
    BY <1>1, <1>2, <2>1 DEF User, Enqueue, RerunIssue, CancelTask, server
<1>3. ASSUME NEW c \in Claims, Poll(c)
      PROVE  /\ OneLock'
             /\ \A d \in Claims : pc'[d] = "locked" =>
                   /\ Cardinality(ActiveTasks) < capacity
                   /\ capacity' = capacity
                   /\ pc[d] = "locked" \/ UNCHANGED task
  <2>1. CASE LockAgent(c)
    BY <1>0, <2>1 DEF LockAgent, Locked, Answer
  <2>2. CASE ~LockAgent(c)
    <3>1. capacity' = capacity /\ \E st \in {"idle", "promoted", "claimed"} : pc' = [pc EXCEPT ![c] = st]
      BY <1>3, <2>2 DEF Poll, PromoteDueDeferred, ReclaimStaleDispatched, ClaimAgentTask, Dispatch,
                        Deliver, AnswerLost, RequeueAfterClaimFailure, Answer
    <3> QED
      BY <1>0, <3>1
  <2> QED
    BY <2>1, <2>2
<1>4. ASSUME NEW d \in hand, Handle(d) PROVE pc' = pc /\ capacity' = capacity
  BY <1>4 DEF Handle, StartTask, MarkWaitingLocalDirectory, HandlerEnds, NoticeEnded,
              CompleteTask, FailTask, GiveUp, Reported, server
<1>5. CASE Sweep
  BY <1>1, <1>5 DEF Sweep, RecoverOrphans, RuntimeOffline, DispatchTimeout, ExpireStaleQueued,
                    MaybeRetryFailedTask, server
<1>6. CASE DaemonDies \/ ServerDies
  BY <1>6 DEF DaemonDies, ServerDies, DropPolls
<1>7. CASE UNCHANGED vars
  BY <1>1, <1>7 DEF vars, server
<1> QED
  BY <1>1, <1>2, <1>3, <1>4, <1>5, <1>6, <1>7 DEF Next

\* A step keeps the invariant, and takes the agent to its limit at most.
LEMMA InvStep ==
    ASSUME Inv, [Next]_vars
    PROVE  /\ Inv'
           /\ ActiveTasks' \ ActiveTasks # {} => Cardinality(ActiveTasks') <= capacity'
<1> USE DEF Inv, TypeInv
<1>1. TypeInv'
  BY TypeStep
<1>2. /\ OneLock'
      /\ \A c \in Claims : pc'[c] = "locked" =>
            /\ Cardinality(ActiveTasks) < capacity
            /\ capacity' = capacity
            /\ pc[c] = "locked" \/ UNCHANGED task
  BY LockStep
<1>3. IsFiniteSet(ActiveTasks) /\ Cardinality(ActiveTasks) \in Nat
  BY FiniteActive, FS_CardinalityType
<1>4. capacity \in Nat
  BY DEF TypeOK
<1>5. CASE \E c \in Claims : ClaimAgentTask(c) /\ \E t \in Claimable : Dispatch(c, t)
  <2>1. PICK c \in Claims, t \in Claimable : ClaimAgentTask(c) /\ Dispatch(c, t)
    BY <1>5
  <2>2. /\ Cardinality(ActiveTasks') = Cardinality(ActiveTasks) + 1
        /\ OneActivePerIssue'
    BY <2>1, ClaimAddsOne
  <2>3. capacity' = capacity /\ Cardinality(ActiveTasks) < capacity
    BY <2>1 DEF ClaimAgentTask, SlotKept
  <2>4. \A d \in Claims : pc'[d] # "locked"
    BY <2>1 DEF ClaimAgentTask, Dispatch, OneLock, TypeOK
  <2>5. SlotKept'
    BY <2>4 DEF SlotKept
  <2>6. Cardinality(ActiveTasks') <= capacity'
    BY <1>3, <1>4, <2>2, <2>3
  <2> QED
    BY <1>1, <1>2, <2>2, <2>5, <2>6
<1>6. CASE ~\E c \in Claims : ClaimAgentTask(c) /\ \E t \in Claimable : Dispatch(c, t)
  <2>1. Shrinks(task, task')
    BY <1>6, StepShrinks DEF ClaimAgentTask, Shrinks
  <2>2. ActiveTasks' \subseteq ActiveTasks /\ OneActivePerIssue'
    BY <2>1, ShrinksKeeps
  <2>3. Cardinality(ActiveTasks') \in Nat /\ Cardinality(ActiveTasks') <= Cardinality(ActiveTasks)
    BY <1>3, <2>2, FS_Subset, FS_CardinalityType
  <2>4. SlotKept'
    BY <1>2, <1>3, <1>4, <2>3 DEF SlotKept
  <2> QED
    BY <1>1, <1>2, <2>2, <2>4
<1> QED
  BY <1>5, <1>6

\* The empty table satisfies the invariant.
LEMMA InvInit == Init => Inv
BY TypeInit DEF Init, Inv, OneLock, SlotKept, OneActivePerIssue, ActiveTasks, In, Active

\* The invariant holds throughout.
LEMMA Invariant == Spec => []Inv
<1>1. Inv /\ [Next]_vars => Inv'
  BY InvStep
<1> QED
  BY InvInit, <1>1, PTL DEF Spec

-----------------------------------------------------------------------------
\* The rows, polls and handlers keep the types of the table, and no chain of
\* retries is longer than its budget (retryEligible, retryAttemptCeiling).
THEOREM TypeCorrect == Spec => []TypeOK
<1>1. Inv => TypeOK
  BY DEF Inv, TypeInv
<1> QED
  BY Invariant, <1>1, PTL

\* The agent never works twice on one issue, whatever is retried, requeued,
\* redelivered or rerun (ClaimAgentTask).
THEOREM IssueExclusive == Spec => []OneActivePerIssue
<1>1. Inv => OneActivePerIssue
  BY DEF Inv
<1> QED
  BY Invariant, <1>1, PTL

\* No claim takes the agent beyond its limit, for any number of polls at once and
\* whenever the limit changes (ClaimTask, GetAgentForClaimUpdate).
THEOREM WithinCapacity == Spec => ClaimWithinCapacity
<1>1. Inv /\ [Next]_vars =>
        [ActiveTasks' \ ActiveTasks # {} => Cardinality(ActiveTasks') <= capacity']_vars
  BY InvStep
<1> QED
  BY Invariant, <1>1, PTL DEF Spec, ClaimWithinCapacity

-----------------------------------------------------------------------------
(* The chains of retries                                                   *)

Present(tab) == {t \in Rows : tab[t].status # "absent"}
Roots(tab) == {t \in Present(tab) : tab[t].parent = 0}

\* Every row is one attempt of one chain, and the chain of a retry is its parent's.
Chained(tab, chain) ==
    \A t \in Present(tab) :
        /\ tab[t].attempt \in 1 .. ProviderMaxAttempts
        /\ tab[t].parent = 0 => tab[t].attempt = 1
        /\ tab[t].parent # 0 =>
             /\ tab[t].parent \in Present(tab)
             /\ chain[tab[t].parent] = chain[t]
             /\ tab[t].attempt = tab[tab[t].parent].attempt + 1
        /\ \E r \in Roots(tab) : chain[r] = chain[t]
        /\ \A u \in Present(tab) : chain[u] = chain[t] /\ tab[u].attempt = tab[t].attempt => u = t
Chains(tab) == \E chain \in [Rows -> 1 .. MaxEnqueues] : Chained(tab, chain)

\* A row that nobody has taken is blank.
Blank(tab) == \A t \in Rows : tab[t].status = "absent" => tab[t].parent = 0

\* What a retry is still owed for has failed and has none.
Unretried(tab, t) == tab[t].status = "failed" /\ \A u \in Rows : tab[u].parent # t
OwedFailed == \A t \in owed : Unretried(task, t)

\* A statement that inserts no row: rows keep their place in a chain, and what has
\* ended or is not there stays so.
Moves(before, after) ==
    \A t \in Rows :
        /\ after[t].parent = before[t].parent /\ after[t].attempt = before[t].attempt
        /\ before[t].status \in Ended \cup {"absent"} => after[t].status = before[t].status
        /\ before[t].status # "absent" => after[t].status # "absent"

\* A statement that gives no task out and takes none back: only deferred rows go
\* into the queue, and what runs goes on or ends.
Quiet(before, after) ==
    \A t \in Rows :
        /\ after[t].dispatched_at = before[t].dispatched_at
        /\ after[t].status = "queued" => before[t].status \in {"queued", "deferred", "absent"}
        /\ before[t].status \in {"running"} \cup Ended => after[t].status \in {"running"} \cup Ended
        /\ after[t].status \in {"absent", "deferred"} => before[t].status \in {"absent", "deferred"}

\* The numbers of the rows are finitely many natural numbers.
LEMMA RowsFinite ==
    /\ MaxEnqueues * ProviderMaxAttempts \in Nat
    /\ Rows \subseteq Nat /\ 0 \notin Rows
    /\ IsFiniteSet(Rows) /\ Cardinality(Rows) = MaxEnqueues * ProviderMaxAttempts
    /\ \A S \in SUBSET Rows : IsFiniteSet(S) /\ Cardinality(S) \in Nat
<1>1. MaxEnqueues * ProviderMaxAttempts \in Nat
  OBVIOUS
<1> DEFINE n == MaxEnqueues * ProviderMaxAttempts
<1>2. IsFiniteSet(Rows) /\ Cardinality(Rows) = MaxEnqueues * ProviderMaxAttempts
  <2>1. n \in Nat /\ Rows = 1 .. n
    BY <1>1 DEF Rows
  <2> HIDE DEF n
  <2>2. IsFiniteSet(Rows) /\ Cardinality(Rows) = n
    BY <2>1, FS_Interval
  <2> QED
    BY <2>2 DEF n
<1>3. \A S \in SUBSET Rows : IsFiniteSet(S) /\ Cardinality(S) \in Nat
  BY <1>2, FS_Subset, FS_CardinalityType
<1> QED
  BY <1>1, <1>2, <1>3 DEF Rows

\* Where there is a free row, the next id is one (the sequence of the table).
LEMMA FreshRow ==
    ASSUME NEW tab, \E t \in Rows : tab[t].status = "absent"
    PROVE  Fresh(tab) \in Rows /\ tab[Fresh(tab)].status = "absent"
<1> DEFINE free == {t \in Rows : tab[t].status = "absent"}
<1>1. free \subseteq Nat /\ free # {}
  BY RowsFinite
<1>2. PICK t \in free : \A u \in free : ~(<<u, t>> \in OpToRel(<, Nat))
  BY <1>1, NatLessThanWellFounded, WFMin
<1>3. \A u \in free : ~(u < t)
  BY <1>1, <1>2 DEF OpToRel
<1>4. \A u \in 1 .. (t - 1) : u \in Rows /\ u < t
  BY <1>1, RowsFinite DEF Rows
<1>5. t \in Rows /\ tab[t].status = "absent" /\ \A u \in 1 .. (t - 1) : tab[u].status # "absent"
  BY <1>3, <1>4
<1> QED
  BY <1>5 DEF Fresh

\* A chain that lacks an attempt leaves a row free.
LEMMA RoomForAttempt ==
    ASSUME NEW tab, NEW chain \in [Rows -> 1 .. MaxEnqueues], Chained(tab, chain),
           NEW c \in 1 .. MaxEnqueues, NEW n \in 1 .. ProviderMaxAttempts,
           \A t \in Present(tab) : ~(chain[t] = c /\ tab[t].attempt = n)
    PROVE  \E t \in Rows : tab[t].status = "absent"
<1> SUFFICES ASSUME Present(tab) = Rows PROVE FALSE
  BY DEF Present
<1> DEFINE Pairs == (1 .. MaxEnqueues) \X (1 .. ProviderMaxAttempts)
           T == Pairs \ {<<c, n>>}
           f == [t \in Rows |-> <<chain[t], tab[t].attempt>>]
<1>1. IsFiniteSet(1 .. MaxEnqueues) /\ Cardinality(1 .. MaxEnqueues) = MaxEnqueues
      /\ IsFiniteSet(1 .. ProviderMaxAttempts)
      /\ Cardinality(1 .. ProviderMaxAttempts) = ProviderMaxAttempts
  BY FS_Interval
<1>2. IsFiniteSet(Pairs) /\ Cardinality(Pairs) = MaxEnqueues * ProviderMaxAttempts
  BY <1>1, FS_Product
<1>3. IsFiniteSet(T) /\ Cardinality(T) = Cardinality(Pairs) - 1
  <2>1. <<c, n>> \in Pairs
    OBVIOUS
  <2> HIDE DEF Pairs
  <2> QED
    BY <1>2, <2>1, FS_RemoveElement
<1>4. f \in [Rows -> T]
  <2> SUFFICES ASSUME NEW t \in Rows PROVE <<chain[t], tab[t].attempt>> \in T
    OBVIOUS
  <2>1. chain[t] \in 1 .. MaxEnqueues /\ tab[t].attempt \in 1 .. ProviderMaxAttempts
    BY DEF Chained
  <2> QED
    BY <2>1
<1>5. \A t, u \in Rows : f[t] = f[u] => t = u
  BY DEF Chained
<1> HIDE DEF f, T, Pairs
<1>6. f \in Injection(Rows, T)
  BY <1>4, <1>5 DEF Injection, IsInjective
<1>7. Cardinality(Rows) <= Cardinality(T)
  BY <1>3, <1>6, FS_Injection
<1>8. Cardinality(Pairs) = Cardinality(Rows) /\ Cardinality(Rows) \in Nat
  BY <1>2, RowsFinite
<1> QED
  BY <1>3, <1>7, <1>8

\* The row that is inserted for a user's task is the root of a new chain.
LEMMA RootJoins ==
    ASSUME NEW tab \in [Rows -> Row], Chains(tab), Blank(tab),
           Cardinality(Roots(tab)) < MaxEnqueues,
           NEW f, f = Fresh(tab), NEW new \in Row, new.status # "absent",
           new.parent = 0, new.attempt = 1
    PROVE  /\ f \in Rows /\ tab[f].status = "absent"
           /\ Chains([tab EXCEPT ![f] = new])
<1>1. PICK chain \in [Rows -> 1 .. MaxEnqueues] : Chained(tab, chain)
  BY DEF Chains
<1>2. PICK c \in 1 .. MaxEnqueues : \A t \in Present(tab) : chain[t] # c
  <2> DEFINE used == {chain[t] : t \in Roots(tab)}
             g == [t \in Roots(tab) |-> chain[t]]
  <2>1. IsFiniteSet(Roots(tab)) /\ Cardinality(Roots(tab)) \in Nat
    BY RowsFinite DEF Roots, Present
  <2>2. g \in Surjection(Roots(tab), used)
    <3>1. g \in [Roots(tab) -> used] /\ \A y \in used : \E t \in Roots(tab) : g[t] = y
      OBVIOUS
    <3> HIDE DEF g, used
    <3> QED
      BY <3>1 DEF Surjection
  <2>3. IsFiniteSet(used) /\ Cardinality(used) <= Cardinality(Roots(tab))
    BY <2>1, <2>2, FS_Surjection
  <2>4. Cardinality(used) \in Nat
    BY <2>3, FS_CardinalityType
  <2>8. Cardinality(1 .. MaxEnqueues) = MaxEnqueues
    BY FS_Interval
  <2>5. ~((1 .. MaxEnqueues) \subseteq used)
    <3>1. (1 .. MaxEnqueues) \subseteq used => Cardinality(1 .. MaxEnqueues) <= Cardinality(used)
      BY <2>3, FS_Subset
    <3> HIDE DEF used
    <3> QED
      BY <2>1, <2>3, <2>4, <2>8, <3>1
  <2>6. PICK c \in 1 .. MaxEnqueues : c \notin used
    BY <2>5
  <2>7. \A t \in Present(tab) : chain[t] \in used
    BY <1>1 DEF Chained
  <2> QED
    BY <2>6, <2>7
<1>3. f \in Rows /\ tab[f].status = "absent"
  <2>1. 1 \in 1 .. ProviderMaxAttempts
    OBVIOUS
  <2> QED
    BY <1>1, <1>2, <2>1, RoomForAttempt, FreshRow
<1> DEFINE after == [tab EXCEPT ![f] = new]
           link == [chain EXCEPT ![f] = c]
<1>4. after[f] = new /\ link[f] = c /\ link \in [Rows -> 1 .. MaxEnqueues]
      /\ \A t \in Rows : t # f => after[t] = tab[t] /\ link[t] = chain[t]
  BY <1>3
<1> HIDE DEF after, link
<1>5. /\ Present(after) = Present(tab) \cup {f} /\ f \notin Present(tab)
      /\ Roots(after) = Roots(tab) \cup {f} /\ Present(tab) \subseteq Rows
  BY <1>3, <1>4 DEF Present, Roots
<1>6. Chained(after, link)
  <2> SUFFICES ASSUME NEW t \in Present(after)
               PROVE  /\ after[t].attempt \in 1 .. ProviderMaxAttempts
                      /\ after[t].parent = 0 => after[t].attempt = 1
                      /\ after[t].parent # 0 =>
                           /\ after[t].parent \in Present(after)
                           /\ link[after[t].parent] = link[t]
                           /\ after[t].attempt = after[after[t].parent].attempt + 1
                      /\ \E r \in Roots(after) : link[r] = link[t]
                      /\ \A u \in Present(after) :
                           link[u] = link[t] /\ after[u].attempt = after[t].attempt => u = t
    BY DEF Chained
  <2>1. CASE t = f
    BY <1>2, <1>4, <1>5, <2>1
  <2>2. CASE t # f
    <3>1. t \in Present(tab) /\ after[t] = tab[t] /\ link[t] = chain[t] /\ chain[t] # c
      BY <1>2, <1>4, <1>5, <2>2
    <3>2. \A u \in Present(tab) : after[u] = tab[u] /\ link[u] = chain[u] /\ u \in Present(after)
      BY <1>4, <1>5
    <3>3. Roots(tab) \subseteq Present(tab)
      BY DEF Roots
    <3> QED
      BY <1>1, <1>4, <1>5, <3>1, <3>2, <3>3 DEF Chained
  <2> QED
    BY <2>1, <2>2
<1> QED
  BY <1>3, <1>4, <1>6 DEF Chains, after

\* The row that is inserted for a retry is the next attempt of its parent's chain.
LEMMA RetryJoins ==
    ASSUME NEW tab \in [Rows -> Row], Chains(tab),
           NEW t \in Rows, Unretried(tab, t), tab[t].attempt < ProviderMaxAttempts,
           NEW f, f = Fresh(tab), NEW new \in Row, new.status # "absent",
           new.parent = t, new.attempt = tab[t].attempt + 1
    PROVE  /\ f \in Rows /\ tab[f].status = "absent"
           /\ Chains([tab EXCEPT ![f] = new])
<1>1. PICK chain \in [Rows -> 1 .. MaxEnqueues] : Chained(tab, chain)
  BY DEF Chains
<1> DEFINE c == chain[t]
           n == tab[t].attempt + 1
<1>2. /\ t \in Present(tab) /\ c \in 1 .. MaxEnqueues /\ n \in 1 .. ProviderMaxAttempts
      /\ tab[t].attempt \in 1 .. ProviderMaxAttempts
  BY <1>1 DEF Unretried, Present, Chained
<1>3. \A u \in Present(tab) : ~(chain[u] = c /\ tab[u].attempt = n)
  <2> SUFFICES ASSUME NEW u \in Present(tab), chain[u] = c, tab[u].attempt = n PROVE FALSE
    OBVIOUS
  <2>1. tab[u].parent # 0
    BY <1>1, <1>2 DEF Chained
  <2> DEFINE p == tab[u].parent
  <2>2. p \in Present(tab) /\ chain[p] = c /\ n = tab[p].attempt + 1
    BY <1>1, <2>1 DEF Chained
  <2>3. tab[p].attempt = tab[t].attempt
    <3>1. tab[p].attempt \in 1 .. ProviderMaxAttempts
      BY <1>1, <2>2 DEF Chained
    <3> QED
      BY <1>2, <2>2, <3>1
  <2>4. p = t
    BY <1>1, <1>2, <2>2, <2>3 DEF Chained
  <2> QED
    BY <2>4 DEF Unretried, Present
<1>4. f \in Rows /\ tab[f].status = "absent"
  BY <1>1, <1>2, <1>3, RoomForAttempt, FreshRow
<1> DEFINE after == [tab EXCEPT ![f] = new]
           link == [chain EXCEPT ![f] = c]
<1>5. after[f] = new /\ link[f] = c /\ link \in [Rows -> 1 .. MaxEnqueues]
      /\ \A u \in Rows : u # f => after[u] = tab[u] /\ link[u] = chain[u]
  BY <1>2, <1>4
<1> HIDE DEF after, link
<1>6. t # 0
  BY RowsFinite
<1>7. /\ Present(after) = Present(tab) \cup {f} /\ f \notin Present(tab)
      /\ Roots(after) = Roots(tab) /\ Present(tab) \subseteq Rows
  BY <1>4, <1>5, <1>6 DEF Present, Roots
<1>8. \A u \in Present(tab) : after[u] = tab[u] /\ link[u] = chain[u] /\ u \in Present(after)
                              /\ u # f
  BY <1>5, <1>7
<1>9. Roots(tab) \subseteq Present(tab)
  BY DEF Roots
<1>10. Chained(after, link)
  <2> SUFFICES ASSUME NEW s \in Present(after)
               PROVE  /\ after[s].attempt \in 1 .. ProviderMaxAttempts
                      /\ after[s].parent = 0 => after[s].attempt = 1
                      /\ after[s].parent # 0 =>
                           /\ after[s].parent \in Present(after)
                           /\ link[after[s].parent] = link[s]
                           /\ after[s].attempt = after[after[s].parent].attempt + 1
                      /\ \E r \in Roots(after) : link[r] = link[s]
                      /\ \A u \in Present(after) :
                           link[u] = link[s] /\ after[u].attempt = after[s].attempt => u = s
    BY DEF Chained
  <2>1. CASE s = f
    <3>1. \E r \in Roots(after) : link[r] = c
      BY <1>1, <1>2, <1>7, <1>8, <1>9 DEF Chained
    <3>2. \A u \in Present(after) : link[u] = c /\ after[u].attempt = n => u = f
      BY <1>3, <1>7, <1>8
    <3> QED
      BY <1>2, <1>5, <1>6, <1>8, <2>1, <3>1, <3>2
  <2>2. CASE s # f
    <3>1. s \in Present(tab) /\ after[s] = tab[s] /\ link[s] = chain[s]
      BY <1>5, <1>7, <2>2
    <3>2. \A u \in Present(after) :
            link[u] = link[s] /\ after[u].attempt = after[s].attempt => u = s
      BY <1>1, <1>3, <1>5, <1>7, <1>8, <3>1 DEF Chained
    <3> QED
      BY <1>1, <1>7, <1>8, <1>9, <3>1, <3>2 DEF Chained
  <2> QED
    BY <2>1, <2>2
<1> QED
  BY <1>4, <1>5, <1>10 DEF Chains, after

\* A statement that inserts nothing leaves the chains.
LEMMA MovesChains ==
    ASSUME NEW before, NEW after, Moves(before, after)
    PROVE  /\ Present(after) = Present(before) /\ Roots(after) = Roots(before)
           /\ Chains(before) => Chains(after)
           /\ Blank(before) => Blank(after)
           /\ \A t \in Rows : Unretried(before, t) => Unretried(after, t)
<1>1. Present(after) = Present(before)
  BY DEF Moves, Present
<1>2. Roots(after) = Roots(before)
  BY <1>1 DEF Moves, Roots, Present
<1>3. ASSUME NEW chain \in [Rows -> 1 .. MaxEnqueues], Chained(before, chain)
      PROVE  Chained(after, chain)
  <2>1. Present(before) \subseteq Rows
    BY DEF Present
  <2>2. \A t \in Present(before) :
          after[t].parent = before[t].parent /\ after[t].attempt = before[t].attempt
    BY <2>1 DEF Moves
  <2> QED
    BY <1>1, <1>2, <1>3, <2>2 DEF Chained
<1>4. Blank(before) => Blank(after)
  BY DEF Moves, Blank
<1>5. \A t \in Rows : Unretried(before, t) => Unretried(after, t)
  BY DEF Moves, Unretried, Ended
<1> QED
  BY <1>1, <1>2, <1>3, <1>4, <1>5 DEF Chains

\* The inductive invariant of the table.
TableInv == Chains(task) /\ Blank(task) /\ OneRetryPerFailure /\ OwedFailed

\* How a step changes the table: rows move, and a sweeper owes the retries of those
\* that it fails; or one row is inserted, for a user's task or for a retry.
RowsMove ==
    /\ Moves(task, task')
    /\ \A t \in owed' : t \in owed \/ (task[t].status \in Active /\ task'[t].status = "failed")
RowAdded(tab, f, new) ==
    /\ Moves(task, tab) /\ Quiet(task, tab) /\ tab[f].status = "absent"
    /\ task' = [tab EXCEPT ![f] = new]
    /\ new.status \in {"queued", "deferred"} /\ new.dispatched_at = 0
    /\ Chains(task')
    /\ \/ new.parent = 0 /\ owed' = owed
       \/ /\ new.parent \in Rows /\ Unretried(tab, new.parent)
          /\ owed' \subseteq owed \ {new.parent}

\* A statement that sets the status of rows that are still to be done.
LEMMA BecomeMoves ==
    ASSUME NEW tab \in [Rows -> Row], NEW S, NEW st, st # "absent",
           \A t \in S \cap Rows : tab[t].status \in {"deferred", "queued"} \cup Active
    PROVE  Moves(tab, Become(tab, S, st))
BY DEF Moves, Become, Row, Active, Ended

\* A statement that ends rows or starts them, or queues deferred ones.
LEMMA BecomeQuiet ==
    ASSUME NEW tab \in [Rows -> Row], NEW S, NEW st,
           \/ st \in {"running"} \cup Ended
           \/ st = "queued" /\ \A t \in S \cap Rows : tab[t].status = "deferred"
           \/ st = "waiting_local_directory" /\ \A t \in S \cap Rows : tab[t].status = "dispatched"
    PROVE  Quiet(tab, Become(tab, S, st))
BY DEF Quiet, Become, Row, Active, Ended

\* The row of a user's task (Enqueue, RerunIssue).
LEMMA RootAdded ==
    ASSUME TypeInv, TableInv, MayEnqueue, NEW tab \in [Rows -> Row],
           Moves(task, tab), Quiet(task, tab),
           NEW i \in Issues, task' = NewTask(tab, i), owed' = owed
    PROVE  \E f \in Rows, new \in Row :
             RowAdded(tab, f, new) /\ new.issue = i /\ new.parent = 0
<1> DEFINE new == [status |-> "queued", issue |-> i, attempt |-> 1, max_attempts |-> MaxAttempts,
                   parent |-> 0, dispatched_at |-> 0]
           f == Fresh(tab)
<1>1. new \in Row /\ new.status = "queued" /\ new.parent = 0 /\ new.attempt = 1
      /\ new.dispatched_at = 0 /\ new.issue = i
  BY DEF Row, Statuses
<1>2. task' = [tab EXCEPT ![f] = new]
  BY DEF NewTask, Insert
<1>3. Chains(tab) /\ Blank(tab) /\ Cardinality(Roots(tab)) < MaxEnqueues
  <2>1. Roots(tab) = {t \in Rows : task[t].status # "absent" /\ task[t].parent = 0}
    BY MovesChains DEF Roots, Present
  <2> QED
    BY <2>1, MovesChains DEF TableInv, MayEnqueue
<1> HIDE DEF new, f
<1>4. f \in Rows /\ tab[f].status = "absent" /\ Chains([tab EXCEPT ![f] = new])
  BY <1>1, <1>3, RootJoins DEF f
<1> QED
  BY <1>1, <1>2, <1>4 DEF RowAdded

\* The row of a retry (CreateRetryTask).
LEMMA RetryAdded ==
    ASSUME TypeInv, TableInv, NEW tab \in [Rows -> Row], Moves(task, tab), Quiet(task, tab),
           NEW t \in Rows, NEW reason \in Reasons, Unretried(tab, t), retryEligible(reason, t),
           tab[t].issue = task[t].issue, tab[t].max_attempts = task[t].max_attempts,
           task' = CreateRetryTask(tab, reason, t), owed' \subseteq owed \ {t}
    PROVE  \E f \in Rows, new \in Row :
             RowAdded(tab, f, new) /\ new.issue = task[t].issue /\ new.parent = t
<1> DEFINE b == retryAttemptCeiling(reason, task[t].max_attempts)
           st == IF Delayed(reason, t) THEN "deferred" ELSE "queued"
           new == [status |-> st, issue |-> tab[t].issue, attempt |-> tab[t].attempt + 1,
                   max_attempts |-> b, parent |-> t, dispatched_at |-> 0]
           f == Fresh(tab)
<1>1. tab[t] \in Row /\ task[t] \in Row /\ tab[t].attempt = task[t].attempt
  BY DEF TypeInv, TypeOK, Moves
<1>2. b \in 0 .. ProviderMaxAttempts
  BY <1>1 DEF Row, retryAttemptCeiling
<1>3. tab[t].attempt \in Nat /\ tab[t].attempt < ProviderMaxAttempts
  BY <1>1, <1>2 DEF Row, retryEligible
<1>4. st \in {"queued", "deferred"} /\ tab[t].attempt + 1 \in 0 .. ProviderMaxAttempts
      /\ tab[t].issue \in Issues \cup {"none"}
  BY <1>1, <1>3 DEF Row
<1>5. task' = [tab EXCEPT ![f] = new]
  BY DEF CreateRetryTask, Insert
<1> HIDE DEF b, st
<1>6. new \in Row /\ new.status \in {"queued", "deferred"} /\ new.parent = t
      /\ new.attempt = tab[t].attempt + 1 /\ new.dispatched_at = 0
      /\ new.issue = task[t].issue
  BY <1>2, <1>4 DEF Row, Statuses
<1> HIDE DEF new, f
<1>7. Chains(tab)
  BY MovesChains DEF TableInv
<1>8. f \in Rows /\ tab[f].status = "absent" /\ Chains([tab EXCEPT ![f] = new])
  BY <1>3, <1>6, <1>7, RetryJoins DEF f
<1> QED
  BY <1>5, <1>6, <1>8 DEF RowAdded

\* A row that is at work has not been retried.
LEMMA ActiveUnretried ==
    ASSUME TypeInv, OneRetryPerFailure, NEW t \in Rows, task[t].status \in Active
    PROVE  \A u \in Rows : task[u].parent # t
BY RowsFinite DEF OneRetryPerFailure, Active

\* What a step does keeps the invariant of the table and what has ended.
LEMMA RowsMoveKeeps ==
    ASSUME TypeInv, TypeInv', TableInv, RowsMove
    PROVE  TableInv' /\ \A t \in Rows : task[t].status \in Ended => task'[t].status = task[t].status
<1>0. \A t \in Rows : task'[t].parent = task[t].parent
      /\ (task[t].status \in Ended => task'[t].status = task[t].status)
  BY DEF RowsMove, Moves
<1>1. Chains(task') /\ Blank(task') /\ \A t \in Rows : Unretried(task, t) => Unretried(task', t)
  BY MovesChains DEF RowsMove, TableInv
<1>2. OneRetryPerFailure'
  <2>1. \A t \in Rows : task[t].parent \in {0} \cup Rows
    BY DEF TypeInv, TypeOK, Row
  <2> QED
    BY <1>0, <2>1 DEF TableInv, OneRetryPerFailure, Ended
<1>3. OwedFailed'
  <2> SUFFICES ASSUME NEW t \in owed' PROVE Unretried(task', t)
    BY DEF OwedFailed, Unretried
  <2>1. t \in Rows
    BY DEF TypeInv, TypeOK
  <2>2. CASE t \in owed
    BY <1>1, <2>1, <2>2 DEF TableInv, OwedFailed
  <2>3. CASE task[t].status \in Active /\ task'[t].status = "failed"
    BY <1>0, <2>1, <2>3, ActiveUnretried DEF TableInv, Unretried
  <2> QED
    BY <2>2, <2>3 DEF RowsMove
<1>4. Chains(task)' /\ Blank(task)'
  BY <1>1
<1> QED
  BY <1>0, <1>2, <1>3, <1>4 DEF TableInv

\* So does the insert of a row.
LEMMA RowAddedKeeps ==
    ASSUME TypeInv, TypeInv', TableInv, NEW tab \in [Rows -> Row], NEW f \in Rows, NEW new \in Row,
           RowAdded(tab, f, new)
    PROVE  TableInv' /\ \A t \in Rows : task[t].status \in Ended => task'[t].status = task[t].status
<1>0. /\ task'[f] = new /\ \A t \in Rows : t # f => task'[t] = tab[t]
      /\ tab[f].status = "absent" /\ new.status \in {"queued", "deferred"}
  BY DEF RowAdded
<1>1. \A t \in Rows : /\ tab[t].parent = task[t].parent
                      /\ task[t].status \in Ended => tab[t].status = task[t].status
                      /\ task[t].parent \in {0} \cup Rows
  BY DEF RowAdded, Moves, TypeInv, TypeOK, Row
<1>2. \A t \in Rows : task[t].status \in Ended => t # f /\ task'[t].status = task[t].status
  BY <1>0, <1>1 DEF Ended
<1>3. Blank(tab) /\ \A t \in Rows : Unretried(task, t) => Unretried(tab, t)
  BY MovesChains DEF RowAdded, TableInv
<1>4. Blank(task') /\ tab[f].parent = 0
  BY <1>0, <1>3 DEF Blank
<1>5. OwedFailed'
  <2> SUFFICES ASSUME NEW t \in owed' PROVE Unretried(task', t)
    BY DEF OwedFailed, Unretried
  <2>1. t \in owed /\ t # new.parent /\ t \in Rows
    BY RowsFinite DEF RowAdded, TypeInv, TypeOK
  <2>2. Unretried(tab, t)
    BY <1>3, <2>1 DEF TableInv, OwedFailed
  <2> QED
    BY <1>0, <2>1, <2>2 DEF Unretried
<1>6. OneRetryPerFailure'
  <2> SUFFICES ASSUME NEW t \in Rows, task'[t].parent # 0
               PROVE  /\ task'[task'[t].parent].status = "failed"
                      /\ \A u \in Rows : task'[u].parent = task'[t].parent => u = t
    BY DEF OneRetryPerFailure
  <2>1. CASE t = f
    <3>1. new.parent \in Rows /\ Unretried(tab, new.parent)
      BY <1>0, <2>1 DEF RowAdded
    <3> QED
      BY <1>0, <2>1, <3>1 DEF Unretried
  <2>2. CASE t # f
    <3> DEFINE p == task[t].parent
    <3>1. task'[t].parent = p /\ p # 0 /\ p \in Rows
      BY <1>0, <1>1, <2>2
    <3>2. task[p].status = "failed" /\ \A u \in Rows : task[u].parent = p => u = t
      BY <3>1 DEF TableInv, OneRetryPerFailure
    <3>3. task'[p].status = "failed"
      BY <1>2, <3>1, <3>2 DEF Ended
    <3>4. new.parent # p
      BY <1>1, <3>1 DEF RowAdded, Unretried
    <3> QED
      BY <1>0, <1>1, <3>1, <3>2, <3>3, <3>4
  <2> QED
    BY <2>1, <2>2
<1>7. Chains(task)' /\ Blank(task)'
  BY <1>4 DEF RowAdded
<1> QED
  BY <1>2, <1>5, <1>6, <1>7 DEF TableInv

\* A statement that changes no row, or moves rows and is owed no retry for them.
LEMMA QuietRows ==
    ASSUME Moves(task, task') \/ UNCHANGED task, owed' \subseteq owed
    PROVE  RowsMove /\ (UNCHANGED task => Quiet(task, task'))
BY DEF RowsMove, Moves, Quiet

\* What a sweeper fails, it owes a retry for (FailStaleTasks and its like).
LEMMA FailAllMoves ==
    ASSUME TypeInv, NEW S \in SUBSET ActiveTasks, FailAll(S)
    PROVE  RowsMove /\ Quiet(task, task')
<1>1. task \in [Rows -> Row] /\ \A t \in S : t \in Rows /\ task[t].status \in Active
  BY DEF TypeInv, TypeOK, ActiveTasks, In
<1>2. Moves(task, task') /\ Quiet(task, task')
  BY <1>1, BecomeMoves, BecomeQuiet DEF FailAll, Ended
<1>3. \A t \in S : task'[t].status = "failed"
  BY <1>1 DEF FailAll, Become, Row
<1> QED
  BY <1>1, <1>2, <1>3 DEF FailAll, RowsMove

\* A dispatch moves its row (ClaimAgentTask, ReclaimStaleDispatched).
LEMMA DispatchMoves ==
    ASSUME TypeInv, NEW c \in Claims, NEW t \in In({"queued", "dispatched"}), Dispatch(c, t)
    PROVE  /\ Moves(task, task')
           /\ task'[t].status = "dispatched" /\ task'[t].dispatched_at = task[t].dispatched_at + 1
           /\ \A u \in Rows \ {t} : task'[u] = task[u]
<1>1. t \in Rows /\ task[t] \in Row /\ task \in [Rows -> Row]
      /\ task[t].status \in {"queued", "dispatched"}
  BY DEF TypeInv, TypeOK, In
<1> DEFINE new == [task[t] EXCEPT !.status = "dispatched",
                                  !.dispatched_at = task[t].dispatched_at + 1]
<1>2. task' = [task EXCEPT ![t] = new]
  BY <1>1 DEF Dispatch
<1>3. /\ new.status = "dispatched" /\ new.parent = task[t].parent /\ new.attempt = task[t].attempt
      /\ new.dispatched_at = task[t].dispatched_at + 1
  BY <1>1 DEF Row
<1> HIDE DEF new
<1> QED
  BY <1>1, <1>2, <1>3 DEF Moves, Ended

\* The failure a daemon reports, with its retry if there is one (FailTask).
LEMMA FailTable ==
    ASSUME TypeInv, TableInv, NEW t \in Rows, task[t].status \in Active, NEW reason \in Reasons,
           task' = FailAndRetry(reason, t), owed' = owed
    PROVE  \/ RowsMove /\ Quiet(task, task')
           \/ \E tab \in [Rows -> Row], f \in Rows, new \in Row : RowAdded(tab, f, new)
<1> DEFINE failed == Become(task, {t}, "failed")
<1>1. failed \in [Rows -> Row]
  BY BecomeType DEF TypeInv, TypeOK, Statuses, Ended
<1>2. Moves(task, failed) /\ Quiet(task, failed)
  BY BecomeMoves, BecomeQuiet DEF TypeInv, TypeOK, Ended
<1>3. failed[t].issue = task[t].issue /\ failed[t].max_attempts = task[t].max_attempts
      /\ failed[t].status = "failed" /\ \A u \in Rows : failed[u].parent = task[u].parent
  BY DEF Become, TypeInv, TypeOK, Row
<1>4. task' = IF retryEligible(reason, t) THEN CreateRetryTask(failed, reason, t) ELSE failed
  BY DEF FailAndRetry
<1> HIDE DEF failed
<1>5. CASE ~retryEligible(reason, t)
  BY <1>2, <1>4, <1>5, QuietRows
<1>6. CASE retryEligible(reason, t)
  <2>1. Unretried(failed, t)
    BY <1>3, ActiveUnretried DEF Unretried, TableInv
  <2>2. owed' \subseteq owed \ {t}
    BY DEF TableInv, OwedFailed, Unretried, Active
  <2> QED
    BY <1>1, <1>2, <1>3, <1>4, <1>6, <2>1, <2>2, RetryAdded
<1> QED
  BY <1>5, <1>6

\* The steps that give tasks out or take them back.
HandsOut ==
    \E c \in Claims : ReclaimStaleDispatched(c) \/ ClaimAgentTask(c) \/ RequeueAfterClaimFailure(c)

\* Every step moves rows or adds one.
LEMMA StepTable ==
    ASSUME TypeInv, TableInv, [Next]_vars
    PROVE  \/ RowsMove /\ (Quiet(task, task') \/ HandsOut)
           \/ \E tab \in [Rows -> Row], f \in Rows, new \in Row : RowAdded(tab, f, new)
<1> DEFINE added == \E tab \in [Rows -> Row], f \in Rows, new \in Row : RowAdded(tab, f, new)
           moved == RowsMove /\ (Quiet(task, task') \/ HandsOut)
<1>0. TypeOK /\ task \in [Rows -> Row] /\ Moves(task, task) /\ Quiet(task, task)
  BY DEF TypeInv, TypeOK, Moves, Quiet
<1>1. ASSUME NEW i \in Issues, Enqueue(i) PROVE added
  BY <1>0, <1>1, RootAdded DEF Enqueue
<1>2. ASSUME NEW i \in Issues, RerunIssue(i) PROVE added
  <2> DEFINE tab == Become(task, {t \in In({"deferred", "queued"} \cup Active) : task[t].issue = i},
                           "cancelled")
  <2>1. tab \in [Rows -> Row]
    BY <1>0, BecomeType DEF Statuses, Ended
  <2>2. Moves(task, tab) /\ Quiet(task, tab)
    BY <1>0, BecomeMoves, BecomeQuiet DEF In, Ended
  <2>3. task' = NewTask(tab, i) /\ MayEnqueue /\ owed' = owed
    BY <1>2 DEF RerunIssue
  <2> HIDE DEF tab
  <2> QED
    BY <2>1, <2>2, <2>3, RootAdded
<1>3. ASSUME NEW t \in Rows, CancelTask(t) PROVE moved
  BY <1>0, <1>3, BecomeMoves, BecomeQuiet, QuietRows DEF CancelTask, Ended
<1>4. ASSUME NEW n \in Capacities, SetCapacity(n) PROVE moved
  BY <1>4, QuietRows DEF SetCapacity
<1>5. ASSUME NEW c \in Claims, Poll(c) PROVE moved
  <2>1. CASE PromoteDueDeferred(c)
    BY <1>0, <2>1, BecomeMoves, BecomeQuiet, QuietRows DEF PromoteDueDeferred, In
  <2>2. CASE ReclaimStaleDispatched(c)
    BY <2>2, DispatchMoves, QuietRows DEF ReclaimStaleDispatched, In, HandsOut
  <2>3. CASE ClaimAgentTask(c)
    BY <2>3, DispatchMoves, QuietRows DEF ClaimAgentTask, Claimable, In, HandsOut
  <2>4. CASE RequeueAfterClaimFailure(c)
    BY <1>0, <2>4, BecomeMoves, BecomeQuiet, QuietRows DEF RequeueAfterClaimFailure, Active, HandsOut
  <2> QED
    BY <1>5, <2>1, <2>2, <2>3, <2>4, QuietRows DEF Poll, LockAgent, Deliver, AnswerLost
<1>6. ASSUME NEW d \in hand, Handle(d) PROVE moved \/ added
  <2>0. d.task \in Rows
    BY <1>0 DEF TypeOK, Handler
  <2>1. CASE StartTask(d) \/ MarkWaitingLocalDirectory(d) \/ CompleteTask(d)
    BY <1>0, <2>0, <2>1, BecomeMoves, BecomeQuiet, QuietRows
       DEF StartTask, MarkWaitingLocalDirectory, CompleteTask, Reported, Active, Ended
  <2>2. CASE FailTask(d)
    BY <2>0, <2>2, FailTable, QuietRows DEF FailTask, Reported
  <2>3. CASE HandlerEnds(d) \/ NoticeEnded(d) \/ GiveUp(d)
    BY <2>3, QuietRows DEF HandlerEnds, NoticeEnded, GiveUp
  <2> QED
    BY <1>6, <2>1, <2>2, <2>3 DEF Handle
<1>7. CASE RecoverOrphans \/ RuntimeOffline
  BY <1>7, FailAllMoves DEF RecoverOrphans, RuntimeOffline
<1>8. ASSUME NEW t \in Rows, DispatchTimeout(t) PROVE moved
  <2>1. {t} \in SUBSET ActiveTasks
    BY <1>8 DEF DispatchTimeout, ActiveTasks, In, Active
  <2> QED
    BY <1>8, <2>1, FailAllMoves DEF DispatchTimeout
<1>9. ASSUME NEW t \in Rows, ExpireStaleQueued(t) PROVE moved
  BY <1>0, <1>9, BecomeMoves, BecomeQuiet, QuietRows DEF ExpireStaleQueued, Ended
<1>10. ASSUME NEW t \in Rows, MaybeRetryFailedTask(t) PROVE moved \/ added
  <2>1. Unretried(task, t) /\ owed' = owed \ {t} /\ "timeout" \in Reasons
    BY <1>10 DEF MaybeRetryFailedTask, TableInv, OwedFailed, Reasons
  <2>2. CASE UNCHANGED task
    BY <2>1, <2>2, QuietRows
  <2>3. CASE retryEligible("timeout", t) /\ task' = CreateRetryTask(task, "timeout", t)
    BY <1>0, <2>1, <2>3, RetryAdded
  <2> QED
    BY <1>10, <2>2, <2>3 DEF MaybeRetryFailedTask
<1>11. CASE DaemonDies \/ ServerDies \/ UNCHANGED vars
  BY <1>11, QuietRows DEF DaemonDies, ServerDies, vars
<1> QED
  BY <1>1, <1>2, <1>3, <1>4, <1>5, <1>6, <1>7, <1>8, <1>9, <1>10, <1>11 DEF Next, User, Sweep

\* A step keeps the invariant of the table, and what has ended.
LEMMA StepKeepsTable ==
    ASSUME TypeInv, TableInv, [Next]_vars
    PROVE  TableInv' /\ \A t \in Rows : task[t].status \in Ended => task'[t].status = task[t].status
BY TypeStep, StepTable, RowsMoveKeeps, RowAddedKeeps

\* The empty table satisfies it.
LEMMA TableInit == Init => TableInv
<1> SUFFICES ASSUME Init PROVE TableInv
  OBVIOUS
<1>1. \A t \in Rows : task[t].status = "absent" /\ task[t].parent = 0
  BY DEF Init
<1>2. Present(task) = {}
  BY <1>1 DEF Present
<1>3. [t \in Rows |-> 1] \in [Rows -> 1 .. MaxEnqueues]
  <2>1. MaxEnqueues = 0 => Rows = {}
    BY DEF Rows
  <2>2. \A t \in Rows : 1 \in 1 .. MaxEnqueues
    BY <2>1
  <2> QED
    BY <2>2
<1>4. Chains(task)
  BY <1>2, <1>3 DEF Chains, Chained
<1> QED
  BY <1>1, <1>4 DEF Init, TableInv, Blank, OneRetryPerFailure, OwedFailed

\* The invariant of the table holds throughout.
LEMMA TableHolds == Spec => []TableInv
<1>1. TypeInv /\ TableInv /\ [Next]_vars => TableInv'
  BY StepKeepsTable
<1>2. Inv => TypeInv
  BY DEF Inv
<1> QED
  BY <1>1, <1>2, TableInit, Invariant, PTL DEF Spec

\* A failure is retried at most once, and only a failure is, though the daemon
\* repeats its reports and the sweepers fail rows under it (FailTask,
\* HandleFailedTasks).
THEOREM RetriesHold == Spec => []OneRetryPerFailure
<1>1. TableInv => OneRetryPerFailure
  BY DEF TableInv
<1> QED
  BY <1>1, TableHolds, PTL

\* What has ended stays as it ended, whatever is reported, swept, rerun or retried
\* later (CompleteTask, FailTask).
THEOREM EndStays == Spec => EndedStays
<1>1. TypeInv /\ TableInv /\ [Next]_vars =>
        [\A t \in Rows : task[t].status \in Ended => task'[t].status = task[t].status]_vars
  BY StepKeepsTable
<1>2. Inv => TypeInv
  BY DEF Inv
<1> QED
  BY <1>1, <1>2, Invariant, TableHolds, PTL DEF Spec, EndedStays

-----------------------------------------------------------------------------
(* Claims that are out: prepared by a poll or held by the daemon           *)

Holding(c) == pc[c] = "claimed"
Same(x, y) == x.task = y.task /\ x.dispatched_at = y.dispatched_at

\* A row that nobody has claimed yet was never dispatched.
Unused(tab) == \A t \in Rows : tab[t].status \in {"absent", "deferred"} => tab[t].dispatched_at = 0

\* A claim is no newer than its row, and the row of the newest one is not queued.
GivenOut(tab, x) ==
    /\ x.dispatched_at <= tab[x.task].dispatched_at
    /\ x.dispatched_at = tab[x.task].dispatched_at => tab[x.task].status # "queued"

Begun(status) == status \in {"running"} \cup Ended

\* Every dispatch has one holder at most, a poll or a handler, and what a handler
\* executes has begun.
Tokens ==
    /\ \A d \in hand : GivenOut(task, d) /\ (d.step = "running" => Begun(task[d.task].status))
    /\ \A d, e \in hand : Same(d, e) => d = e
    /\ \A c \in Claims : Holding(c) =>
          GivenOut(task, held[c]) /\ \A d \in hand : ~Same(held[c], d)
    /\ \A b, c \in Claims : Holding(b) /\ Holding(c) /\ Same(held[b], held[c]) => b = c

HoldInv == Unused(task) /\ Tokens /\ OneExecution

\* What the types say of the claims that are out.
LEMMA ClaimTypes ==
    ASSUME TypeInv
    PROVE  /\ \A d \in hand : d.task \in Rows /\ d.dispatched_at \in 1..MaxDispatches
           /\ \A c \in Claims : Holding(c) =>
                 held[c].task \in Rows /\ held[c].dispatched_at \in 1..MaxDispatches
           /\ \A t \in Rows : task[t].dispatched_at \in 0..MaxDispatches
BY DEF TypeInv, TypeOK, ClaimFits, Holding, Handler, Row

\* The insert of a row gives nothing out.
LEMMA AddedQuiet ==
    ASSUME TypeInv, Unused(task), NEW tab \in [Rows -> Row], NEW f \in Rows, NEW new \in Row,
           RowAdded(tab, f, new)
    PROVE  Quiet(task, task')
<1>1. /\ task'[f] = new /\ new.status \in {"queued", "deferred"} /\ new.dispatched_at = 0
      /\ tab[f].status = "absent" /\ \A t \in Rows : t # f => task'[t] = tab[t]
      /\ Quiet(task, tab)
  BY DEF RowAdded
<1>2. task[f].status \in {"absent", "deferred"} /\ task[f].dispatched_at = 0
  BY <1>1 DEF Quiet, Unused
<1> QED
  BY <1>1, <1>2 DEF Quiet, Ended

\* A statement that gives nothing out leaves the claims what they were.
LEMMA QuietClaims ==
    ASSUME TypeInv, Unused(task), Quiet(task, task')
    PROVE  /\ Unused(task')
           /\ \A x : x.task \in Rows /\ x.dispatched_at \in 1..MaxDispatches /\ GivenOut(task, x)
                        => GivenOut(task', x)
           /\ \A t \in Rows : Begun(task[t].status) => Begun(task'[t].status)
<1>1. Unused(task')
  BY DEF Unused, Quiet
<1>2. ASSUME NEW x, x.task \in Rows, x.dispatched_at \in 1..MaxDispatches, GivenOut(task, x)
      PROVE  GivenOut(task', x)
  <2>1. task'[x.task].dispatched_at = task[x.task].dispatched_at
    BY <1>2 DEF Quiet
  <2>2. ASSUME x.dispatched_at = task[x.task].dispatched_at PROVE task'[x.task].status # "queued"
    BY <1>2, <2>2 DEF Quiet, GivenOut, Unused
  <2> QED
    BY <1>2, <2>1, <2>2 DEF GivenOut
<1>3. \A t \in Rows : Begun(task[t].status) => Begun(task'[t].status)
  BY DEF Quiet, Begun
<1> QED
  BY <1>1, <1>2, <1>3

\* A step that gives nothing out and only drops polls and handlers.
LEMMA DropKeeps ==
    ASSUME TypeInv, HoldInv, Quiet(task, task'), hand' \subseteq hand,
           \A c \in Claims : pc'[c] = "claimed" => pc[c] = "claimed" /\ held'[c] = held[c]
    PROVE  HoldInv'
<1>1. Tokens'
  BY ClaimTypes, QuietClaims DEF HoldInv, Tokens, Holding
<1>2. OneExecution' /\ Unused(task)'
  BY QuietClaims DEF HoldInv, OneExecution
<1> QED
  BY <1>1, <1>2 DEF HoldInv

\* A handler goes on: it keeps its claim, and executes only what has not begun
\* (StartAgentTask).
LEMMA StepKeeps ==
    ASSUME TypeInv, HoldInv, Quiet(task, task'), NEW d \in hand, NEW s, Step(d, s), UNCHANGED server,
           s = "running" => ~Begun(task[d.task].status) /\ Begun(task'[d.task].status)
    PROVE  HoldInv'
<1> DEFINE e == [d EXCEPT !.step = s]
<1>1. e.task = d.task /\ e.dispatched_at = d.dispatched_at /\ e.step = s /\ d.task \in Rows
  BY DEF TypeInv, TypeOK, Handler
<1>2. hand' = (hand \ {d}) \cup {e}
  BY DEF Step
<1> HIDE DEF e
<1>3. \A x \in hand' : x = e \/ (x \in hand /\ x # d)
  BY <1>2
<1>4. \A x \in hand : GivenOut(task', x) /\ (x.step = "running" => Begun(task'[x.task].status))
  BY ClaimTypes, QuietClaims DEF HoldInv, Tokens
<1>5. GivenOut(task', e)
  BY <1>1, <1>4 DEF GivenOut
<1>6. \A x, y \in hand' : Same(x, y) => x = y
  BY <1>1, <1>3 DEF HoldInv, Tokens, Same
<1>7. \A c \in Claims : Holding(c) =>
        GivenOut(task', held[c]) /\ \A x \in hand' : ~Same(held[c], x)
  <2>1. \A c \in Claims : Holding(c) => GivenOut(task', held[c])
    BY ClaimTypes, QuietClaims DEF HoldInv, Tokens
  <2>2. \A c \in Claims : Holding(c) => \A x \in hand : ~Same(held[c], x)
    BY DEF HoldInv, Tokens
  <2> QED
    BY <1>1, <1>3, <2>1, <2>2 DEF Same
<1>8. Tokens'
  BY <1>1, <1>3, <1>4, <1>5, <1>6, <1>7 DEF HoldInv, Tokens, Holding, server
<1>9. OneExecution'
  BY <1>1, <1>3 DEF HoldInv, Tokens, OneExecution
<1> QED
  BY <1>8, <1>9, QuietClaims DEF HoldInv

\* A dispatch gives out a claim that is newer than all others of its row
\* (ClaimAgentTask, ReclaimStaleDispatched).
LEMMA DispatchKeeps ==
    ASSUME TypeInv, HoldInv, NEW c \in Claims, ~Holding(c), NEW t \in In({"queued", "dispatched"}),
           Dispatch(c, t), UNCHANGED daemon
    PROVE  HoldInv'
<1> DEFINE n == task[t].dispatched_at + 1
<1>0. t \in Rows /\ task[t].status \in {"queued", "dispatched"} /\ task[t].dispatched_at \in Nat
  BY ClaimTypes DEF In
<1>1. /\ task'[t].status = "dispatched" /\ task'[t].dispatched_at = n
      /\ \A u \in Rows \ {t} : task'[u] = task[u]
  BY DispatchMoves
<1>2. /\ held'[c].task = t /\ held'[c].dispatched_at = n
      /\ \A b \in Claims : b # c => held'[b] = held[b] /\ pc'[b] = pc[b]
  BY <1>1 DEF Dispatch, TypeInv, TypeOK
<1>3. hand' = hand /\ n \in Nat
  BY <1>0 DEF daemon
<1>4. \A x : x.task \in Rows /\ x.dispatched_at \in 1..MaxDispatches /\ GivenOut(task, x)
              => /\ GivenOut(task', x)
                 /\ ~(x.task = t /\ x.dispatched_at = n)
  <2> SUFFICES ASSUME NEW x, x.task \in Rows, x.dispatched_at \in 1..MaxDispatches,
                      GivenOut(task, x)
               PROVE  GivenOut(task', x) /\ ~(x.task = t /\ x.dispatched_at = n)
    OBVIOUS
  <2>1. CASE x.task = t
    BY <1>0, <1>1, <2>1 DEF GivenOut
  <2>2. CASE x.task # t
    BY <1>1, <2>2 DEF GivenOut
  <2> QED
    BY <2>1, <2>2
<1>5. GivenOut(task', held'[c])
  BY <1>0, <1>1, <1>2 DEF GivenOut
<1> HIDE DEF n
<1>6. \A d \in hand : GivenOut(task', d) /\ ~Same(held'[c], d)
                      /\ (d.step = "running" => Begun(task'[d.task].status))
  BY <1>0, <1>1, <1>2, <1>4, ClaimTypes DEF HoldInv, Tokens, Same, Begun, Ended
<1>7. \A b \in Claims : b # c /\ Holding(b) => GivenOut(task', held[b]) /\ ~Same(held'[c], held[b])
  BY <1>2, <1>4, ClaimTypes DEF HoldInv, Tokens, Same
<1>8. Tokens'
  <2>1. \A b \in Claims : pc'[b] = "claimed" =>
          GivenOut(task', held'[b]) /\ \A d \in hand : ~Same(held'[b], d)
    BY <1>2, <1>5, <1>6, <1>7 DEF HoldInv, Tokens, Holding
  <2>2. \A a, b \in Claims : pc'[a] = "claimed" /\ pc'[b] = "claimed" /\ Same(held'[a], held'[b])
                                => a = b
    BY <1>2, <1>7 DEF HoldInv, Tokens, Holding, Same
  <2> QED
    BY <1>3, <1>6, <2>1, <2>2 DEF HoldInv, Tokens, Holding
<1>9. Unused(task)'
  BY <1>1 DEF HoldInv, Unused
<1> QED
  BY <1>3, <1>8, <1>9 DEF HoldInv, OneExecution

\* An answer that arrives hands its claim from the poll to a handler (Deliver).
LEMMA DeliverKeeps ==
    ASSUME TypeInv, HoldInv, NEW c \in Claims, Deliver(c)
    PROVE  HoldInv'
<1> DEFINE e == [task |-> held[c].task, dispatched_at |-> held[c].dispatched_at,
                 step |-> "preparing"]
<1>1. Same(e, held[c]) /\ e.step # "running"
  BY DEF Same
<1>2. hand' = hand \cup {e} /\ task' = task /\ Holding(c)
  BY DEF Deliver, Holding
<1> HIDE DEF e
<1>3. \A b \in Claims : pc'[b] = "claimed" => b # c /\ Holding(b) /\ held'[b] = held[b]
  BY DEF Deliver, Answer, TypeInv, TypeOK, Holding
<1>4. Tokens'
  <2>1. \A d \in hand' : GivenOut(task', d) /\ (d.step = "running" => Begun(task'[d.task].status))
    BY <1>1, <1>2 DEF HoldInv, Tokens, GivenOut, Same
  <2>2. \A d, x \in hand' : Same(d, x) => d = x
    BY <1>1, <1>2 DEF HoldInv, Tokens, Same
  <2>3. \A b \in Claims : pc'[b] = "claimed" =>
          GivenOut(task', held'[b]) /\ \A d \in hand' : ~Same(held'[b], d)
    BY <1>1, <1>2, <1>3 DEF HoldInv, Tokens, Same
  <2>4. \A a, b \in Claims : pc'[a] = "claimed" /\ pc'[b] = "claimed" /\ Same(held'[a], held'[b])
                                => a = b
    BY <1>3 DEF HoldInv, Tokens
  <2> QED
    BY <2>1, <2>2, <2>3, <2>4 DEF Tokens, Holding
<1>5. OneExecution'
  BY <1>1, <1>2 DEF HoldInv, OneExecution
<1> QED
  BY <1>2, <1>4, <1>5 DEF HoldInv

\* A requeue takes back exactly the claim of the poll, which nobody else has
\* (RequeueAgentTaskAfterClaimFailure).
LEMMA RequeueKeeps ==
    ASSUME TypeInv, HoldInv, NEW c \in Claims, RequeueAfterClaimFailure(c)
    PROVE  HoldInv'
<1> DEFINE t == held[c].task
           mine == task[t].status = "dispatched" /\ task[t].dispatched_at = held[c].dispatched_at
<1>0. Holding(c) /\ t \in Rows /\ held[c].dispatched_at \in 1..MaxDispatches
  BY ClaimTypes DEF RequeueAfterClaimFailure, Holding
<1>1. \A b \in Claims : pc'[b] = "claimed" => b # c /\ Holding(b) /\ held'[b] = held[b]
  BY DEF RequeueAfterClaimFailure, Answer, TypeInv, TypeOK, Holding
<1>2. hand' = hand
  BY DEF RequeueAfterClaimFailure, daemon
<1>3. CASE ~mine
  <2>1. task' = task
    BY <1>3 DEF RequeueAfterClaimFailure
  <2> QED
    BY <1>1, <1>2, <2>1, DropKeeps DEF Quiet, Holding
<1>4. CASE mine
  <2>1. /\ task'[t].status = "queued" /\ task'[t].dispatched_at = task[t].dispatched_at
        /\ \A u \in Rows \ {t} : task'[u] = task[u]
    BY <1>0, <1>4 DEF RequeueAfterClaimFailure, Become, TypeInv, TypeOK, Row
  <2>2. \A x : x.task \in Rows /\ GivenOut(task, x) /\ ~Same(x, held[c]) => GivenOut(task', x)
    <3> SUFFICES ASSUME NEW x, x.task \in Rows, GivenOut(task, x), ~Same(x, held[c])
                 PROVE  GivenOut(task', x)
      OBVIOUS
    <3>1. CASE x.task = t
      BY <1>4, <2>1, <3>1 DEF GivenOut, Same
    <3>2. CASE x.task # t
      BY <2>1, <3>2 DEF GivenOut
    <3> QED
      BY <3>1, <3>2
  <2>3. \A d \in hand : GivenOut(task', d) /\ (d.step = "running" => Begun(task'[d.task].status))
    BY <1>0, <1>4, <2>1, <2>2, ClaimTypes DEF HoldInv, Tokens, Same, Begun, Ended
  <2>4. \A b \in Claims : b # c /\ Holding(b) => GivenOut(task', held[b])
    BY <1>0, <2>2, ClaimTypes DEF HoldInv, Tokens, Same
  <2>5. Tokens'
    BY <1>1, <1>2, <2>3, <2>4 DEF HoldInv, Tokens, Holding
  <2>6. Unused(task)'
    BY <1>0, <2>1 DEF HoldInv, Unused
  <2> QED
    BY <1>2, <2>5, <2>6 DEF HoldInv, OneExecution
<1> QED
  BY <1>3, <1>4

\* Every other step only drops polls, or lets one handler go on.
LEMMA QuietStep ==
    ASSUME TypeInv, TableInv, HoldInv, [Next]_vars, ~HandsOut,
           ~\E c \in Claims : Deliver(c)
    PROVE  HoldInv'
<1>1. Quiet(task, task')
  BY StepTable, AddedQuiet DEF HoldInv
<1> DEFINE dropped ==
      /\ hand' \subseteq hand
      /\ \A c \in Claims : pc'[c] = "claimed" => pc[c] = "claimed" /\ held'[c] = held[c]
<1>2. dropped => HoldInv'
  BY <1>1, DropKeeps
<1>3. CASE User \/ Sweep \/ UNCHANGED vars
  <2>1. hand' = hand /\ UNCHANGED server
    BY <1>3 DEF User, Enqueue, RerunIssue, CancelTask, SetCapacity, Sweep, RecoverOrphans,
                RuntimeOffline, DispatchTimeout, ExpireStaleQueued, MaybeRetryFailedTask, daemon, vars
  <2> QED
    BY <1>2, <2>1 DEF server
<1>4. ASSUME NEW c \in Claims, Poll(c) PROVE dropped
  <2>1. CASE PromoteDueDeferred(c) \/ LockAgent(c)
    BY <2>1 DEF PromoteDueDeferred, LockAgent, Answer, daemon, TypeInv, TypeOK
  <2>2. CASE AnswerLost(c)
    BY <2>2 DEF AnswerLost, Answer, daemon, TypeInv, TypeOK
  <2> QED
    BY <1>4, <2>1, <2>2 DEF Poll, HandsOut
<1>5. ASSUME NEW d \in hand, Handle(d) PROVE HoldInv'
  <2>1. ASSUME NEW s, s # "running", Step(d, s), UNCHANGED server PROVE HoldInv'
    BY <1>1, <2>1, StepKeeps
  <2>2. CASE StartTask(d)
    <3>1. task[d.task].status \notin {"dispatched", "waiting_local_directory"} => HoldInv'
      BY <2>1, <2>2 DEF StartTask
    <3>2. task[d.task].status \in {"dispatched", "waiting_local_directory"} =>
            ~Begun(task[d.task].status) /\ Begun(task'[d.task].status)
      <4>1. d.task \in Rows /\ task[d.task] \in Row /\ task \in [Rows -> Row]
        BY ClaimTypes DEF TypeInv, TypeOK
      <4> QED
        BY <2>2, <4>1 DEF StartTask, Become, Begun, Ended, Row
    <3> QED
      BY <1>1, <2>2, <3>1, <3>2, StepKeeps DEF StartTask
  <2>3. CASE HandlerEnds(d)
    <3>1. \E s \in Outcomes : Step(d, s)
      BY <2>3 DEF HandlerEnds, Outcomes
    <3>2. \A s \in Outcomes : s # "running"
      BY DEF Outcomes, Reasons
    <3> QED
      BY <2>1, <2>3, <3>1, <3>2 DEF HandlerEnds
  <2>4. CASE MarkWaitingLocalDirectory(d) \/ NoticeEnded(d) \/ CompleteTask(d) \/ FailTask(d) \/ GiveUp(d)
    <3>1. hand' \subseteq hand /\ UNCHANGED server
      BY <2>4 DEF MarkWaitingLocalDirectory, NoticeEnded, CompleteTask, FailTask, GiveUp, Reported,
                  daemon
    <3> QED
      BY <1>2, <3>1 DEF server
  <2> QED
    BY <1>5, <2>2, <2>3, <2>4 DEF Handle
<1>6. CASE DaemonDies \/ ServerDies
  BY <1>2, <1>6 DEF DaemonDies, ServerDies, DropPolls, daemon
<1> QED
  BY <1>2, <1>3, <1>4, <1>5, <1>6 DEF Next

\* Every step keeps the invariant of the claims.
LEMMA HoldStep ==
    ASSUME TypeInv, TableInv, HoldInv, [Next]_vars
    PROVE  HoldInv'
<1>1. ASSUME NEW c \in Claims, ReclaimStaleDispatched(c) PROVE HoldInv'
  BY <1>1, DispatchKeeps DEF ReclaimStaleDispatched, Holding, In
<1>2. ASSUME NEW c \in Claims, ClaimAgentTask(c) PROVE HoldInv'
  <2>1. CASE \E t \in Claimable : Dispatch(c, t)
    BY <1>2, <2>1, DispatchKeeps DEF ClaimAgentTask, Claimable, Holding, In
  <2>2. CASE Answer(c) /\ UNCHANGED task
    BY <1>2, <2>2, DropKeeps, QuietRows DEF ClaimAgentTask, Answer, Quiet, daemon, TypeInv, TypeOK
  <2> QED
    BY <1>2, <2>1, <2>2 DEF ClaimAgentTask
<1>3. ASSUME NEW c \in Claims, RequeueAfterClaimFailure(c) PROVE HoldInv'
  BY <1>3, RequeueKeeps
<1>4. ASSUME NEW c \in Claims, Deliver(c) PROVE HoldInv'
  BY <1>4, DeliverKeeps
<1> QED
  BY <1>1, <1>2, <1>3, <1>4, QuietStep DEF HandsOut

\* The invariant of the claims holds throughout.
LEMMA HoldHolds == Spec => []HoldInv
<1>1. Init => HoldInv
  BY DEF Init, HoldInv, Unused, Tokens, OneExecution, Holding
<1>2. TypeInv /\ TableInv /\ HoldInv /\ [Next]_vars => HoldInv'
  BY HoldStep
<1>3. Inv => TypeInv
  BY DEF Inv
<1> QED
  BY <1>1, <1>2, <1>3, Invariant, TableHolds, PTL DEF Spec

\* No requeue, however late, takes a task from the daemon that holds its newest
\* claim or executes it (RequeueAgentTaskAfterClaimFailure).
THEOREM HolderKeeps == Spec => []HolderKeepsTask
<1>1. HoldInv => HolderKeepsTask
  BY DEF HoldInv, Tokens, GivenOut, Begun, Ended, HolderKeepsTask
<1> QED
  BY <1>1, HoldHolds, PTL

\* However often a task is given out, one handler executes it (StartAgentTask).
THEOREM ExecutedOnce == Spec => []OneExecution
<1>1. HoldInv => OneExecution
  BY DEF HoldInv
<1> QED
  BY <1>1, HoldHolds, PTL

-----------------------------------------------------------------------------
(* The contract with the users                                             *)

Stage(t) == StageOf[task[t].status]

\* Which statuses go with which stage.
LEMMA StageLookup ==
    \A s \in Statuses :
        /\ (StageOf[s] = "none") <=> (s = "absent")
        /\ (StageOf[s] = "waiting") <=> (s \in {"deferred", "queued"})
        /\ (StageOf[s] = "given") <=> (s \in {"dispatched", "waiting_local_directory"})
        /\ (StageOf[s] = "started") <=> (s = "running")
        /\ s \in Ended => StageOf[s] = s
        /\ StageOf[s] \in {"none", "waiting", "given", "started", "completed", "failed", "cancelled"}
BY DEF StageOf, Statuses, Active, Ended

\* The stages of the rows, in a state and in the next.
LEMMA StageTypes ==
    ASSUME TypeInv, TypeInv'
    PROVE  \A t \in Rows : /\ task[t] \in Row /\ task'[t] \in Row
                           /\ task[t].status \in Statuses /\ task'[t].status \in Statuses
                           /\ Stage(t)' \in Contract!Stages
BY StageLookup DEF TypeInv, TypeOK, Row, Stage, Contract!Stages, Contract!Ends

\* What the contract calls at work are the active rows.
LEMMA AtWorkIsActive == TypeInv => Contract!AtWork = ActiveTasks
BY StageLookup DEF TypeInv, TypeOK, Row, Contract!AtWork, ActiveTasks, In, Active

\* The row of a statement that may end it, with status st.
MayEnd(t, st) ==
    /\ task[t].status \in {"deferred", "queued"} \cup Active
    /\ st = "completed" => task[t].status = "running"

\* A step that only ends rows, or leaves them at their stage.
LEMMA EndsOnly ==
    ASSUME TypeInv, TypeInv', capacity' = capacity,
           \A t \in Rows :
               /\ task'[t].issue = task[t].issue /\ task'[t].parent = task[t].parent
               /\ \/ Stage(t)' = Stage(t)
                  \/ task'[t].status \in Ended /\ MayEnd(t, task'[t].status)
    PROVE  Contract!End
<1>1. \A t \in Rows : Stage(t)' # Stage(t) =>
        /\ Stage(t) \in {"waiting", "given", "started"}
        /\ Stage(t)' \in {"completed", "failed", "cancelled"}
        /\ Stage(t)' = "completed" => Stage(t) = "started"
  <2> SUFFICES ASSUME NEW t \in Rows, Stage(t)' # Stage(t)
               PROVE  /\ Stage(t) \in {"waiting", "given", "started"}
                      /\ Stage(t)' \in {"completed", "failed", "cancelled"}
                      /\ Stage(t)' = "completed" => Stage(t) = "started"
    OBVIOUS
  <2>1. task'[t].status \in Ended /\ MayEnd(t, task'[t].status)
    OBVIOUS
  <2>2. Stage(t)' = task'[t].status
    BY <2>1, StageLookup, StageTypes DEF Stage
  <2> QED
    BY <2>1, <2>2, StageLookup, StageTypes DEF Stage, MayEnd, Active, Ended
<1>2. /\ [t \in Rows |-> Stage(t)]' \in [Rows -> Contract!Stages]
      /\ [t \in Rows |-> task[t].issue]' = [t \in Rows |-> task[t].issue]
      /\ [t \in Rows |-> task[t].parent]' = [t \in Rows |-> task[t].parent]
  BY StageTypes
<1> QED
  BY <1>1, <1>2 DEF Contract!End, Contract!Open, Contract!Ends, Stage

\* A statement that ends the rows of a set, or moves them within their stage.
LEMMA BecomeEnds ==
    ASSUME TypeInv, TypeInv', capacity' = capacity, NEW S, NEW st, task' = Become(task, S, st),
           \A t \in S \cap Rows : \/ st \in Ended /\ MayEnd(t, st)
                                  \/ StageOf[st] = Stage(t)
    PROVE  Contract!End
<1>1. \A t \in Rows : /\ task'[t].issue = task[t].issue /\ task'[t].parent = task[t].parent
                      /\ t \in S => task'[t].status = st
                      /\ t \notin S => task'[t].status = task[t].status
  BY DEF Become, TypeInv, TypeOK, Row
<1>2. \A t \in Rows : \/ Stage(t)' = Stage(t)
                      \/ task'[t].status \in Ended /\ MayEnd(t, task'[t].status)
  BY <1>1 DEF Stage
<1> QED
  BY <1>1, <1>2, EndsOnly

\* A step that changes no row ends none.
LEMMA TableUnchanged ==
    ASSUME TypeInv, TypeInv', UNCHANGED <<task, capacity>>
    PROVE  Contract!End
BY EndsOnly DEF Stage

\* A user's task joins, perhaps in place of what is open on its issue (Enqueue,
\* RerunIssue).
LEMMA JoinsAsSubmitted ==
    ASSUME TypeInv, TypeInv', capacity' = capacity, NEW tab \in [Rows -> Row], NEW f \in Rows,
           NEW new \in Row, RowAdded(tab, f, new), NEW i \in Issues, new.issue = i, new.parent = 0,
           \A u \in Rows : /\ tab[u].issue = task[u].issue /\ tab[u].parent = task[u].parent
                           /\ \/ tab[u].status = task[u].status
                              \/ /\ tab[u].status = "cancelled" /\ task[u].issue = i
                                 /\ task[u].status \in {"deferred", "queued"} \cup Active
    PROVE  Contract!Submit(f, i)
<1>1. /\ task'[f] = new /\ \A u \in Rows : u # f => task'[u] = tab[u]
      /\ new.status \in {"queued", "deferred"} /\ tab[f].status = "absent" /\ Moves(task, tab)
  BY DEF RowAdded
<1>2. task[f].status = "absent"
  BY <1>1
<1>3. Stage(f) = "none" /\ Stage(f)' = "waiting"
  BY <1>1, <1>2, StageLookup, StageTypes DEF Stage
<1>4. \A u \in Rows \ {f} : Stage(u)' # Stage(u) =>
        /\ Stage(u) \in {"waiting", "given", "started"} /\ task[u].issue = i
        /\ Stage(u)' = "cancelled"
  <2> SUFFICES ASSUME NEW u \in Rows \ {f}, Stage(u)' # Stage(u)
               PROVE  /\ Stage(u) \in {"waiting", "given", "started"} /\ task[u].issue = i
                      /\ Stage(u)' = "cancelled"
    OBVIOUS
  <2>1. task'[u].status = "cancelled" /\ task[u].issue = i
        /\ task[u].status \in {"deferred", "queued"} \cup Active
    BY <1>1 DEF Stage
  <2> QED
    BY <2>1, StageLookup, StageTypes DEF Stage, Active, Ended
<1>5. /\ [t \in Rows |-> Stage(t)]' \in [Rows -> Contract!Stages]
      /\ [t \in Rows |-> task[t].issue]' = [[t \in Rows |-> task[t].issue] EXCEPT ![f] = i]
      /\ [t \in Rows |-> task[t].parent]' = [[t \in Rows |-> task[t].parent] EXCEPT ![f] = 0]
  BY <1>1, StageTypes
<1> QED
  BY <1>3, <1>4, <1>5 DEF Contract!Submit, Contract!Added, Contract!Open, Stage

\* A retry joins when its parent has failed (FailTask, HandleFailedTasks).
LEMMA JoinsAsRetry ==
    ASSUME TypeInv, TypeInv', capacity' = capacity, NEW tab \in [Rows -> Row], NEW f \in Rows,
           NEW new \in Row, RowAdded(tab, f, new), NEW t \in Rows, new.issue = task[t].issue,
           new.parent = t, Unretried(tab, t), task[t].status \in Active \cup {"failed"},
           \A u \in Rows : /\ tab[u].issue = task[u].issue /\ tab[u].parent = task[u].parent
                           /\ u # t => tab[u] = task[u]
    PROVE  Contract!Retry(f, t) /\ t \in Contract!Untried
<1>1. /\ task'[f] = new /\ \A u \in Rows : u # f => task'[u] = tab[u]
      /\ new.status \in {"queued", "deferred"} /\ tab[f].status = "absent"
      /\ tab[t].status = "failed" /\ \A u \in Rows : task[u].parent # t
  BY DEF RowAdded, Unretried
<1>2. t # f /\ task[f].status = "absent"
  BY <1>1
<1>3. Stage(f) = "none" /\ Stage(f)' = "waiting"
  BY <1>1, <1>2, StageLookup, StageTypes DEF Stage
<1>4. Stage(t) \in {"given", "started", "failed"} /\ Stage(t)' = "failed"
  <2>1. task'[t].status = "failed"
    BY <1>1, <1>2
  <2> QED
    BY <2>1, StageLookup, StageTypes DEF Stage, Active, Ended
<1>5. \A u \in Rows \ {f, t} : Stage(u)' = Stage(u)
  BY <1>1 DEF Stage
<1>6. /\ [u \in Rows |-> Stage(u)]' \in [Rows -> Contract!Stages]
      /\ [u \in Rows |-> task[u].issue]' = [[u \in Rows |-> task[u].issue] EXCEPT ![f] = task[t].issue]
      /\ [u \in Rows |-> task[u].parent]' = [[u \in Rows |-> task[u].parent] EXCEPT ![f] = t]
  BY <1>1, StageTypes
<1>7. t \in Contract!Untried
  BY <1>1, <1>4 DEF Contract!Untried, Stage
<1> QED
  BY <1>3, <1>4, <1>5, <1>6, <1>7 DEF Contract!Retry, Contract!Added, Stage

\* One row moves to another stage, and nothing else changes.
LEMMA OneMoves ==
    ASSUME TypeInv, TypeInv', capacity' = capacity, NEW t \in Rows, NEW from, NEW to,
           Stage(t) = from, Stage(t)' = to,
           \A u \in Rows : /\ task'[u].issue = task[u].issue /\ task'[u].parent = task[u].parent
                           /\ u # t => Stage(u)' = Stage(u)
    PROVE  /\ Contract!Move(t, from, to)
           /\ UNCHANGED <<[u \in Rows |-> task[u].issue], [u \in Rows |-> task[u].parent], capacity>>
<1>1. [u \in Rows |-> Stage(u)]' = [[u \in Rows |-> Stage(u)] EXCEPT ![t] = to]
  OBVIOUS
<1> QED
  BY <1>1 DEF Contract!Move, Stage

\* The commands of users: new work, an end, another limit.
LEMMA UserStep ==
    ASSUME TypeInv, TypeInv', TableInv, User
    PROVE  Contract!Next
<1>0. task \in [Rows -> Row] /\ Moves(task, task) /\ Quiet(task, task)
  BY DEF TypeInv, TypeOK, Moves, Quiet
<1>1. ASSUME NEW i \in Issues, Enqueue(i) PROVE Contract!Next
  <2>1. PICK f \in Rows, new \in Row : RowAdded(task, f, new) /\ new.issue = i /\ new.parent = 0
    BY <1>0, <1>1, RootAdded DEF Enqueue
  <2>2. Contract!Submit(f, i)
    BY <1>0, <1>1, <2>1, JoinsAsSubmitted DEF Enqueue
  <2> QED
    BY <2>2 DEF Contract!Next
<1>2. ASSUME NEW i \in Issues, RerunIssue(i) PROVE Contract!Next
  <2> DEFINE S == {t \in In({"deferred", "queued"} \cup Active) : task[t].issue = i}
             tab == Become(task, S, "cancelled")
  <2>1. tab \in [Rows -> Row]
    BY <1>0, BecomeType DEF Statuses, Ended
  <2>2. Moves(task, tab) /\ Quiet(task, tab)
    BY <1>0, BecomeMoves, BecomeQuiet DEF In, Ended
  <2>3. task' = NewTask(tab, i) /\ MayEnqueue /\ owed' = owed /\ capacity' = capacity
    BY <1>2 DEF RerunIssue
  <2>4. \A u \in Rows : /\ tab[u].issue = task[u].issue /\ tab[u].parent = task[u].parent
                        /\ \/ tab[u].status = task[u].status
                           \/ /\ tab[u].status = "cancelled" /\ task[u].issue = i
                              /\ task[u].status \in {"deferred", "queued"} \cup Active
    BY <1>0 DEF Become, Row, In
  <2> HIDE DEF tab
  <2>5. PICK f \in Rows, new \in Row : RowAdded(tab, f, new) /\ new.issue = i /\ new.parent = 0
    BY <2>1, <2>2, <2>3, RootAdded
  <2>6. Contract!Submit(f, i)
    BY <2>1, <2>3, <2>4, <2>5, JoinsAsSubmitted
  <2> QED
    BY <2>6 DEF Contract!Next
<1>3. ASSUME NEW t \in Rows, CancelTask(t) PROVE Contract!Next
  <2>1. Contract!End
    BY <1>3, BecomeEnds DEF CancelTask, MayEnd, Ended
  <2> QED
    BY <2>1 DEF Contract!Next
<1>4. ASSUME NEW n \in Capacities, SetCapacity(n) PROVE Contract!Next
  BY <1>4 DEF SetCapacity, Contract!Next, Contract!SetLimit
<1> QED
  BY <1>1, <1>2, <1>3, <1>4 DEF User

\* A poll takes a task within the limit, gives it back, or changes no stage.
LEMMA PollStep ==
    ASSUME Inv, TypeInv', NEW c \in Claims, Poll(c)
    PROVE  Contract!Next
<1> USE DEF Inv
<1>0. task \in [Rows -> Row] /\ pc \in [Claims -> {"idle", "promoted", "locked", "claimed"}]
  BY DEF TypeInv, TypeOK
<1>1. CASE PromoteDueDeferred(c)
  <2>1. \A t \in In({"deferred"}) : t \in Rows /\ StageOf["queued"] = Stage(t)
    BY <1>0, StageLookup DEF In, Stage, Statuses
  <2>2. Contract!End
    BY <1>1, <2>1, BecomeEnds DEF PromoteDueDeferred
  <2> QED
    BY <2>2 DEF Contract!Next
<1>2. ASSUME NEW t \in In({"queued", "dispatched"}), Dispatch(c, t)
      PROVE  /\ t \in Rows /\ Stage(t)' = "given"
             /\ \A u \in Rows : /\ task'[u].issue = task[u].issue /\ task'[u].parent = task[u].parent
                                /\ u # t => Stage(u)' = Stage(u)
  <2>1. t \in Rows /\ task[t] \in Row
    BY <1>0 DEF In
  <2>2. task'[t].status = "dispatched" /\ \A u \in Rows \ {t} : task'[u] = task[u]
    BY <1>2, DispatchMoves
  <2>3. task'[t].issue = task[t].issue /\ task'[t].parent = task[t].parent
    BY <1>0, <1>2, <2>1 DEF Dispatch, Row
  <2> QED
    BY <2>1, <2>2, <2>3, StageLookup, StageTypes DEF Stage
<1>3. CASE ReclaimStaleDispatched(c)
  <2>1. PICK t \in In({"dispatched"}) : Dispatch(c, t)
    BY <1>3 DEF ReclaimStaleDispatched
  <2>2. t \in In({"queued", "dispatched"}) /\ t \in Rows /\ task[t].status = "dispatched"
    BY DEF In
  <2>3. Stage(t) = "given"
    BY <2>2, StageLookup, StageTypes DEF Stage
  <2>4. \A u \in Rows : /\ task'[u].issue = task[u].issue /\ task'[u].parent = task[u].parent
                        /\ Stage(u)' = Stage(u)
    BY <1>2, <2>1, <2>2, <2>3
  <2>5. Contract!End
    BY <1>3, <2>4, EndsOnly DEF ReclaimStaleDispatched
  <2> QED
    BY <2>5 DEF Contract!Next
<1>4. CASE ClaimAgentTask(c)
  <2>1. CASE UNCHANGED task
    BY <1>4, <2>1, TableUnchanged DEF ClaimAgentTask, Contract!Next
  <2>2. ASSUME NEW t \in Claimable, Dispatch(c, t) PROVE Contract!Next
    <3>1. t \in In({"queued", "dispatched"}) /\ t \in Rows /\ task[t].status = "queued"
          /\ \A u \in ActiveTasks : u \in Rows /\ task[u].issue # task[t].issue
      BY DEF Claimable, In, ActiveTasks
    <3>2. Stage(t) = "waiting"
      BY <3>1, StageLookup, StageTypes DEF Stage
    <3>3. Contract!Move(t, "waiting", "given")
          /\ UNCHANGED <<[u \in Rows |-> task[u].issue], [u \in Rows |-> task[u].parent], capacity>>
      BY <1>2, <1>4, <2>2, <3>1, <3>2, OneMoves DEF ClaimAgentTask
    <3>4. Cardinality(ActiveTasks) < capacity
      BY <1>4 DEF ClaimAgentTask, SlotKept
    <3>5. Contract!AtWork = ActiveTasks /\ Contract!Cardinality(ActiveTasks) = Cardinality(ActiveTasks)
      BY AtWorkIsActive DEF Contract!Cardinality, Cardinality
    <3>6. \A u \in Contract!AtWork : [r \in Rows |-> task[r].issue][u] # [r \in Rows |-> task[r].issue][t]
      BY <3>1, <3>5
    <3>7. Contract!GiveOut(t)
      BY <3>3, <3>4, <3>5, <3>6 DEF Contract!GiveOut
    <3> QED
      BY <3>1, <3>7 DEF Contract!Next
  <2> QED
    BY <1>4, <2>1, <2>2 DEF ClaimAgentTask
<1>5. CASE RequeueAfterClaimFailure(c)
  <2>0. PICK t \in Rows : t = held[c].task
    BY <1>5, ClaimTypes DEF RequeueAfterClaimFailure, Holding
  <2> DEFINE mine == task[t].status = "dispatched" /\ task[t].dispatched_at = held[c].dispatched_at
  <2>1. capacity' = capacity /\ task' = IF mine THEN Become(task, {t}, "queued") ELSE task
    BY <1>5, <2>0 DEF RequeueAfterClaimFailure
  <2>2. CASE ~mine
    BY <2>1, <2>2, TableUnchanged DEF Contract!Next
  <2>3. CASE mine
    <3>1. /\ task'[t].status = "queued"
          /\ \A u \in Rows : /\ task'[u].issue = task[u].issue /\ task'[u].parent = task[u].parent
                             /\ u # t => task'[u] = task[u]
      BY <1>0, <2>1, <2>3 DEF Become, Row
    <3>a. task[t].status = "dispatched" /\ {"dispatched", "queued"} \subseteq Statuses
      BY <2>3 DEF Statuses, Active
    <3>2. Stage(t) = "given" /\ Stage(t)' = "waiting"
      BY <3>1, <3>a, StageLookup DEF Stage
    <3>3. \A u \in Rows : u # t => Stage(u)' = Stage(u)
      BY <3>1 DEF Stage
    <3>4. Contract!TakeBack(t)
      BY <2>1, <3>1, <3>2, <3>3, OneMoves DEF Contract!TakeBack
    <3> QED
      BY <3>4 DEF Contract!Next
  <2> QED
    BY <2>2, <2>3
<1>6. CASE LockAgent(c) \/ Deliver(c) \/ AnswerLost(c)
  BY <1>6, TableUnchanged DEF LockAgent, Deliver, AnswerLost, Contract!Next
<1> QED
  BY <1>1, <1>3, <1>4, <1>5, <1>6 DEF Poll

\* What the daemon reports starts a task, ends it, or has it tried again.
LEMMA HandleStep ==
    ASSUME TypeInv, TypeInv', TableInv, NEW d \in hand, Handle(d)
    PROVE  Contract!Next
<1> DEFINE t == d.task
<1>0. t \in Rows /\ task \in [Rows -> Row]
  BY ClaimTypes DEF TypeInv, TypeOK
<1>1. CASE StartTask(d)
  <2>1. CASE task[t].status \in {"dispatched", "waiting_local_directory"}
    <3>1. /\ task'[t].status = "running"
          /\ \A u \in Rows : /\ task'[u].issue = task[u].issue /\ task'[u].parent = task[u].parent
                             /\ u # t => task'[u] = task[u]
      BY <1>0, <1>1, <2>1 DEF StartTask, Become, Row
    <3>2. Stage(t) = "given" /\ Stage(t)' = "started"
      BY <1>0, <2>1, <3>1, StageLookup, StageTypes DEF Stage
    <3>3. \A u \in Rows : u # t => Stage(u)' = Stage(u)
      BY <3>1 DEF Stage
    <3>4. Contract!Start(t)
      BY <1>0, <1>1, <3>1, <3>2, <3>3, OneMoves DEF StartTask, Contract!Start
    <3> QED
      BY <1>0, <3>4 DEF Contract!Next
  <2>2. CASE task[t].status \notin {"dispatched", "waiting_local_directory"}
    BY <1>1, <2>2, TableUnchanged DEF StartTask, Contract!Next
  <2> QED
    BY <2>1, <2>2
<1>2. CASE MarkWaitingLocalDirectory(d)
  <2>1. StageOf["waiting_local_directory"] = Stage(t)
    BY <1>0, <1>2, StageLookup DEF MarkWaitingLocalDirectory, Stage, Statuses, Active
  <2>2. Contract!End
    BY <1>2, <2>1, BecomeEnds DEF MarkWaitingLocalDirectory
  <2> QED
    BY <2>2 DEF Contract!Next
<1>3. CASE CompleteTask(d)
  <2>1. CASE task[t].status = "running"
    <3>1. Contract!End
      BY <1>3, <2>1, BecomeEnds DEF CompleteTask, Reported, MayEnd, Active, Ended
    <3> QED
      BY <3>1 DEF Contract!Next
  <2>2. CASE task[t].status # "running"
    BY <1>3, <2>2, TableUnchanged DEF CompleteTask, Reported, Contract!Next
  <2> QED
    BY <2>1, <2>2
<1>4. CASE FailTask(d)
  <2>0. d.step \in Reasons /\ capacity' = capacity /\ owed' = owed
    BY <1>4 DEF FailTask, Reported
  <2>1. CASE task[t].status \notin Active
    BY <1>4, <2>0, <2>1, TableUnchanged DEF FailTask, Contract!Next
  <2>2. CASE task[t].status \in Active
    <3> DEFINE failed == Become(task, {t}, "failed")
               retried == retryEligible(d.step, t)
    <3>1. task' = IF retried THEN CreateRetryTask(failed, d.step, t) ELSE failed
      BY <1>4, <2>2 DEF FailTask, FailAndRetry
    <3>2. CASE ~retried
      <4>1. Contract!End
        BY <2>0, <2>2, <3>1, <3>2, BecomeEnds DEF MayEnd, Ended
      <4> QED
        BY <4>1 DEF Contract!Next
    <3>3. CASE retried
      <4>1. failed \in [Rows -> Row]
        BY <1>0, BecomeType DEF Statuses, Ended
      <4>2. Moves(task, failed) /\ Quiet(task, failed)
        BY <1>0, <2>2, BecomeMoves, BecomeQuiet DEF Ended
      <4>3. /\ failed[t].issue = task[t].issue /\ failed[t].max_attempts = task[t].max_attempts
            /\ failed[t].status = "failed"
            /\ \A u \in Rows : /\ failed[u].issue = task[u].issue /\ failed[u].parent = task[u].parent
                               /\ u # t => failed[u] = task[u]
        BY <1>0 DEF Become, Row
      <4>4. Unretried(failed, t) /\ owed' \subseteq owed \ {t}
        BY <1>0, <2>0, <2>2, <4>3, ActiveUnretried DEF TableInv, OwedFailed, Unretried, Active
      <4> HIDE DEF failed, t
      <4>5. PICK f \in Rows, new \in Row :
              RowAdded(failed, f, new) /\ new.issue = task[t].issue /\ new.parent = t
        BY <1>0, <2>0, <3>1, <3>3, <4>1, <4>2, <4>3, <4>4, RetryAdded
      <4>6. Contract!Retry(f, t) /\ t \in Contract!Untried
        BY <1>0, <2>0, <2>2, <4>1, <4>3, <4>4, <4>5, JoinsAsRetry
      <4> QED
        BY <4>6 DEF Contract!Next
    <3> QED
      BY <3>2, <3>3
  <2> QED
    BY <2>1, <2>2
<1>5. CASE HandlerEnds(d) \/ NoticeEnded(d) \/ GiveUp(d)
  BY <1>5, TableUnchanged DEF HandlerEnds, NoticeEnded, GiveUp, Contract!Next
<1> QED
  BY <1>1, <1>2, <1>3, <1>4, <1>5 DEF Handle

\* The sweepers end tasks, and have them tried again later.
LEMMA SweepStep ==
    ASSUME TypeInv, TypeInv', TableInv, Sweep
    PROVE  Contract!Next
<1>0. task \in [Rows -> Row] /\ Moves(task, task) /\ Quiet(task, task)
  BY DEF TypeInv, TypeOK, Moves, Quiet
<1>1. ASSUME NEW S \in SUBSET ActiveTasks, FailAll(S), capacity' = capacity PROVE Contract!Next
  <2>1. Contract!End
    BY <1>1, BecomeEnds DEF FailAll, ActiveTasks, In, MayEnd, Ended
  <2> QED
    BY <2>1 DEF Contract!Next
<1>2. ASSUME NEW t \in Rows, DispatchTimeout(t) PROVE Contract!Next
  <2>1. {t} \in SUBSET ActiveTasks
    BY <1>2 DEF DispatchTimeout, ActiveTasks, In, Active
  <2> QED
    BY <1>1, <1>2, <2>1 DEF DispatchTimeout
<1>3. ASSUME NEW t \in Rows, ExpireStaleQueued(t) PROVE Contract!Next
  <2>1. Contract!End
    BY <1>3, BecomeEnds DEF ExpireStaleQueued, MayEnd, Ended
  <2> QED
    BY <2>1 DEF Contract!Next
<1>4. ASSUME NEW t \in Rows, MaybeRetryFailedTask(t) PROVE Contract!Next
  <2>1. Unretried(task, t) /\ owed' = owed \ {t} /\ capacity' = capacity /\ "timeout" \in Reasons
    BY <1>4 DEF MaybeRetryFailedTask, TableInv, OwedFailed, Reasons
  <2>2. CASE UNCHANGED task
    BY <2>1, <2>2, TableUnchanged DEF Contract!Next
  <2>3. CASE retryEligible("timeout", t) /\ task' = CreateRetryTask(task, "timeout", t)
    <3>1. PICK f \in Rows, new \in Row :
            RowAdded(task, f, new) /\ new.issue = task[t].issue /\ new.parent = t
      BY <1>0, <2>1, <2>3, RetryAdded
    <3>2. Contract!Retry(f, t) /\ t \in Contract!Untried
      BY <1>0, <2>1, <3>1, JoinsAsRetry DEF Unretried
    <3> QED
      BY <3>2 DEF Contract!Next
  <2> QED
    BY <1>4, <2>2, <2>3 DEF MaybeRetryFailedTask
<1>5. CASE RecoverOrphans \/ RuntimeOffline
  BY <1>1, <1>5 DEF RecoverOrphans, RuntimeOffline
<1> QED
  BY <1>2, <1>3, <1>4, <1>5 DEF Sweep

\* Every step of TaskQueue is one of the contract, or none.
LEMMA StepIsContractStep ==
    ASSUME Inv, TypeInv', TableInv, [Next]_vars
    PROVE  [Contract!Next]_(Contract!vars)
<1>1. CASE UNCHANGED vars
  BY <1>1 DEF vars, Contract!vars
<1>2. CASE DaemonDies \/ ServerDies
  BY <1>2 DEF DaemonDies, ServerDies, Contract!vars
<1> QED
  BY <1>1, <1>2, UserStep, PollStep, HandleStep, SweepStep DEF Next, Inv

\* TaskQueue implements the contract with the users: whatever polls, answers,
\* reports, sweepers and crashes meet, each statement is one step that the users
\* were promised, or none (task.go, agent.sql).
THEOREM ContractImplemented == Spec => ImplementsTaskContract
<1>1. Init => Contract!Init
  <2> SUFFICES ASSUME Init PROVE Contract!Init
    OBVIOUS
  <2>1. \A t \in Rows : task[t].status = "absent" /\ task[t].issue = "none" /\ task[t].parent = 0
    BY DEF Init
  <2>2. \A t \in Rows : StageOf[task[t].status] = "none"
    BY <2>1, StageLookup DEF Statuses
  <2> QED
    BY <2>1, <2>2 DEF Init, Contract!Init
<1>2. Inv /\ Inv' /\ TableInv /\ [Next]_vars => [Contract!Next]_(Contract!vars)
  BY StepIsContractStep DEF Inv
<1> QED
  BY <1>1, <1>2, Invariant, TableHolds, PTL DEF Spec, ImplementsTaskContract, Contract!Spec
=============================================================================
