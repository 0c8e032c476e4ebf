------------------------- MODULE EmptyClaimProofs -------------------------
(***************************************************************************)
(* A trusted verdict never hides an announced task, for any number of      *)
(* tasks, concurrent polls and requeues.                                   *)
(*                                                                         *)
(* The invariant has to look at the polls that are about to write: the     *)
(* verdict in the hand of a poll is as safe as the stored one, and neither *)
(* carries a version from the future.                                      *)
(***************************************************************************)
EXTENDS EmptyClaim, TLAPS

\* No stored or sampled version is ahead of the counter.
NoFutureVersion ==
    /\ \A v \in verdict : v <= version
    /\ \A c \in Claims : seen[c] <= version

\* What a poll holds belongs to the step it is at.
LocalsFit ==
    \A c \in Claims :
        /\ pc[c] # "notify" => own[c] = {}
        /\ pc[c] \notin {"list", "mark"} => seen[c] = 0

Covered == Queued \subseteq Unannounced

\* A verdict that would be trusted, if it were written now, is safe.
HeldVerdictSafe ==
    \A c \in Claims : pc[c] = "mark" /\ seen[c] = version => Covered

Inv ==
    /\ TypeOK
    /\ NoFutureVersion
    /\ LocalsFit
    /\ HeldVerdictSafe
    /\ HidesOnlyUnannounced

USE MaxRequeuesAssumption
-----------------------------------------------------------------------------
(* Types *)

\* Types are preserved by the steps of a poll (ClaimTaskForRuntime).
LEMMA TypePoll ==
    ASSUME TypeOK, NEW c \in Claims, Poll(c) \/ Abort(c)
    PROVE  TypeOK'
<1> USE DEF TypeOK, Goto, Forget, redis, TaskStatuses, Steps
<1>1. CASE BeginClaim(c) BY <1>1 DEF BeginClaim
<1>2. CASE Promote(c)
  <2>1. PICK due \in SUBSET {t \in Tasks : task[t] = "deferred"} :
            /\ Become(due, "queued")
            /\ own' = [own EXCEPT ![c] = due]
            /\ Goto(c, IF due = {} THEN "reclaim" ELSE "notify")
        BY <1>2 DEF Promote
  <2>2. due \in SUBSET Tasks OBVIOUS
  <2> QED BY <1>2, <2>1, <2>2 DEF Promote, Become
<1>3. CASE NotifyPromoted(c)
  <2>1. PICK t \in own[c] :
            /\ own' = [own EXCEPT ![c] = @ \ {t}]
            /\ \/ Bump /\ UNCHANGED missed
               \/ missed' = missed \cup (Queued \cap {t}) /\ UNCHANGED redis
            /\ Goto(c, IF own[c] = {t} THEN "reclaim" ELSE "notify")
        BY <1>3 DEF NotifyPromoted
  <2>2. t \in Tasks OBVIOUS
  <2>3. own' \in [Claims -> SUBSET Tasks] /\ pc' \in [Claims -> Steps] BY <2>1
  <2>4. UNCHANGED <<task, owed, seen, requeues>> BY <1>3 DEF NotifyPromoted
  <2>5. missed' \subseteq Tasks BY <2>1, <2>2 DEF Bump, Queued
  <2>6. version' \in {version, version + 1} /\ verdict' = verdict BY <2>1 DEF Bump
  <2> QED BY <2>3, <2>4, <2>5, <2>6
<1>4. CASE Reclaim(c) BY <1>4 DEF Reclaim
<1>5. CASE Check(c) BY <1>5 DEF Check
<1>6. CASE CheckFails(c) BY <1>6 DEF CheckFails
<1>7. CASE Sample(c) BY <1>7 DEF Sample
<1>8. CASE List(c) BY <1>8 DEF List
<1>9. CASE MarkEmpty(c) BY <1>9 DEF MarkEmpty
<1>10. CASE ClaimTask(c) BY <1>10 DEF ClaimTask, Dispatch, Become, Queued
<1>11. CASE Abort(c) BY <1>11 DEF Abort
<1> QED BY <1>1, <1>2, <1>3, <1>4, <1>5, <1>6, <1>7, <1>8, <1>9, <1>10, <1>11 DEF Poll

\* Types are preserved by every step.
LEMMA TypeStep == TypeOK /\ [Next]_vars => TypeOK'
<1> SUFFICES ASSUME TypeOK, [Next]_vars PROVE TypeOK'
    OBVIOUS
<1> USE DEF TypeOK, redis, polls, TaskStatuses, Steps
<1>1. ASSUME NEW t \in Tasks, Enqueue(t) \/ StartTask(t) \/ Requeue(t) PROVE TypeOK'
  <2>1. CASE Enqueue(t) BY <2>1 DEF Enqueue, Become
  <2>2. CASE StartTask(t) BY <2>2 DEF StartTask, Become
  <2>3. CASE Requeue(t) BY <2>3 DEF Requeue, Become
  <2> QED BY <1>1, <2>1, <2>2, <2>3
<1>2. ASSUME NEW t \in Tasks, Notify(t) \/ NotifyFails(t) PROVE TypeOK'
  <2>1. CASE Notify(t) BY <2>1 DEF Notify, Bump
  <2>2. CASE NotifyFails(t) BY <2>2 DEF NotifyFails, Queued
  <2> QED BY <1>2, <2>1, <2>2
<1>3. CASE VerdictExpires \/ VersionExpires
  <2>1. CASE VerdictExpires BY <2>1 DEF VerdictExpires
  <2>2. CASE VersionExpires BY <2>2 DEF VersionExpires
  <2> QED BY <1>3, <2>1, <2>2
<1>4. CASE UNCHANGED vars BY <1>4 DEF vars
<1> QED BY <1>1, <1>2, <1>3, <1>4, TypePoll DEF Next
-----------------------------------------------------------------------------
(* The verdict *)

\* A row joins the queue with its notification owed or in the hand of a poll,
\* and leaves the set of the unannounced only with a bump or for the missed.
LEMMA RowStep ==
    ASSUME Inv, NEW t \in Tasks,
           \/ Enqueue(t) \/ StartTask(t) \/ Requeue(t) \/ Notify(t) \/ NotifyFails(t)
    PROVE  Inv'
<1>0. TypeOK' BY TypeStep DEF Next, Inv
<1> USE DEF Inv, TypeOK, polls, redis
<1>1. CASE Notify(t)
  <2>1. version' = version + 1 /\ UNCHANGED <<verdict, pc, own, seen>>
        BY <1>1 DEF Notify, Bump
  <2>2. ~IsEmpty' BY <2>1 DEF NoFutureVersion, IsEmpty
  <2>3. \A c \in Claims : seen'[c] # version' BY <2>1 DEF NoFutureVersion
  <2>4. NoFutureVersion' BY <2>1 DEF NoFutureVersion
  <2>5. LocalsFit' BY <2>1 DEF LocalsFit
  <2> QED BY <1>0, <2>2, <2>3, <2>4, <2>5 DEF HeldVerdictSafe, HidesOnlyUnannounced
<1>2. CASE Enqueue(t) \/ StartTask(t) \/ Requeue(t) \/ NotifyFails(t)
  <2>1. UNCHANGED <<version, verdict, pc, own, seen>>
        BY <1>2 DEF Enqueue, StartTask, Requeue, NotifyFails
  <2>2. Covered => Covered'
    <3>1. CASE Enqueue(t) BY <3>1 DEF Enqueue, Become, Covered, Queued, Unannounced
    <3>2. CASE StartTask(t) BY <3>2 DEF StartTask, Become, Covered, Queued, Unannounced
    <3>3. CASE Requeue(t) BY <3>3 DEF Requeue, Become, Covered, Queued, Unannounced
    <3>4. CASE NotifyFails(t) BY <3>4 DEF NotifyFails, Covered, Queued, Unannounced
    <3> QED BY <1>2, <3>1, <3>2, <3>3, <3>4
  <2>3. IsEmpty' = IsEmpty BY <2>1 DEF IsEmpty
  <2>4. NoFutureVersion' /\ LocalsFit' BY <2>1 DEF NoFutureVersion, LocalsFit
  <2> QED BY <1>0, <2>1, <2>2, <2>3, <2>4 DEF HeldVerdictSafe, HidesOnlyUnannounced, Covered
<1> QED BY <1>1, <1>2

\* Keys expire: a verdict that is gone is not trusted, and the version starts
\* again only when nothing remembers the old one.
LEMMA ExpiryStep ==
    ASSUME Inv, VerdictExpires \/ VersionExpires
    PROVE  Inv'
<1>0. TypeOK' BY TypeStep DEF Next, Inv
<1> USE DEF Inv, TypeOK, polls
<1>1. verdict' = {} BY DEF VerdictExpires, VersionExpires
<1>2. UNCHANGED <<task, owed, missed, pc, own, seen>> BY DEF VerdictExpires, VersionExpires
<1>3. ~IsEmpty' BY <1>1 DEF IsEmpty
<1>4. LocalsFit' BY <1>2 DEF LocalsFit
<1>5. NoFutureVersion'
      BY <1>1, <1>2 DEF NoFutureVersion, LocalsFit, VerdictExpires, VersionExpires
<1>6. HeldVerdictSafe'
  <2>1. CASE VerdictExpires
        BY <2>1, <1>2 DEF VerdictExpires, HeldVerdictSafe, Covered, Queued, Unannounced
  <2>2. CASE VersionExpires
        BY <2>2, <1>2 DEF VersionExpires, HeldVerdictSafe
  <2> QED BY <2>1, <2>2
<1> QED BY <1>0, <1>3, <1>4, <1>5, <1>6 DEF HidesOnlyUnannounced

\* The steps of a poll that touch neither rows nor Redis: only the verdict of a
\* poll that has just found the queue empty is new.
LEMMA ReadStep ==
    ASSUME Inv, NEW c \in Claims,
           \/ BeginClaim(c) \/ Reclaim(c) \/ Check(c) \/ CheckFails(c)
           \/ Sample(c) \/ List(c) \/ Abort(c)
    PROVE  Inv'
<1>0. TypeOK' BY TypeStep DEF Next, Poll, Inv
<1> USE DEF Inv, TypeOK, Goto, Forget, redis, Steps
<1>1. UNCHANGED <<task, owed, missed, version, verdict, own>>
      BY DEF BeginClaim, Reclaim, Check, CheckFails, Sample, List, Abort
<1>2. Covered' = Covered /\ IsEmpty' = IsEmpty
      BY <1>1 DEF Covered, Queued, Unannounced, IsEmpty
<1>3. NoFutureVersion'
      BY <1>1 DEF NoFutureVersion, BeginClaim, Reclaim, Check, CheckFails, Sample, List, Abort
<1>4. LocalsFit'
      BY <1>1 DEF LocalsFit, BeginClaim, Reclaim, Check, CheckFails, Sample, List, Abort
<1>5. ASSUME NEW d \in Claims, pc'[d] = "mark", seen'[d] = version' PROVE Covered'
  <2>1. CASE pc[d] = "mark" /\ seen[d] = version BY <2>1, <1>2 DEF HeldVerdictSafe
  <2>2. CASE ~(pc[d] = "mark" /\ seen[d] = version)
    <3>1. List(c) /\ Queued = {}
          BY <2>2, <1>1, <1>5 DEF BeginClaim, Reclaim, Check, CheckFails, Sample, List, Abort
    <3> QED BY <3>1, <1>2 DEF Covered
  <2> QED BY <2>1, <2>2
<1> QED BY <1>0, <1>2, <1>3, <1>4, <1>5 DEF HeldVerdictSafe, HidesOnlyUnannounced, Covered

\* The steps of a poll that write: promoting, notifying, storing the verdict and
\* claiming.
LEMMA WriteStep ==
    ASSUME Inv, NEW c \in Claims,
           \/ Promote(c) \/ NotifyPromoted(c) \/ MarkEmpty(c) \/ ClaimTask(c)
    PROVE  Inv'
<1>0. TypeOK' BY TypeStep DEF Next, Poll, Inv
<1> USE DEF Inv, TypeOK, Goto, Forget, redis, Steps
<1>1. CASE Promote(c)
  <2>1. PICK due \in SUBSET {t \in Tasks : task[t] = "deferred"} :
            /\ Become(due, "queued")
            /\ own' = [own EXCEPT ![c] = due]
            /\ Goto(c, IF due = {} THEN "reclaim" ELSE "notify")
        BY <1>1 DEF Promote
  <2>2. own[c] = {} BY <1>1 DEF Promote, LocalsFit
  <2>3. UNCHANGED <<owed, missed, version, verdict, seen>> BY <1>1 DEF Promote
  <2>4. \A d \in Claims : own[d] \subseteq own'[d] BY <2>1, <2>2
  <2>5. due \subseteq own'[c] BY <2>1
  <2>6. Unannounced \subseteq Unannounced' BY <2>3, <2>4 DEF Unannounced
  <2>7. due \subseteq Unannounced' BY <2>5 DEF Unannounced
  <2>8. Queued' \subseteq Queued \cup due BY <2>1 DEF Queued, Become
  <2>9. Covered => Covered' BY <2>6, <2>7, <2>8 DEF Covered
  <2>10. NoFutureVersion' BY <2>3 DEF NoFutureVersion
  <2>11. LocalsFit' BY <1>1, <2>1, <2>3 DEF LocalsFit, Promote
  <2>12. HeldVerdictSafe' BY <2>1, <2>3, <2>9 DEF HeldVerdictSafe
  <2> QED BY <1>0, <2>3, <2>9, <2>10, <2>11, <2>12 DEF HidesOnlyUnannounced, IsEmpty, Covered
<1>2. CASE NotifyPromoted(c)
  <2>1. PICK t \in own[c] :
            /\ own' = [own EXCEPT ![c] = @ \ {t}]
            /\ \/ Bump /\ UNCHANGED missed
               \/ missed' = missed \cup (Queued \cap {t}) /\ UNCHANGED redis
            /\ Goto(c, IF own[c] = {t} THEN "reclaim" ELSE "notify")
        BY <1>2 DEF NotifyPromoted
  <2>2. UNCHANGED <<task, owed, seen>> /\ pc[c] = "notify" BY <1>2 DEF NotifyPromoted
  <2>3. LocalsFit' BY <2>1, <2>2 DEF LocalsFit
  <2>4. \A d \in Claims : pc'[d] = "mark" => pc[d] = "mark" BY <2>1
  <2>5. CASE Bump
    <3>1. version' = version + 1 /\ UNCHANGED verdict BY <2>5 DEF Bump
    <3>2. ~IsEmpty' BY <3>1 DEF NoFutureVersion, IsEmpty
    <3>3. \A d \in Claims : seen'[d] # version' BY <3>1, <2>2 DEF NoFutureVersion
    <3>4. NoFutureVersion' BY <3>1, <2>2 DEF NoFutureVersion
    <3> QED BY <1>0, <2>3, <3>2, <3>3, <3>4 DEF HeldVerdictSafe, HidesOnlyUnannounced
  <2>6. CASE missed' = missed \cup (Queued \cap {t}) /\ UNCHANGED redis
    <3>1. Covered => Covered' BY <2>1, <2>2, <2>6 DEF Covered, Queued, Unannounced
    <3>2. NoFutureVersion' BY <2>2, <2>6 DEF NoFutureVersion
    <3>3. HeldVerdictSafe' BY <2>2, <2>4, <2>6, <3>1 DEF HeldVerdictSafe
    <3> QED BY <1>0, <2>3, <2>6, <3>1, <3>2, <3>3 DEF HidesOnlyUnannounced, IsEmpty, Covered
  <2> QED BY <2>1, <2>5, <2>6
<1>3. CASE MarkEmpty(c)
  <2>1. UNCHANGED <<task, owed, missed, version, own>> BY <1>3 DEF MarkEmpty
  <2>2. Covered' = Covered BY <2>1 DEF Covered, Queued, Unannounced
  <2>3. IsEmpty' => IsEmpty \/ (pc[c] = "mark" /\ seen[c] = version)
        BY <1>3, <2>1 DEF MarkEmpty, IsEmpty
  <2>4. HidesOnlyUnannounced'
        BY <2>2, <2>3 DEF HidesOnlyUnannounced, HeldVerdictSafe, Covered
  <2>5. NoFutureVersion'
    <3>1. verdict' \subseteq verdict \cup {seen[c]} BY <1>3 DEF MarkEmpty
    <3>2. \A d \in Claims : seen'[d] = seen[d] \/ seen'[d] = 0 BY <1>3 DEF MarkEmpty
    <3> QED BY <2>1, <3>1, <3>2 DEF NoFutureVersion
  <2>6. LocalsFit' BY <1>3, <2>1 DEF MarkEmpty, LocalsFit
  <2>7. HeldVerdictSafe' BY <1>3, <2>1, <2>2 DEF MarkEmpty, HeldVerdictSafe
  <2> QED BY <1>0, <2>4, <2>5, <2>6, <2>7
<1>4. CASE ClaimTask(c)
  <2>1. UNCHANGED <<owed, version, verdict, own, seen>> BY <1>4 DEF ClaimTask
  <2>2. Covered => Covered'
    <3>1. CASE \E t \in Queued : Dispatch(t)
          BY <3>1, <2>1 DEF Dispatch, Become, Covered, Queued, Unannounced
    <3>2. CASE UNCHANGED <<task, missed>>
          BY <3>2, <2>1 DEF Covered, Queued, Unannounced
    <3> QED BY <1>4, <3>1, <3>2 DEF ClaimTask
  <2>3. NoFutureVersion' BY <2>1 DEF NoFutureVersion
  <2>4. LocalsFit' BY <1>4, <2>1 DEF ClaimTask, LocalsFit
  <2>5. HeldVerdictSafe' BY <1>4, <2>1, <2>2 DEF ClaimTask, HeldVerdictSafe
  <2> QED BY <1>0, <2>1, <2>2, <2>3, <2>4, <2>5 DEF HidesOnlyUnannounced, IsEmpty, Covered
<1> QED BY <1>1, <1>2, <1>3, <1>4

\* The strengthened invariant is inductive.
LEMMA InvStep == Inv /\ [Next]_vars => Inv'
<1> SUFFICES ASSUME Inv, [Next]_vars PROVE Inv'
    OBVIOUS
<1>1. CASE UNCHANGED vars
      BY <1>1 DEF vars, redis, polls, Inv, TypeOK, NoFutureVersion, LocalsFit, HeldVerdictSafe,
                  HidesOnlyUnannounced, Covered, Queued, Unannounced, IsEmpty
<1> QED BY <1>1, RowStep, ExpiryStep, ReadStep, WriteStep DEF Next, Poll

\* A trusted verdict hides only tasks whose notification is due or was lost
\* (notifyTaskAvailable, CurrentVersion before the SELECT, MarkEmpty after it).
THEOREM VerdictHonest == Spec => []HidesOnlyUnannounced
<1>1. Init => Inv
      BY DEF Init, Inv, TypeOK, NoFutureVersion, LocalsFit, HeldVerdictSafe,
             HidesOnlyUnannounced, IsEmpty, TaskStatuses, Steps
<1>2. Inv => HidesOnlyUnannounced BY DEF Inv
<1> QED BY <1>1, <1>2, InvStep, PTL DEF Spec
=============================================================================
