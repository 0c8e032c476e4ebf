--------------------------- MODULE SchedulerProofs ---------------------------
(***************************************************************************)
(* What is proved of Scheduler for every set of server instances, every    *)
(* job and every bound: the types, that attempts and outcomes of a plan    *)
(* are kept apart, and that no plan is in two handlers while every process *)
(* keeps running and the handlers of a tick fit in StaleTimeout.           *)
(***************************************************************************)
EXTENDS Scheduler, FiniteSetTheorems, TLAPS

-----------------------------------------------------------------------------
(* Plans and times *)

\* The bucket of a time is a natural number, and later times have no earlier one.
LEMMA FloorPlanType ==
    ASSUME NEW t \in Nat
    PROVE  FloorPlan(t) \in Nat
BY JobAssumption DEF FloorPlan

\* A later time is in the same bucket or a later one (FloorPlan).
LEMMA FloorPlanMonotone ==
    ASSUME NEW s \in Nat, NEW t \in Nat, s <= t
    PROVE  FloorPlan(s) <= FloorPlan(t)
BY JobAssumption DEF FloorPlan

\* The first bucket is a plan.
LEMMA ZeroIsPlan == 0 \in Plans /\ Plans \subseteq Nat
<1>1. FloorPlan(MaxTime) \in Nat
  BY FloorPlanType, SchedulerBounds
<1> QED
  BY <1>1 DEF Plans

\* A tick considers plans only.
LEMMA PlansForTickType ==
    ASSUME NEW t \in ScheduleDelay .. MaxTime
    PROVE  PlansForTick(t) \subseteq Plans
<1>1. t - ScheduleDelay \in Nat /\ t - ScheduleDelay <= MaxTime /\ MaxTime \in Nat
  BY JobAssumption, SchedulerBounds
<1>2. FloorPlan(t - ScheduleDelay) \in Plans
  BY <1>1, FloorPlanType, FloorPlanMonotone DEF Plans
<1> QED
  BY <1>2 DEF PlansForTick

\* A tick that has not begun is a tick.
LEMMA IdleType == Idle \in Ticks
BY ZeroIsPlan, JobAssumption DEF Idle, Ticks

\* Reaching the end of the plans of a tick, or going on with the next one.
LEMMA ProcessNextType ==
    ASSUME NEW tick \in Ticks
    PROVE  /\ ProcessNext(tick) \in Ticks
           /\ ProcessNext(tick).pc \in {"idle", "claim"}
           /\ ProcessNext(tick).pc # "idle" => ProcessNext(tick).t = tick.t
BY IdleType DEF ProcessNext, Ticks, Idle

-----------------------------------------------------------------------------
(* Types *)

\* What TypeOK says of the place of one manager.
TickOK(tick, time) ==
    /\ tick \in Ticks
    /\ tick.pc # "idle" => tick.t \in ScheduleDelay .. time
    /\ tick.pc = "run" => tick.att \in Attempts
RowOK(r) == r \in Rows /\ (r.st = "none" <=> r.att = 0)

\* TypeOK, one row and one instance at a time.
LEMMA TypeOKParts ==
    TypeOK <=> /\ job \in Jobs
               /\ now \in ScheduleDelay .. MaxTime
               /\ row \in [Plans -> Rows]
               /\ \A p \in Plans : RowOK(row[p])
               /\ manager \in [Managers -> Ticks]
               /\ \A m \in Managers : TickOK(manager[m], now)
               /\ paused \subseteq Managers
               /\ succeeded \in [Plans -> SUBSET Attempts]
               /\ pauses \in 0 .. MaxPauses /\ faults \in 0 .. MaxFaults
BY DEF TypeOK, TickOK, RowOK

\* The row that a claim writes: one attempt more, within the limit.
LEMMA ClaimedType ==
    ASSUME TypeOK, NEW t \in Nat, NEW p \in Plans, Claimable(p, t)
    PROVE  /\ Claimed(p, t) \in [Plans -> Rows]
           /\ \A q \in Plans : RowOK(Claimed(p, t)[q])
           /\ Claimed(p, t)[p].att = row[p].att + 1
           /\ row[p].att + 1 \in Attempts
           /\ Claimed(p, t)[p].st = "RUNNING"
           /\ \A q \in Plans \ {p} : Claimed(p, t)[q] = row[q]
<1>1. row[p] \in Rows /\ (row[p].st = "none" <=> row[p].att = 0) /\ row \in [Plans -> Rows]
  BY DEF TypeOK
<1>2. row[p].att \in Nat /\ MaxAttempts \in Nat \ {0}
  BY <1>1, JobAssumption DEF Rows
<1>3. row[p].att < MaxAttempts
  BY <1>1, <1>2 DEF Claimable, RetryEligible
<1> DEFINE new == [st |-> "RUNNING", att |-> row[p].att + 1, stale |-> t + StaleTimeout,
                   retry |-> 0, code |-> "none"]
<1>4. new \in Rows /\ new.att # 0
  BY <1>2, <1>3, JobAssumption DEF Rows
<1>5. Claimed(p, t) = [row EXCEPT ![p] = new]
  BY DEF Claimed
<1>6. \A q \in Plans : RowOK(row[q])
  BY DEF TypeOK, RowOK
<1> HIDE DEF new
<1>7. Claimed(p, t) \in [Plans -> Rows] /\ Claimed(p, t)[p] = new
      /\ \A q \in Plans \ {p} : Claimed(p, t)[q] = row[q]
  BY <1>1, <1>4, <1>5
<1>8. new.att = row[p].att + 1 /\ new.st = "RUNNING" /\ row[p].att + 1 \in Attempts
  BY <1>2, <1>3 DEF new, Attempts
<1>9. RowOK(new)
  BY <1>4, <1>8 DEF RowOK
<1>10. \A q \in Plans : RowOK(Claimed(p, t)[q])
  BY <1>6, <1>7, <1>9
<1> QED
  BY <1>7, <1>8, <1>10

\* A step of one manager that puts it in a well-typed place, and keeps the rows so.
LEMMA ManagerStepType ==
    ASSUME TypeOK, NEW m \in Managers, NEW tick, TickOK(tick, now),
           manager' = [manager EXCEPT ![m] = tick],
           row' \in [Plans -> Rows], \A p \in Plans : RowOK(row'[p]),
           succeeded' \in [Plans -> SUBSET Attempts],
           paused' \subseteq Managers, pauses' = pauses,
           faults' \in 0 .. MaxFaults, UNCHANGED <<job, now>>
    PROVE  TypeOK'
<1>1. manager' \in [Managers -> Ticks]
  BY DEF TypeOK, TickOK
<1>2. ASSUME NEW k \in Managers PROVE TickOK(manager'[k], now)
  BY <1>1, TypeOKParts DEF TypeOK
<1> QED
  BY <1>1, <1>2 DEF TypeOK, TickOK, RowOK

\* A manager without a handler.
LEMMA HandlerDone ==
    ASSUME NEW tick \in Ticks
    PROVE  /\ [tick EXCEPT !.plan = 0, !.att = 0, !.since = 0] \in Ticks
           /\ [tick EXCEPT !.plan = 0, !.att = 0, !.since = 0].t = tick.t
<1>1. 0 \in Plans /\ 0 \in 0 .. MaxAttempts /\ 0 \in Nat
  BY ZeroIsPlan, JobAssumption
<1> QED
  BY <1>1 DEF Ticks

\* Every handler that returns leaves its manager at its next plan, or idle.
LEMMA HandlerReturnedType ==
    ASSUME TypeOK, NEW m \in Managers, NEW ok \in BOOLEAN, HandlerReturned(m, ok)
    PROVE  /\ manager[m].plan \in Plans /\ manager[m].att \in Attempts
           /\ succeeded' \in [Plans -> SUBSET Attempts]
           /\ \E tick : TickOK(tick, now) /\ tick.pc # "run"
                        /\ manager' = [manager EXCEPT ![m] = tick]
<1> DEFINE back == [manager[m] EXCEPT !.plan = 0, !.att = 0, !.since = 0]
<1>1. manager[m] \in Ticks /\ manager[m].pc = "run" /\ manager[m].t \in ScheduleDelay .. now
      /\ manager[m].att \in Attempts
  BY DEF TypeOK, HandlerReturned, At
<1>2. back \in Ticks /\ back.t = manager[m].t
  BY <1>1, HandlerDone
<1>3. manager' = [manager EXCEPT ![m] = ProcessNext(back)]
  BY DEF HandlerReturned
<1>4. TickOK(ProcessNext(back), now) /\ ProcessNext(back).pc # "run"
  BY <1>1, <1>2, ProcessNextType DEF TickOK
<1>5. manager[m].plan \in Plans
  BY <1>1 DEF Ticks
<1>6. succeeded' \in [Plans -> SUBSET Attempts]
  BY <1>1, <1>5 DEF HandlerReturned, TypeOK
<1> QED
  BY <1>1, <1>3, <1>4, <1>5, <1>6

\* The first statements of a tick keep the types (RunOnce, runJob).
LEMMA TickTypes ==
    ASSUME TypeOK, NEW m \in Managers,
           ReadClock(m) \/ Sweep(m) \/ PlanTick(m)
    PROVE  TypeOK'
<1>1. manager[m] \in Ticks /\ TickOK(manager[m], now) /\ now \in ScheduleDelay .. MaxTime
      /\ \A p \in Plans : row[p] \in Rows /\ RowOK(row[p])
  BY TypeOKParts DEF TypeOK
<1>2. CASE ReadClock(m)
  <2> DEFINE tick == [Idle EXCEPT !.pc = "sweep", !.t = now]
  <2>1. now \in Nat /\ now \in ScheduleDelay .. now
    BY <1>1, JobAssumption, SchedulerBounds
  <2>2. tick \in Ticks /\ tick.pc = "sweep" /\ tick.t = now
    BY <2>1, IdleType DEF Ticks
  <2>3. TickOK(tick, now)
    BY <2>1, <2>2 DEF TickOK
  <2> QED
    BY <1>2, <2>3, ManagerStepType, TypeOKParts DEF ReadClock, TypeOK
<1>3. CASE Sweep(m)
  <2> DEFINE tick == [manager[m] EXCEPT !.pc = "plan"]
  <2>1. TickOK(tick, now) /\ manager' = [manager EXCEPT ![m] = tick]
    BY <1>1, <1>3 DEF TickOK, Ticks, Sweep, At
  <2>2. row' \in [Plans -> Rows] /\ \A p \in Plans : RowOK(row'[p])
    BY <1>1, <1>3 DEF Sweep, Stale, Rows, RowOK
  <2> QED
    BY <1>3, <2>1, <2>2, ManagerStepType DEF Sweep, TypeOK
<1>4. CASE PlanTick(m)
  <2> DEFINE tick == [manager[m] EXCEPT !.todo = PlansForTick(manager[m].t)]
  <2>1. manager[m].t \in ScheduleDelay .. now /\ now <= MaxTime
    BY <1>1, <1>4, JobAssumption, SchedulerBounds DEF PlanTick, At, TickOK
  <2>2. manager[m].t \in ScheduleDelay .. MaxTime
    BY <1>1, <2>1, JobAssumption, SchedulerBounds
  <2>3. tick \in Ticks /\ tick.t = manager[m].t
    BY <1>1, <2>2, PlansForTickType DEF Ticks
  <2>4. TickOK(ProcessNext(tick), now)
    BY <2>1, <2>3, ProcessNextType DEF TickOK
  <2> QED
    BY <1>4, <2>4, ManagerStepType, TypeOKParts DEF PlanTick, TypeOK
<1> QED
  BY <1>2, <1>3, <1>4

\* The manager that gave a plan up goes on with the ones behind it.
LEMMA SkipType ==
    ASSUME TypeOK, NEW m \in Managers, At(m, "claim"), NEW p \in Plans
    PROVE  TickOK(ProcessNext([manager[m] EXCEPT !.todo = @ \ {p}]), now)
<1> DEFINE tick == [manager[m] EXCEPT !.todo = @ \ {p}]
<1>1. manager[m] \in Ticks /\ manager[m].t \in ScheduleDelay .. now
  BY DEF TypeOK, At
<1>2. tick \in Ticks /\ tick.t = manager[m].t
  BY <1>1 DEF Ticks
<1> QED
  BY <1>1, <1>2, ProcessNextType DEF TickOK

\* A claim, won or lost, keeps the types (tryClaim).
LEMMA ClaimTypes ==
    ASSUME TypeOK, NEW m \in Managers, NEW p \in Plans, Claim(m, p) \/ Conflicted(m, p)
    PROVE  TypeOK'
<1>1. manager[m] \in Ticks /\ manager[m].t \in ScheduleDelay .. now /\ now \in Nat
  BY JobAssumption, SchedulerBounds DEF TypeOK, Claim, Conflicted, At
<1>2. CASE Claim(m, p)
  <2> DEFINE tick == [manager[m] EXCEPT !.pc = "run", !.todo = @ \ {p}, !.plan = p,
                                        !.att = row[p].att + 1, !.since = now]
  <2>1. manager[m].t \in Nat /\ Claimable(p, manager[m].t)
    BY <1>1, <1>2 DEF Ticks, Claim
  <2>2. row[p].att + 1 \in Attempts /\ row' \in [Plans -> Rows] /\ \A q \in Plans : RowOK(row'[q])
    BY <1>2, <2>1, ClaimedType DEF Claim
  <2>3. row[p].att + 1 \in 0 .. MaxAttempts
    BY <2>2, JobAssumption DEF Attempts
  <2>4. tick \in Ticks /\ tick.t = manager[m].t /\ tick.att = row[p].att + 1
    BY <1>1, <2>3 DEF Ticks
  <2>5. TickOK(tick, now)
    BY <1>1, <2>2, <2>4 DEF TickOK
  <2>6. manager' = [manager EXCEPT ![m] = tick]
    BY <1>2 DEF Claim
  <2> HIDE DEF tick
  <2> QED
    BY <1>2, <2>2, <2>5, <2>6, ManagerStepType DEF Claim, TypeOK
<1>3. CASE Conflicted(m, p)
  <2>1. TickOK(ProcessNext([manager[m] EXCEPT !.todo = @ \ {p}]), now)
    BY <1>3, SkipType DEF Conflicted
  <2> QED
    BY <1>3, <2>1, ManagerStepType, TypeOKParts DEF Conflicted, TypeOK
<1> QED
  BY <1>2, <1>3

\* A failed statement keeps the types.
LEMMA FailTypes ==
    ASSUME TypeOK, NEW m \in Managers, StatementFails(m)
    PROVE  TypeOK'
<1>1. faults' \in 0 .. MaxFaults /\ UNCHANGED <<job, now, paused, succeeded, pauses>>
  BY SchedulerBounds DEF StatementFails, TypeOK
<1>2. TickOK(manager[m], now) /\ \A p \in Plans : RowOK(row[p])
  BY TypeOKParts
<1>3. CASE At(m, "sweep")
  <2> DEFINE tick == [manager[m] EXCEPT !.pc = "plan"]
  <2>1. manager' = [manager EXCEPT ![m] = tick] /\ UNCHANGED row
    BY <1>3 DEF StatementFails, At
  <2>2. TickOK(tick, now)
    BY <1>2, <1>3 DEF TickOK, Ticks, At
  <2> QED
    BY <1>1, <1>2, <2>1, <2>2, ManagerStepType DEF TypeOK
<1>4. CASE At(m, "plan")
  <2>1. manager' = [manager EXCEPT ![m] = Idle] /\ UNCHANGED row
    BY <1>4 DEF StatementFails, At
  <2>2. TickOK(Idle, now)
    BY IdleType DEF TickOK, Idle
  <2> QED
    BY <1>1, <1>2, <2>1, <2>2, ManagerStepType DEF TypeOK
<1>5. CASE At(m, "claim")
  <2>1. PICK p \in Plans :
          /\ manager' = [manager EXCEPT ![m] = ProcessNext([manager[m] EXCEPT !.todo = @ \ {p}])]
          /\ \/ UNCHANGED row
             \/ Claimable(p, manager[m].t) /\ row' = Claimed(p, manager[m].t)
    BY <1>5 DEF StatementFails, At
  <2>2. TickOK(ProcessNext([manager[m] EXCEPT !.todo = @ \ {p}]), now)
    BY <1>5, SkipType
  <2>3. manager[m].t \in Nat
    BY <1>2 DEF TickOK, Ticks
  <2>4. row' \in [Plans -> Rows] /\ \A q \in Plans : RowOK(row'[q])
    BY <1>2, <2>1, <2>3, ClaimedType DEF TypeOK
  <2> QED
    BY <1>1, <2>1, <2>2, <2>4, ManagerStepType DEF TypeOK
<1> QED
  BY <1>3, <1>4, <1>5 DEF StatementFails

\* How the statements of a handler change the rows: only the row of its plan, only
\* while it is RUNNING with the attempt of the handler, and never the attempt.
HandlerWrites(m) ==
    /\ row' \in [Plans -> Rows]
    /\ \A p \in Plans : row'[p] # row[p] =>
         /\ p = manager[m].plan /\ row[p].st = "RUNNING" /\ row[p].att = manager[m].att
         /\ row'[p].att = row[p].att /\ row'[p].st # "none"

\* What a heartbeat or an outcome writes is well-typed (CAS on the lease).
LEMMA HandlerWritesType ==
    ASSUME TypeOK, NEW m \in Managers,
           Heartbeat(m) \/ FinishSuccess(m) \/ FinishFailure(m)
    PROVE  /\ HandlerWrites(m)
           /\ \A p \in Plans : RowOK(row'[p])
           /\ \A p \in Plans : row'[p].st = "SUCCESS" /\ row[p].st # "SUCCESS" =>
                FinishSuccess(m) /\ p = manager[m].plan /\ row'[p].att = manager[m].att
<1> DEFINE p == manager[m].plan
<1>1. p \in Plans /\ row \in [Plans -> Rows] /\ manager[m].att \in Attempts
      /\ \A q \in Plans : RowOK(row[q])
  BY TypeOKParts DEF TypeOK, Heartbeat, FinishSuccess, FinishFailure, HandlerReturned, At, Ticks
<1>2. ASSUME UNCHANGED row PROVE HandlerWrites(m) /\ \A q \in Plans : RowOK(row'[q])
  BY <1>1, <1>2 DEF HandlerWrites
<1>3. ASSUME NEW new \in Rows, row' = [row EXCEPT ![p] = new], HoldsLease(m),
             new.att = row[p].att, new.st # "none"
      PROVE  HandlerWrites(m) /\ (\A q \in Plans : RowOK(row'[q])) /\ row'[p] = new
             /\ \A q \in Plans \ {p} : row'[q] = row[q]
  <2>1. row[p].st = "RUNNING" /\ row[p].att = manager[m].att
    BY <1>3 DEF HoldsLease
  <2>2. row[p].att # 0
    BY <1>1, <2>1 DEF RowOK
  <2> HIDE DEF p
  <2>3. row'[p] = new /\ (\A q \in Plans \ {p} : row'[q] = row[q]) /\ row' \in [Plans -> Rows]
    BY <1>1, <1>3
  <2>4. RowOK(new)
    BY <1>3, <2>2 DEF RowOK
  <2>5. \A q \in Plans : RowOK(row'[q])
    BY <1>1, <2>3, <2>4
  <2>6. HandlerWrites(m)
    BY <1>3, <2>1, <2>3 DEF HandlerWrites, p
  <2> QED
    BY <2>3, <2>5, <2>6
<1>4. CASE Heartbeat(m)
  <2> DEFINE new == [row[p] EXCEPT !.stale = now + StaleTimeout]
  <2>1. row' = [row EXCEPT ![p] = new] /\ HoldsLease(m)
    BY <1>1, <1>4 DEF Heartbeat
  <2>2. now + StaleTimeout \in Nat
    BY JobAssumption, SchedulerBounds DEF TypeOK
  <2>3. new \in Rows /\ new.att = row[p].att /\ new.st = row[p].st
    BY <1>1, <2>2 DEF Rows
  <2>4. new.st = "RUNNING"
    BY <2>1, <2>3 DEF HoldsLease
  <2> QED
    BY <1>3, <2>1, <2>3, <2>4
<1>5. CASE FinishSuccess(m)
  <2> DEFINE new == [row[p] EXCEPT !.st = "SUCCESS"]
  <2>1. CASE HoldsLease(m)
    <3>1. row' = [row EXCEPT ![p] = new]
      BY <1>1, <1>5, <2>1 DEF FinishSuccess
    <3>2. new \in Rows /\ new.att = row[p].att /\ new.st = "SUCCESS"
      BY <1>1 DEF Rows
    <3> HIDE DEF new
    <3>3. HandlerWrites(m) /\ (\A q \in Plans : RowOK(row'[q])) /\ row'[p] = new
          /\ \A q \in Plans \ {p} : row'[q] = row[q]
      BY <1>3, <2>1, <3>1, <3>2
    <3> QED
      BY <1>5, <2>1, <3>2, <3>3 DEF HoldsLease
  <2>2. CASE ~HoldsLease(m)
    BY <1>2, <1>5, <2>2 DEF FinishSuccess
  <2> QED
    BY <2>1, <2>2
<1>6. CASE FinishFailure(m)
  <2> DEFINE retry == IF manager[m].att < MaxAttempts THEN now + RetryDelay[manager[m].att] ELSE 0
             new == [row[p] EXCEPT !.st = "FAILED", !.retry = retry, !.code = "handler_error"]
  <2>1. CASE HoldsLease(m)
    <3>1. row' = [row EXCEPT ![p] = new]
      BY <1>1, <1>6, <2>1 DEF FinishFailure
    <3>2. retry \in Nat
      BY <1>1, JobAssumption, SchedulerBounds DEF TypeOK, Attempts
    <3> HIDE DEF retry
    <3>3. new \in Rows /\ new.att = row[p].att /\ new.st = "FAILED"
      BY <1>1, <3>2 DEF Rows
    <3> HIDE DEF new
    <3> QED
      BY <1>3, <2>1, <3>1, <3>3
  <2>2. CASE ~HoldsLease(m)
    BY <1>2, <1>6, <2>2 DEF FinishFailure
  <2> QED
    BY <2>1, <2>2
<1> QED
  BY <1>4, <1>5, <1>6

\* The end of a handler keeps the types (processPlan).
LEMMA HandlerTypes ==
    ASSUME TypeOK, NEW m \in Managers,
           \/ Heartbeat(m) \/ FinishSuccess(m) \/ FinishFailure(m)
           \/ \E ok \in BOOLEAN : FinishLost(m, ok)
    PROVE  TypeOK'
<1>1. CASE Heartbeat(m)
  <2>1. row' \in [Plans -> Rows] /\ \A p \in Plans : RowOK(row'[p])
    BY <1>1, HandlerWritesType DEF HandlerWrites
  <2> QED
    BY <1>1, <2>1 DEF Heartbeat, TypeOK, RowOK
<1>2. CASE FinishSuccess(m) \/ FinishFailure(m)
  <2>1. row' \in [Plans -> Rows] /\ \A p \in Plans : RowOK(row'[p])
    BY <1>2, HandlerWritesType DEF HandlerWrites
  <2>2. PICK ok \in BOOLEAN : HandlerReturned(m, ok)
    BY <1>2 DEF FinishSuccess, FinishFailure
  <2>3. PICK tick : TickOK(tick, now) /\ manager' = [manager EXCEPT ![m] = tick]
    BY <2>2, HandlerReturnedType
  <2>4. succeeded' \in [Plans -> SUBSET Attempts]
    BY <2>2, HandlerReturnedType
  <2>5. UNCHANGED <<job, now, paused, pauses, faults>>
    BY <1>2 DEF FinishSuccess, FinishFailure
  <2> QED
    BY <2>1, <2>3, <2>4, <2>5, ManagerStepType DEF TypeOK
<1>3. CASE \E ok \in BOOLEAN : FinishLost(m, ok)
  <2>1. PICK ok \in BOOLEAN : FinishLost(m, ok)
    BY <1>3
  <2>2. PICK tick : TickOK(tick, now) /\ manager' = [manager EXCEPT ![m] = tick]
    BY <2>1, HandlerReturnedType DEF FinishLost
  <2>3. succeeded' \in [Plans -> SUBSET Attempts]
    BY <2>1, HandlerReturnedType DEF FinishLost
  <2>4. faults' \in 0 .. MaxFaults /\ UNCHANGED <<job, now, row, paused, pauses>>
    BY <2>1, SchedulerBounds DEF FinishLost, TypeOK
  <2> QED
    BY <2>2, <2>3, <2>4, ManagerStepType, TypeOKParts DEF TypeOK
<1> QED
  BY <1>1, <1>2, <1>3

\* Time, pauses and crashes keep the types.
LEMMA EnvironmentTypes ==
    ASSUME TypeOK, TimePasses \/ \E m \in Managers : Pause(m) \/ Resume(m) \/ Crash(m)
    PROVE  TypeOK'
<1>1. CASE TimePasses
  <2>1. now' \in ScheduleDelay .. MaxTime /\ now' = now + 1 /\ now \in Nat
    BY <1>1, JobAssumption, SchedulerBounds DEF TimePasses, TypeOK
  <2>2. ASSUME NEW m \in Managers, manager[m].t \in ScheduleDelay .. now
        PROVE  manager[m].t \in ScheduleDelay .. now'
    BY <2>1, <2>2, JobAssumption
  <2> QED
    BY <1>1, <2>1, <2>2 DEF TimePasses, TypeOK
<1>2. ASSUME NEW m \in Managers, Pause(m) \/ Resume(m)
      PROVE  TypeOK'
  BY <1>2, SchedulerBounds DEF Pause, Resume, TypeOK
<1>3. ASSUME NEW m \in Managers, Crash(m)
      PROVE  TypeOK'
  <2>1. TickOK(Idle, now)
    BY IdleType DEF TickOK, Idle
  <2>2. faults' \in 0 .. MaxFaults
    BY <1>3, SchedulerBounds DEF Crash, TypeOK
  <2> QED
    BY <1>3, <2>1, <2>2, ManagerStepType, TypeOKParts DEF Crash, TypeOK
<1> QED
  BY <1>1, <1>2, <1>3

\* Every reachable state is well typed: a row exists exactly when it was claimed, its
\* attempt never passes the limit (chk_sys_cron_attempt), a tick works with a time
\* that the clock has shown and with plans that are due.
THEOREM TypeCorrect == Spec => []TypeOK
<1>1. Init => TypeOK
  <2> SUFFICES ASSUME Init PROVE TypeOK
    OBVIOUS
  <2>1. NoRow \in Rows /\ NoRow.st = "none" /\ NoRow.att = 0
    BY JobAssumption DEF NoRow, Rows
  <2>2. now \in ScheduleDelay .. MaxTime
    BY JobAssumption, SchedulerBounds DEF Init
  <2>3. pauses \in 0 .. MaxPauses /\ faults \in 0 .. MaxFaults
    BY SchedulerBounds DEF Init
  <2>4. Idle.pc = "idle"
    BY DEF Idle
  <2> QED
    BY <2>1, <2>2, <2>3, <2>4, IdleType DEF Init, TypeOK
<1>2. TypeOK /\ [Next]_vars => TypeOK'
  <2> SUFFICES ASSUME TypeOK, [Next]_vars PROVE TypeOK'
    OBVIOUS
  <2>1. CASE UNCHANGED vars
    BY <2>1 DEF vars, TypeOK
  <2> QED
    BY <2>1, TickTypes, ClaimTypes, FailTypes, HandlerTypes, EnvironmentTypes DEF Next
<1> QED
  BY <1>1, <1>2, PTL DEF Spec

-----------------------------------------------------------------------------
(* Attempts and outcomes *)

\* How one step may change a row: it is claimed, which takes the next attempt of a
\* plan that has not succeeded; or a RUNNING row changes and keeps its attempt, and
\* if it succeeds, so did the handler of that attempt.
RowMoves(p) ==
    \/ row'[p] = row[p]
    \/ row[p].st # "SUCCESS" /\ row'[p].st = "RUNNING" /\ row'[p].att = row[p].att + 1
    \/ /\ row[p].st = "RUNNING" /\ row'[p].att = row[p].att
       /\ row'[p].st = "SUCCESS" => row'[p].att \in succeeded'[p]

\* A manager that starts no handler: if one runs after the step, it ran before.
Keeps(m) ==
    Running(m)' => Running(m) /\ manager'[m] = manager[m]

\* The rows that a claim leaves.
LEMMA ClaimMoves ==
    ASSUME TypeOK, NEW t \in Nat, NEW p \in Plans, Claimable(p, t), row' = Claimed(p, t)
    PROVE  /\ row[p].st # "SUCCESS" /\ row'[p].att = row[p].att + 1
           /\ \A q \in Plans : RowMoves(q)
<1>1. row[p].st # "SUCCESS"
  BY DEF Claimable, RetryEligible, Stale
<1> QED
  BY <1>1, ClaimedType DEF RowMoves

\* Every row makes one of its moves in every step.
LEMMA StepRows ==
    ASSUME TypeOK, [Next]_vars
    PROVE  \A p \in Plans : RowMoves(p) /\ succeeded[p] \subseteq succeeded'[p]
<1>1. ASSUME UNCHANGED <<row, succeeded>>
      PROVE  \A p \in Plans : RowMoves(p) /\ succeeded[p] \subseteq succeeded'[p]
  BY <1>1 DEF RowMoves
<1>2. CASE UNCHANGED vars \/ TimePasses
  BY <1>1, <1>2 DEF vars, TimePasses
<1>3. ASSUME NEW m \in Managers, ReadClock(m) \/ PlanTick(m) \/ Pause(m) \/ Resume(m) \/ Crash(m)
      PROVE  UNCHANGED <<row, succeeded>>
  BY <1>3 DEF ReadClock, PlanTick, Pause, Resume, Crash
<1>4. ASSUME NEW m \in Managers, Sweep(m), NEW p \in Plans
      PROVE  RowMoves(p) /\ succeeded[p] \subseteq succeeded'[p]
  BY <1>4 DEF Sweep, Stale, RowMoves, TypeOK, Rows
<1>5. ASSUME NEW m \in Managers, StatementFails(m)
      PROVE  \A p \in Plans : RowMoves(p) /\ succeeded[p] \subseteq succeeded'[p]
  <2>1. manager[m].t \in Nat
    BY DEF TypeOK, Ticks
  <2> QED
    BY <1>1, <1>5, <2>1, ClaimMoves DEF StatementFails
<1>6. ASSUME NEW m \in Managers, NEW p \in Plans, Claim(m, p) \/ Conflicted(m, p)
      PROVE  \A q \in Plans : RowMoves(q) /\ succeeded[q] \subseteq succeeded'[q]
  <2>1. manager[m].t \in Nat
    BY DEF TypeOK, Ticks
  <2> QED
    BY <1>1, <1>6, <2>1, ClaimMoves DEF Claim, Conflicted
<1>7. ASSUME NEW m \in Managers, NEW ok \in BOOLEAN, HandlerReturned(m, ok)
      PROVE  /\ \A p \in Plans : succeeded[p] \subseteq succeeded'[p]
             /\ ok => manager[m].att \in succeeded'[manager[m].plan]
  <2>1. manager[m].plan \in Plans
    BY <1>7, HandlerReturnedType
  <2> QED
    BY <1>7, <2>1 DEF HandlerReturned, TypeOK
<1>8. ASSUME NEW m \in Managers, Heartbeat(m) \/ FinishSuccess(m) \/ FinishFailure(m)
      PROVE  \A p \in Plans : RowMoves(p) /\ succeeded[p] \subseteq succeeded'[p]
  <2>1. \A p \in Plans : succeeded[p] \subseteq succeeded'[p]
    BY <1>7, <1>8 DEF Heartbeat, FinishSuccess, FinishFailure
  <2>2. FinishSuccess(m) => manager[m].att \in succeeded'[manager[m].plan]
    BY <1>7 DEF FinishSuccess
  <2> QED
    BY <1>8, <2>1, <2>2, HandlerWritesType DEF HandlerWrites, RowMoves
<1>9. ASSUME NEW m \in Managers, NEW ok \in BOOLEAN, FinishLost(m, ok)
      PROVE  \A p \in Plans : RowMoves(p) /\ succeeded[p] \subseteq succeeded'[p]
  BY <1>7, <1>9 DEF FinishLost, RowMoves
<1> QED
  BY <1>1, <1>2, <1>3, <1>4, <1>5, <1>6, <1>8, <1>9 DEF Next

\* Every instance keeps its attempt in a step, or one of them claims the next.
LEMMA StepManagers ==
    ASSUME TypeOK, [Next]_vars
    PROVE  \/ \A m \in Managers : Keeps(m)
           \/ \E m \in Managers, p \in Plans :
                /\ Claim(m, p)
                /\ manager'[m].plan = p /\ manager'[m].att = row[p].att + 1
                /\ \A k \in Managers \ {m} : Keeps(k)
<1>1. manager \in [Managers -> Ticks]
  BY DEF TypeOK
<1>2. ASSUME NEW m \in Managers, NEW tick, manager' = [manager EXCEPT ![m] = tick], tick.pc # "run"
      PROVE  \A k \in Managers : Keeps(k)
  BY <1>1, <1>2 DEF Keeps, Running
<1>3. ASSUME NEW m \in Managers, NEW p \in Plans
      PROVE  ProcessNext([manager[m] EXCEPT !.todo = @ \ {p}]).pc # "run"
  <2>1. [manager[m] EXCEPT !.todo = @ \ {p}] \in Ticks
    BY <1>1 DEF Ticks
  <2> QED
    BY <2>1, ProcessNextType
<1>4. CASE UNCHANGED manager
  BY <1>4 DEF Keeps, Running
<1>5. CASE \E m \in Managers : Heartbeat(m) \/ Pause(m) \/ Resume(m)
  BY <1>4, <1>5 DEF Heartbeat, Pause, Resume
<1>6. ASSUME NEW m \in Managers, ReadClock(m) \/ Sweep(m) \/ PlanTick(m) \/ StatementFails(m) \/ Crash(m)
      PROVE  \A k \in Managers : Keeps(k)
  <2>1. Idle.pc = "idle"
    BY DEF Idle
  <2>2. CASE ReadClock(m)
    <3>1. [Idle EXCEPT !.pc = "sweep", !.t = now].pc = "sweep"
      BY DEF Idle
    <3> QED
      BY <1>2, <2>2, <3>1 DEF ReadClock
  <2>3. CASE Sweep(m)
    <3>1. [manager[m] EXCEPT !.pc = "plan"].pc = "plan"
      BY <1>1 DEF Ticks
    <3>2. manager' = [manager EXCEPT ![m] = [manager[m] EXCEPT !.pc = "plan"]]
      BY <2>3 DEF Sweep
    <3> QED
      BY <1>2, <3>1, <3>2
  <2>4. CASE PlanTick(m)
    <3> DEFINE tick == [manager[m] EXCEPT !.todo = PlansForTick(manager[m].t)]
    <3>1. manager' = [manager EXCEPT ![m] = ProcessNext(tick)]
      BY <2>4 DEF PlanTick
    <3>2. ProcessNext(tick).pc # "run"
      BY <2>1 DEF ProcessNext, Ticks
    <3> QED
      BY <1>2, <3>1, <3>2
  <2>5. CASE StatementFails(m)
    <3>1. CASE At(m, "sweep")
      <4>1. [manager[m] EXCEPT !.pc = "plan"].pc = "plan"
        BY <1>1 DEF Ticks
      <4>2. manager' = [manager EXCEPT ![m] = [manager[m] EXCEPT !.pc = "plan"]]
        BY <2>5, <3>1 DEF StatementFails, At
      <4> QED
        BY <1>2, <4>1, <4>2
    <3>2. CASE At(m, "plan")
      BY <1>2, <2>1, <2>5, <3>2 DEF StatementFails, At
    <3>3. CASE At(m, "claim")
      BY <1>2, <1>3, <2>5, <3>3 DEF StatementFails, At
    <3> QED
      BY <2>5, <3>1, <3>2, <3>3 DEF StatementFails
  <2>6. CASE Crash(m)
    BY <1>2, <2>1, <2>6 DEF Crash
  <2> QED
    BY <1>6, <2>2, <2>3, <2>4, <2>5, <2>6
<1>7. ASSUME NEW m \in Managers, NEW ok \in BOOLEAN, HandlerReturned(m, ok)
      PROVE  \A k \in Managers : Keeps(k)
  BY <1>2, <1>7, HandlerReturnedType
<1>8. ASSUME NEW m \in Managers, NEW p \in Plans, Conflicted(m, p)
      PROVE  \A k \in Managers : Keeps(k)
  BY <1>2, <1>3, <1>8 DEF Conflicted
<1>9. ASSUME NEW m \in Managers, NEW p \in Plans, Claim(m, p)
      PROVE  /\ manager'[m].plan = p /\ manager'[m].att = row[p].att + 1
             /\ \A k \in Managers \ {m} : Keeps(k)
  <2> DEFINE tick == [manager[m] EXCEPT !.pc = "run", !.todo = @ \ {p}, !.plan = p,
                                        !.att = row[p].att + 1, !.since = now]
  <2>1. manager' = [manager EXCEPT ![m] = tick]
    BY <1>9 DEF Claim
  <2>2. tick.plan = p /\ tick.att = row[p].att + 1
    BY <1>1 DEF Ticks
  <2> HIDE DEF tick
  <2> QED
    BY <1>1, <2>1, <2>2 DEF Keeps, Running
<1> QED
  BY <1>4, <1>5, <1>6, <1>7, <1>8, <1>9
     DEF Next, vars, TimePasses, FinishSuccess, FinishFailure, FinishLost

\* A recorded success is the success of the handler of the recorded attempt: an
\* outcome is written only where status and lease token match (finishSuccess).
THEOREM SuccessEarned == Spec => []SuccessIsEarned
<1>1. Init => SuccessIsEarned
  BY DEF Init, SuccessIsEarned, NoRow
<1>2. TypeOK /\ SuccessIsEarned /\ [Next]_vars => SuccessIsEarned'
  <2> SUFFICES ASSUME TypeOK, SuccessIsEarned, [Next]_vars,
                      NEW p \in Plans, row'[p].st = "SUCCESS"
               PROVE  row'[p].att \in succeeded'[p]
    BY DEF SuccessIsEarned
  <2>1. RowMoves(p) /\ succeeded[p] \subseteq succeeded'[p]
    BY StepRows
  <2> QED
    BY <2>1 DEF RowMoves, SuccessIsEarned
<1> QED
  BY <1>1, <1>2, TypeCorrect, PTL DEF Spec

\* No two handlers run the same attempt of a plan, and none one that the row does not
\* have yet: every claim takes the next attempt (tryClaim).
THEOREM AttemptsApart == Spec => []AttemptsAreApart
<1>1. Init => AttemptsAreApart
  BY DEF Init, AttemptsAreApart, Running, Idle
<1>2. TypeOK /\ AttemptsAreApart /\ [Next]_vars => AttemptsAreApart'
  <2> SUFFICES ASSUME TypeOK, AttemptsAreApart, [Next]_vars, NEW m \in Managers, Running(m)'
               PROVE  /\ manager'[m].att <= row'[manager'[m].plan].att
                      /\ \A k \in Managers \ {m} :
                           Running(k)' /\ manager'[k].plan = manager'[m].plan
                             => manager'[k].att # manager'[m].att
    BY DEF AttemptsAreApart
  \* Attempts of handlers and rows are numbers, and no row loses attempts.
  <2>1. \A k \in Managers : manager[k].att \in Nat /\ manager[k].plan \in Plans
    BY JobAssumption DEF TypeOK, Ticks
  <2>2. \A p \in Plans : row[p].att \in Nat
    BY JobAssumption DEF TypeOK, Rows
  <2>3. \A p \in Plans : row'[p].att \in Nat /\ row[p].att <= row'[p].att
    BY <2>2, StepRows DEF RowMoves
  \* A handler that ran before.
  <2>4. ASSUME NEW k \in Managers, Keeps(k), Running(k)'
        PROVE  /\ Running(k) /\ manager'[k].plan = manager[k].plan
               /\ manager'[k].att = manager[k].att
               /\ manager[k].att <= row[manager[k].plan].att
    BY <2>4 DEF Keeps, AttemptsAreApart
  <2>5. CASE \A k \in Managers : Keeps(k)
    <3>1. manager'[m].att <= row'[manager'[m].plan].att
      BY <2>1, <2>2, <2>3, <2>4, <2>5
    <3>2. ASSUME NEW k \in Managers \ {m}, Running(k)', manager'[k].plan = manager'[m].plan
          PROVE  manager'[k].att # manager'[m].att
      BY <2>4, <2>5, <3>2 DEF AttemptsAreApart
    <3> QED
      BY <3>1, <3>2
  <2>6. ASSUME NEW c \in Managers, NEW p \in Plans, Claim(c, p),
               manager'[c].plan = p, manager'[c].att = row[p].att + 1,
               \A k \in Managers \ {c} : Keeps(k)
        PROVE  /\ manager'[m].att <= row'[manager'[m].plan].att
               /\ \A k \in Managers \ {m} :
                    Running(k)' /\ manager'[k].plan = manager'[m].plan
                      => manager'[k].att # manager'[m].att
    <3>1. row'[p].att = row[p].att + 1
      <4>1. manager[c].t \in Nat
        BY DEF TypeOK, Ticks
      <4> QED
        BY <2>6, <4>1, ClaimMoves DEF Claim
    <3>2. ASSUME NEW k \in Managers \ {c}, Running(k)', manager'[k].plan = p
          PROVE  manager'[k].att # manager'[c].att
      BY <2>1, <2>2, <2>4, <2>6, <3>2
    <3>3. CASE m = c
      BY <2>2, <2>6, <3>1, <3>2, <3>3
    <3>4. CASE m # c
      <4>1. manager'[m].att <= row'[manager'[m].plan].att
        BY <2>1, <2>2, <2>3, <2>4, <2>6, <3>4
      <4>2. ASSUME NEW k \in Managers \ {m}, Running(k)', manager'[k].plan = manager'[m].plan
            PROVE  manager'[k].att # manager'[m].att
        <5>1. CASE k = c
          BY <2>6, <3>2, <3>4, <4>2, <5>1
        <5>2. CASE k # c
          BY <2>4, <2>6, <3>4, <4>2, <5>2 DEF AttemptsAreApart
        <5> QED
          BY <5>1, <5>2
      <4> QED
        BY <4>1, <4>2
    <3> QED
      BY <3>3, <3>4
  <2> QED
    BY <2>5, <2>6, StepManagers
<1> QED
  BY <1>1, <1>2, TypeCorrect, PTL DEF Spec

\* The row of a plan that succeeded never changes, and no handler starts on it: no
\* branch of tryClaim, and no sweep or late outcome, matches a SUCCESS row.
THEOREM SuccessStays == Spec => SuccessIsFinal
<1>1. ASSUME TypeOK, [Next]_vars, NEW p \in Plans, row[p].st = "SUCCESS"
      PROVE  /\ row'[p] = row[p]
             /\ \A m \in Managers : Running(m)' /\ manager'[m].plan = p => Running(m)
  <2>1. row'[p] = row[p]
    BY <1>1, StepRows DEF RowMoves
  <2>2. ASSUME NEW c \in Managers, NEW q \in Plans, Claim(c, q)
        PROVE  q # p
    BY <1>1, <2>2 DEF Claim, Claimable, RetryEligible, Stale
  <2>3. ASSUME NEW m \in Managers, Running(m)', manager'[m].plan = p
        PROVE  Running(m)
    BY <1>1, <2>2, <2>3, StepManagers DEF Keeps
  <2> QED
    BY <2>1, <2>3
<1>2. TypeOK /\ [Next]_vars =>
        [\A p \in Plans : row[p].st = "SUCCESS" =>
           /\ row'[p] = row[p]
           /\ \A m \in Managers : Running(m)' /\ manager'[m].plan = p => Running(m)]_vars
  BY <1>1
<1> QED
  BY <1>2, TypeCorrect, PTL DEF Spec, SuccessIsFinal

-----------------------------------------------------------------------------
(* Plans and leases of a tick *)

\* A set of numbers below a bound has a largest one, which is the one nearest to
\* the bound.
LEMMA LargestNumber ==
    ASSUME NEW n \in Nat, NEW S \in SUBSET (0 .. n), S # {}
    PROVE  Max(S) \in S
<1> DEFINE gaps == {n - x : x \in S}
<1>1. gaps \subseteq Nat /\ gaps # {}
  <2>1. \A x \in S : n - x \in Nat
    OBVIOUS
  <2>2. PICK x : x \in S
    OBVIOUS
  <2>3. n - x \in gaps
    BY <2>2
  <2> QED
    BY <2>1, <2>3
<1>2. PICK g \in gaps : \A d \in gaps : ~(<<d, g>> \in OpToRel(<, Nat))
  BY <1>1, NatLessThanWellFounded, WFMin
<1>3. \A d \in gaps : ~(d < g)
  BY <1>1, <1>2 DEF OpToRel
<1>4. PICK x \in S : g = n - x
  OBVIOUS
<1>5. \A y \in S : x >= y
  <2> SUFFICES ASSUME NEW y \in S PROVE x >= y
    OBVIOUS
  <2>1. n - y \in gaps
    OBVIOUS
  <2> HIDE DEF gaps
  <2>2. ~(n - y < n - x)
    BY <1>3, <1>4, <2>1
  <2> QED
    BY <2>2
<1> QED
  BY <1>5 DEF Max

\* The plans that one tick may take up (MaxPlansPerTick of an every_plan job, the
\* latest plan of a latest_only one).
TickLimit == IF job.EveryPlan THEN MaxPlansPerTick ELSE 1

\* A plan is a bucket of the clock, and there are finitely many.
LEMMA PlansFinite ==
    /\ IsFiniteSet(Plans)
    /\ \A S \in SUBSET Plans : IsFiniteSet(S) /\ Cardinality(S) \in Nat
<1>1. FloorPlan(MaxTime) \in Nat
  BY FloorPlanType, SchedulerBounds
<1>2. IsFiniteSet(Plans)
  BY <1>1, FS_Interval DEF Plans
<1> QED
  BY <1>2, FS_Subset, FS_CardinalityType

\* A catch-up starts at a number (planEveryPlan).
LEMMA CatchUpStartType ==
    ASSUME NEW t \in Nat, NEW latest \in Nat
    PROVE  CatchUpStart(t, latest) \in Int
<1>1. Recorded # {} => Max(Recorded) \in Int
  <2>1. FloorPlan(MaxTime) \in Nat
    BY FloorPlanType, SchedulerBounds
  <2>2. Recorded \in SUBSET (0 .. FloorPlan(MaxTime))
    BY DEF Recorded, Plans
  <2>3. Recorded # {} => Max(Recorded) \in Recorded
    BY <2>1, <2>2, LargestNumber
  <2>4. \A x \in Recorded : x \in Int
    BY <2>1, <2>2
  <2> QED
    BY <2>3, <2>4
<1>2. OldestAllowed(t) \in Int
  BY JobAssumption DEF OldestAllowed
<1>3. ASSUME NEW a \in Int, NEW b \in Int PROVE Max({a, b}) \in Int
  <2>1. \E x \in {a, b} : \A y \in {a, b} : x >= y
    BY <1>3
  <2> QED
    BY <2>1 DEF Max
<1> DEFINE start == CASE Recorded = {} -> latest
                      [] Recorded # {} /\ RetryEligible(Max(Recorded), t) -> Max(Recorded)
                      [] OTHER -> Max(Recorded) + 1
<1>4. start \in Int
  BY <1>1
<1>5. CatchUpStart(t, latest) = IF CatchUpWindow = 0 THEN Max({start, latest})
                                ELSE Max({start, OldestAllowed(t)})
  BY DEF CatchUpStart
<1> HIDE DEF start
<1> QED
  BY <1>2, <1>3, <1>4, <1>5

\* A tick takes up no more plans than its job allows.
LEMMA PlansWithinLimit ==
    ASSUME job \in Jobs, NEW t \in ScheduleDelay .. MaxTime
    PROVE  Cardinality(PlansForTick(t)) <= TickLimit
<1> DEFINE latest == FloorPlan(t - ScheduleDelay)
           start == CatchUpStart(t, latest)
<1>1. t \in Nat /\ t - ScheduleDelay \in Nat
  BY JobAssumption, SchedulerBounds
<1>2. latest \in Nat /\ start \in Int
  BY <1>1, FloorPlanType, CatchUpStartType
<1> HIDE DEF start
<1>3. CASE job.EveryPlan
  <2> DEFINE reach == start .. (start + MaxPlansPerTick - 1)
  <2>1. PlansForTick(t) \in SUBSET reach
    <3>1. PlansForTick(t) = {p \in Plans : start <= p /\ p <= latest /\ p < start + MaxPlansPerTick}
      BY <1>3 DEF PlansForTick, start
    <3>2. ASSUME NEW p \in Nat, start <= p, p < start + MaxPlansPerTick PROVE p \in reach
      BY <1>2, <3>2, JobAssumption
    <3> HIDE DEF reach
    <3> QED
      BY <3>1, <3>2, ZeroIsPlan
  <2>2. IsFiniteSet(reach) /\ Cardinality(reach) = MaxPlansPerTick
    <3>1. start + MaxPlansPerTick - 1 \in Int /\ ~(start > start + MaxPlansPerTick - 1)
          /\ (start + MaxPlansPerTick - 1) - start + 1 = MaxPlansPerTick
      BY <1>2, JobAssumption
    <3> QED
      BY <1>2, <3>1, FS_Interval
  <2>3. Cardinality(PlansForTick(t)) <= Cardinality(reach)
    BY <2>1, <2>2, FS_Subset
  <2> QED
    BY <1>3, <2>2, <2>3 DEF TickLimit
<1>4. CASE ~job.EveryPlan
  <2>1. PlansForTick(t) = {latest}
    BY <1>4 DEF PlansForTick
  <2> QED
    BY <1>4, <2>1, FS_Singleton DEF TickLimit
<1> QED
  BY <1>3, <1>4

\* The plans that a tick has behind it, or in its handler.
Done(tick) == TickLimit - Cardinality(tick.todo)

\* Where the clock may be while no process stands still: the statements of a tick
\* take no time, and each handler behind it took RunTimeout at most.
OnTime(tick, time) ==
    /\ tick.pc \in {"sweep", "plan"} => time = tick.t
    /\ tick.pc = "claim" => Done(tick) >= 0 /\ time <= tick.t + Done(tick) * RunTimeout
    /\ tick.pc = "run" => /\ Done(tick) >= 1
                          /\ tick.since <= tick.t + (Done(tick) - 1) * RunTimeout
                          /\ time <= tick.since + RunTimeout

\* A running handler holds the lease of its plan, which dates from its tick or from
\* a heartbeat after it.
Served(m) ==
    Running(m) => /\ HoldsLease(m)
                  /\ row[manager[m].plan].stale >= manager[m].t + StaleTimeout

\* The inductive invariant: no process that was never paused is late, and none that
\* is in time loses the lease of its plan.
LeaseInv ==
    pauses = 0 =>
        /\ paused = {}
        /\ \A m \in Managers : OnTime(manager[m], now)
        /\ TickFitsLease => \A m \in Managers : Served(m)

\* The numbers that the bounds on time are made of.
LEMMA TickNumbers ==
    ASSUME job \in Jobs
    PROVE  /\ TickLimit \in Nat \ {0} /\ RunTimeout \in Nat \ {0} /\ StaleTimeout \in Nat
           /\ \A tick \in Ticks :
                /\ Done(tick) \in Int /\ Done(tick) <= TickLimit
                /\ tick.t \in Nat /\ tick.since \in Nat
           /\ \A a \in Int : a * RunTimeout \in Int /\ (a + 1) * RunTimeout = a * RunTimeout + RunTimeout
           /\ \A a \in Int, b \in Int : a <= b => a * RunTimeout <= b * RunTimeout
<1>1. TickLimit \in Nat \ {0} /\ RunTimeout \in Nat \ {0} /\ StaleTimeout \in Nat
  BY JobAssumption DEF TickLimit
<1>2. \A tick \in Ticks : /\ Cardinality(tick.todo) \in Nat
                          /\ tick.t \in Nat /\ tick.since \in Nat
  BY PlansFinite DEF Ticks
<1>3. \A tick \in Ticks : Done(tick) \in Int /\ Done(tick) <= TickLimit
  BY <1>1, <1>2 DEF Done
<1>4. \A a \in Int : a * RunTimeout \in Int /\ (a + 1) * RunTimeout = a * RunTimeout + RunTimeout
  BY <1>1
<1>5. \A a \in Int, b \in Int : a <= b => a * RunTimeout <= b * RunTimeout
  BY <1>1
<1> QED
  BY <1>1, <1>2, <1>3, <1>4, <1>5

\* A handler that is in time is so within the lease of its tick.
LEMMA WithinLease ==
    ASSUME TypeOK, TickFitsLease, NEW m \in Managers, Running(m), OnTime(manager[m], now)
    PROVE  now <= manager[m].t + StaleTimeout
<1> DEFINE tick == manager[m]
<1>1. tick \in Ticks /\ now \in Nat /\ job \in Jobs
  BY JobAssumption, SchedulerBounds DEF TypeOK
<1>2. Done(tick) \in Int /\ Done(tick) <= TickLimit /\ tick.t \in Nat /\ tick.since \in Nat
      /\ RunTimeout \in Nat /\ StaleTimeout \in Nat /\ TickLimit \in Nat
  BY <1>1, TickNumbers
<1>3. tick.since <= tick.t + (Done(tick) - 1) * RunTimeout /\ now <= tick.since + RunTimeout
  BY DEF OnTime, Running
<1>4. (Done(tick) - 1) * RunTimeout + RunTimeout = Done(tick) * RunTimeout
  <2>1. Done(tick) - 1 \in Int /\ (Done(tick) - 1) + 1 = Done(tick)
    BY <1>2
  <2> QED
    BY <1>1, <2>1, TickNumbers
<1>5. Done(tick) * RunTimeout <= TickLimit * RunTimeout /\ Done(tick) * RunTimeout \in Int
      /\ (Done(tick) - 1) * RunTimeout \in Int /\ TickLimit * RunTimeout \in Int
  <2>1. Done(tick) - 1 \in Int
    BY <1>2
  <2> QED
    BY <1>1, <1>2, <2>1, TickNumbers
<1>6. TickLimit * RunTimeout <= StaleTimeout
  BY DEF TickFitsLease, TickLimit
<1> HIDE DEF tick
<1>7. now <= tick.t + StaleTimeout
  BY <1>1, <1>2, <1>3, <1>4, <1>5, <1>6
<1> QED
  BY <1>7 DEF tick

\* A tick that goes on with its next plan, or ends, is in time if it was.
LEMMA NextPlanOnTime ==
    ASSUME NEW tick \in Ticks, NEW time,
           Done(tick) >= 0, time <= tick.t + Done(tick) * RunTimeout
    PROVE  OnTime(ProcessNext(tick), time)
<1>1. CASE tick.todo = {}
  BY <1>1 DEF ProcessNext, OnTime, Idle
<1>2. CASE tick.todo # {}
  <2> DEFINE next == [tick EXCEPT !.pc = "claim"]
  <2>1. next.pc = "claim" /\ next.t = tick.t /\ next.todo = tick.todo
    BY DEF Ticks
  <2>2. ProcessNext(tick) = next
    BY <1>2 DEF ProcessNext
  <2> HIDE DEF next
  <2>3. Done(next) = Done(tick)
    BY <2>1 DEF Done
  <2> QED
    BY <2>1, <2>2, <2>3 DEF OnTime
<1> QED
  BY <1>1, <1>2

\* A plan that is taken off the list of a tick is one more behind it.
LEMMA OneMoreDone ==
    ASSUME job \in Jobs, NEW tick \in Ticks, NEW p \in tick.todo, NEW next \in Ticks,
           next.todo = tick.todo \ {p}
    PROVE  Done(next) = Done(tick) + 1
<1>1. IsFiniteSet(tick.todo) /\ Cardinality(tick.todo) \in Nat
  BY PlansFinite DEF Ticks
<1>2. Cardinality(next.todo) = Cardinality(tick.todo) - 1
  BY <1>1, FS_RemoveElement
<1> QED
  BY <1>1, <1>2, TickNumbers DEF Done

\* A step of one instance, while the clock stands, keeps the others in time.
LEMMA OthersOnTime ==
    ASSUME TypeOK, \A m \in Managers : OnTime(manager[m], now), UNCHANGED <<job, now>>,
           NEW m \in Managers, NEW tick, OnTime(tick, now), manager' = [manager EXCEPT ![m] = tick]
    PROVE  \A k \in Managers : OnTime(manager[k], now)'
<1>1. \A k \in Managers : manager'[k] = IF k = m THEN tick ELSE manager[k]
  BY DEF TypeOK
<1> QED
  BY <1>1 DEF OnTime, Done, TickLimit

\* The manager that gives a plan up took no time for it (processPlan).
LEMMA SkipOnTime ==
    ASSUME TypeOK, NEW m \in Managers, At(m, "claim"), OnTime(manager[m], now),
           NEW p \in manager[m].todo
    PROVE  OnTime(ProcessNext([manager[m] EXCEPT !.todo = @ \ {p}]), now)
<1> DEFINE tick == manager[m]
           next == [tick EXCEPT !.todo = @ \ {p}]
<1>1. tick \in Ticks /\ job \in Jobs /\ now \in Nat
  BY JobAssumption, SchedulerBounds DEF TypeOK
<1>2. next \in Ticks /\ next.todo = tick.todo \ {p} /\ next.t = tick.t
  BY <1>1 DEF Ticks
<1>3. Done(tick) >= 0 /\ now <= tick.t + Done(tick) * RunTimeout
  BY DEF OnTime, At
<1> HIDE DEF tick, next
<1>4. Done(tick) \in Int /\ tick.t \in Nat /\ Done(next) = Done(tick) + 1
  BY <1>1, <1>2, TickNumbers, OneMoreDone DEF tick
<1>5. Done(next) * RunTimeout >= Done(tick) * RunTimeout
      /\ Done(next) * RunTimeout \in Int /\ Done(tick) * RunTimeout \in Int
  <2>1. Done(next) \in Int /\ Done(tick) <= Done(next)
    BY <1>4
  <2> QED
    BY <1>1, <1>4, <2>1, TickNumbers
<1>6. Done(next) >= 0 /\ now <= next.t + Done(next) * RunTimeout
  BY <1>1, <1>2, <1>3, <1>4, <1>5
<1>7. OnTime(ProcessNext(next), now)
  BY <1>2, <1>6, NextPlanOnTime
<1> QED
  BY <1>7 DEF tick, next

\* The claim puts a plan in the handler at the time the tick came to it (tryClaim).
LEMMA ClaimOnTime ==
    ASSUME TypeOK, NEW m \in Managers, NEW p \in Plans, Claim(m, p), OnTime(manager[m], now)
    PROVE  \E tick : OnTime(tick, now) /\ manager' = [manager EXCEPT ![m] = tick]
<1> DEFINE tick == manager[m]
           next == [tick EXCEPT !.pc = "run", !.todo = @ \ {p}, !.plan = p,
                                !.att = row[p].att + 1, !.since = now]
<1>1. tick \in Ticks /\ job \in Jobs /\ now \in Nat /\ p \in tick.todo /\ tick.pc = "claim"
  BY JobAssumption, SchedulerBounds DEF TypeOK, Claim, Oldest, At
<1>2. row[p].att + 1 \in 0 .. MaxAttempts
  <2>1. tick.t \in Nat
    BY <1>1 DEF Ticks
  <2> QED
    BY <2>1, ClaimedType, JobAssumption DEF Claim, Attempts
<1>3. next \in Ticks /\ next.pc = "run" /\ next.todo = tick.todo \ {p} /\ next.t = tick.t
      /\ next.since = now
  BY <1>1, <1>2 DEF Ticks
<1>4. manager' = [manager EXCEPT ![m] = next]
  BY DEF Claim
<1>5. Done(tick) >= 0 /\ now <= tick.t + Done(tick) * RunTimeout
  BY <1>1 DEF OnTime
<1> HIDE DEF tick, next
<1>6. Done(tick) \in Int /\ RunTimeout \in Nat
  BY <1>1, TickNumbers
<1>7. Done(next) = Done(tick) + 1
  BY <1>1, <1>3, OneMoreDone
<1>8. Done(next) >= 1 /\ Done(next) - 1 = Done(tick)
  BY <1>5, <1>6, <1>7
<1>9. now <= now + RunTimeout
  BY <1>1, <1>6
<1>10. OnTime(next, now)
  BY <1>3, <1>5, <1>8, <1>9 DEF OnTime
<1> QED
  BY <1>4, <1>10

\* A handler that returns took RunTimeout at most (processPlan).
LEMMA ReturnOnTime ==
    ASSUME TypeOK, NEW m \in Managers, NEW ok \in BOOLEAN, HandlerReturned(m, ok),
           OnTime(manager[m], now)
    PROVE  \E tick : OnTime(tick, now) /\ manager' = [manager EXCEPT ![m] = tick]
<1> DEFINE tick == manager[m]
           back == [tick EXCEPT !.plan = 0, !.att = 0, !.since = 0]
<1>1. tick \in Ticks /\ job \in Jobs /\ now \in Nat /\ tick.pc = "run"
  BY JobAssumption, SchedulerBounds DEF TypeOK, HandlerReturned, At
<1>2. back \in Ticks /\ back.t = tick.t /\ back.todo = tick.todo
  <2>1. back.todo = tick.todo
    BY <1>1 DEF Ticks
  <2> QED
    BY <1>1, <2>1, HandlerDone
<1>3. manager' = [manager EXCEPT ![m] = ProcessNext(back)]
  BY DEF HandlerReturned
<1>4. Done(tick) >= 1 /\ tick.since <= tick.t + (Done(tick) - 1) * RunTimeout
      /\ now <= tick.since + RunTimeout
  BY <1>1 DEF OnTime
<1> HIDE DEF tick, back
<1>5. Done(back) = Done(tick)
  BY <1>2 DEF Done
<1>6. Done(tick) \in Int /\ tick.t \in Nat /\ tick.since \in Nat /\ RunTimeout \in Nat
  BY <1>1, TickNumbers
<1>7. (Done(tick) - 1) * RunTimeout + RunTimeout = Done(tick) * RunTimeout
      /\ (Done(tick) - 1) * RunTimeout \in Int /\ Done(tick) * RunTimeout \in Int
  <2>1. Done(tick) - 1 \in Int /\ (Done(tick) - 1) + 1 = Done(tick)
    BY <1>6
  <2> QED
    BY <1>1, <1>6, <2>1, TickNumbers
<1>8. Done(back) >= 0 /\ now <= back.t + Done(back) * RunTimeout
  BY <1>1, <1>2, <1>4, <1>5, <1>6, <1>7
<1> QED
  BY <1>2, <1>3, <1>8, NextPlanOnTime

\* The first statements of a tick happen at its time (RunOnce, runJob).
LEMMA TickOnTime ==
    ASSUME TypeOK, NEW m \in Managers, ReadClock(m) \/ Sweep(m) \/ PlanTick(m),
           OnTime(manager[m], now)
    PROVE  \E tick : OnTime(tick, now) /\ manager' = [manager EXCEPT ![m] = tick]
<1>1. manager[m] \in Ticks /\ job \in Jobs /\ now \in Nat
  BY JobAssumption, SchedulerBounds DEF TypeOK
<1>2. CASE ReadClock(m)
  <2> DEFINE tick == [Idle EXCEPT !.pc = "sweep", !.t = now]
  <2>1. tick.pc = "sweep" /\ tick.t = now
    BY DEF Idle
  <2>2. manager' = [manager EXCEPT ![m] = tick]
    BY <1>2 DEF ReadClock
  <2> HIDE DEF tick
  <2> QED
    BY <2>1, <2>2 DEF OnTime
<1>3. CASE Sweep(m)
  <2> DEFINE tick == [manager[m] EXCEPT !.pc = "plan"]
  <2>1. tick.pc = "plan" /\ tick.t = now
    BY <1>1, <1>3 DEF Ticks, OnTime, Sweep, At
  <2>2. manager' = [manager EXCEPT ![m] = tick]
    BY <1>3 DEF Sweep
  <2> HIDE DEF tick
  <2> QED
    BY <2>1, <2>2 DEF OnTime
<1>4. CASE PlanTick(m)
  <2> DEFINE tick == [manager[m] EXCEPT !.todo = PlansForTick(manager[m].t)]
  <2>1. manager[m].t = now /\ manager[m].t \in ScheduleDelay .. MaxTime
    <3>1. manager[m].t \in ScheduleDelay .. now /\ now \in ScheduleDelay .. MaxTime
      BY <1>4 DEF TypeOK, PlanTick, At
    <3> QED
      BY <1>1, <1>4, <3>1, JobAssumption, SchedulerBounds DEF OnTime, PlanTick, At
  <2>2. PlansForTick(manager[m].t) \subseteq Plans
        /\ Cardinality(PlansForTick(manager[m].t)) <= TickLimit
    BY <1>1, <2>1, PlansForTickType, PlansWithinLimit
  <2>3. tick \in Ticks /\ tick.t = now /\ tick.todo = PlansForTick(manager[m].t)
    BY <1>1, <2>1, <2>2 DEF Ticks
  <2>4. manager' = [manager EXCEPT ![m] = ProcessNext(tick)]
    BY <1>4 DEF PlanTick
  <2> HIDE DEF tick
  <2>5. Done(tick) >= 0 /\ Done(tick) \in Int
    <3>1. Cardinality(PlansForTick(manager[m].t)) \in Nat
      BY <2>2, PlansFinite
    <3> QED
      BY <1>1, <2>2, <2>3, <3>1, TickNumbers DEF Done
  <2>6. now <= tick.t + Done(tick) * RunTimeout
    <3>1. Done(tick) * RunTimeout >= 0 * RunTimeout /\ Done(tick) * RunTimeout \in Int
          /\ 0 * RunTimeout = 0
      BY <1>1, <2>5, TickNumbers
    <3> QED
      BY <1>1, <2>3, <3>1
  <2> QED
    BY <2>3, <2>4, <2>5, <2>6, NextPlanOnTime
<1> QED
  BY <1>2, <1>3, <1>4

\* A statement that fails takes no time either.
LEMMA FailOnTime ==
    ASSUME TypeOK, NEW m \in Managers, StatementFails(m), OnTime(manager[m], now)
    PROVE  \E tick : OnTime(tick, now) /\ manager' = [manager EXCEPT ![m] = tick]
<1>1. manager[m] \in Ticks
  BY DEF TypeOK
<1>2. CASE At(m, "sweep")
  <2> DEFINE tick == [manager[m] EXCEPT !.pc = "plan"]
  <2>1. tick.pc = "plan" /\ tick.t = now
    BY <1>1, <1>2 DEF Ticks, OnTime, At
  <2>2. manager' = [manager EXCEPT ![m] = tick]
    BY <1>2 DEF StatementFails, At
  <2> HIDE DEF tick
  <2> QED
    BY <2>1, <2>2 DEF OnTime
<1>3. CASE At(m, "plan")
  <2>1. manager' = [manager EXCEPT ![m] = Idle]
    BY <1>3 DEF StatementFails, At
  <2> QED
    BY <2>1 DEF OnTime, Idle
<1>4. CASE At(m, "claim")
  <2>1. PICK p \in manager[m].todo :
          manager' = [manager EXCEPT ![m] = ProcessNext([manager[m] EXCEPT !.todo = @ \ {p}])]
    BY <1>4 DEF StatementFails, At, Oldest
  <2> QED
    BY <1>4, <2>1, SkipOnTime
<1> QED
  BY <1>2, <1>3, <1>4 DEF StatementFails

\* No step makes an instance late that is not paused: the clock waits for it.
LEMMA StepOnTime ==
    ASSUME TypeOK, [Next]_vars, pauses' = 0, pauses = 0 => paused = {},
           pauses = 0 => \A m \in Managers : OnTime(manager[m], now)
    PROVE  /\ pauses = 0 /\ paused' = {}
           /\ \A m \in Managers : OnTime(manager[m], now)'
<1>1. CASE UNCHANGED vars
  BY <1>1 DEF vars, OnTime, Done, TickLimit
<1>2. CASE TimePasses
  <2>1. pauses = 0 /\ paused' = {} /\ UNCHANGED <<job, manager>> /\ now' = now + 1
        /\ \A m \in Managers : \/ manager[m].pc = "idle"
                               \/ manager[m].pc = "run" /\ now < manager[m].since + RunTimeout
    BY <1>2 DEF TimePasses
  <2>2. now \in Nat /\ RunTimeout \in Nat /\ \A m \in Managers : manager[m].since \in Nat
    BY JobAssumption, SchedulerBounds DEF TypeOK, Ticks
  <2>3. \A m \in Managers : manager[m].pc = "run" => now' <= manager[m].since + RunTimeout
    BY <2>1, <2>2
  <2>4. \A m \in Managers : OnTime(manager[m], now')
    BY <2>1, <2>3 DEF OnTime
  <2> QED
    BY <2>1, <2>4 DEF OnTime, Done, TickLimit
<1>3. ASSUME NEW m \in Managers, Pause(m) PROVE FALSE
  BY <1>3 DEF Pause, TypeOK
<1>4. ASSUME NEW m \in Managers,
             \/ ReadClock(m) \/ Sweep(m) \/ PlanTick(m) \/ StatementFails(m)
             \/ \E p \in Plans : Claim(m, p) \/ Conflicted(m, p)
             \/ FinishSuccess(m) \/ FinishFailure(m)
             \/ \E ok \in BOOLEAN : FinishLost(m, ok)
             \/ Crash(m)
      PROVE  /\ pauses = 0 /\ paused' = {}
             /\ \A k \in Managers : OnTime(manager[k], now)'
  <2>1. UNCHANGED <<job, now, pauses>> /\ (UNCHANGED paused \/ paused' = paused \ {m})
    BY <1>4 DEF ReadClock, Sweep, PlanTick, StatementFails, Claim, Conflicted,
                FinishSuccess, FinishFailure, FinishLost, Crash
  <2>2. pauses = 0 /\ paused' = {} /\ \A k \in Managers : OnTime(manager[k], now)
    BY <2>1
  <2> DEFINE moved == \E tick : OnTime(tick, now) /\ manager' = [manager EXCEPT ![m] = tick]
  <2>3. moved
    <3>1. CASE ReadClock(m) \/ Sweep(m) \/ PlanTick(m)
      BY <2>2, <3>1, TickOnTime
    <3>2. CASE StatementFails(m)
      BY <2>2, <3>2, FailOnTime
    <3>3. ASSUME NEW p \in Plans, Claim(m, p) PROVE moved
      BY <2>2, <3>3, ClaimOnTime
    <3>4. ASSUME NEW p \in Plans, Conflicted(m, p) PROVE moved
      BY <2>2, <3>4, SkipOnTime DEF Conflicted, Oldest
    <3>5. ASSUME NEW ok \in BOOLEAN, HandlerReturned(m, ok) PROVE moved
      BY <2>2, <3>5, ReturnOnTime
    <3>6. CASE Crash(m)
      BY <3>6 DEF Crash, OnTime, Idle
    <3> QED
      BY <1>4, <3>1, <3>2, <3>3, <3>4, <3>5, <3>6 DEF FinishSuccess, FinishFailure, FinishLost
  <2>4. \A k \in Managers : OnTime(manager[k], now)'
    BY <2>1, <2>2, <2>3, OthersOnTime
  <2> QED
    BY <2>2, <2>4
<1>5. ASSUME NEW m \in Managers, Heartbeat(m) \/ Resume(m)
      PROVE  /\ pauses = 0 /\ paused' = {}
             /\ \A k \in Managers : OnTime(manager[k], now)'
  BY <1>5 DEF Heartbeat, Resume, OnTime, Done, TickLimit
<1> QED
  BY <1>1, <1>2, <1>3, <1>4, <1>5 DEF Next

\* While the handlers are in time and hold their leases, no step takes one away from
\* a handler that goes on: no sweep and no claim finds its row stale, and the
\* statements of the others name another attempt.
LEMMA LeaseKept ==
    ASSUME TypeOK, AttemptsAreApart, [Next]_vars, TickFitsLease,
           \A k \in Managers : OnTime(manager[k], now) /\ Served(k),
           NEW m \in Managers, Running(m), Running(m)', manager'[m] = manager[m]
    PROVE  Served(m)'
<1> DEFINE p == manager[m].plan
<1>1. p \in Plans /\ manager[m].t \in Nat /\ now \in Nat /\ StaleTimeout \in Nat
      /\ row \in [Plans -> Rows] /\ row[p].stale \in Nat
  BY JobAssumption, SchedulerBounds DEF TypeOK, Ticks, Rows
<1>2. row[p].st = "RUNNING" /\ row[p].att = manager[m].att
      /\ row[p].stale >= manager[m].t + StaleTimeout
  BY DEF Served, HoldsLease
<1>3. now <= row[p].stale /\ manager[m].t <= now
  <2>1. now <= manager[m].t + StaleTimeout
    BY WithinLease
  <2>2. manager[m].t \in ScheduleDelay .. now
    BY DEF TypeOK, Running
  <2> QED
    BY <1>1, <1>2, <2>1, <2>2, JobAssumption
<1>4. ASSUME NEW k \in Managers, manager[k].pc # "idle"
      PROVE  ~Stale(p, manager[k].t) /\ ~Claimable(p, manager[k].t)
  <2>1. manager[k].t \in Nat /\ manager[k].t <= now
    BY <1>1, <1>4, JobAssumption DEF TypeOK
  <2> QED
    BY <1>1, <1>2, <1>3, <2>1 DEF Stale, Claimable, RetryEligible
<1> SUFFICES /\ row'[p].st = "RUNNING" /\ row'[p].att = row[p].att
             /\ row'[p].stale >= manager[m].t + StaleTimeout
  BY <1>2 DEF Served, HoldsLease
<1>5. ASSUME row'[p] = row[p]
      PROVE  /\ row'[p].st = "RUNNING" /\ row'[p].att = row[p].att
             /\ row'[p].stale >= manager[m].t + StaleTimeout
  BY <1>2, <1>5
<1>6. ASSUME NEW k \in Managers,
             \/ ReadClock(k) \/ PlanTick(k) \/ Pause(k) \/ Resume(k) \/ Crash(k)
             \/ \E q \in Plans : Conflicted(k, q)
             \/ \E ok \in BOOLEAN : FinishLost(k, ok)
      PROVE  row'[p] = row[p]
  BY <1>6 DEF ReadClock, PlanTick, Pause, Resume, Crash, Conflicted, FinishLost
<1>7. ASSUME NEW k \in Managers, Sweep(k) PROVE row'[p] = row[p]
  BY <1>1, <1>4, <1>7 DEF Sweep, At
<1>8. ASSUME NEW k \in Managers, NEW q \in Plans, At(k, "claim"),
             Claimable(q, manager[k].t), row' = Claimed(q, manager[k].t)
      PROVE  row'[p] = row[p]
  <2>1. manager[k].t \in Nat /\ p # q
    BY <1>4, <1>8 DEF TypeOK, Ticks, At
  <2> QED
    BY <1>1, <1>8, <2>1, ClaimedType
<1>9. ASSUME NEW k \in Managers, StatementFails(k) PROVE row'[p] = row[p]
  BY <1>8, <1>9 DEF StatementFails
<1>10. ASSUME NEW k \in Managers, NEW q \in Plans, Claim(k, q) PROVE row'[p] = row[p]
  BY <1>8, <1>10 DEF Claim
<1>11. ASSUME NEW k \in Managers, FinishSuccess(k) \/ FinishFailure(k)
       PROVE  row'[p] = row[p]
  <2>1. k # m
    <3>1. PICK ok \in BOOLEAN : HandlerReturned(k, ok)
      BY <1>11 DEF FinishSuccess, FinishFailure
    <3>2. PICK tick : tick.pc # "run" /\ manager' = [manager EXCEPT ![k] = tick]
      BY <3>1, HandlerReturnedType
    <3> QED
      BY <3>2 DEF Running, TypeOK
  <2>2. Running(k)
    BY <1>11 DEF FinishSuccess, FinishFailure, HandlerReturned, At, Running
  <2>3. ~(manager[k].plan = p /\ manager[k].att = row[p].att)
    BY <1>2, <2>1, <2>2 DEF AttemptsAreApart
  <2>4. HandlerWrites(k)
    BY <1>11, HandlerWritesType
  <2> QED
    BY <1>1, <2>3, <2>4 DEF HandlerWrites
<1>12. ASSUME NEW k \in Managers, Heartbeat(k)
       PROVE  /\ row'[p].st = "RUNNING" /\ row'[p].att = row[p].att
              /\ row'[p].stale >= manager[m].t + StaleTimeout
  <2>1. CASE manager[k].plan = p
    <3>1. row' = [row EXCEPT ![p].stale = now + StaleTimeout]
      BY <1>12, <2>1 DEF Heartbeat
    <3> HIDE DEF p
    <3>2. row'[p] = [row[p] EXCEPT !.stale = now + StaleTimeout]
      BY <1>1, <3>1
    <3>3. row'[p].st = row[p].st /\ row'[p].att = row[p].att /\ row'[p].stale = now + StaleTimeout
      <4>1. row[p] \in Rows
        BY <1>1
      <4> QED
        BY <3>2, <4>1 DEF Rows
    <3> QED
      BY <1>1, <1>2, <1>3, <3>3
  <2>2. CASE manager[k].plan # p
    BY <1>1, <1>5, <1>12, <2>2 DEF Heartbeat
  <2> QED
    BY <2>1, <2>2
<1>13. CASE UNCHANGED vars \/ TimePasses
  BY <1>5, <1>13 DEF vars, TimePasses
<1> QED
  BY <1>5, <1>6, <1>7, <1>9, <1>10, <1>11, <1>12, <1>13 DEF Next

\* The handler that a claim starts holds the lease that the claim wrote.
LEMMA LeaseTaken ==
    ASSUME TypeOK, NEW m \in Managers, NEW p \in Plans, Claim(m, p)
    PROVE  Served(m)'
<1> DEFINE tick == [manager[m] EXCEPT !.pc = "run", !.todo = @ \ {p}, !.plan = p,
                                      !.att = row[p].att + 1, !.since = now]
<1>1. manager[m] \in Ticks /\ manager[m].t \in Nat /\ row \in [Plans -> Rows] /\ row[p] \in Rows
  BY DEF TypeOK, Ticks
<1>2. manager' = [manager EXCEPT ![m] = tick]
  BY DEF Claim
<1>3. tick.plan = p /\ tick.att = row[p].att + 1 /\ tick.t = manager[m].t
  BY <1>1 DEF Ticks
<1> HIDE DEF tick
<1>4. manager'[m] = tick
  BY <1>2 DEF TypeOK
<1>5. row'[p].st = "RUNNING" /\ row'[p].att = row[p].att + 1
      /\ row'[p].stale = manager[m].t + StaleTimeout
  BY <1>1 DEF Claim, Claimed
<1>6. manager[m].t + StaleTimeout >= manager[m].t + StaleTimeout
  BY <1>1, JobAssumption
<1> QED
  BY <1>3, <1>4, <1>5, <1>6 DEF Served, HoldsLease

\* Every reachable state satisfies the inductive invariant.
LEMMA LeasesHold == Spec => []LeaseInv
<1>1. Init => LeaseInv
  BY DEF Init, LeaseInv, OnTime, Served, Running, Idle
<1>2. TypeOK /\ AttemptsAreApart /\ LeaseInv /\ [Next]_vars => LeaseInv'
  <2> SUFFICES ASSUME TypeOK, AttemptsAreApart, LeaseInv, [Next]_vars, pauses' = 0
               PROVE  /\ paused' = {}
                      /\ \A m \in Managers : OnTime(manager[m], now)'
                      /\ TickFitsLease' => \A m \in Managers : Served(m)'
    BY DEF LeaseInv
  <2>1. pauses = 0 /\ paused' = {} /\ \A m \in Managers : OnTime(manager[m], now)'
    BY StepOnTime DEF LeaseInv
  <2>2. job' = job
    BY DEF Next, vars, TimePasses, ReadClock, Sweep, PlanTick, StatementFails, Claim, Conflicted,
           Heartbeat, FinishSuccess, FinishFailure, FinishLost, Pause, Resume, Crash
  <2>3. TickFitsLease' => TickFitsLease
    BY <2>2 DEF TickFitsLease
  <2>4. ASSUME TickFitsLease, NEW m \in Managers PROVE Served(m)'
    <3>1. ASSUME Keeps(m) PROVE Served(m)'
      <4>1. CASE Running(m)'
        BY <2>1, <2>4, <3>1, <4>1, LeaseKept DEF Keeps, LeaseInv
      <4>2. CASE ~Running(m)'
        BY <4>2 DEF Served
      <4> QED
        BY <4>1, <4>2
    <3> QED
      BY <3>1, StepManagers, LeaseTaken
  <2> QED
    BY <2>1, <2>3, <2>4
<1> QED
  BY <1>1, <1>2, TypeCorrect, AttemptsApart, PTL DEF Spec

\* As long as no process stands still and the handlers of one tick fit in
\* StaleTimeout, no plan is in two handlers at once: each handler holds the lease of
\* its own attempt until it returns (JobSpec.validate, tryClaim, processPlan).
THEOREM HandlersApart == Spec => []NoOverlap
<1>1. AttemptsAreApart /\ LeaseInv => NoOverlap
  BY DEF AttemptsAreApart, LeaseInv, Served, HoldsLease, NoOverlap
<1> QED
  BY <1>1, AttemptsApart, LeasesHold, PTL
=============================================================================
