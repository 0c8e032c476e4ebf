----------------------------- MODULE Scheduler -----------------------------
(***************************************************************************)
(* The scheduler of the server's periodic jobs: one job and one scope of   *)
(* sys_cron_executions (the rows of others are independent), and one       *)
(* Manager per server instance.                                            *)
(*                                                                         *)
(* Each row is both the lease and the record of one planned execution.     *)
(* Every statement of db_ops.go is one action; a Manager interleaves with  *)
(* the others between its statements and during its handler.  A tick reads *)
(* the database clock once and uses that time for its sweep and all its    *)
(* claims; heartbeats and outcomes use the current time.                   *)
(*                                                                         *)
(* Statements take no time, and a handler returns when its context ends    *)
(* (RunTimeout), unless the process is paused or dies.                     *)
(***************************************************************************)
EXTENDS Integers, FiniteSets, FiniteSetsExt

CONSTANTS
    Managers,          \* server instances
    Jobs,              \* the kinds of job considered
    Cadence, ScheduleDelay, CatchUpWindow, MaxPlansPerTick,
    RunTimeout, StaleTimeout,
    MaxAttempts,
    RetryDelay,        \* RetryDelay[k]: the wait after attempt k failed
    MaxTime,           \* bound: the database clock
    MaxPauses,         \* bound: pauses of a process
    MaxFaults          \* bound: crashes and failed statements

ASSUME JobAssumption ==
    /\ Jobs \subseteq [EveryPlan : BOOLEAN, AllowStaleReentry : BOOLEAN]
    /\ Cadence \in Nat \ {0} /\ ScheduleDelay \in Nat /\ CatchUpWindow \in Nat
    /\ MaxPlansPerTick \in Nat \ {0} /\ MaxAttempts \in Nat \ {0}
    /\ RetryDelay \in [1 .. MaxAttempts -> Nat]
    \* JobSpec.validate
    /\ RunTimeout \in Nat \ {0} /\ StaleTimeout \in Nat /\ StaleTimeout > RunTimeout
ASSUME SchedulerBounds ==
    /\ MaxTime \in Nat /\ MaxTime >= ScheduleDelay
    /\ MaxPauses \in Nat /\ MaxFaults \in Nat

VARIABLES
    job,          \* the registered job; its CatchUpMode is every_plan or latest_only
    now,          \* the database clock
    row,          \* row[p]: the execution record of the plan of bucket p
    manager,      \* manager[m]: where its tick is
    paused,       \* managers whose process stands still
    succeeded,    \* succeeded[p]: the attempts whose handler returned no error
    pauses, faults
vars == <<job, now, row, manager, paused, succeeded, pauses, faults>>

\* Plan p is the time p * Cadence.
FloorPlan(t) == t \div Cadence
Plans == 0 .. FloorPlan(MaxTime)
Attempts == 1 .. MaxAttempts

\* Attempts number the claims of a row, so they also stand for its lease tokens.
NoRow == [st |-> "none", att |-> 0, stale |-> 0, retry |-> 0, code |-> "none"]
Rows == [st : {"none", "RUNNING", "SUCCESS", "FAILED"}, att : 0 .. MaxAttempts,
         stale : Nat,   \* stale_after
         retry : Nat,   \* next_retry_at; 0 is NULL, which is due at once
         code : {"none", "handler_error", "stale_timeout"}]

Idle == [pc |-> "idle", t |-> 0, todo |-> {}, plan |-> 0, att |-> 0, since |-> 0]
Ticks == [pc : {"idle", "sweep", "plan", "claim", "run"},
          t : Nat,                \* the time the tick works with
          todo : SUBSET Plans,    \* plans still to be processed, oldest first
          plan : Plans, att : 0 .. MaxAttempts, since : Nat]  \* handler under way

TypeOK ==
    /\ job \in Jobs
    /\ now \in ScheduleDelay .. MaxTime
    /\ row \in [Plans -> Rows]
    /\ \A p \in Plans : row[p].st = "none" <=> row[p].att = 0
    /\ manager \in [Managers -> Ticks]
    /\ \A m \in Managers :
         /\ manager[m].pc # "idle" => manager[m].t \in ScheduleDelay .. now
         /\ manager[m].pc = "run" => manager[m].att \in Attempts
    /\ paused \subseteq Managers
    /\ succeeded \in [Plans -> SUBSET Attempts]
    /\ pauses \in 0 .. MaxPauses /\ faults \in 0 .. MaxFaults

Init ==
    /\ job \in Jobs
    /\ now = ScheduleDelay
    /\ row = [p \in Plans |-> NoRow]
    /\ manager = [m \in Managers |-> Idle]
    /\ paused = {}
    /\ succeeded = [p \in Plans |-> {}]
    /\ pauses = 0 /\ faults = 0

-----------------------------------------------------------------------------
(* A tick: RunOnce reads the clock, runJob sweeps and plans, processPlan   *)
(* claims and runs one plan after the other.                               *)

At(m, pc) == manager[m].pc = pc /\ m \notin paused

ReadClock(m) ==
    /\ At(m, "idle")
    /\ manager' = [manager EXCEPT ![m] = [Idle EXCEPT !.pc = "sweep", !.t = now]]
    /\ UNCHANGED <<job, now, row, paused, succeeded, pauses, faults>>

Stale(p, t) == row[p].st = "RUNNING" /\ row[p].stale < t

\* markStaleAsFailed, for every job whatever its AllowStaleReentry.
Sweep(m) ==
    /\ At(m, "sweep")
    /\ row' = [p \in Plans |->
                IF Stale(p, manager[m].t)
                THEN [row[p] EXCEPT !.st = "FAILED", !.code = "stale_timeout"] ELSE row[p]]
    /\ manager' = [manager EXCEPT ![m].pc = "plan"]
    /\ UNCHANGED <<job, now, paused, succeeded, pauses, faults>>

Recorded == {p \in Plans : row[p].st # "none"}
\* Mutant: retries without a limit.
RetryEligibleAlways(p, t) == row[p].st = "FAILED" /\ row[p].retry <= t
RetryEligible(p, t) == row[p].st = "FAILED" /\ row[p].att < MaxAttempts /\ row[p].retry <= t

\* The oldest bucket not before t - CatchUpWindow.
OldestAllowed(t) == -((CatchUpWindow - t) \div Cadence)
CatchUpStart(t, latest) ==
    LET start == CASE Recorded = {} -> latest
                   [] Recorded # {} /\ RetryEligible(Max(Recorded), t) -> Max(Recorded)
                   [] OTHER -> Max(Recorded) + 1
    IN  IF CatchUpWindow = 0 THEN Max({start, latest}) ELSE Max({start, OldestAllowed(t)})
PlansForTick(t) ==
    LET latest == FloorPlan(t - ScheduleDelay)
        start == CatchUpStart(t, latest)
    IN  IF job.EveryPlan
        THEN {p \in Plans : start <= p /\ p <= latest /\ p < start + MaxPlansPerTick}
        ELSE {latest}

ProcessNext(tick) == IF tick.todo = {} THEN Idle ELSE [tick EXCEPT !.pc = "claim"]

PlanTick(m) ==
    /\ At(m, "plan")
    /\ manager' = [manager EXCEPT ![m] = ProcessNext([@ EXCEPT !.todo = PlansForTick(manager[m].t)])]
    /\ UNCHANGED <<job, now, row, paused, succeeded, pauses, faults>>

\* Mutant: the steal does not ask whether the lease is stale.
ClaimableRunning(p, t) ==
    \/ row[p].st = "none"
    \/ RetryEligible(p, t)
    \/ row[p].st = "RUNNING" /\ job.AllowStaleReentry /\ row[p].att < MaxAttempts

\* Mutant: the retry asks only that the row is not running.
ClaimableUnlessRunning(p, t) ==
    \/ row[p].st # "RUNNING" /\ row[p].att < MaxAttempts /\ row[p].retry <= t
    \/ Stale(p, t) /\ job.AllowStaleReentry /\ row[p].att < MaxAttempts

\* tryClaim: the insert of a new row, or the update that retries a failed row or
\* steals a stale lease.  Rows are never deleted, so an insert that conflicts does
\* so for good and the two statements act as the later one.
Claimable(p, t) ==
    \/ row[p].st = "none"
    \/ RetryEligible(p, t)
    \/ Stale(p, t) /\ job.AllowStaleReentry /\ row[p].att < MaxAttempts

\* Mutant: a steal keeps the attempt, and so the token, of the lease it takes.
ClaimedSameLease(p, t) ==
    [row EXCEPT ![p] = [st |-> "RUNNING", att |-> IF @.st = "RUNNING" THEN @.att ELSE @.att + 1,
                        stale |-> t + StaleTimeout, retry |-> 0, code |-> "none"]]

Claimed(p, t) ==
    [row EXCEPT ![p] = [st |-> "RUNNING", att |-> @.att + 1, stale |-> t + StaleTimeout,
                        retry |-> 0, code |-> "none"]]

Oldest(p, S) == p \in S /\ \A q \in S : p <= q

Claim(m, p) ==
    LET tick == manager[m]
    IN  /\ At(m, "claim") /\ Oldest(p, tick.todo)
        /\ Claimable(p, tick.t)
        /\ row' = Claimed(p, tick.t)
        /\ manager' = [manager EXCEPT ![m] =
                        [tick EXCEPT !.pc = "run", !.todo = @ \ {p}, !.plan = p,
                                     !.att = row[p].att + 1, !.since = now]]
        /\ UNCHANGED <<job, now, paused, succeeded, pauses, faults>>

Conflicted(m, p) ==
    LET tick == manager[m]
    IN  /\ At(m, "claim") /\ Oldest(p, tick.todo)
        /\ ~Claimable(p, tick.t)
        /\ manager' = [manager EXCEPT ![m] = ProcessNext([tick EXCEPT !.todo = @ \ {p}])]
        /\ UNCHANGED <<job, now, row, paused, succeeded, pauses, faults>>

\* An error of the database ends the sweep, the planning or the claim of one plan,
\* not the tick.  A claim whose answer is lost leaves a lease that nobody serves.
StatementFails(m) ==
    LET tick == manager[m]
    IN  /\ faults < MaxFaults
        /\ \/ /\ At(m, "sweep")
              /\ manager' = [manager EXCEPT ![m].pc = "plan"]
              /\ UNCHANGED row
           \/ /\ At(m, "plan")
              /\ manager' = [manager EXCEPT ![m] = Idle]
              /\ UNCHANGED row
           \/ /\ At(m, "claim")
              /\ \E p \in Plans :
                    /\ Oldest(p, tick.todo)
                    /\ manager' = [manager EXCEPT ![m] = ProcessNext([tick EXCEPT !.todo = @ \ {p}])]
                    /\ \/ UNCHANGED row
                       \/ Claimable(p, tick.t) /\ row' = Claimed(p, tick.t)
        /\ faults' = faults + 1
        /\ UNCHANGED <<job, now, paused, succeeded, pauses>>

-----------------------------------------------------------------------------
(* The handler, its heartbeats and its outcome.  Every statement matches   *)
(* the lease token and the status RUNNING; when it matches no row, the     *)
(* lease is lost and the manager goes on with its next plan.               *)

\* Mutant: the statements match the row by its key only, not by the token.
HoldsAnyLease(m) == row[manager[m].plan].st = "RUNNING"

HoldsLease(m) ==
    LET tick == manager[m] IN row[tick.plan].st = "RUNNING" /\ row[tick.plan].att = tick.att

\* The heartbeat that finds the lease lost does not stop the handler.
Heartbeat(m) ==
    /\ At(m, "run")
    /\ HoldsLease(m)
    /\ row' = [row EXCEPT ![manager[m].plan].stale = now + StaleTimeout]
    /\ UNCHANGED <<job, now, manager, paused, succeeded, pauses, faults>>

HandlerReturned(m, ok) ==
    LET tick == manager[m]
    IN  /\ At(m, "run")
        /\ manager' = [manager EXCEPT ![m] =
                        ProcessNext([tick EXCEPT !.plan = 0, !.att = 0, !.since = 0])]
        /\ succeeded' = IF ok THEN [succeeded EXCEPT ![tick.plan] = @ \cup {tick.att}]
                              ELSE succeeded

FinishSuccess(m) ==
    /\ HandlerReturned(m, TRUE)
    /\ row' = IF HoldsLease(m) THEN [row EXCEPT ![manager[m].plan].st = "SUCCESS"] ELSE row
    /\ UNCHANGED <<job, now, paused, pauses, faults>>

\* An error, a panic, or the end of the context.
FinishFailure(m) ==
    LET p == manager[m].plan  att == manager[m].att
        retry == IF att < MaxAttempts THEN now + RetryDelay[att] ELSE 0
    IN  /\ HandlerReturned(m, FALSE)
        /\ row' = IF HoldsLease(m)
                  THEN [row EXCEPT ![p] = [@ EXCEPT !.st = "FAILED", !.retry = retry,
                                                    !.code = "handler_error"]]
                  ELSE row
        /\ UNCHANGED <<job, now, paused, pauses, faults>>

\* The statement that writes the outcome fails: the row stays RUNNING.
FinishLost(m, ok) ==
    /\ faults < MaxFaults
    /\ HandlerReturned(m, ok)
    /\ faults' = faults + 1
    /\ UNCHANGED <<job, now, row, paused, pauses>>

-----------------------------------------------------------------------------
(* Time, pauses and crashes *)

\* A manager that is not paused is idle or in a handler that still has time.
TimePasses ==
    /\ now < MaxTime
    /\ \A m \in Managers \ paused :
         \/ manager[m].pc = "idle"
         \/ manager[m].pc = "run" /\ now < manager[m].since + RunTimeout
    /\ now' = now + 1
    /\ UNCHANGED <<job, row, manager, paused, succeeded, pauses, faults>>

Pause(m) ==
    /\ pauses < MaxPauses
    /\ m \notin paused /\ manager[m].pc # "idle"
    /\ paused' = paused \cup {m}
    /\ pauses' = pauses + 1
    /\ UNCHANGED <<job, now, row, manager, succeeded, faults>>

Resume(m) ==
    /\ m \in paused
    /\ paused' = paused \ {m}
    /\ UNCHANGED <<job, now, row, manager, succeeded, pauses, faults>>

\* A new instance takes the place of the one that stopped.
Crash(m) ==
    /\ faults < MaxFaults
    /\ manager[m].pc # "idle"
    /\ manager' = [manager EXCEPT ![m] = Idle]
    /\ paused' = paused \ {m}
    /\ faults' = faults + 1
    /\ UNCHANGED <<job, now, row, succeeded, pauses>>

Next ==
    \/ TimePasses
    \/ \E m \in Managers :
        \/ ReadClock(m) \/ Sweep(m) \/ PlanTick(m) \/ StatementFails(m)
        \/ \E p \in Plans : Claim(m, p) \/ Conflicted(m, p)
        \/ Heartbeat(m) \/ FinishSuccess(m) \/ FinishFailure(m)
        \/ \E ok \in BOOLEAN : FinishLost(m, ok)
        \/ Pause(m) \/ Resume(m) \/ Crash(m)

Spec == Init /\ [][Next]_vars
-----------------------------------------------------------------------------
(* Properties *)

Running(m) == manager[m].pc = "run"

\* The leases of a tick all date from its reading of the clock, so the handlers a
\* tick runs one after the other must together fit in StaleTimeout.
TickFitsLease ==
    (IF job.EveryPlan THEN MaxPlansPerTick ELSE 1) * RunTimeout <= StaleTimeout

\* As long as no process stands still, a plan is never in two handlers at once, even
\* if no heartbeat arrives: JobSpec.validate's RunTimeout < StaleTimeout is enough
\* for latest_only; an every_plan job needs the condition above, which nothing checks.
NoOverlap ==
    pauses = 0 /\ TickFitsLease =>
        \A m, k \in Managers : Running(m) /\ Running(k) /\ manager[m].plan = manager[k].plan
                                => m = k

\* A row says SUCCESS only if the handler of its current attempt returned no
\* error; a manager that lost its lease cannot end the attempt of another
\* (the lease_token guard of finishSuccess and finishFailure).
SuccessIsEarned ==
    \A p \in Plans : row[p].st = "SUCCESS" => row[p].att \in succeeded[p]

\* Two handlers never run the same attempt of a plan, and none runs an attempt
\* later than the recorded one, whatever was swept, stolen, paused or restarted.
AttemptsAreApart ==
    \A m \in Managers : Running(m) =>
        /\ manager[m].att <= row[manager[m].plan].att
        /\ \A k \in Managers \ {m} :
             Running(k) /\ manager[k].plan = manager[m].plan => manager[k].att # manager[m].att

\* A plan that succeeded is not run again, and its record stays.
SuccessIsFinal ==
    [][\A p \in Plans : row[p].st = "SUCCESS" =>
        /\ row'[p] = row[p]
        /\ \A m \in Managers : Running(m)' /\ manager'[m].plan = p => Running(m)]_vars
=============================================================================
