SPECIFICATION Spec
CONSTANTS
    Managers = {m1, m2}
    Jobs <- AnyJob
    Cadence = 4
    ScheduleDelay = 1
    CatchUpWindow = 4
    MaxPlansPerTick = 2
    RunTimeout = 1
    StaleTimeout = 2
    MaxAttempts = 2
    RetryDelay <- MCRetryDelay
    MaxTime = 7
    MaxPauses = 1
    MaxFaults = 1
SYMMETRY Symmetry
INVARIANTS
    TypeOK
    NoOverlap
    SuccessIsEarned
    AttemptsAreApart
PROPERTIES
    SuccessIsFinal
