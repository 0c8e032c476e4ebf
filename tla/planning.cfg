SPECIFICATION FairSpec
CONSTANTS
    Owners = {o1, o2}
    MaxAttempts = 2
    Work = 2
    MaxRequests = 2
    MaxVersions = 3
CHECK_DEADLOCK FALSE
INVARIANTS
    TypeOK
    OnePlanner
    RejectedStaysOut
    QuietEnd
PROPERTIES
    DecidesOnWhatItSaw
    CancelClosesPlanning
    PlanningDrains
    PlanningConcludes
