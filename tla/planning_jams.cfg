SPECIFICATION FairSpec
CONSTANTS
    Owners = {o1}
    MaxAttempts = 2
    Work = 2
    MaxRequests = 1
    MaxVersions = 1
CHECK_DEADLOCK FALSE
PROPERTIES
    RunningSettles
