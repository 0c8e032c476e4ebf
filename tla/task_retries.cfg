SPECIFICATION FairSpec
CONSTANTS
    Issues = {i1}
    Claims = {c1}
    Capacities = {1}
    MaxAttempts = 2
    ProviderMaxAttempts = 3
    Slots = 2
    MaxEnqueues = 2
    MaxDispatches = 1
CHECK_DEADLOCK FALSE
INVARIANTS
    TypeOK
    OneRetryPerFailure
PROPERTIES
    ImplementsTaskContract
    EndedStays
    
