SPECIFICATION Spec
CONSTANTS
    Issues = {i1, i2}
    Claims = {c1, c2}
    Capacities = {1, 2}
    MaxAttempts = 1
    ProviderMaxAttempts = 1
    Slots = 3
    MaxEnqueues = 2
    MaxDispatches = 2
SYMMETRY Symmetry
CHECK_DEADLOCK FALSE
INVARIANTS
    OneActivePerIssue
    HolderKeepsTask
    OneExecution
PROPERTIES
    ImplementsTaskContract
    ClaimWithinCapacity
