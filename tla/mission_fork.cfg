SPECIFICATION Spec
CONSTANTS
    Nodes <- MCFork
    Deps <- MCForkDeps
    Agents = {a1, a2}
    NoAgent = NoAgent
    MaxParallel = 1
    MaxAttempts = 1
    MaxRework = 0
    MaxOwnerSteps = 0
    MaxFaults = 1
    MaxHalts = 0
SYMMETRY Symmetry
CHECK_DEADLOCK FALSE
INVARIANTS
    ParallelCap
    CompletedIsQuiet
PROPERTIES
    NothingStartsAfterEnd ImplementsContract
