SPECIFICATION Spec
CONSTANTS
    Nodes <- MCSingle
    Deps <- MCNoDeps
    Agents = {a1, a2}
    NoAgent = NoAgent
    MaxParallel = 2
    MaxAttempts = 2
    MaxRework = 0
    MaxOwnerSteps = 0
    MaxFaults = 1
    MaxHalts = 0
SYMMETRY Symmetry
CHECK_DEADLOCK FALSE
INVARIANTS
    OneLiveRun
    LiveRunFitsNode
