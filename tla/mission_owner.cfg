SPECIFICATION Spec
CONSTANTS
    Nodes <- MCSingle
    Deps <- MCNoDeps
    Agents = {a1, a2}
    NoAgent = NoAgent
    MaxParallel = 1
    MaxAttempts = 1
    MaxRework = 1
    MaxOwnerSteps = 1
    MaxFaults = 1
    MaxHalts = 1
SYMMETRY Symmetry
CHECK_DEADLOCK FALSE
INVARIANTS
    TypeOK
    ReviewGate
PROPERTIES
    TerminalIsFinal
