SPECIFICATION Spec
CONSTANTS
    Nodes <- MCPair
    Deps <- MCChain
    Agents = {a1, a2}
    NoAgent = NoAgent
    MaxParallel = 1
    MaxAttempts = 1
    MaxRework = 1
    MaxOwnerSteps = 1
    MaxFaults = 0
    MaxHalts = 1
SYMMETRY Symmetry
CHECK_DEADLOCK FALSE
PROPERTIES ImplementsContract
INVARIANTS
    DependencyGate
    GateHolds
