SPECIFICATION FairSpec
CONSTANTS
    Nodes <- MCSingle
    Deps <- MCNoDeps
    Agents = {a1, a2}
    NoAgent = NoAgent
    MaxParallel = 1
    MaxAttempts = 1
    MaxRework = 1
    MaxOwnerSteps = 0
    MaxFaults = 1
    MaxHalts = 1
CHECK_DEADLOCK FALSE
PROPERTIES
    EndedDrains
