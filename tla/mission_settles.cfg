SPECIFICATION FairSpec
CONSTANTS
    Nodes <- MCPair
    Deps <- MCChain
    Agents = {a1, a2}
    NoAgent = NoAgent
    MaxParallel = 1
    MaxAttempts = 1
    MaxRework = 1
    MaxOwnerSteps = 0
    MaxFaults = 0
    MaxHalts = 0
CHECK_DEADLOCK FALSE
PROPERTIES
    MissionSettles
