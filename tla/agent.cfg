SPECIFICATION Spec
CONSTANTS
    Containers = {1}
    Rpcs = {"r1", "r2"}
    Settings <- Both
    MaxRestarts = 1
    MaxCalls = 4
    MaxFaults = 1
    MaxAgentRestarts = 1
INVARIANT StatusAgrees
INVARIANT DrainedReal
PROPERTY ImplementsCluster
CHECK_DEADLOCK FALSE
