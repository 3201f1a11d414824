SPECIFICATION FairSpec
CONSTANTS
    Pids = {1, 2, 3}
    MaxEvents = 2
    MaxMishaps = 1
INVARIANT SeesFake
INVARIANT ExitStatus
INVARIANT SignalsForwarded
PROPERTY NotHeld
CHECK_DEADLOCK FALSE
