SPECIFICATION FairSpec
CONSTANTS
    Pids = {1, 2}
    MaxEvents = 0
    MaxMishaps = 0
PROPERTY CleanupEnds
CHECK_DEADLOCK FALSE
