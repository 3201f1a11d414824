SPECIFICATION FairSpec
CONSTANTS
    Selections = {"app"}
    Settings <- OnTheWire
    Wanted <- AskFor
    Second = 2
    Users = {"u1"}
    Tests = {"t1"}
    Ctls = {"k1"}
    AtATime = 2
    MaxLost = 1
    MaxRestarts = 1
INVARIANT FnHeld
INVARIANT NilMeansClean
PROPERTY CleanedUp
CHECK_DEADLOCK FALSE
