SPECIFICATION Spec
CONSTANTS
  Pids = {1, 2, 3}
  Existing = {1}
  FakeTimeFilter = {1, 2}
  TrackingFilter = {2}
  Callers = {"c1", "c2"}
  Ops = {"add", "set", "advance", "prune", "close"}
  Clocks <- BothModes
  Deltas = {1}
  MaxAt = 3
  MaxCalls = 3
  CloseLast = TRUE
  MaxFaults = 1
INVARIANTS SessionAgrees LiveStay ClosedOnce
CHECK_DEADLOCK FALSE
