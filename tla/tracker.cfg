SPECIFICATION Spec
CONSTANTS
  Pids = {1, 2, 3}
  Parent = 1
  Worlds <- SafetyWorlds
  Callers = {"c1"}
  Deltas = {1}
  MaxAt = 3
INVARIANTS TreeAgrees ReleasedByClose HandleReaches SwapFindsChild NoOrphan
CHECK_DEADLOCK FALSE
