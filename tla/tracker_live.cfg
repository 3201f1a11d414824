SPECIFICATION FairSpec
CONSTANTS
  Pids = {1, 2}
  Parent = 1
  Worlds <- LiveWorlds
  Callers = {"c1", "c2"}
  Deltas = {1}
  MaxAt = 3
PROPERTIES StopsEnd CloseReturns
CHECK_DEADLOCK FALSE
