SPECIFICATION Spec
CONSTANTS
  Containers = {1, 2}
  Pods = {"p1", "p2"}
  Nodes = {"n1"}
  PodOf <- PodOf11
  NodeOf <- OneNode
  MaxRestarts = 0
  AgentExits = {"crash", "drain"}
  MaxAgentRestarts = 1
  Workers = {"w1"}
  Sweepers = {"sweeper"}
  Watchers = {"watcher"}
  Ops = {"create", "update", "advance", "delete"}
  Selectors = {{"p1"}, {"p1", "p2"}}
  Clocks <- ClocksAF
  TTLs = {FALSE}
  Deltas = {1}
  Freezes = {FALSE}
  MaxAt = 3
  MaxRequests = 3
  ClientsGiveUp = FALSE
  MaxFaults = 0
  MaxCrashes = 1
INVARIANTS NoOverlap FakedIsTracked ClockAgrees StoreCurrent
CHECK_DEADLOCK FALSE
