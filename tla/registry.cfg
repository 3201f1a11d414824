SPECIFICATION Spec
CONSTANTS
  Containers = {1}
  Pods = {"p1"}
  Nodes = {"n1"}
  PodOf <- PodOf1
  NodeOf <- OneNode
  MaxRestarts = 1
  AgentExits = {"crash"}
  MaxAgentRestarts = 1
  Workers = {"w1"}
  Sweepers = {"sweeper"}
  Watchers = {"watcher"}
  Ops = {"create", "update", "delete"}
  Selectors = {{"p1"}}
  Clocks <- ClocksA
  TTLs = {TRUE}
  Deltas = {1}
  Freezes = {FALSE}
  MaxAt = 3
  MaxRequests = 2
  ClientsGiveUp = TRUE
  MaxFaults = 1
  MaxCrashes = 1
INVARIANTS TypeOK HandleMatchesContainer OneEntryPerContainer GaugeExact
PROPERTIES NoResurrection ImplementsRegistry
CHECK_DEADLOCK FALSE
