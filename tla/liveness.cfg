SPECIFICATION FairSpec
CONSTANTS
  Containers = {1}
  Pods = {"p1"}
  Nodes = {"n1"}
  PodOf <- PodOf1
  NodeOf <- OneNode
  MaxRestarts = 1
  AgentExits = {}
  MaxAgentRestarts = 0
  Workers = {"w1"}
  Sweepers = {"sweeper"}
  Watchers = {"watcher"}
  Ops = {"create", "update"}
  Selectors = {{"p1"}}
  Clocks <- ClocksA
  TTLs = {TRUE}
  Deltas = {1}
  Freezes = {FALSE}
  MaxAt = 3
  MaxRequests = 2
  ClientsGiveUp = TRUE
  MaxFaults = 1
  MaxCrashes = 0
PROPERTIES RequestsEnd ExpiryReleases WatcherRecovers
CHECK_DEADLOCK FALSE
