SPECIFICATION Spec
CONSTANTS
  PageSize = 4
  Window = 16
  JmpLen = 1
  NPages = 10
  Layouts <- Ascending
  Targets <- AllTargets
  MaxInjections = 2
  MaxMaps = 1
  MaxFaults = 2
INVARIANTS NothingOverwritten OneClock CallsSane ReachesAll
PROPERTIES GapExact
CHECK_DEADLOCK FALSE
