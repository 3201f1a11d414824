SPECIFICATION Spec
CONSTANTS
  NsPerSec = 4
  NsPerUsec = 2
  MaxDuration = 100
  Readers = {"r1"}
  Fns = {"clock_gettime", "gettimeofday", "time"}
  Modes = {TRUE, FALSE}
  Targets = {0, 3, 6}
  MaxNow = 5
  MaxWrites = 1
INVARIANTS StableExact TornWithinASecond
CHECK_DEADLOCK FALSE
