CONSTANTS
  Workers = {w1}
  Calls = {"nack"}
  Tokens = {1, 2, 3, 4, 5}
  MaximumAttempts = 2
  MaxGen = 2
  Durations = {1}
  Backoffs = {0}
  NotBefore = 0
  SkewGuard = 0
  Dispersion = 0
  Staleness = 0
  Hints = TRUE
  MaxLate = 1
  MaxTime = 100
SPECIFICATION LiveSpec
CHECK_DEADLOCK FALSE
INVARIANTS
  LeaseExclusion
PROPERTIES
  EventuallyTerminal
