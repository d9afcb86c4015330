CONSTANTS
  Workers = {w1, w2}
  Calls = {"nack"}
  Tokens = {1, 2, 3, 4, 5}
  MaximumAttempts = 2
  MaxGen = 2
  Durations = {1}
  Backoffs = {2}
  NotBefore = 2
  SkewGuard = 0
  Dispersion = 0
  Staleness = 0
  Hints = TRUE
  MaxLate = 0
  MaxTime = 3
SPECIFICATION Spec
SYMMETRY WorkerSymmetry
VIEW ButResult
CHECK_DEADLOCK FALSE
INVARIANTS
  BackoffHonoured
  HandlesOwned
PROPERTIES
  ImplementsOracle
