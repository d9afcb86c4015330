CONSTANTS
  Workers = {w1, w2}
  Calls = {"renew", "ack", "bury"}
  Tokens = {1, 2, 3, 4, 5}
  MaximumAttempts = 2
  MaxGen = 3
  Durations = {1}
  Backoffs = {}
  NotBefore = 0
  SkewGuard = 0
  Dispersion = 0
  Staleness = 0
  Hints = FALSE
  MaxLate = 0
  MaxTime = 100
SPECIFICATION Spec
SYMMETRY WorkerSymmetry
VIEW ButResult
CHECK_DEADLOCK FALSE
INVARIANTS
  TypeOK
  AuditClean
  AttemptsCounted
  TerminalFences
  
PROPERTIES
  ResultsTrue
  OracleSteps
