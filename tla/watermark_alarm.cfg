CONSTANTS
  t1 = t1
  t2 = t2
  q1 = q1
  q2 = q2
  Queues = {q1, q2}
  Tasks = {t1, t2}
  Home <- TwoProcesses
  Width = 1
  SkewGuard = 1
  Dispersion = 1
  Staleness = 1
  MaxTime = 4
SPECIFICATION Spec
INVARIANTS
  NoFalseRegression
