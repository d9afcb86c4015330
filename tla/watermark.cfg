CONSTANTS
  t1 = t1
  t2 = t2
  q1 = q1
  q2 = q2
  Queues = {q1}
  Tasks = {t1, t2}
  Home <- OneProcess
  Width = 2
  SkewGuard = 1
  Dispersion = 1
  Staleness = 1
  MaxTime = 5
SPECIFICATION LiveSpec
VIEW ButOutcome
INVARIANTS
  TypeOK
  FloorsSound
PROPERTIES
  RaiseBounded
  AdvanceCovers
  CallsReturn
