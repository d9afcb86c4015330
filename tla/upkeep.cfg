CONSTANTS
  Clients = {c1, c2}
  Keepers = {k1}
  Contents = {1, 2}
  Inline = {2}
  Delayed = {1}
  Delay = 0
  Lease = 1
  MaximumAttempts = 1
  MaxLives = 1
  MaxFaults = 1
  Faults = {"crash", "unanswered", "index"}
  Reuse = FALSE
  Now = 1
  Retention = 0
  Horizon = 0
  MaxStale = 2
  WordBits = 4
  NsPerMs = 3
  Rejections = 2
SPECIFICATION Spec
SYMMETRY ClientSymmetry
CHECK_DEADLOCK FALSE
INVARIANTS
  TypeOK
  
  
  BucketsSound
  BackoffsSound

  
