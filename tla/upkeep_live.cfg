CONSTANTS
  Clients = {c1}
  Keepers = {k1}
  Contents = {1}
  Inline = {}
  Delayed = {1}
  Delay = 0
  Lease = 1
  MaximumAttempts = 1
  MaxLives = 2
  MaxFaults = 1
  Faults = {"crash", "unanswered", "index", "delete"}
  Reuse = FALSE
  Now = 2
  Retention = 0
  Horizon = 0
  MaxStale = 1
  WordBits = 4
  NsPerMs = 3
  Rejections = 2
SPECIFICATION LiveSpec
CHECK_DEADLOCK FALSE
PROPERTY
  EventuallyEmpty
