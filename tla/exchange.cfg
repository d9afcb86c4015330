CONSTANTS
  Backend = {"memory", "http", "s3"}
  Clients = {c1, c2}
  RecordKeys = {1, 2, 3}
  PayloadKeys = {4}
  HintKeys = {5}
  Generations = {1, 2}
  Suites <- SomeSuites
  Limit = 2
  Cap = 2
  Retries = 1
  MaxCalls = 3
  Days <- SomeDays
SPECIFICATION Spec
SYMMETRY ClientSymmetry
CHECK_DEADLOCK FALSE
INVARIANTS
  TypeOK
  ListingComplete
  
  PagesAgree
  FormatsRoundTrip
  KeysCanonical
  KeysOrdered
  DecodersAgree
  RecordsCanonical
PROPERTIES
  PutTruthful
  HintMonotone
