SPECIFICATION Spec
CONSTANTS
  Reqs = {r1}
  None = None
  Tuples <- MCTuples
  Keys <- MCKeys
  IteratorTTL = 3
  QueryTTL = 3
  MinInterval = 0
  Jitter = 0
  PageSize = 2
  MaxResults = 2
  Eager = TRUE
  Grain = 1
  Settings <- MCSettings
  MaxDrains = 1
  MaxTime = 7
  MaxWrites = 2
INVARIANTS StaleDetected
CHECK_DEADLOCK FALSE
