SPECIFICATION Spec
CONSTANTS
  Reqs = {r1}
  None = None
  Tuples <- MCTuples
  Keys <- MCKeys
  IteratorTTL = 3
  QueryTTL = 3
  MinInterval = 0
  Jitter = 2
  PageSize = 3
  MaxResults = 2
  Eager = FALSE
  Grain = 1
  Settings <- MCSettings
  MaxDrains = 1
  MaxTime = 5
  MaxWrites = 3
INVARIANTS StaleGone StaleDetected RecomputedFresh
 
CHECK_DEADLOCK FALSE
