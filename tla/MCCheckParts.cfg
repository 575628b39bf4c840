SPECIFICATION Spec
CONSTANTS
  None = None
  w1 = w1
  w2 = w2
  reqA = reqA
  reqB = reqB
  Parts = {"reducers", "iterators", "fastPaths", "shared"}
  Trees <- ReducerTrees
INVARIANTS AnswerSound IteratorsExact FastPathExact SharedReadsExact RowsReleased
PROPERTIES PartsEnd
CHECK_DEADLOCK FALSE
