SPECIFICATION Spec
CONSTANTS
  None = None
  w1 = w1
  w2 = w2
  reqA = reqA
  reqB = reqB
  Parts = {"reducers"}
  Trees <- CancelledTrees
INVARIANTS ReducerSound
CHECK_DEADLOCK FALSE
