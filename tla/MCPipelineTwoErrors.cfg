SPECIFICATION Spec
CONSTANTS
  U = U
  W = W
  A = A
  D = D
  R = R
  None = None
  Graphs <- MCTwoErrors
  Values <- Objects
  NumProcs = 1
  ChunkSize = 1
  Capacity = 1
INVARIANTS Sound
CHECK_DEADLOCK FALSE
