SPECIFICATION FairSpec
CONSTANTS
  U = U
  W = W
  A = A
  D = D
  R = R
  None = None
  Graphs <- MCGraphs
  Values <- Objects
  NumProcs = 1
  ChunkSize = 1
  Capacity = 1
INVARIANTS Sound NoDuplicates Complete ErrorSurfaces
PROPERTIES Terminates
CHECK_DEADLOCK FALSE
