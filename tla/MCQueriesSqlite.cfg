SPECIFICATION Spec
CONSTANTS
  Parts = {"listObjects"}
  Stores <- ExemptStores
  ListCalls <- SqliteCalls
  Nil = Nil
  NoModel = NoModel
INVARIANTS ListObjectsExact
CHECK_DEADLOCK FALSE
