SPECIFICATION Spec
CONSTANTS
  Parts = {"store"}
  Stores <- ExemptStores
  ListCalls <- SqliteCalls
  Nil = Nil
  NoModel = NoModel
INVARIANTS ListUsersExact
CHECK_DEADLOCK FALSE
