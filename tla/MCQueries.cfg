SPECIFICATION Spec
CONSTANTS
  Parts = {"store", "listObjects", "evaluations"}
  Stores <- AllStores
  ListCalls <- AllCalls
  Nil = Nil
  NoModel = NoModel
INVARIANTS AcceptedModelsUsable CheckExact ListUsersExact ExpandAgrees ReadsAgree  EvaluationsExact
PROPERTIES QueriesEnd
CHECK_DEADLOCK FALSE
