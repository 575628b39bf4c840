SPECIFICATION Spec
CONSTANTS
  None = None
  w1 = w1
  w2 = w2
  w3 = w3
  n1 = n1
  n2 = n2
INVARIANTS AnswerTruthful RowsSeenStay PagesExact SkipsOnlyOverlapping AcknowledgedHolds
PROPERTIES WritesAtomically LatestMonotone StorageEnds
CHECK_DEADLOCK FALSE
