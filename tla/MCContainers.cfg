SPECIFICATION Spec
CONSTANTS
  s1 = s1
  s2 = s2
  r1 = r1
  r2 = r2
  c1 = c1
  g1 = g1
  Nil = Nil
  Root = Root
  End = End
INVARIANTS OwnershipExact EndIsFinal
PROPERTIES Linearizable CallsReturn
CHECK_DEADLOCK FALSE
