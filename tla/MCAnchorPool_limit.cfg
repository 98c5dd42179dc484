CONSTANTS
  m1 = m1
  m2 = m2
  m3 = m3
  n1 = n1
  n2 = n2
  Kinds <- BothKinds
  Msgs <- ThreeMsgs
  Nodes <- TwoNodes
  Sizes <- TwoSizes
  MaxAnchors = 1
  Window = 2
  MaxCount = 1
SPECIFICATION Spec
CHECK_DEADLOCK FALSE
INVARIANT
  InputPoolBounded
