CONSTANTS
  Messages = {"m"}
  Layouts = {"p", "q"}
  WithUpstream = {"p"}
  Toolsets <- ThreeToolsets
SPECIFICATION Spec
INVARIANTS
  TypeOK
  ReturnedIsLast
  SpliceBehindOwnPrefix
PROPERTIES
  DenseEnds
