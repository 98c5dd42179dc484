CONSTANTS
  Consumers = 2
  Messages = {"m"}
  Statics = {"inlined", "listed"}
  UpStatics = {"listed"}
  x = x
  y = y
  Contents = {x, y}
  MaxTurn = 1
  MaxRuns = 3
  MaxAsks = 3
SYMMETRY Symmetry
SPECIFICATION Spec
CONSTRAINT FirstHasTurns
INVARIANTS
  TypeOK
  WholeIsTrue
