CONSTANTS
  Statics <- TwoStatics
  StaticNames <- Heads
  MaxTurn = 2
  Contents = {"x", "y"}
  Messages = {"m"}
  MinReuse = 3
SPECIFICATION Spec
INVARIANTS
  WholePrefixExact
