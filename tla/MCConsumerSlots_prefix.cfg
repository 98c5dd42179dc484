CONSTANTS
  Statics <- ThreeStatics
  StaticNames <- Heads
  Asked <- AskedOf
  Answers <- AnswersOf
  MaxTurn = 2
  x = x
  y = y
  Contents = {x, y}
  Messages = {"m", "n"}
  MinReuse = 3
SYMMETRY Symmetry
SPECIFICATION SlotsSpec
INVARIANTS
  TypeOK
  LeftSpansExact
  AnswersRequest
  TurnsFresh
  SlotsCurrent
