CONSTANTS
  N = 3
  HeadLens <- One
  TextLens <- OneOrTwo
  NameLens <- Two
  KVLens <- OneOrThree
  Drops <- One
  Drifts <- SomeDrift
SPECIFICATION Spec
INVARIANTS
  TypeOK
  PositionsExact
  DeltasFromOwnSpan
  ReuseIsWhole
