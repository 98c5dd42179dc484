CONSTANTS
  r1 = r1
  r2 = r2
  N = 3
  NumRounds = 2
  MaxTries = 2
  Requests <- TwoRequests
  Modes <- AllModes
  Teams <- AllTeams
  SpatialMasks <- Spatial
  TemporalMasks <- Temporal
  MayFail <- OneFails
SPECIFICATION FairSpec
CHECK_DEADLOCK FALSE
INVARIANTS
  TypeOK
  EveryNodeOnce
  InputsCurrent
  PlaceholdersReady
PROPERTY RunsEnd
