CONSTANTS
  r1 = r1
  r2 = r2
  r3 = r3
  anchors = anchors
  lengths = lengths
  ph = ph
  m1 = m1
  Absent = Absent
  Untouched = Untouched
  Deleted = Deleted
  Uids <- ThreeUids
  Dicts <- TwoDicts
  Keys <- OneKey
  Msgs <- OneMsg
  MayFail <- LastUid
SPECIFICATION FairBatchSpec
INVARIANTS
  TypeOK
  NothingStranded
  FlushedWhenQuiet
PROPERTIES
  StableView
  IsSnapshotBatch
  CommittedEventually
