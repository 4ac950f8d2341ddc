SPECIFICATION FairSpec
CONSTANTS
  p1 = p1
  p2 = p2
  p3 = p3
  Proc = {p1, p2, p3}
  Configs <- Rollout
  LongNames <- Long
  MinSize = 2
  MaxStarts = 3
  MaxCrashes = 1
  NoProc = NoProc
  NoSeg = NoSeg
  Empty = Empty
INVARIANTS
  TypeOK
  NobodyUsesUnfinished
  WaitsOnlyForDead
  EntryReadable
PROPERTY
  StartupEnds
CHECK_DEADLOCK FALSE
