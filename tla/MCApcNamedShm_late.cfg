SPECIFICATION Spec
CONSTANTS
  p1 = p1
  p2 = p2
  p3 = p3
  Proc = {p1, p2, p3}
  Configs <- Alike
  LongNames <- Long
  MinSize = 2
  MaxStarts = 2
  MaxCrashes = 0
  NoProc = NoProc
  NoSeg = NoSeg
  Empty = Empty
INVARIANT
  EntryReadable
CHECK_DEADLOCK FALSE
