SPECIFICATION FairSpec
CONSTANTS
  p1 = p1
  p2 = p2
  k1 = k1
  k2 = k2
  NoProc = NoProc
  Proc = {p1, p2}
  Key = {k1}
  SlotOf <- OneSlot
  Ops = {"store", "entry"}
  Cells = 6
  Lens = {3}
  Ttls = {0}
  CacheTtl = 0
  GcTtl = 0
  Smart = 0
  HeaderCells = 0
  WLockMayFail = FALSE
  MaxTime = 0
  MaxOps = 3
  MaxCrashes = 1
INVARIANT
  LockExact
PROPERTY
  EveryOpEnds
CHECK_DEADLOCK FALSE
