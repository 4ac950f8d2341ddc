SPECIFICATION Spec
CONSTANTS
  p1 = p1
  p2 = p2
  k1 = k1
  k2 = k2
  NoProc = NoProc
  Proc = {p1}
  Key = {k1, k2}
  SlotOf <- OneSlot
  Ops = {"store", "add", "fetch", "exists", "delete", "clear", "inc", "entry"}
  Cells = 6
  Lens = {2, 3, 7, 8}
  Ttls = {0, 1}
  CacheTtl = 1
  GcTtl = 0
  Smart = 2
  HeaderCells = 1
  WLockMayFail = FALSE
  MaxTime = 2
  MaxOps = 3
  MaxCrashes = 0
INVARIANT
  AloneAlwaysStores
PROPERTY
  ImplementsTable
CHECK_DEADLOCK FALSE
