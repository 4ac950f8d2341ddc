SPECIFICATION PromptSpec
CONSTANTS
  p1 = p1
  p2 = p2
  k1 = k1
  k2 = k2
  NoProc = NoProc
  Proc = {p1, p2}
  Key = {k1}
  SlotOf <- OneSlot
  Ops = {"store", "inc", "delete"}
  Cells = 6
  Lens = {3}
  Ttls = {1}
  CacheTtl = 0
  GcTtl = 1
  Smart = 0
  HeaderCells = 0
  WLockMayFail = FALSE
  MaxTime = 2
  MaxOps = 3
  MaxCrashes = 1
SYMMETRY Symmetry
INVARIANT
  HeldEntryIntact
PROPERTY
  ImplementsTable
CHECK_DEADLOCK FALSE
