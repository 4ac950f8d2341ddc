SPECIFICATION Spec
CONSTANTS
  p1 = p1
  p2 = p2
  k1 = k1
  k2 = k2
  NoProc = NoProc
  Proc = {p1, p2}
  Key = {k1, k2}
  SlotOf <- OneSlot
  Ops = {"store", "fetch", "delete"}
  Cells = 6
  Lens = {2, 3}
  Ttls = {0}
  CacheTtl = 0
  GcTtl = 0
  Smart = 0
  HeaderCells = 0
  WLockMayFail = TRUE
  MaxTime = 0
  MaxOps = 3
  MaxCrashes = 0
SYMMETRY Symmetry
INVARIANTS
  TypeOK
  RefCountExact
  HeldEntryIntact
  ListsSound
  Accounting
  BlocksDisjoint
  NoLeak
  OneExpungePerShortage
CHECK_DEADLOCK FALSE
