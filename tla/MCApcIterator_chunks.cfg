SPECIFICATION FairSpec
CONSTANTS
  k1 = k1
  k2 = k2
  k3 = k3
  Absent = Absent
  Key = {k1, k2, k3}
  NSlots = 2
  SlotOf <- TwoSlots
  Match = {k1, k2, k3}
  ChunkSize = 1
  Lists = {"active", "deleted"}
  Ttls = {1}
  Careful = TRUE
  MaxTime = 2
  MaxStores = 1
  MaxCalls = 1
  MaxGc = 1
INVARIANTS
  TypeOK
  InBounds
  PassExact
  DeleteLeavesOnlyNewer
PROPERTY
  WalksEnd
CHECK_DEADLOCK FALSE
