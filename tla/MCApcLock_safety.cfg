SPECIFICATION Spec
CONSTANTS
  t1 = t1
  t2 = t2
  t3 = t3
  p1 = p1
  p2 = p2
  p3 = p3
  Thread = {t1, t2, t3}
  Process = {p1, p2, p3}
  PidOf <- ThreeThreads
  NoPid = NoPid
  NoTimer = NoTimer
  PidReuse = FALSE
  OpenMayFail = FALSE
  MayExit259 = TRUE
  MaxCrashes = 2
SYMMETRY Symmetry
INVARIANTS
  TypeOK
  MutualExclusion
  OnlyDeadWritersRevoked
  ReadersCounted
PROPERTY
  ImplementsRWLock
CHECK_DEADLOCK FALSE
