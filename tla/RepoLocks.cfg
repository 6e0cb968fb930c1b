SPECIFICATION FairSpec
CONSTANTS
  Task = {t1, t2, t3}
  Key = {k1, k2}
  LockId = {l1, l2, l3}
  None = None
  RefBound = 4
INVARIANTS
  MutualExclusion
  CountCoversUsers
PROPERTIES
  ImplementsMutex
  NoStarvation
CHECK_DEADLOCK FALSE
