SPECIFICATION Spec
CONSTANTS
  Run = {r1, r2, r3}
  Obj = {o1, o2}
  None = None
  Quota = 3
  MaxActive = 2
  MaxFaults = 1
SYMMETRY Symmetry
INVARIANTS
  PointersResolve
  OvershootIsBounded
  LedgerExact
  StoredAreAudited
  RoomMeansSuccess
CHECK_DEADLOCK FALSE
