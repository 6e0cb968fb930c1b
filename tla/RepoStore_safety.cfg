SPECIFICATION Spec
CONSTANTS
  Req = {r1, r2, r3}
  Name = {n1, n2}
  Kind = {model, dataset}
  None = None
  Ops = {"create", "delete", "push", "upload", "edit"}
  Quota = 3
  MaxFaults = 1
  MaxLfs = 0
SYMMETRY ReqSymmetry
INVARIANTS
  OneHomePerRow
  LedgerExact
  RevisionsNameCommits
  OrphansNeedAFault
PROPERTY
  NoLostCommit
CHECK_DEADLOCK FALSE
