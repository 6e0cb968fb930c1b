SPECIFICATION FairSpec
CONSTANTS
  Req = {r1, r2}
  Name = {n1}
  Kind = {model, dataset}
  None = None
  Ops = {"create", "delete", "push", "upload", "edit", "reconcile"}
  Quota = 3
  MaxFaults = 1
  MaxLfs = 1
PROPERTIES
  DriftIsCorrected
  RequestsEnd
CHECK_DEADLOCK FALSE
