SPECIFICATION Spec
CONSTANTS
  Req = {r1, r2, r3, r4}
  Admin = {a1}
  User = {u1, u2}
  Email = {e1, e2}
  Quota = {0, 1}
  MaxQuota = 1
  Gpus = {none, g1}
  NoGpus = none
  None = None
  RequireApproval = {TRUE, FALSE}
SYMMETRY Symmetry
INVARIANTS
  AuditExplainsAccount
  DecisionMirrorsAudit
  HistoryIsLegal
CHECK_DEADLOCK FALSE
