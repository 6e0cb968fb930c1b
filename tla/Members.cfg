SPECIFICATION Spec
CONSTANTS
  member = member
  admin = admin
  r1 = r1
  r2 = r2
  User <- MCUser
  Admins <- MCAdmins
  Req <- MCReq
  Glyph = {heart}
  MaxSerial = 3
  MaxSessions = 1
  MaxTokens = 1
  None = None
SYMMETRY Symmetry
INVARIANTS
  OneEach
  NothingOutlivesItsPost
PROPERTIES
  RemovalsAreOwn
