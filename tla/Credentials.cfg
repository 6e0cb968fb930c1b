SPECIFICATION Spec
CONSTANTS
  Proc = {p1, p2}
  Url <- MCUrl
  Spelling = {plain, odd}
  User = {ann, bob}
  File <- MCFile
  MaxRuns = 3
  None = None
  Torn = Torn
INVARIANT
  CredentialsBelongTogether
PROPERTY
  SavesAreAtomic
CHECK_DEADLOCK FALSE
