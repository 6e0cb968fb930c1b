SPECIFICATION Spec
CONSTANTS
  Upload = {u1, u2, u3}
  Download = {d1}
  None = None
  Size = 2
  MaxCrashes = 1
INVARIANTS
  ObjectsAreWhole
  DownloadsAreWhole
  WholeOnceQuiet
  StoredMeansPresent
CHECK_DEADLOCK FALSE
