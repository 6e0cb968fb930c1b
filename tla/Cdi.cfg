SPECIFICATION Spec
CONSTANTS
  Numbers <- MCNumbers
  Kind = "nvidia"
  None = None
  LocalSpecs <- MCLocalSpecs
  HostSpecs <- MCHostSpecs
  Assignments <- MCAssignments
  LdPath = "LD"
INVARIANTS
  WireNamesAreDefined
  TranslationIsFaithful
CHECK_DEADLOCK FALSE
