SPECIFICATION FairSpec
CONSTANTS
  Req = {r1, r2}
  Space <- MCSpace
  GpuOwners <- MCGpuOwners
  Ports = {1, 2}
  MaxBorn = 2
  MaxPush = 1
  MaxFaults = 1
  None = None
INVARIANTS
  StartKeepsUntilBuilt
  StartedRunsTheBuild
  SoloStartsGetAPort
  ProxyReachesItsSpace
PROPERTIES
  LifecyclesEnd
CHECK_DEADLOCK FALSE
