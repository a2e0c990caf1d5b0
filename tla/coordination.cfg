SPECIFICATION FairSpec
CONSTANTS
  p1 = p1  p2 = p2  i1 = i1  i2 = i2
  None = None
  Procs = {p1, p2}
  Instances = {i1, i2}
  Deployments <- MCDeployments
  MaxOpens = 3
  MaxFills = 1
  MaxCrashes = 1
INVARIANTS
  TypeOK
  WriterExclusive
  FillKept
  Reclaimed
PROPERTIES
  OpensReturn
CHECK_DEADLOCK FALSE
