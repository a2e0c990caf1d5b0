SPECIFICATION Spec
CONSTANTS
  Dirs <- MCDirs
  RootPaths <- MCRoots
  MaxCands = 2
  Budget = 1
  StuckLimit = 1
  FailLimit = 2
  BarrenLimit = 2
  Scenarios <- MCScenarios
INVARIANTS
  TypeOK
  LiveRootIsOpen
  Settled
  FreshUnderWatch
  StaleIsOwed
  ThreadsBounded
CHECK_DEADLOCK FALSE
