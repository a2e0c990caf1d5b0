SPECIFICATION Spec
CONSTANTS
  i1 = i1  i2 = i2  i3 = i3
  a = a  b = b  c = c
  k1 = k1  k2 = k2
  t1 = t1  t2 = t2
  None = None
  Instances = {i1}
  Threads = {a, b}
  InstanceOf <- OneProcess
  ReadOnly = {}
  Targets = {t1, t2}
  Prefixes <- AllPrefixes
  Keys = {k1, k2}
  Size <- Sizes
  MaxBytes = None
  Ops = {"put", "putlease", "cas", "get", "remove", "recover"}
  MaxOps = 4
  MaxCrashes = 1
  IoFaults = FALSE
  Corruptible = {k1}
INVARIANTS
  NoStrandedBlob
  RecoveredClean
SYMMETRY TargetSymmetry
CHECK_DEADLOCK FALSE
