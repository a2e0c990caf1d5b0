SPECIFICATION Spec
CONSTANTS
  i1 = i1  i2 = i2  i3 = i3
  a = a  b = b  c = c
  k1 = k1  k2 = k2
  t1 = t1  t2 = t2
  None = None
  Instances = {i1, i2}
  Threads = {a, b}
  InstanceOf <- TwoProcesses
  ReadOnly = {}
  Targets = {t1, t2}
  Prefixes <- AllPrefixes
  Keys = {k1, k2}
  Size <- Sizes
  MaxBytes = 2
  Ops = {"put", "putlease", "cas", "casremove", "get", "lookup", "remove", "removeret", "gc", "recover", "close", "drop"}
  MaxOps = 2
  MaxCrashes = 1
  IoFaults = TRUE
  Corruptible = {k1}
INVARIANTS
  TypeOK
  ReclaimSafe
SYMMETRY TargetSymmetry
CHECK_DEADLOCK FALSE
