SPECIFICATION Spec
CONSTANTS
  i1 = i1  i2 = i2  i3 = i3
  a = a  b = b  c = c
  k1 = k1  k2 = k2
  t1 = t1  t2 = t2
  None = None
  Instances = {i1}
  Threads = {a, b}
  InstanceOf <- OneProcess
  ReadOnly = {}
  Targets = {t1, t2}
  Prefixes <- AllPrefixes
  Keys = {k1, k2}
  Size <- Sizes
  MaxBytes = 2
  Ops = {"put", "putlease"}
  MaxOps = 3
  MaxCrashes = 0
  IoFaults = FALSE
  Corruptible = {}
INVARIANTS
  LeasePromise
CHECK_DEADLOCK FALSE
