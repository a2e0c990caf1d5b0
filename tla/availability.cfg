SPECIFICATION Spec
CONSTANTS
  d = d  f = f  c1 = c1  c2 = c2  c3 = c3  h1 = h1  h2 = h2
  None = None
  Addrs = {d, f}
  Below <- SubTree
  Clients = {c1, c2, c3}
  Hosts = {h1, h2}
  Host <- TwoHosts
  Nonces = {11, 12, 13, 14, 15, 16, 17, 18, 19}
  MaxVer = 3
  FailOps = {"write", "mutate", "continue"}
  CasAttempts = 2
  Fallback = TRUE
  Scenarios <- AllScenarios
INVARIANTS
  TypeOK
  NoResurrection
  ServedFresh
  RowCurrent
SYMMETRY Symmetry
CHECK_DEADLOCK FALSE
