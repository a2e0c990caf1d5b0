SPECIFICATION Spec
CONSTANTS
  d = d
  f = f
  g = g
  Root = Root
  Drain = Drain
  Files = {f, g}
  Directories = {d}
  Parent <- MCParent
  Callers = {c1, c2}
  MaxChanges = 2
  MaxEvents = 1
  Scenarios <- MCScenarios
INVARIANTS
  TypeOK
  Accounted
  StaleOnlyInFlight
  Honest
SYMMETRY Symmetry
CHECK_DEADLOCK FALSE
