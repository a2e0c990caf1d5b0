SPECIFICATION Spec
CONSTANTS
  f1 = f1  f2 = f2  f3 = f3
  Fills = {f1, f2, f3}
  MaxFills = 2
  MaxStaging = 5
  Cap = 4
  Chunks = {1, 2}
  LeftBound = 5
SYMMETRY Symmetry
INVARIANTS
  Conserved
  FillsBounded
  StagingBounded
