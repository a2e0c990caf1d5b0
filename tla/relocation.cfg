SPECIFICATION Spec
CONSTANTS
  src = src
  dst = dst
  v0 = v0
  d0 = d0
  n1 = n1
  Gone = Gone
  NoEtag = NoEtag
  Addresses = {src, dst}
  Versions = {v0, d0, n1}
  Original = v0
  Resident = d0
  Requests <- MCRequests
  Backends <- MCBackends
  Attempts = 2
  Chunks = 2
  Capacity = 1
INVARIANTS
  TypeOK
  NothingLost
PROPERTIES
  PromiseKept
  CancelReturns
  SourceReleased
