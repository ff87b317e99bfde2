CONSTANTS
  c1 = c1
  k = k
  c2 = c2
  Containers = {c1, c2, k}
  Joins = {c1, k}
  KeepAlive = {k}
  MaxNets = 2

SPECIFICATION Spec

INVARIANTS
  ImagePulled
  CloseSweeps
  KeptRuns
  SameNetwork

CHECK_DEADLOCK FALSE
