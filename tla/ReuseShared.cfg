SPECIFICATION Spec
SYMMETRY CallSymmetry
INVARIANTS
  FailedLeavesNothing
  SoleWorkload
  AdoptsWithItsPorts
PROPERTIES
  LoserRemovesNothing
CONSTANTS
  Calls = {s1, s2, s3}
  None = None
  Garbage = Garbage
  Attempts = 2
  WaitsOn = "ports"
  Faults = {"io", "hand", "remove", "list"}
CHECK_DEADLOCK FALSE
