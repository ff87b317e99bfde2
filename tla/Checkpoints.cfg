CONSTANTS
  Procs = {d, m1, m2}
  d = d
  m1 = m1
  m2 = m2
  Docker = {d}
  MaxContent = 2
  MaxCalls = 4

SPECIFICATION Spec

INVARIANTS
  Kept
  LatestWins

PROPERTIES
  OnceReal
  OwnStore

CHECK_DEADLOCK FALSE
