SPECIFICATION FairSpec
INVARIANTS
  OneInstaller
  ReadyIsWhole
  LockIsReleased
PROPERTIES
  PollingEnds
CONSTANTS
  Procs = {p1, p2, p3}
  None = None
  StaleAge = 2
  WaitLimit = 1
CHECK_DEADLOCK FALSE
