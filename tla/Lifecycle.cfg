SPECIFICATION FairSpec
INVARIANTS
  OnlyStrangersConflict
  NothingLeftBehind
PROPERTIES
  ImplementsPool
  StartReturns
  DroppedIsTornDown
CONSTANTS
  c1 = c1
  c2 = c2
  c3 = c3
  Stranger = Stranger
  Nobody = Nobody
  Containers = {c1, c2, c3}
  Ports = {1, 2}
  Wanted <- TwoForC3
  Attempts = 2
  Joins = {c1, c3}
  KeepAlive = {c3}
  Stuck = {c3}
  Faults = {"cancel", "invalid"}
CHECK_DEADLOCK FALSE
