SPECIFICATION Spec
INVARIANTS
  RunningIsLive
PROPERTIES
  OnlyOwnerRemoves
CONSTANTS
  A = A
  B = B
  C = C
  a1 = a1
  a2 = a2
  b1 = b1
  netA = netA
  netB = netB
  NoOne = NoOne
  NoNet = NoNet
  Runs = {A, B}
  Names = {a1, a2}
  Nets = {netA, netB}
  KeepAlive = {}
  RunOf <- MCRunOf
  NetOf <- EachItsOwnNet
  BackendOf <- OneBackend
  Mode <- OnlyAOn
  Faults = {"remove", "ensure", "connect", "inuse", "io", "late"}
CHECK_DEADLOCK FALSE
