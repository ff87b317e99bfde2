SPECIFICATION Spec
INVARIANTS
  ListedWhileLive
  CleanShutdown
PROPERTIES
  ImplementsOwnership
CONSTANTS
  A = A
  B = B
  C = C
  a1 = a1
  a2 = a2
  b1 = b1
  netA = netA
  netB = netB
  NoOne = NoOne
  NoNet = NoNet
  Runs = {A, B, C}
  Names = {a1, a2, b1}
  Nets = {}
  KeepAlive = {b1}
  RunOf <- MCRunOf
  NetOf <- NoNetworks
  BackendOf <- COnAnother
  Mode <- OnlyAOn
  Faults = {}
CHECK_DEADLOCK FALSE
