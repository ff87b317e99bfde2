SPECIFICATION FairSpec
PROPERTIES
  WatchdogReaps
  SweepReaps
CONSTANTS
  A = A
  B = B
  C = C
  a1 = a1
  a2 = a2
  b1 = b1
  netA = netA
  netB = netB
  NoOne = NoOne
  NoNet = NoNet
  Runs = {A, B}
  Names = {a1, a2}
  Nets = {}
  KeepAlive = {}
  RunOf <- MCRunOf
  NetOf <- NoNetworks
  BackendOf <- OneBackend
  Mode <- OnlyAOn
  Faults = {}
CHECK_DEADLOCK FALSE
