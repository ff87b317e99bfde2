SPECIFICATION FairSpec
CONSTANTS
  Kinds = {"piped", "polled", "task"}
  MaxLines = 4
  LogTail = 2
  MaxServes = 2
  Links <- MCLinks
INVARIANTS
  OnceInOrder
  Silent
  TunnelsFirst
PROPERTIES
  AllDelivered
CHECK_DEADLOCK FALSE
