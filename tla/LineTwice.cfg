SPECIFICATION Spec
CONSTANTS
  Kinds = {"piped"}
  MaxLines = 2
  LogTail = 2
  MaxServes = 0
  Links <- NoLinks
INVARIANTS
  NoLineTwice
CHECK_DEADLOCK FALSE
