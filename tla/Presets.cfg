SPECIFICATION Spec
INVARIANTS
  ReadyMeansServing
  RunsAsAsked
  RestoresTheSame
  Interchangeable
CONSTANTS
  Attempts = 2
  Calls = 2
  Set = 2
CHECK_DEADLOCK FALSE
