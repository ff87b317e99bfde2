CONSTANTS
  Batch = 2
  LockPolls = 1
  MaxCheckpoints = 2
  Kinds = {"run", "walk", "oneshot"}

SPECIFICATION Spec

INVARIANTS
  Superset
  Identity
  DiskSurvives
  OneSandbox
