SPECIFICATION Spec
CONSTANTS
  NExpert = 3
  NPools = 3
  Inputs <- MCInputs
  Out = Out
  Junk = Junk
INVARIANTS
  TypeOK
  OutputExact
  FusedTailComplete
  ReleaseWhenIdle
  RoundsPartition
  RunsGreedy
