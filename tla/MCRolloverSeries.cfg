CONSTANTS
  Names = {"i1", "i2", "x"}
  Bootstrap = "i1"
  Generations = {"i1", "i2"}
  Successor <- MCSuccessor
  NoWriter = NoWriter
  NoState = NoState
  NoConfig = NoConfig
  MaxFaults = 1
  MaxActs = 3
  MaxEdits = 1
SPECIFICATION MCSpec
\* With nothing configured there is nothing left to do.
CHECK_DEADLOCK FALSE
INVARIANTS
  SeriesInv
PROPERTIES
  ForgottenOnlyIfAbsent
  DestroyCompletes
