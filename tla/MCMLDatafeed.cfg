CONSTANTS
  Defs = {d1, d2}
  Absent = Absent
  MaxSearches = 1
  MaxFaults = 1
  MaxActs = 1
  MaxEdits = 1
SPECIFICATION Spec
\* With nothing configured there is nothing left to do.
CHECK_DEADLOCK FALSE
INVARIANTS
  FeedInv
PROPERTIES
  UpdateKeepsRunning
  StateIsTruthful
  Converges
