CONSTANTS
  Tunings = {t1, t2}
  Settings = {s1, s2}
  Null = Null
  NoIndex = NoIndex
  NoState = NoState
  NoConfig = NoConfig
  NoPlan = NoPlan
  MaxFaults = 1
  MaxActs = 1
  MaxEdits = 2
SPECIFICATION Spec
\* With nothing configured there is nothing left to do.
CHECK_DEADLOCK FALSE
INVARIANTS
  FollowerInv
  SettingsGapsAreKnown
PROPERTIES
  DeleteDisposes
  Converges
