CONSTANTS
  Tunings = {t1, t2}
  Settings = {s1, s2}
  Null = Null
  NoIndex = NoIndex
  NoState = NoState
  NoConfig = NoConfig
  NoPlan = NoPlan
  MaxFaults = 1
  MaxActs = 0
  MaxEdits = 1
SPECIFICATION Spec
\* With nothing configured there is nothing left to do.
CHECK_DEADLOCK FALSE
PROPERTY DestroyDisposes
