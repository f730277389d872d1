CONSTANTS
  Tunings = {t1, t2}
  Settings = {s1, s2}
  Null = Null
  NoIndex = NoIndex
  NoState = NoState
  NoConfig = NoConfig
  NoPlan = NoPlan
  MaxFaults = 0
  MaxActs = 0
  MaxEdits = 2
SPECIFICATION Spec
\* With nothing configured there is nothing left to do.
CHECK_DEADLOCK FALSE
PROPERTY SettingsAppliedOnResume
