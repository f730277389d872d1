CONSTANTS
  Types = {host, user}
  plain = plain
  other = other
  limited = limited
  Logs = {plain, other, limited}
  ReadBack <- MCReadBack
  Configs <- MCConfigs
  NoLog = NoLog
  NoState = NoState
  NoConfig = NoConfig
  MaxFaults = 2
  MaxActs = 1
  MaxEdits = 2
SPECIFICATION Spec
\* With nothing configured there is nothing left to do.
CHECK_DEADLOCK FALSE
INVARIANTS
  StoreInv
PROPERTIES
  StateIsTruthful
  Converges
