CONSTANTS
  a = a
  b = b
  default = default
  s2 = s2
  Resources = {a, b}
  Spaces = {default, s2}
  Default = default
  Versions = {1, 2}
  Configs <- MCConfigs
  NoSpace = NoSpace
  NoState = NoState
  NoConfig = NoConfig
  MaxFaults = 1
  MaxActs = 1
  MaxEdits = 1
SPECIFICATION Spec
PROPERTIES
  StateIsTruthful
  SeenPeersSurvive
  Converges
