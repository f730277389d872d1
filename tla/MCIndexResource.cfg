CONSTANTS
  a = a
  b = b
  f = f
  g = g
  keyword = keyword
  text = text
  v1 = v1
  v2 = v2
  Aliases = {a, b}
  Fields = {f, g}
  FieldTypes = {keyword, text}
  Values = {v1, v2}
  DefaultStatic = v1
  Null = Null
  Template <- MCTemplate
  Configs <- MCConfigs
  NoIndex = NoIndex
  NoState = NoState
  NoConfig = NoConfig
  MaxFaults = 1
  MaxActs = 2
  MaxEdits = 2
SPECIFICATION Spec
\* With nothing configured there is nothing left to do.
CHECK_DEADLOCK FALSE
INVARIANTS
  IndexInv
PROPERTIES
  ProtectedSurvives
  WriteApplies
  Converges
