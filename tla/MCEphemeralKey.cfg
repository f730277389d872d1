CONSTANTS
  Opens = {k1, k2}
  Clusters = {c1, c2}
  Default = c1
  NoConn = NoConn
  Missing = Missing
SPECIFICATION KeySpec
\* The run ends.
CHECK_DEADLOCK FALSE
INVARIANTS
  EInv
PROPERTIES
  InvalidatedByItsClose
