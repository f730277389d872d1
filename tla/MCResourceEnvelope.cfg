CONSTANTS
  Null = Null
  Unknown = Unknown
  Nil = Nil
  Kinds <- MCKinds
  Spaces <- TwoSpaces
  Names <- MCNames
  Generated <- MCGenerated
  Cluster <- MCCluster
  Contents = {c1, c2}
  Absent = Absent
  NoState = NoState
  NoConfig = NoConfig
  NoObject = NoObject
  NoModel = NoModel
  MaxFaults = 2
  MaxDrifts = 1
  MaxEdits = 1
SPECIFICATION Spec
\* With nothing configured there is nothing left to do.
CHECK_DEADLOCK FALSE
INVARIANTS
  IdentityInv
  NoSilentOrphan
PROPERTIES
  OnlyTrackedChanged
  StateDroppedOnlyIfGone
  Converges
