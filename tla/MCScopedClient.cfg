CONSTANTS
  Callers = {c1, c2, c3}
  Statuses <- MCStatuses
  Malformed = Malformed
  Requirements <- MCRequirements
  NotCached = NotCached
  Nobody = Nobody
  MaxUpgrades = 1
SPECIFICATION Spec
\* Every caller ends.
CHECK_DEADLOCK FALSE
INVARIANTS
  ClientInv
  ConsistentJudgement
PROPERTIES
  VerdictsFollowStatus
  EveryCallerEnds
