CONSTANTS
  Configs <- MCConfigs
  CtxDoneAts <- MCCtxDoneAts
  MaxCall = 2
  States <- MCStates
  Terminal <- MCTerminal
  Moves <- MCMoves
  Absent = Absent
  PollIntervals <- MCPollIntervals
  DefaultInterval = 2
  MaxActs = 2
  MaxAttemptsOf = {1, 2, 5}
SPECIFICATION PollingSpec
\* The call returns, so a behaviour ends.
CHECK_DEADLOCK FALSE
INVARIANTS
  OverrunWithinOneWait
  NilErrorMeansSeen
  WaitErrorsInv
  AppliedAtMostOnce
  SuccessMeansApplied
  ConflictMeansLongLock
PROPERTIES
  NoAttemptAfterCtxDone
  PollReturns
