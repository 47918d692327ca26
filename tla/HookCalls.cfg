SPECIFICATION Spec

CONSTANTS
  Worker = {w1}
  w1 = w1
  Fiber = {f1, f2}
  f1 = f1
  f2 = f2
  fd1 = fd1
  Fd = {fd1}
  Calls <- CallInTurn
  MaxCalls = 2

INVARIANTS
  TypeOK
  ResumedOnce
  PendingCountsWaiters
  JoinedMeansDone
  OnlySharingBreaks
PROPERTIES
  StopReturns
