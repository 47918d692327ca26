SPECIFICATION Spec

CONSTANTS
  Thread = {t1, t2}
  t1 = t1
  t2 = t2
  Requests <- EachRequest
  Response <- EachResponse
  MaxCalls = 2
  MaxConnections = 3

CONSTRAINT FewCombinations
SYMMETRY SymmetricThreads

INVARIANTS
  TypeOK
  ServedOnce
  ServedAsSentOrEmpty
  OwnReplyUnlessShared
  NoConnectionForgotten
  LoneCallIsAnswered

\* The bounds end every behaviour: a state without a successor is one that used them up.
CHECK_DEADLOCK FALSE
