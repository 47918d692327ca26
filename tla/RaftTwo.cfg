SPECIFICATION Spec

CONSTANTS
  Server = {s1, s2}
  Nil = Nil
  s1 = s1
  s2 = s2
  MaxElections = 5
  MaxHeartBeats = 3
  MaxCommands = 2
  MaxSnapshots = 1
  MaxRestarts = 1
  MaxAstray = 1

CONSTRAINT TwoServerCases
SYMMETRY SymmetricServers

INVARIANTS
  CursorOrder
  ReplicationCursors

PROPERTIES
  KeepsPromise

\* The bounds end every behaviour: a state without a successor is one that used them up.
CHECK_DEADLOCK FALSE
