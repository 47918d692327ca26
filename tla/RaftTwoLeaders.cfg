SPECIFICATION Spec

CONSTANTS
  Server = {s1, s2, s3}
  Nil = Nil
  s1 = s1
  s2 = s2
  s3 = s3
  MaxElections = 3
  MaxHeartBeats = 1
  MaxCommands = 0
  MaxSnapshots = 0
  MaxRestarts = 0
  MaxAstray = 0

SYMMETRY SymmetricServers

INVARIANTS
  ElectionSafety

\* The bounds end every behaviour: a state without a successor is one that used them up.
CHECK_DEADLOCK FALSE
