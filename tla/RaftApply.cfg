SPECIFICATION FairSpec

CONSTANTS
  Server = {s1, s2}
  Nil = Nil
  s1 = s1
  s2 = s2
  MaxElections = 1
  MaxHeartBeats = 2
  MaxCommands = 2
  MaxSnapshots = 0
  MaxRestarts = 0
  MaxAstray = 0

PROPERTIES
  CommittedIsReported

\* The bounds end every behaviour: a state without a successor is one that used them up.
CHECK_DEADLOCK FALSE
