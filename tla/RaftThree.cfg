SPECIFICATION Spec

CONSTANTS
  Server = {s1, s2, s3}
  Nil = Nil
  s1 = s1
  s2 = s2
  s3 = s3
  MaxElections = 3
  MaxHeartBeats = 3
  MaxCommands = 4
  MaxSnapshots = 1
  MaxRestarts = 0
  MaxAstray = 1

CONSTRAINT ThreeServerCases
SYMMETRY SymmetricServers

INVARIANTS
  TypeOK
  LeaderQuorum
  ElectionSafetyUnlessForgot
  ElectedTwiceOnlyIfForgot
  LogContiguous
  CommitIndexOnQuorum
  AppliedIsReported
  SentWithinLog
  CommandsReportedInOrder

PROPERTIES
  NothingGoesBack

\* The bounds end every behaviour: a state without a successor is one that used them up.
CHECK_DEADLOCK FALSE
