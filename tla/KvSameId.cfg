SPECIFICATION Spec

CONSTANTS
  Server = {0, 1}
  Client = {c1, c2}
  c1 = c1
  c2 = c2
  Key = {k}
  k = k
  NoValue = NoValue
  NoOp = NoOp
  uuid <- ProcessEach
  MaxRaftState <- NoSnapshots
  MaxLogIndex = 2
  MaxRequests = 1
  MaxCalls = 1
  MaxRestarts = 0

SYMMETRY SymmetricClients

INVARIANTS
  AckedIsExecuted

\* The bounds end every behaviour: a state without a successor is one that used them up.
CHECK_DEADLOCK FALSE
