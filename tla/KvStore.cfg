SPECIFICATION Spec

CONSTANTS
  Server = {0, 1}
  Client = {c1, c2}
  c1 = c1
  c2 = c2
  Key = {k}
  k = k
  NoValue = NoValue
  NoOp = NoOp
  uuid <- OneProcess
  MaxRaftState = 25
  MaxLogIndex = 3
  MaxRequests = 2
  MaxCalls = 3
  MaxRestarts = 1

CONSTRAINT FewCalls
SYMMETRY SymmetricClients

INVARIANTS
  TypeOK
  AckedIsExecuted
  ChannelsOwned
  ChannelHoldsOwnRequest

PROPERTIES
  ImplementsReplicaMap

\* The bounds end every behaviour: a state without a successor is one that used them up.
CHECK_DEADLOCK FALSE
