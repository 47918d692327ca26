---- MODULE Clerk ----
(***************************************************************************)
(* src/src/raftClerk/clerk.cpp, the clients, and with them the whole       *)
(* store: a Clerk repeats its request, to one server after another, until  *)
(* one answers OK.  A call ends with a reply, with an empty reply (the     *)
(* server's process ended: recv returns 0 and the empty message parses),   *)
(* or fails.                                                               *)
(***************************************************************************)
EXTENDS KvServer

VARIABLES
  m_requestId,      \* the last request of each clerk
  m_recentLeaderId,
  request,          \* the operation it is at, NoOp between two
  server,           \* local: the server it calls now
  attempts,         \* calls made so far
  acked             \* history: <<server, op>>, every OK that a clerk has taken

clerkVars == <<m_requestId, m_recentLeaderId, request, server, attempts, acked>>
vars == <<kvVars, clerkVars>>

NextServer_Mutant(s) == s + 1
NextServer(s) == (s + 1) % Cardinality(Server)

ClerkInit ==
  /\ m_requestId = [c \in Client |-> 0]
  /\ m_recentLeaderId = [c \in Client |-> 0]
  /\ request = [c \in Client |-> NoOp]
  /\ server = [c \in Client |-> 0]
  /\ attempts = [c \in Client |-> 0]
  /\ acked = {}

NewCall(c, op, s) ==
  /\ attempts[c] < MaxCalls
  /\ attempts' = [attempts EXCEPT ![c] = @ + 1]
  /\ calls' = calls \cup {[op |-> op, server |-> s, attempt |-> attempts[c] + 1]}

ServersUnchanged ==
  UNCHANGED <<process, raftVars, persister, loopVars, storeVars, waitApplyCh, handler, restarts,
              executed>>

\* The first half of Get and PutAppend.
NewRequest(c) ==
  \E operation \in {"Put", "Get"}, key \in Key :
    LET op == [operation |-> operation, key |-> key, client |-> c,
               requestId |-> m_requestId[c] + 1]
    IN /\ request[c] = NoOp /\ m_requestId[c] < MaxRequests
       /\ m_requestId' = [m_requestId EXCEPT ![c] = @ + 1]
       /\ request' = [request EXCEPT ![c] = op]
       /\ server' = [server EXCEPT ![c] = m_recentLeaderId[c]]
       /\ NewCall(c, op, m_recentLeaderId[c])
       /\ UNCHANGED <<m_recentLeaderId, replies, acked>> /\ ServersUnchanged

RetryAt(c, s) ==
  /\ server' = [server EXCEPT ![c] = s]
  /\ NewCall(c, request[c], s)
  /\ UNCHANGED <<m_requestId, m_recentLeaderId, request, acked>> /\ ServersUnchanged

\* The reply to the call it waits for.
Awaited(c, r) == r.call.op.client = c /\ request[c] # NoOp /\ r.call.attempt = attempts[c]

TakeOK(c, r) ==
  /\ Awaited(c, r) /\ r.err = "OK"
  /\ replies' = replies \ {r}
  /\ request' = [request EXCEPT ![c] = NoOp]
  /\ m_recentLeaderId' = [m_recentLeaderId EXCEPT ![c] = server[c]]
  /\ acked' = acked \cup {<<server[c], request[c]>>}
  /\ UNCHANGED <<calls, m_requestId, server, attempts>> /\ ServersUnchanged

TakeWrongLeader(c, r) ==
  /\ Awaited(c, r) /\ r.err = "ErrWrongLeader"
  /\ replies' = replies \ {r}
  /\ RetryAt(c, NextServer(server[c]))

\* Connection refused or broken, a reply that does not parse: the server may go on with it.
CallFails(c) ==
  /\ request[c] # NoOp
  /\ replies' = {r \in replies : ~Awaited(c, r)}
  /\ RetryAt(c, NextServer(server[c]))

\* Neither OK nor ErrWrongLeader: the loop calls the same server again.
EmptyReply(c) ==
  /\ request[c] # NoOp /\ ~Up(server[c])
  /\ replies' = {r \in replies : ~Awaited(c, r)}
  /\ RetryAt(c, server[c])

ClerkStep == \E c \in Client :
  \/ NewRequest(c) \/ CallFails(c) \/ EmptyReply(c)
  \/ \E r \in replies : TakeOK(c, r) \/ TakeWrongLeader(c, r)

Next == (ServerStep /\ UNCHANGED clerkVars) \/ ClerkStep

Init == ServerInit /\ ClerkInit

Spec == Init /\ [][Next]_vars

-----------------------------------------------------------------------------
(* Properties                                                              *)

HandlerAt == {"register", "lookup", "pop", "waiting", "timedOut", "erase"}

\* Every field holds a value of its C++ type.
TypeOK ==
  /\ process \in [Server -> {"up", "killed", "nullChannel", "archiveException"}]
  /\ started \subseteq (1 .. MaxLogIndex) \X Op
  /\ \A i \in Server : known[i] \in [DOMAIN known[i] -> Op] /\ DOMAIN known[i] \subseteq 1 .. MaxLogIndex
  /\ m_lastSnapshotIncludeIndex \in [Server -> 0 .. MaxLogIndex]
  /\ fed \in [Server -> Seq(Message)]
  /\ persister \in [Server -> P!PersisterState]
  /\ taken \in [Server -> Nat] /\ \A i \in Server : taken[i] <= Len(fed[i])
  /\ loop \in [Server -> {"pop", "execute", "snapshot", "send"}]
  /\ m_skipList \in [Server -> [Key -> {NoValue} \cup (Client \X (1 .. MaxRequests))]]
  /\ m_lastRequestId \in [Server -> [{uuid[c] : c \in Client} -> 0 .. MaxRequests]]
  /\ m_lastSnapshotRaftLogIndex \in [Server -> 0 .. MaxLogIndex]
  /\ \A i \in Server : waitApplyCh[i] \in [DOMAIN waitApplyCh[i] -> Seq(Op)]
  /\ \A i \in Server : handler[i] = Idle \/
       handler[i] \in [at: HandlerAt, call: Call, index: 1 .. MaxLogIndex, err: Err]
  /\ calls \subseteq Call /\ replies \subseteq [call: Call, err: Err]
  /\ acked \subseteq Server \X Op /\ executed \in [Server -> Seq(Op)]
  /\ m_requestId \in [Client -> 0 .. MaxRequests] /\ attempts \in [Client -> 0 .. MaxCalls]
  /\ m_recentLeaderId \in [Client -> Server] /\ server \in [Client -> Server]
  /\ request \in [Client -> Op \cup {NoOp}]

\* A request that a clerk takes an OK for was executed by the server that said so, as that
\* very request: not taken for another's, nor acknowledged when its time was up and its turn
\* had not come.  (To a clerk that has gone on, a handler may say OK without.)
AckedIsExecuted == \A ok \in acked : \E n \in DOMAIN executed[ok[1]] : executed[ok[1]][n] = ok[2]

\* A channel belongs to the handler that waits on it: none is left behind, none is deleted
\* while the handler is still to read it, although the command may be executed, and its
\* timeout may pass, before, while or after the channel is made.
ChannelsOwned ==
  \A i \in Server : Up(i) =>
    DOMAIN waitApplyCh[i] =
      IF handler[i].at \in {"pop", "waiting", "timedOut", "erase"} THEN {handler[i].index} ELSE {}

\* What a handler finds in its channel is its own request, and there is one at most: an
\* index that Start gave out is never filled by another leader's command.  (The check that
\* what was popped is the same request, and the ErrWrongLeader if not, never matter.)
ChannelHoldsOwnRequest ==
  \A i \in Server : Up(i) => \A x \in DOMAIN waitApplyCh[i] :
    \/ waitApplyCh[i][x] = NewLockQueue
    \/ handler[i] # Idle /\ waitApplyCh[i][x] = <<handler[i].call.op>>

\* A replica is a map that executes each request at most once, in the order of each client's
\* ids, and acknowledges only what it has executed, through crashes, retries, duplicates,
\* snapshots and late replies.
RequestOf(op) == <<ClientId(op), op.requestId>>

Replica == INSTANCE ReplicaMap WITH
  Id <- {uuid[c] : c \in Client},
  Value <- Client \X (1 .. MaxRequests),
  map <- m_skipList,
  last <- m_lastRequestId,
  done <- [i \in Server |-> [n \in DOMAIN executed[i] |-> RequestOf(executed[i][n])]],
  acked <- [i \in Server |-> {RequestOf(ok[2]) : ok \in {a \in acked : a[1] = i}}]

ImplementsReplicaMap == Replica!Spec

\* The node of this model stays within what Raft is shown to keep.
Contract == INSTANCE ReplicatedLog WITH
  started <- {entry[2] : entry \in started},
  end <- [i \in Server |-> End(i)]

EnvironmentKeepsPromise == Contract!Spec

====
