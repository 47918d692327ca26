---- MODULE KvProofs ----
(***************************************************************************)
(* Proofs about the store (KvServer with its Clerks), for any number of    *)
(* servers and clerks, any keys and all bounds: its types, that the node   *)
(* below it is one that ReplicatedLog allows, whose the wait channels are, *)
(* the ways a request takes, and that each replica implements ReplicaMap.  *)
(***************************************************************************)
EXTENDS Clerk, FiniteSetTheorems, SequenceTheorems, WellFoundedInduction, NaturalsInduction, TLAPS

-----------------------------------------------------------------------------
(* Numbers                                                                 *)

\* Every non-empty set of naturals has a least element.
LEMMA LeastNatural ==
  ASSUME NEW S, S \subseteq Nat, S # {}
  PROVE  \E n \in S : \A m \in S : n <= m
<1>1. PICK n \in S : \A m \in S : <<m, n>> \notin OpToRel(<, Nat)
  BY NatLessThanWellFounded, WFMin, Zenon
<1>2. ASSUME NEW m \in S PROVE n <= m
  <2>1. ~(m < n)
    BY <1>1 DEF OpToRel
  <2> QED BY <2>1
<1> QED BY <1>1, <1>2

\* Max is what it is called, for naturals with a bound.
LEMMA MaxOfNaturals ==
  ASSUME NEW N \in Nat, NEW S, S \subseteq 0 .. N, S # {}
  PROVE  Max(S) \in S /\ \A m \in S : Max(S) >= m
<1> DEFINE D == {N - m : m \in S}
<1>1. D \subseteq Nat /\ D # {}
  <2>1. \A m \in S : m \in 0 .. N /\ N - m \in Nat
    OBVIOUS
  <2> QED BY <2>1
<1>2. PICK d \in D : \A e \in D : d <= e
  BY <1>1, LeastNatural
<1>3. PICK n \in S : d = N - n
  OBVIOUS
<1>4. \A m \in S : n >= m
  BY <1>2, <1>3
<1> QED BY <1>4 DEF Max

-----------------------------------------------------------------------------
(* Types                                                                   *)

Indexes == 1 .. MaxLogIndex

\* The functions from some log indexes to elements of S.
Partial(S) == UNION {[I -> S] : I \in SUBSET Indexes}

HandlerState == {Idle} \cup [at: HandlerAt, call: Call, index: Indexes, err: Err]

ServerTyped ==
  /\ process \in [Server -> {"up", "killed", "nullChannel", "archiveException"}]
  /\ started \subseteq Indexes \X Op
  /\ known \in [Server -> Partial(Op)]
  /\ m_lastSnapshotIncludeIndex \in [Server -> 0 .. MaxLogIndex]
  /\ fed \in [Server -> Seq(Message)]
  /\ persister \in [Server -> P!PersisterState]
  /\ taken \in [Server -> Nat]
  /\ loop \in [Server -> {"pop", "execute", "snapshot", "send"}]
  /\ m_skipList \in [Server -> [Key -> {NoValue} \cup (Client \X (1 .. MaxRequests))]]
  /\ m_lastRequestId \in [Server -> [{uuid[c] : c \in Client} -> 0 .. MaxRequests]]
  /\ m_lastSnapshotRaftLogIndex \in [Server -> 0 .. MaxLogIndex]
  /\ waitApplyCh \in [Server -> Partial(Seq(Op))]
  /\ handler \in [Server -> HandlerState]
  /\ executed \in [Server -> Seq(Op)]

ClerkTyped ==
  /\ calls \subseteq Call
  /\ replies \subseteq [call: Call, err: Err]
  /\ acked \subseteq Server \X Op
  /\ m_requestId \in [Client -> 0 .. MaxRequests]
  /\ attempts \in [Client -> 0 .. MaxCalls]
  /\ m_recentLeaderId \in [Client -> Server]
  /\ server \in [Client -> Server]
  /\ request \in [Client -> Op \cup {NoOp}]

\* What the apply loop and a handler are at.
Placed ==
  \A i \in Server :
    /\ taken[i] <= Len(fed[i])
    /\ loop[i] # "pop" => taken[i] > 0 /\ ~Current(i).snapshot
    /\ loop[i] = "execute" => Current(i).command.operation = "Put"
    /\ handler[i].at # "idle" =>
         /\ Up(i) /\ handler[i].call.server = i
         /\ handler[i].at # "lookup" => handler[i].call.op.operation = "Put"

Typed == ServerTyped /\ ClerkTyped /\ Placed

LEMMA PartialProperties ==
  ASSUME NEW S, NEW f \in Partial(S)
  PROVE  /\ f \in [DOMAIN f -> S] /\ DOMAIN f \subseteq Indexes
         /\ \A x \in DOMAIN f : f[x] \in S
BY DEF Partial

LEMMA WithProperties ==
  ASSUME NEW S, NEW f \in Partial(S), NEW x \in Indexes, NEW v \in S
  PROVE  /\ With(f, x, v) \in Partial(S) /\ DOMAIN With(f, x, v) = DOMAIN f \cup {x}
         /\ With(f, x, v)[x] = v
         /\ \A y \in DOMAIN f \ {x} : With(f, x, v)[y] = f[y]
<1>1. With(f, x, v) \in [DOMAIN f \cup {x} -> S] /\ DOMAIN f \cup {x} \in SUBSET Indexes
  BY PartialProperties DEF With
<1> QED BY <1>1 DEF With, Partial

LEMMA HandlerProperties ==
  ASSUME NEW h \in HandlerState
  PROVE  /\ h = Idle <=> h.at = "idle"
         /\ h.at # "idle" => h \in [at: HandlerAt, call: Call, index: Indexes, err: Err]
BY DEF HandlerState, Idle, HandlerAt

\* The last index of a log.
LEMMA EndProperties ==
  ASSUME ServerTyped, NEW i \in Server
  PROVE  /\ End(i) \in 0 .. MaxLogIndex
         /\ End(i) \in DOMAIN known[i] \cup {m_lastSnapshotIncludeIndex[i]}
         /\ m_lastSnapshotIncludeIndex[i] <= End(i)
         /\ \A x \in DOMAIN known[i] : x <= End(i)
<1>1. MaxLogIndex \in Nat
  BY KvAssumption
<1>2. known[i] \in Partial(Op) /\ m_lastSnapshotIncludeIndex[i] \in 0 .. MaxLogIndex
  BY DEF ServerTyped
<1>3. DOMAIN known[i] \subseteq Indexes
  BY <1>2, PartialProperties
<1> DEFINE S == DOMAIN known[i] \cup {m_lastSnapshotIncludeIndex[i]}
<1>4. S \subseteq 0 .. MaxLogIndex /\ S # {}
  BY <1>1, <1>2, <1>3 DEF Indexes
<1>5. Max(S) \in S /\ \A m \in S : Max(S) >= m
  BY <1>1, <1>4, MaxOfNaturals
<1>6. End(i) = Max(S)
  BY DEF End
<1> HIDE DEF S
<1>7. End(i) \in S /\ \A m \in S : End(i) >= m
  BY <1>5, <1>6
<1> QED BY <1>4, <1>7 DEF S

LEMMA MessageProperties ==
  ASSUME NEW msg \in Message
  PROVE  /\ msg.index \in Indexes /\ msg.snapshot \in BOOLEAN
         /\ ~msg.snapshot => msg.command \in Op
         /\ msg.snapshot => msg.data \in P!SnapshotData
BY DEF Message, Indexes

\* The message the apply loop is busy with.
LEMMA CurrentProperties ==
  ASSUME Typed, NEW i \in Server, loop[i] # "pop"
  PROVE  /\ taken[i] \in DOMAIN fed[i] /\ Current(i) \in Message
         /\ Current(i).index \in Indexes /\ Current(i).command \in Op
<1>1. fed[i] \in Seq(Message) /\ taken[i] \in Nat /\ taken[i] > 0 /\ taken[i] <= Len(fed[i])
  BY DEF Typed, ServerTyped, Placed
<1>2. taken[i] \in DOMAIN fed[i] /\ fed[i][taken[i]] \in Message
  BY <1>1
<1> QED BY <1>2, MessageProperties DEF Typed, Placed, Current

LEMMA OpProperties ==
  ASSUME NEW op \in Op
  PROVE  /\ op.client \in Client /\ op.requestId \in 1 .. MaxRequests /\ op.key \in Key
         /\ op.operation \in {"Put", "Get"}
         /\ ClientId(op) \in {uuid[c] : c \in Client}
         /\ ValueOf(op) \in Client \X (1 .. MaxRequests)
BY DEF Op, ClientId, ValueOf

LEMMA CallProperties ==
  ASSUME NEW m \in Call
  PROVE  m.op \in Op /\ m.server \in Server /\ m.attempt \in 1 .. MaxCalls
BY DEF Call

\* Servers are numbered, from 0 on.
LEMMA ServersNumbered ==
  Cardinality(Server) \in Nat \ {0} /\ 0 \in Server /\ \A s \in Server : NextServer(s) \in Server
<1>1. Cardinality(Server) \in Nat
  BY KvAssumption, FS_CardinalityType
<1>2. Server # {} /\ Server = 0 .. Cardinality(Server) - 1
  BY KvAssumption
<1> QED BY <1>1, <1>2 DEF NextServer

LEMMA TypedInit == ServerInit /\ ClerkInit => Typed
<1> SUFFICES ASSUME ServerInit, ClerkInit PROVE Typed
  OBVIOUS
<1> USE KvAssumption
<1>1. \A S : <<>> \in Partial(S)
  <2>1. \A S : <<>> \in [{} -> S]
    OBVIOUS
  <2> QED BY <2>1 DEF Partial
<1>2. P!NewPersister \in P!PersisterState
  BY DEF P!NewPersister, P!PersisterState, P!SnapshotData
<1>3. \A S : <<>> \in Seq(S)
  OBVIOUS
<1>4. Idle \in HandlerState
  BY DEF HandlerState
<1>5. ServerTyped
  BY <1>1, <1>2, <1>3, <1>4 DEF ServerTyped, ServerInit
<1>6. ClerkTyped
  <2>1. 0 \in Server
    BY ServersNumbered
  <2> QED BY <2>1 DEF ClerkTyped, ServerInit, ClerkInit
<1>7. Placed
  BY DEF Placed, ServerInit, Idle
<1> QED BY <1>5, <1>6, <1>7 DEF Typed

LEMMA LengthIsNatural ==
  ASSUME NEW log \in Partial(Op), NEW n \in Nat
  PROVE  StateLength(log, n) \in Nat
<1>1. DOMAIN log \subseteq 1 .. MaxLogIndex
  BY PartialProperties DEF Indexes
<1>2. IsFiniteSet(1 .. MaxLogIndex)
  BY FS_Interval, KvAssumption
<1>3. IsFiniteSet({x \in DOMAIN log : x > n})
  BY <1>1, <1>2, FS_Subset
<1> QED BY <1>3, FS_CardinalityType DEF StateLength

\* One more entry at the end of i's log.
LEMMA AppendTyped ==
  ASSUME Typed, NEW i \in Server, NEW op \in Op, AppendLog(i, op)
  PROVE  /\ End(i) + 1 \in Indexes /\ End(i) + 1 \notin DOMAIN known[i]
         /\ known' = [known EXCEPT ![i] = With(@, End(i) + 1, op)]
         /\ known' \in [Server -> Partial(Op)]
         /\ persister' \in [Server -> P!PersisterState]
<1>1. End(i) \in 0 .. MaxLogIndex /\ End(i) < MaxLogIndex /\ \A x \in DOMAIN known[i] : x <= End(i)
  BY EndProperties DEF Typed, AppendLog
<1>2. End(i) + 1 \in Indexes /\ End(i) + 1 \notin DOMAIN known[i]
  <2> DEFINE end == End(i)
  <2>1. DOMAIN known[i] \subseteq Indexes /\ MaxLogIndex \in Nat
    BY PartialProperties, KvAssumption DEF Typed, ServerTyped
  <2>2. end \in 0 .. MaxLogIndex /\ end < MaxLogIndex /\ \A x \in DOMAIN known[i] : x <= end
    BY <1>1
  <2> HIDE DEF end
  <2>3. end + 1 \in Indexes /\ end + 1 \notin DOMAIN known[i]
    BY <2>1, <2>2 DEF Indexes
  <2> QED BY <2>3 DEF end
<1>3. known[i] \in Partial(Op) /\ With(known[i], End(i) + 1, op) \in Partial(Op)
  BY <1>2, WithProperties DEF Typed, ServerTyped
<1>4. known' = [known EXCEPT ![i] = With(@, End(i) + 1, op)] /\ known' \in [Server -> Partial(Op)]
  BY <1>3 DEF AppendLog, Typed, ServerTyped
<1>5. StateLength(known'[i], m_lastSnapshotIncludeIndex[i]) \in Nat
  BY <1>4, LengthIsNatural DEF Typed, ServerTyped
<1>6. \A p \in P!PersisterState, n \in Nat : P!SaveRaftState(p, n) \in P!PersisterState
  BY DEF P!PersisterState, P!SaveRaftState
<1>7. persister' \in [Server -> P!PersisterState]
  BY <1>5, <1>6 DEF AppendLog, Typed, ServerTyped
<1> QED BY <1>2, <1>4, <1>7


LEMMA FedGrows ==
  ASSUME Typed, NEW i \in Server, NEW msg \in Message, fed' = [fed EXCEPT ![i] = Append(@, msg)],
         UNCHANGED <<process, taken, loop, handler>>
  PROVE  /\ Placed' /\ fed' \in [Server -> Seq(Message)]
         /\ \A j \in Server : loop[j] # "pop" => Current(j)' = Current(j)
<1>4. fed[i] \in Seq(Message) /\ fed \in [Server -> Seq(Message)]
  BY DEF Typed, ServerTyped
<1>5. Append(fed[i], msg) \in Seq(Message)
  BY <1>4
<1>6. fed' \in [Server -> Seq(Message)]
  BY <1>4, <1>5
<1>1. \A j \in Server : /\ fed[j] \in Seq(Message) /\ Len(fed'[j]) >= Len(fed[j])
                        /\ \A n \in 1 .. Len(fed[j]) : fed'[j][n] = fed[j][n]
  BY DEF Typed, ServerTyped
<1>2. \A j \in Server : loop[j] # "pop" => taken[j] \in 1 .. Len(fed[j]) /\ Current(j)' = Current(j)
  BY <1>1 DEF Typed, ServerTyped, Placed, Current
<1>3. \A j \in Server : taken'[j] <= Len(fed'[j])
  BY <1>1 DEF Typed, ServerTyped, Placed
<1> QED BY <1>2, <1>3, <1>6 DEF Typed, Placed, Up

LEMMA RaftStepTyped ==
  ASSUME Typed, NEW i \in Server, RaftStep(i), UNCHANGED clerkVars
  PROVE  Typed'
<1> USE DEF Typed, ClerkTyped, rpcVars, clerkVars, storeVars, loopVars
<1>1. CASE LearnCommand(i)
  <2>1. PICK entry \in started : AppendLog(i, entry[2])
    BY <1>1 DEF LearnCommand
  <2>2. entry[2] \in Op
    BY DEF ServerTyped
  <2>3. known' \in [Server -> Partial(Op)] /\ persister' \in [Server -> P!PersisterState]
    BY <2>1, <2>2, AppendTyped
  <2>4. UNCHANGED <<process, started, m_lastSnapshotIncludeIndex, fed, loopVars, storeVars,
                    waitApplyCh, handler, rpcVars, restarts, executed>>
    BY <1>1 DEF LearnCommand
  <2>5. ServerTyped'
    BY <2>3, <2>4 DEF ServerTyped
  <2>6. Placed'
    BY <2>4 DEF Placed, Current, Up
  <2> QED BY <2>4, <2>5, <2>6
<1>2. CASE ReportCommand(i)
  <2>1. PICK x \in DOMAIN known[i] :
          fed' = [fed EXCEPT
            ![i] = Append(@, [snapshot |-> FALSE, index |-> x, command |-> known[i][x], data |-> ""])]
    BY <1>2 DEF ReportCommand
  <2> DEFINE msg == [snapshot |-> FALSE, index |-> x, command |-> known[i][x], data |-> ""]
  <2>2. msg \in Message
    <3>1. known[i] \in Partial(Op)
      BY DEF ServerTyped
    <3>2. x \in Indexes /\ known[i][x] \in Op
      BY <3>1, PartialProperties
    <3> QED BY <3>2 DEF Message, Indexes
  <2>3. fed' = [fed EXCEPT ![i] = Append(@, msg)]
    BY <2>1
  <2> HIDE DEF msg
  <2>4. UNCHANGED <<process, started, known, m_lastSnapshotIncludeIndex, persister, loopVars,
                    storeVars, waitApplyCh, handler, rpcVars, restarts, executed>>
    BY <1>2 DEF ReportCommand
  <2>5. Placed' /\ fed' \in [Server -> Seq(Message)]
    BY <2>2, <2>3, <2>4, FedGrows
  <2>6. ServerTyped'
    BY <2>4, <2>5 DEF ServerTyped
  <2> QED BY <2>4, <2>5, <2>6
<1>3. ASSUME NEW j \in Server, InstallSnapshot(j, i)
      PROVE  Typed'
  <2> DEFINE index == m_lastSnapshotIncludeIndex[j]
             data == P!ReadSnapshot(persister[j])
             msg == [snapshot |-> TRUE, index |-> index, command |-> NoOp, data |-> data]
  <2>1. index \in Indexes /\ data \in P!SnapshotData
    <3>1. index \in 0 .. MaxLogIndex /\ m_lastSnapshotIncludeIndex[i] \in 0 .. MaxLogIndex
      BY DEF ServerTyped
    <3>2. index > m_lastSnapshotIncludeIndex[i]
      BY <1>3 DEF InstallSnapshot
    <3>3. index \in Indexes
      BY <3>1, <3>2, KvAssumption DEF Indexes
    <3>4. data \in P!SnapshotData
      BY DEF P!ReadSnapshot, P!SnapshotData
    <3> QED BY <3>3, <3>4
  <2>2. msg \in Message
    BY <2>1 DEF Message, Indexes
  <2>3. /\ m_lastSnapshotIncludeIndex' = [m_lastSnapshotIncludeIndex EXCEPT ![i] = index]
        /\ fed' = [fed EXCEPT ![i] = Append(@, msg)]
        /\ persister' = [persister EXCEPT
             ![j] = P!AfterReadSnapshot(@), ![i] = P!Save(@, StateLength(known[i], index), data)]
        /\ UNCHANGED <<process, started, known, loopVars, storeVars, waitApplyCh, handler, rpcVars,
                       restarts, executed>>
    BY <1>3 DEF InstallSnapshot
  <2>4. StateLength(known[i], index) \in Nat
    BY <2>1, LengthIsNatural DEF ServerTyped, Indexes
  <2>5. persister' \in [Server -> P!PersisterState]
    <3>1. \A p \in P!PersisterState, n \in Nat, d \in P!SnapshotData :
            P!Save(p, n, d) \in P!PersisterState /\ P!AfterReadSnapshot(p) \in P!PersisterState
      BY DEF P!PersisterState, P!Save, P!AfterReadSnapshot, P!SnapshotData
    <3> HIDE DEF index, data
    <3> QED BY <2>1, <2>3, <2>4, <3>1 DEF ServerTyped
  <2> HIDE DEF msg, index, data
  <2>6. Placed' /\ fed' \in [Server -> Seq(Message)]
    BY <2>2, <2>3, FedGrows
  <2>7. ServerTyped'
    <3>1. m_lastSnapshotIncludeIndex' \in [Server -> 0 .. MaxLogIndex]
      BY <2>1, <2>3 DEF ServerTyped, Indexes
    <3> QED BY <2>3, <2>5, <2>6, <3>1 DEF ServerTyped
  <2> QED BY <2>3, <2>6, <2>7
<1> QED BY <1>1, <1>2, <1>3 DEF RaftStep

\* The loop takes the next message.
LEMMA PopTyped ==
  ASSUME Typed, NEW i \in Server, PopMessage(i)
  PROVE  /\ taken' = [taken EXCEPT ![i] = @ + 1] /\ taken' \in [Server -> Nat]
         /\ taken'[i] \in DOMAIN fed[i] /\ taken'[i] > 0 /\ fed[i][taken'[i]] \in Message
         /\ \A j \in Server \ {i} : taken'[j] = taken[j]
BY DEF Typed, ServerTyped, PopMessage

\* And then it is at the next step of GetCommandFromRaft, or done with it.
LEMMA PopPlaced ==
  ASSUME Typed, NEW i \in Server, PopMessage(i), UNCHANGED <<process, fed, handler>>,
         NEW at \in {"pop", "execute", "snapshot"},
         \A j \in Server : loop'[j] = IF j = i THEN at ELSE loop[j],
         at # "pop" => ~fed[i][taken'[i]].snapshot,
         at = "execute" => fed[i][taken'[i]].command.operation = "Put"
  PROVE  Placed'
<1>1. fed[i] \in Seq(Message) /\ taken'[i] \in DOMAIN fed[i] /\ taken'[i] > 0
  BY PopTyped DEF Typed, ServerTyped
<1>2. \A j \in Server \ {i} : taken'[j] = taken[j]
  BY PopTyped
<1> SUFFICES ASSUME NEW j \in Server
             PROVE  /\ taken'[j] <= Len(fed'[j])
                    /\ loop'[j] # "pop" => taken'[j] > 0 /\ ~(Current(j)').snapshot
                    /\ loop'[j] = "execute" => (Current(j)').command.operation = "Put"
                    /\ handler'[j].at # "idle" =>
                         /\ Up(j)' /\ handler'[j].call.server = j
                         /\ handler'[j].at # "lookup" => handler'[j].call.op.operation = "Put"
  BY DEF Placed
<1>3. /\ handler'[j] = handler[j] /\ Up(j)' = Up(j)
      /\ handler[j].at # "idle" =>
           /\ Up(j) /\ handler[j].call.server = j
           /\ handler[j].at # "lookup" => handler[j].call.op.operation = "Put"
  BY DEF Typed, Placed, Up
<1>4. CASE j = i
  <2>1. taken'[j] <= Len(fed'[j]) /\ taken'[j] > 0 /\ Current(j)' = fed[i][taken'[i]] /\ loop'[j] = at
    BY <1>1, <1>4 DEF Current
  <2> QED BY <1>3, <2>1
<1>5. CASE j # i
  <2>1. taken'[j] = taken[j] /\ fed'[j] = fed[j] /\ Current(j)' = Current(j) /\ loop'[j] = loop[j]
    BY <1>2, <1>5 DEF Current
  <2> QED BY <1>3, <2>1 DEF Typed, Placed
<1> QED BY <1>4, <1>5

\* A process ends, with or without a last message taken.
LEMMA ExitTyped ==
  ASSUME Typed, NEW i \in Server,
         NEW why \in {"killed", "nullChannel", "archiveException"}, ExitProcess(i, why),
         UNCHANGED clerkVars, taken' \in [Server -> Nat],
         \/ taken' = taken
         \/ /\ loop[i] = "pop" /\ taken'[i] \in DOMAIN fed[i]
            /\ \A j \in Server \ {i} : taken'[j] = taken[j]
  PROVE  Typed'
<1> USE DEF Typed, ClerkTyped, raftVars, rpcVars, clerkVars, storeVars
<1>1. /\ process' = [process EXCEPT ![i] = why] /\ handler' = [handler EXCEPT ![i] = Idle]
      /\ calls' = {m \in calls : m.server # i}
      /\ UNCHANGED <<started, known, m_lastSnapshotIncludeIndex, fed, persister, loop, storeVars,
           waitApplyCh, replies, executed>>
  BY DEF ExitProcess
<1>2. /\ process' \in [Server -> {"up", "killed", "nullChannel", "archiveException"}]
      /\ handler' \in [Server -> HandlerState]
  BY <1>1 DEF ServerTyped, HandlerState
<1>3. ServerTyped'
  BY <1>1, <1>2 DEF ServerTyped
<1>4. ClerkTyped'
  BY <1>1
<1>5. Placed'
  <2>1. fed[i] \in Seq(Message) /\ process \in [Server -> {"up", "killed", "nullChannel", "archiveException"}]
        /\ handler \in [Server -> HandlerState]
    BY DEF ServerTyped
  <2> QED BY <1>1, <2>1 DEF Placed, Current, Up, Idle
<1> QED BY <1>3, <1>4, <1>5

LEMMA LoopStepTyped ==
  ASSUME Typed, NEW i \in Server, LoopStep(i), UNCHANGED clerkVars
  PROVE  Typed'
<1> USE DEF Typed, ClerkTyped, raftVars, rpcVars, clerkVars, storeVars, loopVars, LoopUnchanged
<1>1. CASE PopCovered(i)
  <2>1. PopMessage(i) /\ UNCHANGED <<process, started, known, m_lastSnapshotIncludeIndex, fed, persister,
          loop, storeVars, waitApplyCh, handler, rpcVars, executed>>
    BY <1>1 DEF PopCovered
  <2>2. taken' \in [Server -> Nat] /\ taken'[i] \in DOMAIN fed[i] /\ \A j \in Server \ {i} : taken'[j] = taken[j]
    BY <2>1, PopTyped
  <2>3. \A j \in Server : loop'[j] = IF j = i THEN "pop" ELSE loop[j]
    BY <2>1 DEF PopMessage
  <2>4. ServerTyped'
    BY <2>1, <2>2 DEF ServerTyped
  <2>5. Placed'
    BY <2>1, <2>3, PopPlaced
  <2> QED BY <2>1, <2>4, <2>5
<1>2. CASE PopCommand(i)
  <2>1. /\ PopMessage(i)
        /\ UNCHANGED <<process, started, known, m_lastSnapshotIncludeIndex, fed, persister,
             storeVars, waitApplyCh, handler, rpcVars, executed>>
    BY <1>2 DEF PopCommand
  <2>2. /\ taken' \in [Server -> Nat] /\ taken'[i] \in DOMAIN fed[i] /\ taken'[i] > 0
        /\ fed[i][taken'[i]] \in Message /\ \A j \in Server \ {i} : taken'[j] = taken[j]
    BY <2>1, PopTyped
  <2>3. fed[i] \in Seq(Message)
    BY DEF ServerTyped
  <2>4. PICK at \in {"execute", "snapshot"} :
          loop' = [loop EXCEPT ![i] = at]
          /\ (at = "execute" => fed[i][taken'[i]].command.operation = "Put")
    BY <1>2 DEF PopCommand
  <2>5. ~fed[i][taken'[i]].snapshot
    BY <1>2 DEF PopCommand
  <2>6. loop' \in [Server -> {"pop", "execute", "snapshot", "send"}]
    BY <2>4 DEF ServerTyped
  <2>7. ServerTyped'
    BY <2>1, <2>2, <2>6 DEF ServerTyped
  <2>8. Placed'
    <3>1. loop \in [Server -> {"pop", "execute", "snapshot", "send"}]
      BY DEF ServerTyped
    <3>2. \A j \in Server : loop'[j] = IF j = i THEN at ELSE loop[j]
      BY <2>4, <3>1
    <3> QED BY <2>1, <2>4, <2>5, <3>2, PopPlaced
  <2> QED BY <2>1, <2>7, <2>8
<1>3. CASE Execute(i)
  <2> DEFINE op == Current(i).command
  <2>1. /\ loop[i] = "execute"
        /\ m_skipList' = [m_skipList EXCEPT ![i][op.key] = ValueOf(op)]
        /\ m_lastRequestId' = [m_lastRequestId EXCEPT ![i][ClientId(op)] = op.requestId]
        /\ executed' = [executed EXCEPT ![i] = Append(@, op)]
        /\ loop' = [loop EXCEPT ![i] = "snapshot"]
        /\ UNCHANGED <<process, started, known, m_lastSnapshotIncludeIndex, fed, persister, taken,
             m_lastSnapshotRaftLogIndex, waitApplyCh, handler, rpcVars>>
    BY <1>3 DEF Execute
  <2>2. op \in Op
    BY <2>1, CurrentProperties
  <2>3. /\ op.key \in Key /\ op.requestId \in 0 .. MaxRequests /\ ClientId(op) \in {uuid[c] : c \in Client}
        /\ ValueOf(op) \in {NoValue} \cup (Client \X (1 .. MaxRequests))
    BY <2>2, OpProperties, KvAssumption
  <2> HIDE DEF op
  <2>4. m_skipList' \in [Server -> [Key -> {NoValue} \cup (Client \X (1 .. MaxRequests))]]
    BY <2>1, <2>3 DEF ServerTyped
  <2>5. m_lastRequestId' \in [Server -> [{uuid[c] : c \in Client} -> 0 .. MaxRequests]]
    <3> DEFINE D == {uuid[c] : c \in Client}
               R == 0 .. MaxRequests
    <3>1. m_lastRequestId \in [Server -> [D -> R]] /\ op.requestId \in R /\ ClientId(op) \in D
      BY <2>3 DEF ServerTyped
    <3> HIDE DEF D, R
    <3>2. m_lastRequestId' \in [Server -> [D -> R]]
      BY <2>1, <3>1
    <3> QED BY <3>2 DEF D, R
  <2>6. executed' \in [Server -> Seq(Op)]
    <3>1. executed[i] \in Seq(Op) /\ executed \in [Server -> Seq(Op)]
      BY DEF ServerTyped
    <3>2. Append(executed[i], op) \in Seq(Op)
      BY <3>1, <2>2
    <3> QED BY <2>1, <3>1, <3>2
  <2>7. loop' \in [Server -> {"pop", "execute", "snapshot", "send"}]
    BY <2>1 DEF ServerTyped
  <2>8. ServerTyped'
    BY <2>1, <2>4, <2>5, <2>6, <2>7 DEF ServerTyped
  <2>9. Placed'
    BY <2>1 DEF Placed, Current, Up, ServerTyped
  <2> QED BY <2>1, <2>8, <2>9
<1>4. CASE TakeSnapshot(i)
  <2> DEFINE index == Current(i).index
  <2>1. /\ loop[i] = "snapshot"
        /\ m_lastSnapshotIncludeIndex' = [m_lastSnapshotIncludeIndex EXCEPT ![i] = index]
        /\ persister' = [persister EXCEPT ![i] = P!Save(@, StateLength(known[i], index), "archive")]
        /\ loop' = [loop EXCEPT ![i] = "send"]
        /\ UNCHANGED <<process, started, known, fed, taken, storeVars, waitApplyCh, handler, rpcVars,
                       executed>>
    BY <1>4 DEF TakeSnapshot
  <2>2. index \in Indexes
    BY <2>1, CurrentProperties
  <2> HIDE DEF index
  <2>3. StateLength(known[i], index) \in Nat
    <3>1. index \in Nat /\ known[i] \in Partial(Op)
      BY <2>2, KvAssumption DEF ServerTyped, Indexes
    <3> QED BY <3>1, LengthIsNatural
  <2>4. P!Save(persister[i], StateLength(known[i], index), "archive") \in P!PersisterState
    BY <2>3 DEF P!PersisterState, P!Save, P!SnapshotData
  <2>5. persister' \in [Server -> P!PersisterState]
    BY <2>1, <2>4 DEF ServerTyped
  <2>6. /\ m_lastSnapshotIncludeIndex' \in [Server -> 0 .. MaxLogIndex]
        /\ loop' \in [Server -> {"pop", "execute", "snapshot", "send"}]
    BY <2>1, <2>2, KvAssumption DEF ServerTyped, Indexes
  <2>7. ServerTyped'
    BY <2>1, <2>5, <2>6 DEF ServerTyped
  <2>8. Placed'
    BY <2>1 DEF Placed, Current, Up, ServerTyped
  <2> QED BY <2>1, <2>7, <2>8
<1>5. CASE SkipSnapshot(i)
  <2>1. /\ loop[i] = "snapshot" /\ loop' = [loop EXCEPT ![i] = "send"]
        /\ UNCHANGED <<process, started, known, m_lastSnapshotIncludeIndex, fed, persister, taken,
             storeVars, waitApplyCh, handler, rpcVars, executed>>
    BY <1>5 DEF SkipSnapshot
  <2>2. ServerTyped'
    BY <2>1 DEF ServerTyped
  <2>3. Placed'
    BY <2>1 DEF Placed, Current, Up, ServerTyped
  <2> QED BY <2>1, <2>2, <2>3
<1>6. CASE SendMessageToWaitChan(i)
  <2> DEFINE index == Current(i).index
             op == Current(i).command
  <2>1. /\ loop[i] = "send" /\ loop' = [loop EXCEPT ![i] = "pop"]
        /\ waitApplyCh' = IF index \notin DOMAIN waitApplyCh[i] THEN waitApplyCh
             ELSE [waitApplyCh EXCEPT ![i][index] = Append(@, op)]
        /\ UNCHANGED <<process, started, known, m_lastSnapshotIncludeIndex, fed, persister, taken,
             storeVars, handler, rpcVars, executed>>
    BY <1>6 DEF SendMessageToWaitChan, Push
  <2>2. index \in Indexes /\ op \in Op
    BY <2>1, CurrentProperties
  <2> HIDE DEF index, op
  <2>3. waitApplyCh' \in [Server -> Partial(Seq(Op))]
    <3>1. waitApplyCh \in [Server -> Partial(Seq(Op))] /\ waitApplyCh[i] \in Partial(Seq(Op))
      BY DEF ServerTyped
    <3>2. ASSUME index \in DOMAIN waitApplyCh[i]
          PROVE  [waitApplyCh[i] EXCEPT ![index] = Append(@, op)] \in Partial(Seq(Op))
      <4>1. waitApplyCh[i] \in [DOMAIN waitApplyCh[i] -> Seq(Op)] /\ DOMAIN waitApplyCh[i] \subseteq Indexes
        BY <3>1, PartialProperties
      <4>2. Append(waitApplyCh[i][index], op) \in Seq(Op)
        BY <4>1, <3>2, <2>2
      <4>3. [waitApplyCh[i] EXCEPT ![index] = Append(@, op)] \in [DOMAIN waitApplyCh[i] -> Seq(Op)]
        BY <4>1, <4>2
      <4> QED BY <4>1, <4>3 DEF Partial
    <3> QED BY <2>1, <3>1, <3>2
  <2>4. loop' \in [Server -> {"pop", "execute", "snapshot", "send"}]
    BY <2>1 DEF ServerTyped
  <2>5. ServerTyped'
    BY <2>1, <2>3, <2>4 DEF ServerTyped
  <2>6. Placed'
    BY <2>1 DEF Placed, Current, Up, ServerTyped
  <2> QED BY <2>1, <2>5, <2>6
<1>7. CASE GetSnapShotFromRaft(i)
  <2>1. /\ PopMessage(i)
        /\ UNCHANGED <<process, started, known, m_lastSnapshotIncludeIndex, fed, persister, loop,
             m_skipList, m_lastRequestId, waitApplyCh, handler, rpcVars, executed>>
    BY <1>7 DEF GetSnapShotFromRaft
  <2>2. /\ taken' \in [Server -> Nat] /\ taken'[i] \in DOMAIN fed[i]
        /\ fed[i][taken'[i]] \in Message /\ \A j \in Server \ {i} : taken'[j] = taken[j]
    BY <2>1, PopTyped
  <2>3. \A j \in Server : loop'[j] = IF j = i THEN "pop" ELSE loop[j]
    BY <2>1 DEF PopMessage
  <2>4. PICK x \in Indexes :
          m_lastSnapshotRaftLogIndex' = [m_lastSnapshotRaftLogIndex EXCEPT ![i] = x]
    <3>1. fed[i][taken'[i]].index \in Indexes
      BY <2>2, MessageProperties
    <3> QED BY <1>7, <3>1 DEF GetSnapShotFromRaft
  <2>5. m_lastSnapshotRaftLogIndex' \in [Server -> 0 .. MaxLogIndex]
    BY <2>4, KvAssumption DEF ServerTyped, Indexes
  <2>6. ServerTyped'
    BY <2>1, <2>2, <2>5 DEF ServerTyped
  <2>7. Placed'
    BY <2>1, <2>3, PopPlaced
  <2> QED BY <2>1, <2>6, <2>7
<1>8. CASE InstallBreaks(i)
  <2>1. PopMessage(i) /\ ExitProcess(i, "archiveException")
    BY <1>8 DEF InstallBreaks
  <2>2. taken' \in [Server -> Nat] /\ taken'[i] \in DOMAIN fed[i] /\ \A j \in Server \ {i} : taken'[j] = taken[j]
    BY <2>1, PopTyped
  <2> QED BY <2>1, <2>2, ExitTyped DEF PopMessage
<1> QED BY <1>1, <1>2, <1>3, <1>4, <1>5, <1>6, <1>7, <1>8 DEF LoopStep

\* The handler of i goes to h.
LEMMA HandlerMoves ==
  ASSUME Typed, NEW i \in Server, Up(i), NEW h \in HandlerState,
         h = Idle \/ (h.call.server = i /\ (h.at # "lookup" => h.call.op.operation = "Put")),
         handler' = [handler EXCEPT ![i] = h], UNCHANGED <<process, fed, taken, loop>>
  PROVE  Placed' /\ handler' \in [Server -> HandlerState]
<1>1. handler \in [Server -> HandlerState]
  BY DEF Typed, ServerTyped
<1>2. handler' \in [Server -> HandlerState] /\ handler'[i] = h
  BY <1>1
<1>3. \A j \in Server : Current(j)' = Current(j) /\ Up(j)' = Up(j)
  BY DEF Current, Up
<1>4. h.at # "idle" => h.call.server = i /\ (h.at # "lookup" => h.call.op.operation = "Put")
  BY DEF Idle
<1>5. \A j \in Server \ {i} : handler'[j] = handler[j]
  BY <1>1
<1> QED BY <1>2, <1>3, <1>4, <1>5 DEF Placed, Typed

\* The handler goes on with its call.
LEMMA HandlerGoesOn ==
  ASSUME Typed, NEW i \in Server, Up(i), handler[i].at \notin {"idle", "lookup"},
         NEW at \in HandlerAt \ {"lookup"}, NEW err \in Err,
         \/ handler' = [handler EXCEPT ![i].at = at]
         \/ handler' = [handler EXCEPT ![i].at = at, ![i].err = err],
         UNCHANGED <<process, fed, taken, loop>>
  PROVE  Placed' /\ handler' \in [Server -> HandlerState]
<1>1. /\ handler \in [Server -> HandlerState]
      /\ handler[i] \in [at: HandlerAt, call: Call, index: Indexes, err: Err]
  BY HandlerProperties DEF Typed, ServerTyped
<1>2. handler[i].call.server = i /\ handler[i].call.op.operation = "Put"
  BY DEF Typed, Placed
<1>3. PICK e \in Err : handler' = [handler EXCEPT ![i] = [@ EXCEPT !.at = at, !.err = e]]
  <2>1. CASE handler' = [handler EXCEPT ![i].at = at]
    BY <1>1, <2>1
  <2>2. CASE handler' = [handler EXCEPT ![i].at = at, ![i].err = err]
    BY <1>1, <2>2
  <2> QED BY <2>1, <2>2
<1> DEFINE h == [handler[i] EXCEPT !.at = at, !.err = e]
<1>4. /\ h \in [at: HandlerAt, call: Call, index: Indexes, err: Err]
      /\ h.call.server = i /\ h.call.op.operation = "Put"
      /\ handler' = [handler EXCEPT ![i] = h]
  BY <1>1, <1>2, <1>3
<1> HIDE DEF h
<1>5. h \in HandlerState
  BY <1>4 DEF HandlerState
<1> QED BY <1>4, <1>5, HandlerMoves

\* A step of a handler that has a channel changes only this, the handler and the replies.
LEMMA ChannelStepTyped ==
  ASSUME Typed, NEW i \in Server,
         Placed', handler' \in [Server -> HandlerState],
         waitApplyCh' \in [Server -> Partial(Seq(Op))],
         replies' \subseteq [call: Call, err: Err], UNCHANGED calls,
         RaftUnchanged, HandlerUnchanged, UNCHANGED clerkVars
  PROVE  Typed'
BY DEF Typed, ServerTyped, ClerkTyped, RaftUnchanged, HandlerUnchanged, loopVars, storeVars, clerkVars

LEMMA HandlerStepTyped ==
  ASSUME Typed, NEW i \in Server, HandlerStep(i), UNCHANGED clerkVars
  PROVE  Typed'
<1>0. /\ handler \in [Server -> HandlerState] /\ waitApplyCh \in [Server -> Partial(Seq(Op))]
      /\ waitApplyCh[i] \in Partial(Seq(Op))
      /\ calls \subseteq Call /\ replies \subseteq [call: Call, err: Err]
  BY DEF Typed, ServerTyped, ClerkTyped
<1>1. ASSUME NEW m \in calls, StartRefused(i, m)
      PROVE  Typed'
  <2>1. /\ calls' = calls \ {m} /\ replies' = replies \cup {[call |-> m, err |-> "ErrWrongLeader"]}
        /\ UNCHANGED <<process, started, known, m_lastSnapshotIncludeIndex, fed, persister, loopVars,
             storeVars, waitApplyCh, handler, executed>>
    BY <1>1 DEF StartRefused, Reply, RaftUnchanged, HandlerUnchanged
  <2>2. calls' \subseteq Call /\ replies' \subseteq [call: Call, err: Err]
    BY <1>0, <2>1 DEF Err
  <2>3. ServerTyped'
    BY <2>1 DEF Typed, ServerTyped, storeVars, loopVars
  <2>4. ClerkTyped'
    BY <2>2 DEF Typed, ClerkTyped, clerkVars
  <2>5. Placed'
    BY <2>1 DEF Typed, Placed, Current, Up, loopVars
  <2> QED BY <2>3, <2>4, <2>5 DEF Typed
<1>2. ASSUME NEW m \in calls, StartAccepted(i, m)
      PROVE  Typed'
  <2> DEFINE index == End(i) + 1
             h == [at |-> IF m.op.operation = "Get" THEN "lookup" ELSE "register",
                   call |-> m, index |-> index, err |-> "ErrWrongLeader"]
  <2>1. /\ Up(i) /\ m.server = i /\ calls' = calls \ {m} /\ started' = started \cup {<<index, m.op>>}
        /\ AppendLog(i, m.op) /\ handler' = [handler EXCEPT ![i] = h]
        /\ UNCHANGED <<process, m_lastSnapshotIncludeIndex, fed, taken, loop, storeVars, waitApplyCh,
             replies, executed>>
    BY <1>2 DEF StartAccepted, HandlerUnchanged, loopVars
  <2>2. m \in Call /\ m.op \in Op
    BY <1>0, CallProperties
  <2>3. /\ index \in Indexes /\ known' \in [Server -> Partial(Op)]
        /\ persister' \in [Server -> P!PersisterState]
    BY <2>1, <2>2, AppendTyped
  <2>4. /\ h \in [at: HandlerAt, call: Call, index: Indexes, err: Err] /\ h.call = m
        /\ h.at # "lookup" => m.op.operation # "Get"
    BY <2>2, <2>3 DEF HandlerAt, Err
  <2>5. m.op.operation \in {"Put", "Get"}
    BY <2>2, OpProperties
  <2>6. started' \subseteq Indexes \X Op
    BY <2>1, <2>2, <2>3 DEF Typed, ServerTyped
  <2> HIDE DEF h, index
  <2>7. Placed' /\ handler' \in [Server -> HandlerState]
    <3>1. h \in HandlerState
      BY <2>4 DEF HandlerState
    <3> QED BY <2>1, <2>4, <2>5, <3>1, HandlerMoves
  <2>8. ServerTyped'
    BY <2>1, <2>3, <2>6, <2>7 DEF Typed, ServerTyped, storeVars
  <2>9. ClerkTyped'
    BY <1>0, <2>1 DEF Typed, ClerkTyped, clerkVars
  <2> QED BY <2>7, <2>8, <2>9 DEF Typed
<1>3. CASE GetLookup(i)
  <2>1. ExitProcess(i, "nullChannel") /\ UNCHANGED taken
    BY <1>3 DEF GetLookup
  <2>2. taken' \in [Server -> Nat]
    BY <2>1 DEF Typed, ServerTyped
  <2> QED BY <2>1, <2>2, ExitTyped
<1>4. CASE RegisterChannel(i)
  <2> DEFINE index == handler[i].index
  <2>1. /\ Up(i) /\ handler[i].at = "register" /\ handler' = [handler EXCEPT ![i].at = "pop"]
        /\ waitApplyCh' = IF index \in DOMAIN waitApplyCh[i] THEN waitApplyCh
             ELSE [waitApplyCh EXCEPT ![i] = With(@, index, <<>>)]
        /\ RaftUnchanged /\ HandlerUnchanged /\ UNCHANGED <<calls, replies>>
    BY <1>4 DEF RegisterChannel, MoveTo, NewLockQueue, rpcVars
  <2>2. handler[i] \in [at: HandlerAt, call: Call, index: Indexes, err: Err]
    BY <1>0, <2>1, HandlerProperties
  <2>3. index \in Indexes /\ <<>> \in Seq(Op)
    BY <2>2
  <2> HIDE DEF index
  <2>4. With(waitApplyCh[i], index, <<>>) \in Partial(Seq(Op))
    BY <1>0, <2>3, WithProperties
  <2>5. waitApplyCh' \in [Server -> Partial(Seq(Op))]
    BY <1>0, <2>1, <2>4
  <2>6. Placed' /\ handler' \in [Server -> HandlerState]
    BY <2>1, HandlerGoesOn DEF HandlerUnchanged, loopVars, HandlerAt, Err
  <2> QED BY <1>0, <2>1, <2>5, <2>6, ChannelStepTyped
<1>5. CASE WaitOnChannel(i) \/ PopTimesOut(i)
  <2>1. PICK at \in {"waiting", "timedOut"} : handler' = [handler EXCEPT ![i].at = at]
    BY <1>5 DEF WaitOnChannel, PopTimesOut, MoveTo
  <2>2. /\ Up(i) /\ handler[i].at \in {"pop", "waiting"}
        /\ RaftUnchanged /\ HandlerUnchanged /\ UNCHANGED <<waitApplyCh, calls, replies>>
    BY <1>5 DEF WaitOnChannel, PopTimesOut, rpcVars
  <2>3. Placed' /\ handler' \in [Server -> HandlerState]
    BY <2>1, <2>2, HandlerGoesOn DEF HandlerUnchanged, loopVars, HandlerAt, Err
  <2> QED BY <1>0, <2>2, <2>3, ChannelStepTyped
<1>6. CASE TimeoutPop(i)
  <2> DEFINE index == handler[i].index
  <2>1. PICK err \in Err : handler' = [handler EXCEPT ![i].at = "erase", ![i].err = err]
    BY <1>6 DEF TimeoutPop, Err
  <2>2. /\ Up(i) /\ handler[i].at \in {"pop", "waiting"} /\ waitApplyCh[i][index] # <<>>
        /\ waitApplyCh' = [waitApplyCh EXCEPT ![i][index] = Tail(@)]
        /\ RaftUnchanged /\ HandlerUnchanged /\ UNCHANGED <<calls, replies>>
    BY <1>6 DEF TimeoutPop, rpcVars, CanPop, AfterPop, Channel
  <2> HIDE DEF index
  <2>3. [waitApplyCh[i] EXCEPT ![index] = Tail(@)] \in Partial(Seq(Op))
    <3>1. waitApplyCh[i] \in [DOMAIN waitApplyCh[i] -> Seq(Op)] /\ DOMAIN waitApplyCh[i] \subseteq Indexes
      BY <1>0, PartialProperties
    <3>2. index \in DOMAIN waitApplyCh[i] => Tail(waitApplyCh[i][index]) \in Seq(Op)
      BY <3>1, <2>2
    <3>3. [waitApplyCh[i] EXCEPT ![index] = Tail(@)] \in [DOMAIN waitApplyCh[i] -> Seq(Op)]
      BY <3>1, <3>2
    <3> QED BY <3>1, <3>3 DEF Partial
  <2>4. waitApplyCh' \in [Server -> Partial(Seq(Op))]
    BY <1>0, <2>2, <2>3
  <2>5. Placed' /\ handler' \in [Server -> HandlerState]
    BY <2>1, <2>2, HandlerGoesOn DEF HandlerUnchanged, loopVars, HandlerAt
  <2> QED BY <1>0, <2>2, <2>4, <2>5, ChannelStepTyped
<1>7. CASE CheckDuplicate(i)
  <2>1. PICK err \in Err : handler' = [handler EXCEPT ![i].at = "erase", ![i].err = err]
    BY <1>7 DEF CheckDuplicate, Err
  <2>2. /\ Up(i) /\ handler[i].at = "timedOut"
        /\ RaftUnchanged /\ HandlerUnchanged /\ UNCHANGED <<waitApplyCh, calls, replies>>
    BY <1>7 DEF CheckDuplicate, rpcVars
  <2>3. Placed' /\ handler' \in [Server -> HandlerState]
    BY <2>1, <2>2, HandlerGoesOn DEF HandlerUnchanged, loopVars, HandlerAt
  <2> QED BY <1>0, <2>2, <2>3, ChannelStepTyped
<1>8. CASE EraseChannel(i)
  <2> DEFINE h == handler[i]
  <2>1. /\ Up(i) /\ h.at = "erase" /\ handler' = [handler EXCEPT ![i] = Idle]
        /\ waitApplyCh' = [waitApplyCh EXCEPT ![i] = [x \in DOMAIN @ \ {h.index} |-> waitApplyCh[i][x]]]
        /\ replies' = replies \cup {[call |-> h.call, err |-> h.err]}
        /\ RaftUnchanged /\ HandlerUnchanged /\ UNCHANGED calls
    BY <1>8 DEF EraseChannel, Reply
  <2>2. h \in [at: HandlerAt, call: Call, index: Indexes, err: Err]
    BY <1>0, <2>1, HandlerProperties
  <2>3. replies' \subseteq [call: Call, err: Err]
    BY <1>0, <2>1, <2>2
  <2> HIDE DEF h
  <2>4. [x \in DOMAIN waitApplyCh[i] \ {h.index} |-> waitApplyCh[i][x]] \in Partial(Seq(Op))
    <3> DEFINE D == DOMAIN waitApplyCh[i] \ {h.index}
    <3>1. waitApplyCh[i] \in [DOMAIN waitApplyCh[i] -> Seq(Op)] /\ DOMAIN waitApplyCh[i] \subseteq Indexes
      BY <1>0, PartialProperties
    <3>2. D \in SUBSET Indexes /\ [x \in D |-> waitApplyCh[i][x]] \in [D -> Seq(Op)]
      BY <3>1
    <3> QED BY <3>2 DEF Partial
  <2>5. waitApplyCh' \in [Server -> Partial(Seq(Op))]
    BY <1>0, <2>1, <2>4
  <2>6. Placed' /\ handler' \in [Server -> HandlerState]
    <3>1. Idle \in HandlerState
      BY DEF HandlerState
    <3> QED BY <2>1, <3>1, HandlerMoves DEF HandlerUnchanged, loopVars
  <2> QED BY <2>1, <2>3, <2>5, <2>6, ChannelStepTyped
<1> QED BY <1>1, <1>2, <1>3, <1>4, <1>5, <1>6, <1>7, <1>8 DEF HandlerStep

LEMMA ProcessStepTyped ==
  ASSUME Typed, NEW i \in Server, Kill(i) \/ Restart(i), UNCHANGED clerkVars
  PROVE  Typed'
<1>1. CASE Kill(i)
  <2>1. ExitProcess(i, "killed") /\ UNCHANGED taken
    BY <1>1 DEF Kill
  <2>2. taken' \in [Server -> Nat]
    BY <2>1 DEF Typed, ServerTyped
  <2> QED BY <2>1, <2>2, ExitTyped
<1>2. CASE Restart(i)
  <2>1. /\ process' = [process EXCEPT ![i] = "up"]
        /\ persister' = [persister EXCEPT ![i] = P!AfterReadSnapshot(P!NewPersister)]
        /\ known' = [known EXCEPT ![i] = <<>>]
        /\ m_lastSnapshotIncludeIndex' = [m_lastSnapshotIncludeIndex EXCEPT ![i] = 0]
        /\ fed' = [fed EXCEPT ![i] = <<>>]
        /\ taken' = [taken EXCEPT ![i] = 0]
        /\ loop' = [loop EXCEPT ![i] = "pop"]
        /\ m_skipList' = [m_skipList EXCEPT ![i] = [k \in Key |-> NoValue]]
        /\ m_lastRequestId' = [m_lastRequestId EXCEPT ![i] = [d \in DOMAIN @ |-> 0]]
        /\ m_lastSnapshotRaftLogIndex' = [m_lastSnapshotRaftLogIndex EXCEPT ![i] = 0]
        /\ waitApplyCh' = [waitApplyCh EXCEPT ![i] = <<>>]
        /\ UNCHANGED <<started, handler, calls, replies, executed>>
    BY <1>2 DEF Restart, rpcVars
  <2>2. /\ P!AfterReadSnapshot(P!NewPersister) \in P!PersisterState
        /\ persister \in [Server -> P!PersisterState]
    BY DEF P!AfterReadSnapshot, P!NewPersister, P!PersisterState, P!SnapshotData, Typed, ServerTyped
  <2>3. persister' \in [Server -> P!PersisterState]
    BY <2>1, <2>2
  <2>4. \A S : <<>> \in Partial(S)
    <3>1. \A S : <<>> \in [{} -> S]
      OBVIOUS
    <3> QED BY <3>1 DEF Partial
  <2>5. known' \in [Server -> Partial(Op)] /\ waitApplyCh' \in [Server -> Partial(Seq(Op))]
    BY <2>1, <2>4 DEF Typed, ServerTyped
  <2>6. fed' \in [Server -> Seq(Message)]
    BY <2>1 DEF Typed, ServerTyped
  <2>7. m_skipList' \in [Server -> [Key -> {NoValue} \cup (Client \X (1 .. MaxRequests))]]
    <3>1. [k \in Key |-> NoValue] \in [Key -> {NoValue} \cup (Client \X (1 .. MaxRequests))]
      OBVIOUS
    <3> QED BY <2>1, <3>1 DEF Typed, ServerTyped
  <2>8. m_lastRequestId' \in [Server -> [{uuid[c] : c \in Client} -> 0 .. MaxRequests]]
    <3> DEFINE D == {uuid[c] : c \in Client}
    <3>1. m_lastRequestId \in [Server -> [D -> 0 .. MaxRequests]]
      BY DEF Typed, ServerTyped
    <3> HIDE DEF D
    <3>2. 0 \in 0 .. MaxRequests
      BY KvAssumption
    <3>3. DOMAIN m_lastRequestId[i] = D /\ [d \in D |-> 0] \in [D -> 0 .. MaxRequests]
      BY <3>1, <3>2
    <3>4. m_lastRequestId' \in [Server -> [D -> 0 .. MaxRequests]]
      BY <2>1, <3>1, <3>3
    <3> QED BY <3>4 DEF D
  <2>9. /\ m_lastSnapshotIncludeIndex' \in [Server -> 0 .. MaxLogIndex]
        /\ m_lastSnapshotRaftLogIndex' \in [Server -> 0 .. MaxLogIndex]
        /\ taken' \in [Server -> Nat]
        /\ loop' \in [Server -> {"pop", "execute", "snapshot", "send"}]
        /\ process' \in [Server -> {"up", "killed", "nullChannel", "archiveException"}]
    BY <2>1, KvAssumption DEF Typed, ServerTyped
  <2>10. ServerTyped'
    BY <2>1, <2>3, <2>5, <2>6, <2>7, <2>8, <2>9 DEF Typed, ServerTyped
  <2>11. ClerkTyped'
    BY <2>1 DEF Typed, ClerkTyped, clerkVars
  <2>12. Placed'
    <3>1. /\ process \in [Server -> {"up", "killed", "nullChannel", "archiveException"}]
          /\ fed \in [Server -> Seq(Message)] /\ taken \in [Server -> Nat]
          /\ loop \in [Server -> {"pop", "execute", "snapshot", "send"}]
      BY DEF Typed, ServerTyped
    <3>2. ~Up(i) /\ handler' = handler
      BY <1>2, <2>1 DEF Restart
    <3>3. \A j \in Server \ {i} : /\ fed'[j] = fed[j] /\ taken'[j] = taken[j] /\ loop'[j] = loop[j]
                                  /\ Current(j)' = Current(j) /\ Up(j)' = Up(j)
      BY <2>1, <3>1 DEF Current, Up
    <3>4. fed'[i] = <<>> /\ taken'[i] = 0 /\ loop'[i] = "pop" /\ handler[i].at = "idle"
      BY <2>1, <3>1, <3>2 DEF Typed, Placed
    <3> QED BY <3>2, <3>3, <3>4 DEF Typed, Placed
  <2> QED BY <2>10, <2>11, <2>12 DEF Typed
<1> QED BY <1>1, <1>2

\* A clerk's step leaves the servers alone.
LEMMA ClerkStepLeavesServers == ClerkStep => ServersUnchanged
<1> SUFFICES ASSUME NEW c \in Client,
                    \/ NewRequest(c) \/ CallFails(c) \/ EmptyReply(c)
                    \/ \E r \in replies : TakeOK(c, r) \/ TakeWrongLeader(c, r)
             PROVE  ServersUnchanged
  BY DEF ClerkStep
<1>1. CASE NewRequest(c)
  BY <1>1 DEF NewRequest
<1>2. ASSUME NEW s, RetryAt(c, s) PROVE ServersUnchanged
  BY <1>2 DEF RetryAt
<1>3. ASSUME NEW r \in replies, TakeOK(c, r) PROVE ServersUnchanged
  BY <1>3 DEF TakeOK
<1> QED BY <1>1, <1>2, <1>3 DEF CallFails, EmptyReply, TakeWrongLeader

LEMMA ClerkOnly ==
  ASSUME Typed, ServersUnchanged, ClerkTyped'
  PROVE  Typed'
<1>1. ServerTyped'
  BY DEF Typed, ServerTyped, ServersUnchanged, raftVars, loopVars, storeVars
<1>2. Placed'
  BY DEF Typed, Placed, ServersUnchanged, raftVars, loopVars, Current, Up
<1> QED BY <1>1, <1>2 DEF Typed

LEMMA NewCallTyped ==
  ASSUME Typed, NEW c \in Client, NEW op \in Op, NEW s \in Server, NewCall(c, op, s)
  PROVE  calls' \subseteq Call /\ attempts' \in [Client -> 0 .. MaxCalls]
<1>1. attempts[c] \in 0 .. MaxCalls /\ attempts[c] < MaxCalls /\ MaxCalls \in Nat
  BY KvAssumption DEF NewCall, Typed, ClerkTyped
<1>2. [op |-> op, server |-> s, attempt |-> attempts[c] + 1] \in Call
  BY <1>1 DEF Call
<1>3. calls \subseteq Call /\ attempts \in [Client -> 0 .. MaxCalls]
  BY DEF Typed, ClerkTyped
<1> QED BY <1>1, <1>2, <1>3 DEF NewCall

LEMMA RetryTyped ==
  ASSUME Typed, NEW c \in Client, request[c] # NoOp, NEW s \in Server, RetryAt(c, s),
         replies' \subseteq replies
  PROVE  Typed'
<1>1. request[c] \in Op
  BY DEF Typed, ClerkTyped
<1>2. calls' \subseteq Call /\ attempts' \in [Client -> 0 .. MaxCalls]
  BY <1>1, NewCallTyped DEF RetryAt
<1>3. server' \in [Client -> Server] /\ ServersUnchanged
  BY DEF RetryAt, Typed, ClerkTyped
<1>4. ClerkTyped'
  BY <1>2, <1>3 DEF RetryAt, Typed, ClerkTyped
<1> QED BY <1>3, <1>4, ClerkOnly

LEMMA ClerkStepTyped ==
  ASSUME Typed, ClerkStep
  PROVE  Typed'
<1>0. PICK c \in Client :
        \/ NewRequest(c) \/ CallFails(c) \/ EmptyReply(c)
        \/ \E r \in replies : TakeOK(c, r) \/ TakeWrongLeader(c, r)
  BY DEF ClerkStep
<1>1. /\ server[c] \in Server /\ NextServer(server[c]) \in Server /\ m_recentLeaderId[c] \in Server
      /\ m_recentLeaderId \in [Client -> Server] /\ server \in [Client -> Server]
      /\ request \in [Client -> Op \cup {NoOp}] /\ m_requestId \in [Client -> 0 .. MaxRequests]
  BY ServersNumbered DEF Typed, ClerkTyped
<1>2. CASE NewRequest(c)
  <2>1. PICK operation \in {"Put", "Get"}, key \in Key :
          LET op == [operation |-> operation, key |-> key, client |-> c,
                     requestId |-> m_requestId[c] + 1]
          IN /\ m_requestId[c] < MaxRequests
             /\ m_requestId' = [m_requestId EXCEPT ![c] = @ + 1]
             /\ request' = [request EXCEPT ![c] = op]
             /\ server' = [server EXCEPT ![c] = m_recentLeaderId[c]]
             /\ NewCall(c, op, m_recentLeaderId[c])
             /\ UNCHANGED <<m_recentLeaderId, replies, acked>> /\ ServersUnchanged
    BY <1>2 DEF NewRequest
  <2> DEFINE op == [operation |-> operation, key |-> key, client |-> c,
                    requestId |-> m_requestId[c] + 1]
  <2>2. m_requestId[c] + 1 \in 1 .. MaxRequests
    BY <1>1, <2>1, KvAssumption
  <2>3. op \in Op
    BY <2>2 DEF Op
  <2>4. /\ m_requestId' = [m_requestId EXCEPT ![c] = @ + 1] /\ request' = [request EXCEPT ![c] = op]
        /\ server' = [server EXCEPT ![c] = m_recentLeaderId[c]]
        /\ NewCall(c, op, m_recentLeaderId[c])
        /\ UNCHANGED <<m_recentLeaderId, replies, acked>> /\ ServersUnchanged
    BY <2>1
  <2> HIDE DEF op
  <2>5. calls' \subseteq Call /\ attempts' \in [Client -> 0 .. MaxCalls]
    BY <1>1, <2>3, <2>4, NewCallTyped
  <2>6. m_requestId' \in [Client -> 0 .. MaxRequests]
    BY <1>1, <2>2, <2>4
  <2>7. ClerkTyped'
    BY <1>1, <2>3, <2>4, <2>5, <2>6 DEF Typed, ClerkTyped
  <2> QED BY <2>4, <2>7, ClerkOnly
<1>3. CASE CallFails(c)
  <2>1. request[c] # NoOp /\ RetryAt(c, NextServer(server[c])) /\ replies' \subseteq replies
    BY <1>3 DEF CallFails
  <2> QED BY <1>1, <2>1, RetryTyped
<1>4. CASE EmptyReply(c)
  <2>1. request[c] # NoOp /\ RetryAt(c, server[c]) /\ replies' \subseteq replies
    BY <1>4 DEF EmptyReply
  <2> QED BY <1>1, <2>1, RetryTyped
<1>5. ASSUME NEW r \in replies, TakeOK(c, r)
      PROVE  Typed'
  <2>1. /\ request[c] # NoOp /\ replies' \subseteq replies
        /\ request' = [request EXCEPT ![c] = NoOp]
        /\ m_recentLeaderId' = [m_recentLeaderId EXCEPT ![c] = server[c]]
        /\ acked' = acked \cup {<<server[c], request[c]>>}
        /\ UNCHANGED <<calls, m_requestId, server, attempts>> /\ ServersUnchanged
    BY <1>5 DEF TakeOK, Awaited
  <2>2. ClerkTyped'
    BY <1>1, <2>1 DEF Typed, ClerkTyped
  <2> QED BY <2>1, <2>2, ClerkOnly
<1>6. ASSUME NEW r \in replies, TakeWrongLeader(c, r)
      PROVE  Typed'
  <2>1. request[c] # NoOp /\ RetryAt(c, NextServer(server[c])) /\ replies' \subseteq replies
    BY <1>6 DEF TakeWrongLeader, Awaited
  <2> QED BY <1>1, <2>1, RetryTyped
<1> QED BY <1>0, <1>2, <1>3, <1>4, <1>5, <1>6

LEMMA NextTyped == Typed /\ [Next]_vars => Typed'
<1>1. ASSUME Typed, UNCHANGED vars
      PROVE  Typed'
  <2>1. ServerTyped'
    BY <1>1 DEF Typed, ServerTyped, vars, kvVars, raftVars, loopVars, storeVars
  <2>2. ClerkTyped'
    BY <1>1 DEF Typed, ClerkTyped, vars, kvVars, clerkVars, rpcVars
  <2>3. Placed'
    BY <1>1 DEF Typed, Placed, Current, Up, vars, kvVars, raftVars, loopVars
  <2> QED BY <2>1, <2>2, <2>3 DEF Typed
<1> QED BY <1>1, RaftStepTyped, LoopStepTyped, HandlerStepTyped, ProcessStepTyped, ClerkStepTyped
     DEF Next, ServerStep

\* Every field of the store always holds a value of its C++ type, and what a step reads is there:
\* the apply loop never reads past what was pushed to applyChan.
THEOREM TypeCorrect == Spec => []TypeOK
<1>1. Init => Typed
  BY TypedInit DEF Init
<1>2. Typed /\ [Next]_vars => Typed'
  BY NextTyped
<1>3. Typed => TypeOK
  <2> SUFFICES ASSUME Typed PROVE TypeOK
    OBVIOUS
  <2>1. \A i \in Server : /\ known[i] \in [DOMAIN known[i] -> Op] /\ DOMAIN known[i] \subseteq 1 .. MaxLogIndex
                          /\ waitApplyCh[i] \in [DOMAIN waitApplyCh[i] -> Seq(Op)]
    BY PartialProperties DEF Typed, ServerTyped, Indexes
  <2>2. \A i \in Server : taken[i] <= Len(fed[i])
    BY DEF Typed, Placed
  <2>3. \A i \in Server : handler[i] = Idle \/
          handler[i] \in [at: HandlerAt, call: Call, index: 1 .. MaxLogIndex, err: Err]
    BY DEF Typed, ServerTyped, HandlerState, Indexes
  <2> QED BY <2>1, <2>2, <2>3 DEF Typed, ServerTyped, ClerkTyped, TypeOK, Indexes
<1> QED BY <1>1, <1>2, <1>3, PTL DEF Spec

-----------------------------------------------------------------------------
(* The log                                                                 *)

\* Of what was pushed to applyChan, the snapshots are covered by the node's own, and the
\* commands are those of the log, in order.
Reported ==
  \A i \in Server :
    /\ \A k \in DOMAIN fed[i] :
         /\ fed[i][k].snapshot => fed[i][k].index <= m_lastSnapshotIncludeIndex[i]
         /\ ~fed[i][k].snapshot =>
              fed[i][k].index \in DOMAIN known[i] /\ fed[i][k].command = known[i][fed[i][k].index]
    /\ \A k, l \in DOMAIN fed[i] :
         k < l /\ ~fed[i][k].snapshot /\ ~fed[i][l].snapshot => fed[i][k].index < fed[i][l].index

\* What the node of i adds: entries at the end, and one message.
Reports(i, msg) ==
  /\ fed'[i] = Append(fed[i], msg)
  /\ \A k \in DOMAIN fed[i] : fed[i][k].snapshot = msg.snapshot => fed[i][k].index < msg.index
  /\ msg.snapshot => msg.index <= m_lastSnapshotIncludeIndex'[i]
  /\ ~msg.snapshot => msg.index \in DOMAIN known[i] /\ msg.command = known[i][msg.index]

LogGoesOn(i) ==
  /\ m_lastSnapshotIncludeIndex'[i] >= m_lastSnapshotIncludeIndex[i]
  /\ \A x \in DOMAIN known[i] : x \in DOMAIN known'[i] /\ known'[i][x] = known[i][x]
  /\ \A x \in DOMAIN known'[i] \ DOMAIN known[i] :
       x > End(i) /\ \E entry \in started' : known'[i][x] = entry[2]
  /\ fed'[i] = fed[i] \/ \E msg \in Message : Reports(i, msg)

LogBegins(i) == known'[i] = <<>> /\ m_lastSnapshotIncludeIndex'[i] = 0 /\ fed'[i] = <<>>

LEMMA SameLogGoesOn ==
  ASSUME Typed, NEW i \in Server, known'[i] = known[i], fed'[i] = fed[i],
         m_lastSnapshotIncludeIndex'[i] = m_lastSnapshotIncludeIndex[i]
  PROVE  LogGoesOn(i)
<1>1. m_lastSnapshotIncludeIndex[i] \in 0 .. MaxLogIndex
  BY DEF Typed, ServerTyped
<1> QED BY <1>1, KvAssumption DEF LogGoesOn

LEMMA AppendGoesOn ==
  ASSUME Typed, NEW i \in Server, NEW op \in Op, AppendLog(i, op),
         NEW entry \in started', entry[2] = op, UNCHANGED <<fed, m_lastSnapshotIncludeIndex>>
  PROVE  LogGoesOn(i) /\ \A j \in Server \ {i} : LogGoesOn(j)
<1>1. /\ End(i) \in 0 .. MaxLogIndex /\ m_lastSnapshotIncludeIndex[i] \in 0 .. MaxLogIndex
      /\ known[i] \in Partial(Op) /\ known \in [Server -> Partial(Op)]
  BY EndProperties DEF Typed, ServerTyped
<1>2. /\ End(i) + 1 \in Indexes /\ End(i) + 1 \notin DOMAIN known[i]
      /\ known' = [known EXCEPT ![i] = With(@, End(i) + 1, op)]
  BY AppendTyped
<1>3. known'[i] = With(known[i], End(i) + 1, op) /\ \A j \in Server \ {i} : known'[j] = known[j]
  BY <1>1, <1>2
<1>4. /\ DOMAIN known'[i] = DOMAIN known[i] \cup {End(i) + 1} /\ known'[i][End(i) + 1] = op
      /\ \A y \in DOMAIN known[i] \ {End(i) + 1} : known'[i][y] = known[i][y]
  <2> DEFINE end == End(i)
             log == known[i]
             new == With(log, end + 1, op)
  <2>1. log \in Partial(Op) /\ end + 1 \in Indexes
    BY <1>1, <1>2
  <2> HIDE DEF end, log
  <2>2. /\ DOMAIN new = DOMAIN log \cup {end + 1} /\ new[end + 1] = op
        /\ \A y \in DOMAIN log \ {end + 1} : new[y] = log[y]
    BY <2>1, WithProperties
  <2> QED BY <1>3, <2>2 DEF end, log
<1>5. LogGoesOn(i)
  <2>1. End(i) + 1 > End(i) /\ m_lastSnapshotIncludeIndex[i] >= m_lastSnapshotIncludeIndex[i]
    BY <1>1, KvAssumption
  <2> QED BY <1>2, <1>4, <2>1 DEF LogGoesOn
<1> QED BY <1>3, <1>5, SameLogGoesOn

LEMMA RaftStepGoesOn ==
  ASSUME Typed, Reported, NEW i \in Server, RaftStep(i)
  PROVE  started' = started /\ \A j \in Server : LogGoesOn(j)
<1>1. CASE LearnCommand(i)
  <2>1. PICK entry \in started : AppendLog(i, entry[2])
    BY <1>1 DEF LearnCommand
  <2>2. entry[2] \in Op /\ entry \in started'
    BY <1>1 DEF Typed, ServerTyped, LearnCommand
  <2> QED BY <1>1, <2>1, <2>2, AppendGoesOn DEF LearnCommand
<1>2. CASE ReportCommand(i)
  <2>1. PICK x \in DOMAIN known[i] :
          /\ \A k \in DOMAIN fed[i] : ~fed[i][k].snapshot => fed[i][k].index < x
          /\ fed' = [fed EXCEPT
               ![i] = Append(@, [snapshot |-> FALSE, index |-> x, command |-> known[i][x], data |-> ""])]
    BY <1>2 DEF ReportCommand
  <2> DEFINE msg == [snapshot |-> FALSE, index |-> x, command |-> known[i][x], data |-> ""]
  <2>2. x \in Indexes /\ known[i][x] \in Op
    BY PartialProperties DEF Typed, ServerTyped
  <2>3. msg \in Message /\ msg.index = x /\ ~msg.snapshot /\ msg.command = known[i][x]
    BY <2>2 DEF Message, Indexes
  <2>4. fed'[i] = Append(fed[i], msg) /\ \A j \in Server \ {i} : fed'[j] = fed[j]
    BY <2>1 DEF Typed, ServerTyped
  <2> HIDE DEF msg
  <2>5. \A k \in DOMAIN fed[i] : fed[i][k] \in Message
    BY DEF Typed, ServerTyped
  <2>6. \A k \in DOMAIN fed[i] : fed[i][k].snapshot = msg.snapshot => fed[i][k].index < msg.index
    BY <2>1, <2>3, <2>5, MessageProperties
  <2>7. UNCHANGED <<started, known, m_lastSnapshotIncludeIndex>>
    BY <1>2 DEF ReportCommand
  <2>8. Reports(i, msg)
    BY <2>3, <2>4, <2>6 DEF Reports
  <2>9. m_lastSnapshotIncludeIndex[i] \in 0 .. MaxLogIndex
    BY DEF Typed, ServerTyped
  <2>10. LogGoesOn(i)
    BY <2>3, <2>7, <2>8, <2>9, KvAssumption DEF LogGoesOn
  <2> QED BY <2>4, <2>7, <2>10, SameLogGoesOn
<1>3. ASSUME NEW j \in Server, InstallSnapshot(j, i)
      PROVE  started' = started /\ \A k \in Server : LogGoesOn(k)
  <2> DEFINE index == m_lastSnapshotIncludeIndex[j]
             msg == [snapshot |-> TRUE, index |-> index, command |-> NoOp, data |-> P!ReadSnapshot(persister[j])]
  <2>1. /\ index > m_lastSnapshotIncludeIndex[i]
        /\ m_lastSnapshotIncludeIndex' = [m_lastSnapshotIncludeIndex EXCEPT ![i] = index]
        /\ fed' = [fed EXCEPT ![i] = Append(@, msg)]
        /\ UNCHANGED <<started, known>>
    BY <1>3 DEF InstallSnapshot
  <2>2. index \in 0 .. MaxLogIndex /\ m_lastSnapshotIncludeIndex[i] \in 0 .. MaxLogIndex
    BY DEF Typed, ServerTyped
  <2>3. index \in Indexes
    BY <2>1, <2>2, KvAssumption DEF Indexes
  <2>4. msg \in Message /\ msg.snapshot /\ msg.index = index
    BY <2>3 DEF Message, Indexes, P!ReadSnapshot, P!SnapshotData
  <2>5. /\ fed'[i] = Append(fed[i], msg) /\ m_lastSnapshotIncludeIndex'[i] = index
        /\ \A k \in Server \ {i} : fed'[k] = fed[k]
             /\ m_lastSnapshotIncludeIndex'[k] = m_lastSnapshotIncludeIndex[k]
    BY <2>1 DEF Typed, ServerTyped
  <2> HIDE DEF msg, index
  <2>6. \A k \in DOMAIN fed[i] : fed[i][k].snapshot = msg.snapshot => fed[i][k].index < msg.index
    <3> SUFFICES ASSUME NEW k \in DOMAIN fed[i], fed[i][k].snapshot = msg.snapshot
                 PROVE  fed[i][k].index < msg.index
      OBVIOUS
    <3>1. fed[i][k] \in Message
      BY DEF Typed, ServerTyped
    <3>2. fed[i][k].index \in Indexes
      BY <3>1, MessageProperties
    <3>3. fed[i][k].index <= m_lastSnapshotIncludeIndex[i]
      BY <2>4 DEF Reported
    <3> QED BY <2>1, <2>2, <2>4, <3>2, <3>3, KvAssumption DEF Indexes
  <2>7. Reports(i, msg)
    <3>1. msg.index <= index
      BY <2>2, <2>4, KvAssumption
    <3> QED BY <2>4, <2>5, <2>6, <3>1 DEF Reports
  <2>8. LogGoesOn(i)
    <3>1. index >= m_lastSnapshotIncludeIndex[i]
      BY <2>1, <2>2, KvAssumption
    <3> QED BY <2>1, <2>4, <2>5, <2>7, <3>1 DEF LogGoesOn
  <2> QED BY <2>1, <2>5, <2>8, SameLogGoesOn
<1> QED BY <1>1, <1>2, <1>3 DEF RaftStep

\* Every log goes on, unless a process begins anew.
LEMMA LogsGoOn ==
  ASSUME Typed, Reported,
         \/ UNCHANGED vars \/ ClerkStep
         \/ \E i \in Server : RaftStep(i) \/ LoopStep(i) \/ HandlerStep(i) \/ Kill(i)
  PROVE  started \subseteq started' /\ \A j \in Server : LogGoesOn(j)
<1>1. ASSUME UNCHANGED <<started, known, fed, m_lastSnapshotIncludeIndex>>
      PROVE  started \subseteq started' /\ \A j \in Server : LogGoesOn(j)
  BY <1>1, SameLogGoesOn
<1>2. CASE UNCHANGED vars \/ ClerkStep
  <2>1. UNCHANGED raftVars
    BY <1>2, ClerkStepLeavesServers DEF vars, kvVars, ServersUnchanged
  <2> QED BY <1>1, <2>1 DEF raftVars
<1>3. ASSUME NEW i \in Server, RaftStep(i)
      PROVE  started \subseteq started' /\ \A j \in Server : LogGoesOn(j)
  BY <1>3, RaftStepGoesOn
<1>4. ASSUME NEW i \in Server, TakeSnapshot(i)
      PROVE  started \subseteq started' /\ \A j \in Server : LogGoesOn(j)
  <2> DEFINE index == Current(i).index
  <2>1. /\ loop[i] = "snapshot" /\ index > m_lastSnapshotIncludeIndex[i]
        /\ m_lastSnapshotIncludeIndex' = [m_lastSnapshotIncludeIndex EXCEPT ![i] = index]
        /\ UNCHANGED <<started, known, fed>>
    BY <1>4 DEF TakeSnapshot
  <2>2. index \in Indexes
    BY <2>1, CurrentProperties
  <2> HIDE DEF index
  <2>3. /\ m_lastSnapshotIncludeIndex'[i] = index /\ m_lastSnapshotIncludeIndex[i] \in 0 .. MaxLogIndex
        /\ \A j \in Server \ {i} : m_lastSnapshotIncludeIndex'[j] = m_lastSnapshotIncludeIndex[j]
    BY <2>1 DEF Typed, ServerTyped
  <2>4. m_lastSnapshotIncludeIndex'[i] >= m_lastSnapshotIncludeIndex[i]
    BY <2>1, <2>2, <2>3, KvAssumption DEF Indexes
  <2>5. LogGoesOn(i)
    BY <2>1, <2>4 DEF LogGoesOn
  <2> QED BY <2>1, <2>3, <2>5, SameLogGoesOn
<1>5. ASSUME NEW i \in Server, LoopStep(i), ~TakeSnapshot(i)
      PROVE  UNCHANGED <<started, known, fed, m_lastSnapshotIncludeIndex>>
  BY <1>5 DEF LoopStep, PopCovered, PopCommand, Execute, SkipSnapshot, SendMessageToWaitChan,
     GetSnapShotFromRaft, InstallBreaks, ExitProcess, LoopUnchanged, raftVars
<1>6. ASSUME NEW i \in Server, NEW m \in calls, StartAccepted(i, m)
      PROVE  started \subseteq started' /\ \A j \in Server : LogGoesOn(j)
  <2>1. /\ started' = started \cup {<<End(i) + 1, m.op>>} /\ AppendLog(i, m.op)
        /\ UNCHANGED <<fed, m_lastSnapshotIncludeIndex>>
    BY <1>6 DEF StartAccepted, HandlerUnchanged
  <2>2. m.op \in Op
    BY CallProperties DEF Typed, ClerkTyped
  <2> DEFINE new == <<End(i) + 1, m.op>>
  <2>4. new \in started' /\ new[2] = m.op
    BY <2>1
  <2>3. PICK entry \in started' : entry[2] = m.op
    BY <2>4
  <2> QED BY <2>1, <2>2, <2>3, AppendGoesOn
<1>7. ASSUME NEW i \in Server, HandlerStep(i), \A m \in calls : ~StartAccepted(i, m)
      PROVE  UNCHANGED <<started, known, fed, m_lastSnapshotIncludeIndex>>
  BY <1>7 DEF HandlerStep, StartRefused, GetLookup, RegisterChannel, WaitOnChannel, TimeoutPop,
     PopTimesOut, CheckDuplicate, EraseChannel, ExitProcess, RaftUnchanged, HandlerUnchanged, raftVars
<1>8. ASSUME NEW i \in Server, Kill(i)
      PROVE  UNCHANGED <<started, known, fed, m_lastSnapshotIncludeIndex>>
  BY <1>8 DEF Kill, ExitProcess, raftVars
<1> QED BY <1>1, <1>2, <1>3, <1>4, <1>5, <1>6, <1>7, <1>8

\* What every step does to the logs.
LEMMA LogSteps ==
  ASSUME Typed, Reported, [Next]_vars
  PROVE  started \subseteq started' /\ \A j \in Server : LogGoesOn(j) \/ LogBegins(j)
<1>1. ASSUME NEW i \in Server, Restart(i)
      PROVE  started \subseteq started' /\ \A j \in Server : LogGoesOn(j) \/ LogBegins(j)
  <2>1. /\ known'[i] = <<>> /\ fed'[i] = <<>> /\ m_lastSnapshotIncludeIndex'[i] = 0 /\ started' = started
        /\ \A j \in Server \ {i} : known'[j] = known[j] /\ fed'[j] = fed[j]
             /\ m_lastSnapshotIncludeIndex'[j] = m_lastSnapshotIncludeIndex[j]
    BY <1>1 DEF Restart, Typed, ServerTyped
  <2> QED BY <2>1, SameLogGoesOn DEF LogBegins
<1> QED BY <1>1, LogsGoOn DEF Next, ServerStep

LEMMA ReportedKept ==
  ASSUME Typed, Reported, [Next]_vars
  PROVE  Reported'
<1>1. Typed'
  BY NextTyped
<1> SUFFICES ASSUME NEW i \in Server
             PROVE  /\ \A k \in DOMAIN fed'[i] :
                         /\ fed'[i][k].snapshot => fed'[i][k].index <= m_lastSnapshotIncludeIndex'[i]
                         /\ ~fed'[i][k].snapshot => fed'[i][k].index \in DOMAIN known'[i]
                              /\ fed'[i][k].command = known'[i][fed'[i][k].index]
                    /\ \A k, l \in DOMAIN fed'[i] :
                         k < l /\ ~fed'[i][k].snapshot /\ ~fed'[i][l].snapshot
                           => fed'[i][k].index < fed'[i][l].index
  BY DEF Reported
<1>2. LogGoesOn(i) \/ LogBegins(i)
  BY LogSteps
<1>3. /\ fed[i] \in Seq(Message) /\ m_lastSnapshotIncludeIndex[i] \in 0 .. MaxLogIndex
      /\ m_lastSnapshotIncludeIndex'[i] \in 0 .. MaxLogIndex
  BY <1>1 DEF Typed, ServerTyped
<1>4. \A k \in DOMAIN fed[i] : fed[i][k].index \in Indexes /\ fed[i][k].snapshot \in BOOLEAN
  BY <1>3, MessageProperties
<1>5. CASE LogBegins(i)
  BY <1>5 DEF LogBegins
<1>6. CASE LogGoesOn(i)
  <2>1. \A k \in DOMAIN fed[i] :
          /\ fed[i][k].snapshot => fed[i][k].index <= m_lastSnapshotIncludeIndex'[i]
          /\ ~fed[i][k].snapshot => fed[i][k].index \in DOMAIN known'[i]
               /\ fed[i][k].command = known'[i][fed[i][k].index]
    BY <1>3, <1>4, <1>6, KvAssumption DEF LogGoesOn, Reported, Indexes
  <2>2. CASE fed'[i] = fed[i]
    BY <2>1, <2>2 DEF Reported
  <2>3. ASSUME NEW msg \in Message, Reports(i, msg)
        PROVE  /\ \A k \in DOMAIN fed'[i] :
                    /\ fed'[i][k].snapshot => fed'[i][k].index <= m_lastSnapshotIncludeIndex'[i]
                    /\ ~fed'[i][k].snapshot => fed'[i][k].index \in DOMAIN known'[i]
                         /\ fed'[i][k].command = known'[i][fed'[i][k].index]
               /\ \A k, l \in DOMAIN fed'[i] :
                    k < l /\ ~fed'[i][k].snapshot /\ ~fed'[i][l].snapshot
                      => fed'[i][k].index < fed'[i][l].index
    <3>1. /\ DOMAIN fed'[i] = DOMAIN fed[i] \cup {Len(fed[i]) + 1} /\ DOMAIN fed[i] = 1 .. Len(fed[i])
          /\ Len(fed[i]) \in Nat
          /\ fed'[i][Len(fed[i]) + 1] = msg /\ \A k \in DOMAIN fed[i] : fed'[i][k] = fed[i][k]
      BY <1>3, <2>3 DEF Reports
    <3>2. /\ msg.snapshot => msg.index <= m_lastSnapshotIncludeIndex'[i]
          /\ ~msg.snapshot => msg.index \in DOMAIN known'[i] /\ msg.command = known'[i][msg.index]
      BY <1>6, <2>3 DEF Reports, LogGoesOn
    <3>3. \A k \in DOMAIN fed'[i] :
            /\ fed'[i][k].snapshot => fed'[i][k].index <= m_lastSnapshotIncludeIndex'[i]
            /\ ~fed'[i][k].snapshot => fed'[i][k].index \in DOMAIN known'[i]
                 /\ fed'[i][k].command = known'[i][fed'[i][k].index]
      BY <2>1, <3>1, <3>2
    <3>4. ASSUME NEW k \in DOMAIN fed'[i], NEW l \in DOMAIN fed'[i],
                 k < l, ~fed'[i][k].snapshot, ~fed'[i][l].snapshot
          PROVE  fed'[i][k].index < fed'[i][l].index
      <4>1. k \in DOMAIN fed[i] /\ fed'[i][k] = fed[i][k]
        BY <3>1, <3>4
      <4>2. CASE l \in DOMAIN fed[i]
        BY <3>1, <3>4, <4>1, <4>2 DEF Reported
      <4>3. CASE l = Len(fed[i]) + 1
        <5>1. fed'[i][l] = msg /\ msg.snapshot = FALSE /\ fed[i][k].snapshot = FALSE
          BY <1>4, <3>1, <3>4, <4>1, <4>3, MessageProperties
        <5> QED BY <2>3, <4>1, <5>1 DEF Reports
      <4> QED BY <3>1, <4>2, <4>3
    <3> QED BY <3>3, <3>4
  <2> QED BY <1>6, <2>2, <2>3 DEF LogGoesOn
<1> QED BY <1>2, <1>5, <1>6

LEMMA ReportedInit == Init => Reported
BY DEF Init, ServerInit, Reported

LEMMA EndGrows ==
  ASSUME Typed, Typed', NEW i \in Server, LogGoesOn(i)
  PROVE  End(i)' >= End(i)
<1>1. /\ End(i) \in 0 .. MaxLogIndex /\ End(i) \in DOMAIN known[i] \cup {m_lastSnapshotIncludeIndex[i]}
  BY EndProperties DEF Typed
<1>2. /\ known'[i] \in Partial(Op) /\ m_lastSnapshotIncludeIndex'[i] \in 0 .. MaxLogIndex
      /\ m_lastSnapshotIncludeIndex[i] \in 0 .. MaxLogIndex /\ MaxLogIndex \in Nat
  BY KvAssumption DEF Typed, ServerTyped
<1>3. PICK S : S = DOMAIN known'[i] \cup {m_lastSnapshotIncludeIndex'[i]}
  OBVIOUS
<1>4. S \subseteq 0 .. MaxLogIndex /\ S # {}
  BY <1>2, <1>3, PartialProperties DEF Indexes
<1>5. Max(S) \in S /\ \A m \in S : Max(S) >= m
  BY <1>2, <1>4, MaxOfNaturals
<1>6. End(i)' = Max(S)
  BY <1>3 DEF End
<1>7. \A x \in DOMAIN known[i] : x \in S
  BY <1>3 DEF LogGoesOn
<1>8. m_lastSnapshotIncludeIndex'[i] \in S /\ m_lastSnapshotIncludeIndex'[i] >= m_lastSnapshotIncludeIndex[i]
  BY <1>3 DEF LogGoesOn
<1>9. PICK m \in S : m >= End(i)
  <2>1. CASE End(i) \in DOMAIN known[i]
    <3>1. End(i) \in S /\ End(i) >= End(i)
      BY <1>1, <1>2, <1>7, <2>1
    <3> QED BY <3>1
  <2>2. CASE End(i) = m_lastSnapshotIncludeIndex[i]
    BY <1>8, <2>2
  <2> QED BY <1>1, <2>1, <2>2
<1>10. Max(S) \in 0 .. MaxLogIndex /\ m \in 0 .. MaxLogIndex /\ Max(S) >= m
  BY <1>4, <1>5, <1>9
<1> QED BY <1>1, <1>2, <1>6, <1>9, <1>10

LEMMA StepKeepsPromise ==
  ASSUME Typed, Reported, [Next]_vars
  PROVE  Contract!Next
<1>1. Typed' /\ started \subseteq started'
  BY NextTyped, LogSteps
<1>2. {entry[2] : entry \in started} \subseteq {entry[2] : entry \in started'}
  BY <1>1
<1>3. ASSUME NEW i \in Server, LogGoesOn(i)
      PROVE  Contract!Step(i)
  <2>1. End(i)' >= End(i)
    BY <1>1, <1>3, EndGrows
  <2>2. Contract!LogGrows(i)
    <3> SUFFICES ASSUME NEW x \in DOMAIN known'[i]
                 PROVE  IF x \in DOMAIN known[i] THEN known'[i][x] = known[i][x]
                        ELSE x > End(i) /\ known'[i][x] \in {entry[2] : entry \in started'}
      BY <2>1 DEF Contract!LogGrows
    <3> QED BY <1>3 DEF LogGoesOn
  <2>3. CASE fed'[i] = fed[i]
    BY <2>2, <2>3 DEF Contract!Step
  <2>4. ASSUME NEW msg \in Message, Reports(i, msg)
        PROVE  Contract!Step(i)
    <3>1. fed[i] \in Seq(Message)
      BY DEF Typed, ServerTyped
    <3>2. Len(fed'[i]) = Len(fed[i]) + 1 /\ fed'[i][Len(fed'[i])] = msg
      BY <2>4, <3>1 DEF Reports
    <3>3. Contract!Reports(i, msg)
      BY <2>4 DEF Reports, Contract!Reports
    <3> QED BY <2>2, <3>2, <3>3 DEF Contract!Step
  <2> QED BY <1>3, <2>3, <2>4 DEF LogGoesOn
<1>4. ASSUME NEW i \in Server, LogBegins(i)
      PROVE  Contract!Restart(i)
  <2>1. ServerTyped' /\ known'[i] = <<>> /\ m_lastSnapshotIncludeIndex'[i] = 0 /\ fed'[i] = <<>>
    BY <1>1, <1>4 DEF Typed, LogBegins
  <2>2. PICK S : S = DOMAIN known'[i] \cup {m_lastSnapshotIncludeIndex'[i]}
    OBVIOUS
  <2>3. S = {0}
    BY <2>1, <2>2
  <2>4. Max(S) \in S
    <3>1. 0 \in Nat /\ S \subseteq 0 .. 0 /\ S # {}
      BY <2>3
    <3> QED BY <3>1, MaxOfNaturals
  <2>5. End(i)' = 0
    BY <2>2, <2>3, <2>4 DEF End
  <2> QED BY <2>1, <2>5 DEF Contract!Restart
<1>5. \A i \in Server : LogGoesOn(i) \/ LogBegins(i)
  BY LogSteps
<1> QED BY <1>2, <1>3, <1>4, <1>5 DEF Contract!Next

\* The Raft node that the store is checked with does nothing that ReplicatedLog, the contract
\* Raft keeps, does not allow: it reports commands once and in order, as they are in its log,
\* and the log only grows.
THEOREM RaftOfStoreKeepsContract == Spec => EnvironmentKeepsPromise
<1>1. Init => Typed /\ Reported
  BY TypedInit, ReportedInit DEF Init
<1>2. Typed /\ Reported /\ [Next]_vars => (Typed /\ Reported)'
  BY NextTyped, ReportedKept
<1>3. Init => Contract!Init
  <2> SUFFICES ASSUME Init PROVE Contract!Init
    OBVIOUS
  <2>1. started = {} /\ known = [i \in Server |-> <<>>] /\ fed = [i \in Server |-> <<>>]
        /\ m_lastSnapshotIncludeIndex = [i \in Server |-> 0]
    BY DEF Init, ServerInit
  <2>2. \A i \in Server : End(i) = 0
    BY <2>1, TypedInit, EndProperties DEF Init, Typed
  <2> QED BY <2>1, <2>2 DEF Contract!Init
<1>4. Typed /\ Reported /\ [Next]_vars => [Contract!Next]_(Contract!promiseVars)
  BY StepKeepsPromise
<1> QED BY <1>1, <1>2, <1>3, <1>4, PTL DEF Spec, EnvironmentKeepsPromise, Contract!Spec

-----------------------------------------------------------------------------
(* Channels                                                                *)

HasChannel(i) == handler[i].at \in {"pop", "waiting", "timedOut", "erase"}

\* The apply loop is done with the command at index x.
Sent(i, x) ==
  \E n \in 1 .. taken[i] :
    ~fed[i][n].snapshot /\ fed[i][n].index = x /\ (n < taken[i] \/ loop[i] = "pop")

\* A handler has the one channel.  At its index is its own request, which is in the channel
\* only when the loop is done with that index.
ChannelAt(i) ==
  /\ DOMAIN waitApplyCh[i] = IF HasChannel(i) THEN {handler[i].index} ELSE {}
  /\ handler[i].at # "idle" =>
       handler[i].index \in DOMAIN known[i] /\ known[i][handler[i].index] = handler[i].call.op
  /\ \A x \in DOMAIN waitApplyCh[i] :
       \/ waitApplyCh[i][x] = <<>>
       \/ waitApplyCh[i][x] = <<handler[i].call.op>> /\ Sent(i, x)

Channels == \A i \in Server : Up(i) => ChannelAt(i)

\* The loop of i moves on, or not.
LoopMoves(i) ==
  \/ taken'[i] = taken[i] /\ (loop'[i] = loop[i] \/ loop[i] # "pop")
  \/ taken'[i] = taken[i] + 1 /\ loop[i] = "pop"

LEMMA SentStays ==
  ASSUME Typed, NEW i \in Server, NEW x, Sent(i, x), LoopMoves(i), LogGoesOn(i)
  PROVE  Sent(i, x)'
<1>1. PICK n \in 1 .. taken[i] :
        ~fed[i][n].snapshot /\ fed[i][n].index = x /\ (n < taken[i] \/ loop[i] = "pop")
  BY DEF Sent
<1>2. taken[i] \in Nat /\ fed[i] \in Seq(Message) /\ taken[i] <= Len(fed[i])
  BY DEF Typed, ServerTyped, Placed
<1>3. fed'[i][n] = fed[i][n]
  BY <1>2 DEF LogGoesOn, Reports
<1>4. n \in 1 .. taken'[i] /\ (n < taken'[i] \/ loop'[i] = "pop")
  BY <1>1, <1>2 DEF LoopMoves
<1> QED BY <1>1, <1>3, <1>4 DEF Sent

\* What keeps the index of a handler's request: its log goes on.
LEMMA RequestStaysInLog ==
  ASSUME NEW i \in Server, LogGoesOn(i), ChannelAt(i), handler[i].at # "idle"
  PROVE  handler[i].index \in DOMAIN known'[i] /\ known'[i][handler[i].index] = handler[i].call.op
BY DEF ChannelAt, LogGoesOn

LEMMA ChannelStays ==
  ASSUME Typed, NEW i \in Server, ChannelAt(i), LogGoesOn(i), LoopMoves(i),
         handler'[i] = handler[i], waitApplyCh'[i] = waitApplyCh[i]
  PROVE  ChannelAt(i)'
<1>1. DOMAIN waitApplyCh'[i] = IF HasChannel(i)' THEN {handler'[i].index} ELSE {}
  BY DEF ChannelAt, HasChannel
<1>2. handler'[i].at # "idle" =>
        handler'[i].index \in DOMAIN known'[i] /\ known'[i][handler'[i].index] = handler'[i].call.op
  BY RequestStaysInLog
<1>3. ASSUME NEW x \in DOMAIN waitApplyCh'[i]
      PROVE  \/ waitApplyCh'[i][x] = <<>>
             \/ waitApplyCh'[i][x] = <<handler'[i].call.op>> /\ Sent(i, x)'
  BY <1>3, SentStays DEF ChannelAt
<1> QED BY <1>1, <1>2, <1>3 DEF ChannelAt

\* A handler that goes on to a place where it has a channel.
LEMMA ChannelMoves ==
  ASSUME Typed, NEW i \in Server, Up(i), ChannelAt(i), LogGoesOn(i), LoopMoves(i),
         handler[i].at # "idle", HasChannel(i)',
         handler'[i].index = handler[i].index, handler'[i].call = handler[i].call,
         DOMAIN waitApplyCh'[i] = {handler[i].index},
         \/ waitApplyCh'[i][handler[i].index] = <<>>
         \/ HasChannel(i) /\ waitApplyCh'[i][handler[i].index] = waitApplyCh[i][handler[i].index]
  PROVE  ChannelAt(i)'
<1>1. DOMAIN waitApplyCh'[i] = IF HasChannel(i)' THEN {handler'[i].index} ELSE {}
  OBVIOUS
<1>2. handler'[i].at # "idle" =>
        handler'[i].index \in DOMAIN known'[i] /\ known'[i][handler'[i].index] = handler'[i].call.op
  BY RequestStaysInLog
<1>3. ASSUME NEW x \in DOMAIN waitApplyCh'[i]
      PROVE  \/ waitApplyCh'[i][x] = <<>>
             \/ waitApplyCh'[i][x] = <<handler'[i].call.op>> /\ Sent(i, x)'
  <2>1. x = handler[i].index
    BY <1>3
  <2>2. CASE HasChannel(i) /\ waitApplyCh'[i][handler[i].index] = waitApplyCh[i][handler[i].index]
    <3>1. x \in DOMAIN waitApplyCh[i]
      BY <2>1, <2>2 DEF ChannelAt
    <3> QED BY <2>1, <2>2, <3>1, SentStays DEF ChannelAt
  <2> QED BY <2>1, <2>2
<1> QED BY <1>1, <1>2, <1>3 DEF ChannelAt

\* The process that ends takes nothing from the others.
LEMMA ExitLeavesOthers ==
  ASSUME Typed, NEW i \in Server, NEW why, why # "up", ExitProcess(i, why)
  PROVE  \A j \in Server : Up(j)' => Up(j) /\ handler'[j] = handler[j] /\ waitApplyCh'[j] = waitApplyCh[j]
BY DEF ExitProcess, Up, Typed, ServerTyped

\* A step that leaves handlers and channels alone.
LEMMA ChannelsStay ==
  ASSUME Typed, Channels, \A j \in Server : LogGoesOn(j) /\ LoopMoves(j),
         \A j \in Server : Up(j)' => Up(j) /\ handler'[j] = handler[j] /\ waitApplyCh'[j] = waitApplyCh[j]
  PROVE  Channels'
BY ChannelStays DEF Channels

LEMMA ChannelsInit == Init => Channels
BY DEF Init, ServerInit, Channels, ChannelAt, HasChannel, Idle

LEMMA LoopStepKeepsChannels ==
  ASSUME Typed, Reported, Channels, NEW i \in Server, LoopStep(i)
  PROVE  Channels'
<1>1. \A j \in Server : LogGoesOn(j)
  BY LogsGoOn
<1>2. /\ taken \in [Server -> Nat] /\ loop \in [Server -> {"pop", "execute", "snapshot", "send"}]
      /\ waitApplyCh \in [Server -> Partial(Seq(Op))] /\ fed[i] \in Seq(Message)
  BY DEF Typed, ServerTyped
<1>3. ASSUME PopMessage(i), UNCHANGED <<handler, waitApplyCh, process>>,
             \A j \in Server \ {i} : loop'[j] = loop[j]
      PROVE  Channels'
  <2>1. \A j \in Server : LoopMoves(j)
    BY <1>2, <1>3 DEF LoopMoves, PopMessage
  <2> QED BY <1>1, <1>3, <2>1, ChannelsStay DEF Up
<1>4. CASE PopCovered(i) \/ PopCommand(i) \/ GetSnapShotFromRaft(i)
  BY <1>2, <1>3, <1>4 DEF PopCovered, PopCommand, GetSnapShotFromRaft, LoopUnchanged
<1>5. CASE Execute(i) \/ TakeSnapshot(i) \/ SkipSnapshot(i)
  <2>1. /\ UNCHANGED <<handler, waitApplyCh, process, taken>> /\ loop[i] # "pop"
        /\ \A j \in Server \ {i} : loop'[j] = loop[j]
    BY <1>2, <1>5 DEF Execute, TakeSnapshot, SkipSnapshot, LoopUnchanged
  <2>2. \A j \in Server : LoopMoves(j)
    BY <2>1 DEF LoopMoves
  <2> QED BY <1>1, <2>1, <2>2, ChannelsStay DEF Up
<1>6. CASE InstallBreaks(i)
  <2>1. PopMessage(i) /\ ExitProcess(i, "archiveException")
    BY <1>6 DEF InstallBreaks
  <2>2. \A j \in Server : LoopMoves(j)
    BY <1>2, <2>1 DEF LoopMoves, PopMessage, ExitProcess
  <2>3. \A j \in Server : Up(j)' => Up(j) /\ handler'[j] = handler[j] /\ waitApplyCh'[j] = waitApplyCh[j]
    BY <2>1, ExitLeavesOthers
  <2> QED BY <1>1, <2>2, <2>3, ChannelsStay
<1>7. CASE SendMessageToWaitChan(i)
  <2>0. PICK index, op : index = Current(i).index /\ op = Current(i).command
    OBVIOUS
  <2>1. /\ Up(i) /\ loop[i] = "send" /\ loop' = [loop EXCEPT ![i] = "pop"]
        /\ waitApplyCh' = IF index \notin DOMAIN waitApplyCh[i] THEN waitApplyCh
             ELSE [waitApplyCh EXCEPT ![i][index] = Append(@, op)]
        /\ UNCHANGED <<taken, handler, process, fed>>
    BY <1>7, <2>0 DEF SendMessageToWaitChan, LoopUnchanged, Push, raftVars
  <2>2. \A j \in Server : LoopMoves(j)
    BY <1>2, <2>1 DEF LoopMoves
  <2>3. CASE index \notin DOMAIN waitApplyCh[i]
    BY <1>1, <2>1, <2>2, <2>3, ChannelsStay DEF Up
  <2>4. CASE index \in DOMAIN waitApplyCh[i]
    <3>1. ChannelAt(i) /\ HasChannel(i) /\ index = handler[i].index /\ handler[i].at # "idle"
      BY <2>1, <2>4 DEF Channels, ChannelAt, HasChannel
    <3>2. /\ taken[i] \in DOMAIN fed[i] /\ taken[i] \in 1 .. Len(fed[i]) /\ ~fed[i][taken[i]].snapshot
          /\ fed[i][taken[i]].index = index /\ fed[i][taken[i]].command = op
      BY <1>2, <2>0, <2>1, CurrentProperties DEF Current, Typed, Placed
    <3>3. op = handler[i].call.op
      BY <3>1, <3>2 DEF Reported, ChannelAt
    <3>4. ~Sent(i, index)
      <4> SUFFICES ASSUME NEW n \in 1 .. taken[i], ~fed[i][n].snapshot, fed[i][n].index = index, n < taken[i]
                   PROVE  FALSE
        BY <2>1 DEF Sent
      <4>1. n \in DOMAIN fed[i] /\ fed[i][n].index < fed[i][taken[i]].index
        BY <1>2, <3>2 DEF Reported
      <4>2. index \in Indexes
        BY <2>0, <2>1, CurrentProperties
      <4> QED BY <3>2, <4>1, <4>2, KvAssumption DEF Indexes
    <3>5. waitApplyCh[i][index] = <<>>
      BY <2>4, <3>1, <3>4 DEF ChannelAt
    <3>6. /\ DOMAIN waitApplyCh'[i] = DOMAIN waitApplyCh[i] /\ waitApplyCh'[i][index] = <<op>>
          /\ \A j \in Server \ {i} : waitApplyCh'[j] = waitApplyCh[j]
      BY <1>2, <2>1, <2>4, <3>5
    <3>7. Sent(i, index)'
      <4>1. taken'[i] = taken[i] /\ fed' = fed /\ loop'[i] = "pop" /\ taken[i] \in 1 .. taken[i]
        BY <1>2, <2>1, <3>2
      <4> QED BY <3>2, <4>1 DEF Sent
    <3>8. ChannelAt(i)'
      <4>1. handler'[i].index \in DOMAIN known'[i] /\ known'[i][handler'[i].index] = handler'[i].call.op
        BY <1>1, <2>1, <3>1, RequestStaysInLog
      <4>2. DOMAIN waitApplyCh'[i] = {index}
        BY <3>1, <3>6 DEF ChannelAt
      <4>3. HasChannel(i)' /\ handler'[i] = handler[i]
        BY <2>1, <3>1 DEF HasChannel
      <4>4. \A x \in DOMAIN waitApplyCh'[i] : waitApplyCh'[i][x] = <<handler'[i].call.op>> /\ Sent(i, x)'
        BY <3>3, <3>6, <3>7, <4>2, <4>3
      <4> QED BY <3>1, <4>1, <4>2, <4>3, <4>4 DEF ChannelAt
    <3>9. \A j \in Server \ {i} : Up(j)' => ChannelAt(j)'
      BY <1>1, <2>1, <2>2, <3>6, ChannelStays DEF Channels, Up
    <3> QED BY <3>8, <3>9 DEF Channels
  <2> QED BY <2>3, <2>4
<1> QED BY <1>4, <1>5, <1>6, <1>7 DEF LoopStep

LEMMA HandlerStepKeepsChannels ==
  ASSUME Typed, Reported, Channels, NEW i \in Server, HandlerStep(i)
  PROVE  Channels'
<1>1. \A j \in Server : LogGoesOn(j)
  BY LogsGoOn
<1>2. /\ handler \in [Server -> HandlerState] /\ waitApplyCh \in [Server -> Partial(Seq(Op))]
      /\ waitApplyCh[i] \in [DOMAIN waitApplyCh[i] -> Seq(Op)]
  BY PartialProperties DEF Typed, ServerTyped
<1>3. ASSUME UNCHANGED <<process, taken, loop>>, ChannelAt(i)',
             \A j \in Server \ {i} : handler'[j] = handler[j] /\ waitApplyCh'[j] = waitApplyCh[j]
      PROVE  Channels'
  <2>1. \A j \in Server : LoopMoves(j)
    BY <1>3 DEF LoopMoves
  <2> QED BY <1>1, <1>3, <2>1, ChannelStays DEF Channels, Up
<1>4. ASSUME NEW m \in calls, StartRefused(i, m)
      PROVE  Channels'
  <2>1. UNCHANGED <<process, taken, loop, handler, waitApplyCh>>
    BY <1>4 DEF StartRefused, HandlerUnchanged, loopVars
  <2> QED BY <1>1, <2>1, ChannelsStay DEF LoopMoves, Up
<1>5. ASSUME NEW m \in calls, StartAccepted(i, m)
      PROVE  Channels'
  <2> DEFINE index == End(i) + 1
             h == [at |-> IF m.op.operation = "Get" THEN "lookup" ELSE "register",
                   call |-> m, index |-> index, err |-> "ErrWrongLeader"]
  <2>1. /\ Up(i) /\ handler[i] = Idle /\ AppendLog(i, m.op) /\ handler' = [handler EXCEPT ![i] = h]
        /\ UNCHANGED <<process, taken, loop, waitApplyCh>>
    BY <1>5 DEF StartAccepted, HandlerUnchanged, loopVars
  <2>2. m.op \in Op
    BY CallProperties DEF Typed, ClerkTyped
  <2>3. index \in DOMAIN known'[i] /\ known'[i][index] = m.op
    <3>1. PICK end, op, log : end = End(i) + 1 /\ op = m.op /\ log = known[i]
      OBVIOUS
    <3>2. /\ end \in Indexes /\ known' = [known EXCEPT ![i] = With(@, end, op)]
          /\ known \in [Server -> Partial(Op)]
      BY <2>1, <2>2, <3>1, AppendTyped DEF Typed, ServerTyped
    <3>3. known'[i] = With(log, end, op) /\ log \in Partial(Op) /\ op \in Op
      BY <2>2, <3>1, <3>2
    <3>4. end \in DOMAIN With(log, end, op) /\ With(log, end, op)[end] = op
      BY DEF With
    <3> QED BY <3>1, <3>3, <3>4
  <2>4. h.at \in {"lookup", "register"} /\ h.index = index /\ h.call = m
    OBVIOUS
  <2> HIDE DEF h, index
  <2>5. handler'[i] = h /\ DOMAIN waitApplyCh'[i] = {}
    <3>1. ChannelAt(i) /\ ~HasChannel(i)
      BY <2>1 DEF Channels, HasChannel, Idle
    <3> QED BY <1>2, <2>1, <3>1 DEF ChannelAt
  <2>6. ChannelAt(i)'
    BY <2>3, <2>4, <2>5 DEF ChannelAt, HasChannel
  <2> QED BY <1>2, <1>3, <2>1, <2>6
<1>6. CASE GetLookup(i)
  <2>1. ExitProcess(i, "nullChannel") /\ UNCHANGED taken
    BY <1>6 DEF GetLookup
  <2>2. \A j \in Server : LoopMoves(j)
    BY <2>1 DEF LoopMoves, ExitProcess
  <2>3. \A j \in Server : Up(j)' => Up(j) /\ handler'[j] = handler[j] /\ waitApplyCh'[j] = waitApplyCh[j]
    BY <2>1, ExitLeavesOthers
  <2> QED BY <1>1, <2>2, <2>3, ChannelsStay
<1>7. CASE RegisterChannel(i)
  <2> DEFINE index == handler[i].index
  <2>1. /\ Up(i) /\ handler[i].at = "register" /\ handler' = [handler EXCEPT ![i].at = "pop"]
        /\ waitApplyCh' = IF index \in DOMAIN waitApplyCh[i] THEN waitApplyCh
             ELSE [waitApplyCh EXCEPT ![i] = With(@, index, <<>>)]
        /\ UNCHANGED <<process, taken, loop>>
    BY <1>7 DEF RegisterChannel, MoveTo, NewLockQueue, HandlerUnchanged, loopVars
  <2>2. DOMAIN waitApplyCh[i] = {}
    BY <2>1 DEF Channels, ChannelAt, HasChannel
  <2>3. handler[i] \in [at: HandlerAt, call: Call, index: Indexes, err: Err]
    BY <1>2, <2>1, HandlerProperties
  <2>4. /\ handler'[i].at = "pop" /\ handler'[i].index = index /\ handler'[i].call = handler[i].call
        /\ \A j \in Server \ {i} : handler'[j] = handler[j] /\ waitApplyCh'[j] = waitApplyCh[j]
    BY <1>2, <2>1, <2>3
  <2>5. waitApplyCh'[i] = With(waitApplyCh[i], index, <<>>)
    BY <1>2, <2>1, <2>2
  <2> HIDE DEF index
  <2>6. DOMAIN waitApplyCh'[i] = {index} /\ waitApplyCh'[i][index] = <<>>
    BY <2>2, <2>5 DEF With
  <2>7. LoopMoves(i)
    BY <2>1 DEF LoopMoves
  <2>8. ChannelAt(i) /\ HasChannel(i)'
    BY <2>1, <2>4 DEF Channels, HasChannel
  <2>9. ChannelAt(i)'
    BY <1>1, <2>1, <2>4, <2>6, <2>7, <2>8, ChannelMoves DEF index
  <2> QED BY <1>3, <2>1, <2>4, <2>9
<1>8. ASSUME Up(i), HasChannel(i), HasChannel(i)',
             handler'[i].index = handler[i].index, handler'[i].call = handler[i].call,
             \/ waitApplyCh' = waitApplyCh
             \/ waitApplyCh' = [waitApplyCh EXCEPT ![i][handler[i].index] = <<>>],
             \A j \in Server \ {i} : handler'[j] = handler[j],
             UNCHANGED <<process, taken, loop>>
      PROVE  Channels'
  <2>1. DOMAIN waitApplyCh[i] = {handler[i].index} /\ handler[i].at # "idle" /\ ChannelAt(i)
    BY <1>8 DEF Channels, ChannelAt, HasChannel
  <2>2. /\ DOMAIN waitApplyCh'[i] = {handler[i].index}
        /\ \/ waitApplyCh'[i][handler[i].index] = <<>>
           \/ waitApplyCh'[i][handler[i].index] = waitApplyCh[i][handler[i].index]
        /\ \A j \in Server \ {i} : waitApplyCh'[j] = waitApplyCh[j]
    BY <1>2, <1>8, <2>1
  <2>3. LoopMoves(i)
    BY <1>8 DEF LoopMoves
  <2>4. ChannelAt(i)'
    BY <1>1, <1>8, <2>1, <2>2, <2>3, ChannelMoves
  <2> QED BY <1>3, <1>8, <2>2, <2>4
<1>9. CASE WaitOnChannel(i) \/ PopTimesOut(i)
  <2>1. PICK at \in {"waiting", "timedOut"} : handler' = [handler EXCEPT ![i].at = at]
    BY <1>9 DEF WaitOnChannel, PopTimesOut, MoveTo
  <2>2. /\ Up(i) /\ handler[i].at \in {"pop", "waiting"} /\ UNCHANGED <<waitApplyCh, process, taken, loop>>
    BY <1>9 DEF WaitOnChannel, PopTimesOut, HandlerUnchanged, loopVars
  <2>3. handler[i] \in [at: HandlerAt, call: Call, index: Indexes, err: Err]
    BY <1>2, <2>2, HandlerProperties
  <2>4. /\ handler'[i].at = at /\ handler'[i].index = handler[i].index /\ handler'[i].call = handler[i].call
        /\ \A j \in Server \ {i} : handler'[j] = handler[j]
    BY <1>2, <2>1, <2>3
  <2> QED BY <1>8, <2>2, <2>4 DEF HasChannel
<1>10. CASE TimeoutPop(i)
  <2> DEFINE index == handler[i].index
  <2>1. PICK err \in Err : handler' = [handler EXCEPT ![i].at = "erase", ![i].err = err]
    BY <1>10 DEF TimeoutPop, Err
  <2>2. /\ Up(i) /\ handler[i].at \in {"pop", "waiting"} /\ waitApplyCh[i][index] # <<>>
        /\ waitApplyCh' = [waitApplyCh EXCEPT ![i][index] = Tail(@)]
        /\ UNCHANGED <<process, taken, loop>>
    BY <1>10 DEF TimeoutPop, CanPop, AfterPop, Channel, HandlerUnchanged, loopVars
  <2>3. handler[i] \in [at: HandlerAt, call: Call, index: Indexes, err: Err]
    BY <1>2, <2>2, HandlerProperties
  <2>4. /\ handler'[i].at = "erase" /\ handler'[i].index = handler[i].index
        /\ handler'[i].call = handler[i].call /\ \A j \in Server \ {i} : handler'[j] = handler[j]
    BY <1>2, <2>1, <2>3
  <2>5. HasChannel(i) /\ index \in DOMAIN waitApplyCh[i]
    BY <2>2 DEF Channels, ChannelAt, HasChannel
  <2>6. waitApplyCh[i][index] = <<handler[i].call.op>>
    BY <2>2, <2>5 DEF Channels, ChannelAt
  <2>7. Tail(waitApplyCh[i][index]) = <<>>
    BY <2>6
  <2>8. waitApplyCh' = [waitApplyCh EXCEPT ![i][index] = <<>>]
    BY <1>2, <2>2, <2>5, <2>7
  <2> QED BY <1>8, <2>2, <2>4, <2>5, <2>8 DEF HasChannel
<1>11. CASE CheckDuplicate(i)
  <2>1. PICK err \in Err : handler' = [handler EXCEPT ![i].at = "erase", ![i].err = err]
    BY <1>11 DEF CheckDuplicate, Err
  <2>2. Up(i) /\ handler[i].at = "timedOut" /\ UNCHANGED <<waitApplyCh, process, taken, loop>>
    BY <1>11 DEF CheckDuplicate, HandlerUnchanged, loopVars
  <2>3. handler[i] \in [at: HandlerAt, call: Call, index: Indexes, err: Err]
    BY <1>2, <2>2, HandlerProperties
  <2>4. /\ handler'[i].at = "erase" /\ handler'[i].index = handler[i].index
        /\ handler'[i].call = handler[i].call /\ \A j \in Server \ {i} : handler'[j] = handler[j]
    BY <1>2, <2>1, <2>3
  <2> QED BY <1>8, <2>2, <2>4 DEF HasChannel
<1>12. CASE EraseChannel(i)
  <2>1. /\ Up(i) /\ handler[i].at = "erase" /\ handler' = [handler EXCEPT ![i] = Idle]
        /\ waitApplyCh' = [waitApplyCh EXCEPT
             ![i] = [x \in DOMAIN @ \ {handler[i].index} |-> waitApplyCh[i][x]]]
        /\ UNCHANGED <<process, taken, loop>>
    BY <1>12 DEF EraseChannel, HandlerUnchanged, loopVars
  <2>2. DOMAIN waitApplyCh[i] = {handler[i].index}
    BY <2>1 DEF Channels, ChannelAt, HasChannel
  <2>3. /\ handler'[i] = Idle /\ DOMAIN waitApplyCh'[i] = {}
        /\ \A j \in Server \ {i} : handler'[j] = handler[j] /\ waitApplyCh'[j] = waitApplyCh[j]
    BY <1>2, <2>1, <2>2
  <2>4. ChannelAt(i)'
    BY <2>3 DEF ChannelAt, HasChannel, Idle
  <2> QED BY <1>3, <2>1, <2>3, <2>4
<1> QED BY <1>4, <1>5, <1>6, <1>7, <1>9, <1>10, <1>11, <1>12 DEF HandlerStep

LEMMA ChannelsKept ==
  ASSUME Typed, Reported, Channels, [Next]_vars
  PROVE  Channels'
<1>1. ASSUME UNCHANGED <<process, taken, loop, handler, waitApplyCh>>, \A j \in Server : LogGoesOn(j)
      PROVE  Channels'
  BY <1>1, ChannelsStay DEF LoopMoves, Up
<1>2. CASE UNCHANGED vars \/ ClerkStep
  <2>1. ServersUnchanged
    BY <1>2, ClerkStepLeavesServers DEF vars, kvVars, ServersUnchanged
  <2> QED BY <1>1, <1>2, <2>1, LogsGoOn DEF ServersUnchanged, loopVars
<1>3. ASSUME NEW i \in Server, RaftStep(i)
      PROVE  Channels'
  <2>1. UNCHANGED <<process, taken, loop, handler, waitApplyCh>>
    BY <1>3 DEF RaftStep, LearnCommand, ReportCommand, InstallSnapshot, loopVars
  <2> QED BY <1>1, <1>3, <2>1, LogsGoOn
<1>4. ASSUME NEW i \in Server, Kill(i)
      PROVE  Channels'
  <2>1. ExitProcess(i, "killed") /\ UNCHANGED taken
    BY <1>4 DEF Kill
  <2>2. \A j \in Server : LoopMoves(j)
    BY <2>1 DEF LoopMoves, ExitProcess
  <2>3. \A j \in Server : Up(j)' => Up(j) /\ handler'[j] = handler[j] /\ waitApplyCh'[j] = waitApplyCh[j]
    BY <2>1, ExitLeavesOthers
  <2> QED BY <1>4, <2>2, <2>3, ChannelsStay, LogsGoOn
<1>5. ASSUME NEW i \in Server, Restart(i)
      PROVE  Channels'
  <2>1. /\ waitApplyCh'[i] = <<>> /\ handler' = handler /\ ~Up(i)
        /\ \A j \in Server \ {i} :
             /\ waitApplyCh'[j] = waitApplyCh[j] /\ taken'[j] = taken[j] /\ loop'[j] = loop[j]
             /\ known'[j] = known[j] /\ fed'[j] = fed[j] /\ Up(j)' = Up(j)
             /\ m_lastSnapshotIncludeIndex'[j] = m_lastSnapshotIncludeIndex[j]
    BY <1>5 DEF Restart, Typed, ServerTyped, Up
  <2>2. handler[i].at = "idle"
    BY <2>1 DEF Typed, Placed
  <2>3. ChannelAt(i)'
    BY <2>1, <2>2 DEF ChannelAt, HasChannel
  <2>4. \A j \in Server \ {i} : LogGoesOn(j) /\ LoopMoves(j)
    BY <2>1, SameLogGoesOn DEF LoopMoves
  <2>5. \A j \in Server \ {i} : Up(j)' => ChannelAt(j)'
    BY <2>1, <2>4, ChannelStays DEF Channels
  <2> QED BY <2>3, <2>5 DEF Channels
<1> QED BY <1>2, <1>3, <1>4, <1>5, LoopStepKeepsChannels, HandlerStepKeepsChannels
     DEF Next, ServerStep

\* A channel belongs to the handler that waits on it: none is left behind, and none is gone
\* when the handler reads it.
THEOREM ChannelsHaveOwners == Spec => []ChannelsOwned
<1>1. Init => Typed /\ Reported /\ Channels
  BY TypedInit, ReportedInit, ChannelsInit DEF Init
<1>2. Typed /\ Reported /\ Channels /\ [Next]_vars => (Typed /\ Reported /\ Channels)'
  BY NextTyped, ReportedKept, ChannelsKept
<1>3. Channels => ChannelsOwned
  BY DEF Channels, ChannelAt, ChannelsOwned, HasChannel
<1> QED BY <1>1, <1>2, <1>3, PTL DEF Spec

\* What a handler finds in its channel is its own request: the index Start gave out is never
\* filled by another leader's command, and never reported twice.
THEOREM ChannelsHoldOwnRequest == Spec => []ChannelHoldsOwnRequest
<1>1. Init => Typed /\ Reported /\ Channels
  BY TypedInit, ReportedInit, ChannelsInit DEF Init
<1>2. Typed /\ Reported /\ Channels /\ [Next]_vars => (Typed /\ Reported /\ Channels)'
  BY NextTyped, ReportedKept, ChannelsKept
<1>3. Channels => ChannelHoldsOwnRequest
  <2> SUFFICES ASSUME Channels, NEW i \in Server, Up(i), NEW x \in DOMAIN waitApplyCh[i],
                      waitApplyCh[i][x] # <<>>
               PROVE  handler[i] # Idle /\ waitApplyCh[i][x] = <<handler[i].call.op>>
    BY DEF ChannelHoldsOwnRequest, NewLockQueue
  <2>1. ChannelAt(i)
    BY DEF Channels
  <2>2. handler[i].at # "idle"
    BY <2>1 DEF ChannelAt, HasChannel
  <2> QED BY <2>1, <2>2 DEF ChannelAt, Idle
<1> QED BY <1>1, <1>2, <1>3, PTL DEF Spec

-----------------------------------------------------------------------------
(* Requests                                                                *)

\* A request that some clerk has made: the one it is at, if it has that number.
Issued(op) ==
  /\ op.requestId <= m_requestId[op.client]
  /\ op.requestId = m_requestId[op.client] /\ request[op.client] # NoOp => op = request[op.client]

\* A call that some clerk has made: the one it waits for, if it has that number.
CallIssued(m) ==
  /\ Issued(m.op)
  /\ m.attempt <= attempts[m.op.client]
  /\ m.attempt = attempts[m.op.client] /\ request[m.op.client] # NoOp =>
       m.op = request[m.op.client] /\ m.server = server[m.op.client]

OwnRequest ==
  \A c \in Client : request[c] # NoOp => request[c].client = c /\ request[c].requestId = m_requestId[c]

Requests ==
  /\ OwnRequest
  /\ \A m \in calls : CallIssued(m)
  /\ \A r \in replies : CallIssued(r.call)
  /\ \A i \in Server : handler[i].at # "idle" => CallIssued(handler[i].call)
  /\ \A entry \in started : Issued(entry[2])
  /\ \A i \in Server : \A x \in DOMAIN known[i] : Issued(known[i][x])
  /\ \A i \in Server : \A n \in DOMAIN executed[i] : Issued(executed[i][n])

LEMMA RequestsInit == Init => Requests
BY DEF Init, ServerInit, ClerkInit, Requests, OwnRequest, Idle

\* A clerk begins a request, or calls again, or is done.
ClerkBegins(c) ==
  /\ m_requestId' = [m_requestId EXCEPT ![c] = @ + 1]
  /\ attempts' = [attempts EXCEPT ![c] = @ + 1]
  /\ \E op \in Op, s \in Server :
       /\ op.client = c /\ op.requestId = m_requestId[c] + 1
       /\ request' = [request EXCEPT ![c] = op] /\ server' = [server EXCEPT ![c] = s]
       /\ calls' = calls \cup {[op |-> op, server |-> s, attempt |-> attempts[c] + 1]}
  /\ UNCHANGED <<replies, acked>>

ClerkRetries(c) ==
  /\ request[c] # NoOp
  /\ UNCHANGED <<m_requestId, request, acked>>
  /\ attempts' = [attempts EXCEPT ![c] = @ + 1]
  /\ \E s \in Server :
       /\ server' = [server EXCEPT ![c] = s]
       /\ calls' = calls \cup {[op |-> request[c], server |-> s, attempt |-> attempts[c] + 1]}
  /\ replies' \subseteq replies

ClerkEnds(c) ==
  /\ \E r \in replies : Awaited(c, r) /\ r.err = "OK"
  /\ UNCHANGED <<m_requestId, calls, server, attempts>>
  /\ request' = [request EXCEPT ![c] = NoOp]
  /\ acked' = acked \cup {<<server[c], request[c]>>}
  /\ replies' \subseteq replies

LEMMA ClerkStepKinds ==
  ASSUME Typed, ClerkStep
  PROVE  ServersUnchanged /\ \E c \in Client : ClerkBegins(c) \/ ClerkRetries(c) \/ ClerkEnds(c)
<1>0. PICK c \in Client :
        \/ NewRequest(c) \/ CallFails(c) \/ EmptyReply(c)
        \/ \E r \in replies : TakeOK(c, r) \/ TakeWrongLeader(c, r)
  BY DEF ClerkStep
<1>1. /\ server[c] \in Server /\ NextServer(server[c]) \in Server /\ m_recentLeaderId[c] \in Server
      /\ m_requestId[c] \in 0 .. MaxRequests
  BY ServersNumbered DEF Typed, ClerkTyped
<1>2. CASE NewRequest(c)
  <2>1. PICK operation \in {"Put", "Get"}, key \in Key :
          LET op == [operation |-> operation, key |-> key, client |-> c,
                     requestId |-> m_requestId[c] + 1]
          IN /\ m_requestId[c] < MaxRequests
             /\ m_requestId' = [m_requestId EXCEPT ![c] = @ + 1]
             /\ request' = [request EXCEPT ![c] = op]
             /\ server' = [server EXCEPT ![c] = m_recentLeaderId[c]]
             /\ NewCall(c, op, m_recentLeaderId[c])
             /\ UNCHANGED <<m_recentLeaderId, replies, acked>>
    BY <1>2 DEF NewRequest
  <2> DEFINE new == [operation |-> operation, key |-> key, client |-> c,
                     requestId |-> m_requestId[c] + 1]
  <2>2. new \in Op /\ new.client = c /\ new.requestId = m_requestId[c] + 1
    BY <1>1, <2>1, KvAssumption DEF Op
  <2>3. /\ m_requestId' = [m_requestId EXCEPT ![c] = @ + 1] /\ request' = [request EXCEPT ![c] = new]
        /\ server' = [server EXCEPT ![c] = m_recentLeaderId[c]]
        /\ NewCall(c, new, m_recentLeaderId[c]) /\ UNCHANGED <<replies, acked>>
    BY <2>1
  <2> HIDE DEF new
  <2>4. ClerkBegins(c)
    BY <1>1, <2>2, <2>3 DEF ClerkBegins, NewCall
  <2> QED BY <2>4, ClerkStepLeavesServers
<1>3. ASSUME NEW s \in Server, request[c] # NoOp, RetryAt(c, s), replies' \subseteq replies
      PROVE  ClerkRetries(c)
  BY <1>3 DEF ClerkRetries, RetryAt, NewCall
<1>4. ASSUME NEW r \in replies, TakeOK(c, r)
      PROVE  ClerkEnds(c)
  BY <1>4 DEF TakeOK, ClerkEnds
<1>5. CASE CallFails(c)
  <2>1. request[c] # NoOp /\ RetryAt(c, NextServer(server[c])) /\ replies' \subseteq replies
    BY <1>5 DEF CallFails
  <2> QED BY <1>1, <1>3, <2>1, ClerkStepLeavesServers
<1>6. CASE EmptyReply(c)
  <2>1. request[c] # NoOp /\ RetryAt(c, server[c]) /\ replies' \subseteq replies
    BY <1>6 DEF EmptyReply
  <2> QED BY <1>1, <1>3, <2>1, ClerkStepLeavesServers
<1>7. ASSUME NEW r \in replies, TakeWrongLeader(c, r)
      PROVE  ClerkRetries(c)
  <2>1. request[c] # NoOp /\ RetryAt(c, NextServer(server[c])) /\ replies' \subseteq replies
    BY <1>7 DEF TakeWrongLeader, Awaited
  <2> QED BY <1>1, <1>3, <2>1
<1> QED BY <1>0, <1>2, <1>4, <1>5, <1>6, <1>7, ClerkStepLeavesServers

\* What a clerk has issued stays so, and is not the request that it begins.
LEMMA IssuedStays ==
  ASSUME Typed, NEW c \in Client, ClerkBegins(c) \/ ClerkRetries(c) \/ ClerkEnds(c),
         NEW op \in Op, Issued(op)
  PROVE  /\ Issued(op)'
         /\ request'[op.client] = op /\ op # NoOp => request[op.client] = op
<1>1. /\ m_requestId \in [Client -> 0 .. MaxRequests] /\ request \in [Client -> Op \cup {NoOp}]
      /\ op.client \in Client /\ op.requestId \in 1 .. MaxRequests /\ MaxRequests \in Nat
  BY OpProperties, KvAssumption DEF Typed, ClerkTyped
<1>2. CASE ClerkBegins(c)
  <2>1. PICK new \in Op : /\ new.client = c /\ new.requestId = m_requestId[c] + 1
                          /\ request' = [request EXCEPT ![c] = new]
                          /\ m_requestId' = [m_requestId EXCEPT ![c] = @ + 1]
    BY <1>2 DEF ClerkBegins
  <2>2. CASE op.client = c
    <3>1. m_requestId'[c] = m_requestId[c] + 1 /\ request'[c] = new /\ op.requestId <= m_requestId[c]
          /\ m_requestId[c] \in Nat /\ op.requestId \in Nat
      BY <1>1, <2>1, <2>2 DEF Issued
    <3>2. op.requestId <= m_requestId'[c] /\ op.requestId # m_requestId'[c] /\ op # new
      BY <2>1, <3>1
    <3> QED BY <2>2, <3>1, <3>2 DEF Issued
  <2>3. CASE op.client # c
    <3>1. m_requestId'[op.client] = m_requestId[op.client] /\ request'[op.client] = request[op.client]
      BY <1>1, <2>1, <2>3
    <3> QED BY <3>1 DEF Issued
  <2> QED BY <2>2, <2>3
<1>3. CASE ClerkRetries(c)
  BY <1>3 DEF ClerkRetries, Issued
<1>4. CASE ClerkEnds(c)
  <2>1. /\ m_requestId' = m_requestId /\ request'[c] = NoOp
        /\ \A d \in Client \ {c} : request'[d] = request[d]
    BY <1>1, <1>4 DEF ClerkEnds
  <2> QED BY <1>1, <2>1 DEF Issued
<1> QED BY <1>2, <1>3, <1>4

LEMMA CallIssuedStays ==
  ASSUME Typed, NEW c \in Client, ClerkBegins(c) \/ ClerkRetries(c) \/ ClerkEnds(c),
         NEW m \in Call, CallIssued(m)
  PROVE  CallIssued(m)'
<1>1. /\ attempts \in [Client -> 0 .. MaxCalls] /\ request \in [Client -> Op \cup {NoOp}]
      /\ server \in [Client -> Server] /\ MaxCalls \in Nat
      /\ m.op \in Op /\ m.op.client \in Client /\ m.attempt \in 1 .. MaxCalls
  BY CallProperties, OpProperties, KvAssumption DEF Typed, ClerkTyped
<1>2. Issued(m.op)'
  <2>1. PICK op \in Op : op = m.op
    BY <1>1
  <2>2. Issued(op)
    BY <2>1 DEF CallIssued
  <2>3. Issued(op)'
    BY <2>2, IssuedStays
  <2> QED BY <2>1, <2>3
<1>3. CASE m.op.client = c
  <2>1. CASE ClerkBegins(c) \/ ClerkRetries(c)
    <3>1. attempts'[c] = attempts[c] + 1 /\ attempts[c] \in Nat /\ m.attempt <= attempts[c] /\ m.attempt \in Nat
      BY <1>1, <1>3, <2>1 DEF ClerkBegins, ClerkRetries, CallIssued
    <3>2. m.attempt <= attempts'[c] /\ m.attempt # attempts'[c]
      BY <3>1
    <3> QED BY <1>2, <1>3, <3>2 DEF CallIssued
  <2>2. CASE ClerkEnds(c)
    <3>1. attempts' = attempts /\ request'[c] = NoOp
      BY <1>1, <2>2 DEF ClerkEnds
    <3> QED BY <1>2, <1>3, <3>1 DEF CallIssued
  <2> QED BY <2>1, <2>2
<1>4. CASE m.op.client # c
  <2>1. /\ attempts'[m.op.client] = attempts[m.op.client] /\ request'[m.op.client] = request[m.op.client]
        /\ server'[m.op.client] = server[m.op.client]
    BY <1>1, <1>4 DEF ClerkBegins, ClerkRetries, ClerkEnds
  <2> QED BY <1>2, <2>1 DEF CallIssued
<1> QED BY <1>3, <1>4

LEMMA ClerkStepKeepsRequests ==
  ASSUME Typed, Requests, ClerkStep
  PROVE  Requests'
<1>1. PICK c \in Client : ClerkBegins(c) \/ ClerkRetries(c) \/ ClerkEnds(c)
  BY ClerkStepKinds
<1>2. UNCHANGED <<handler, started, known, executed>>
  BY ClerkStepKinds DEF ServersUnchanged, raftVars
<1>3. /\ calls \subseteq Call /\ replies \subseteq [call: Call, err: Err]
      /\ m_requestId \in [Client -> 0 .. MaxRequests] /\ request \in [Client -> Op \cup {NoOp}]
      /\ attempts \in [Client -> 0 .. MaxCalls] /\ server \in [Client -> Server]
  BY DEF Typed, ClerkTyped
<1>4. \A m \in Call : CallIssued(m) => CallIssued(m)'
  BY <1>1, CallIssuedStays
<1>5. \A op \in Op : Issued(op) => Issued(op)'
  BY <1>1, IssuedStays
<1>6. OwnRequest'
  <2>1. CASE ClerkBegins(c)
    <3>1. PICK op \in Op : /\ op.client = c /\ op.requestId = m_requestId[c] + 1
                           /\ request' = [request EXCEPT ![c] = op]
                           /\ m_requestId' = [m_requestId EXCEPT ![c] = @ + 1]
      BY <2>1 DEF ClerkBegins
    <3> QED BY <1>3, <3>1 DEF Requests, OwnRequest
  <2>2. CASE ClerkRetries(c)
    BY <2>2 DEF ClerkRetries, Requests, OwnRequest
  <2>3. CASE ClerkEnds(c)
    BY <1>3, <2>3 DEF ClerkEnds, Requests, OwnRequest
  <2> QED BY <1>1, <2>1, <2>2, <2>3
<1>7. \A m \in calls' : CallIssued(m)'
  <2>1. ASSUME NEW op \in Op, NEW s \in Server,
               op.client = c, op.requestId = m_requestId'[c], request'[c] = op, server'[c] = s,
               attempts'[c] = attempts[c] + 1,
               calls' = calls \cup {[op |-> op, server |-> s, attempt |-> attempts[c] + 1]}
        PROVE  \A m \in calls' : CallIssued(m)'
    <3> SUFFICES ASSUME NEW m \in {[op |-> op, server |-> s, attempt |-> attempts[c] + 1]}
                 PROVE  CallIssued(m)'
      BY <1>3, <1>4, <2>1 DEF Requests
    <3>1. m.op = op /\ m.server = s /\ m.attempt = attempts'[c] /\ attempts'[c] \in Int /\ m_requestId'[c] \in Int
      BY <1>3, <2>1, OpProperties
    <3> QED BY <2>1, <3>1 DEF CallIssued, Issued
  <2>2. CASE ClerkBegins(c)
    <3>1. PICK op \in Op, s \in Server :
            /\ op.client = c /\ op.requestId = m_requestId[c] + 1
            /\ request' = [request EXCEPT ![c] = op] /\ server' = [server EXCEPT ![c] = s]
            /\ calls' = calls \cup {[op |-> op, server |-> s, attempt |-> attempts[c] + 1]}
      BY <2>2 DEF ClerkBegins
    <3>2. m_requestId'[c] = m_requestId[c] + 1 /\ attempts'[c] = attempts[c] + 1
      BY <1>3, <2>2 DEF ClerkBegins
    <3> QED BY <1>3, <2>1, <3>1, <3>2
  <2>3. CASE ClerkRetries(c)
    <3>1. PICK s \in Server :
            /\ server' = [server EXCEPT ![c] = s]
            /\ calls' = calls \cup {[op |-> request[c], server |-> s, attempt |-> attempts[c] + 1]}
      BY <2>3 DEF ClerkRetries
    <3>2. /\ request[c] # NoOp /\ request' = request /\ m_requestId' = m_requestId
          /\ attempts'[c] = attempts[c] + 1
      BY <1>3, <2>3 DEF ClerkRetries
    <3>3. PICK op \in Op : op = request[c]
      BY <1>3, <3>2
    <3>4. op.client = c /\ op.requestId = m_requestId[c]
      BY <3>2, <3>3 DEF Requests, OwnRequest
    <3> QED BY <1>3, <2>1, <3>1, <3>2, <3>3, <3>4
  <2>4. CASE ClerkEnds(c)
    BY <1>3, <1>4, <2>4 DEF ClerkEnds, Requests
  <2> QED BY <1>1, <2>2, <2>3, <2>4
<1>8. \A r \in replies' : CallIssued(r.call)'
  <2>1. replies' \subseteq replies
    BY <1>1 DEF ClerkBegins, ClerkRetries, ClerkEnds
  <2> SUFFICES ASSUME NEW r \in replies PROVE CallIssued(r.call)'
    BY <2>1
  <2>2. PICK m \in Call : m = r.call
    BY <1>3
  <2>3. CallIssued(m)'
    BY <1>4, <2>2 DEF Requests
  <2> QED BY <2>2, <2>3
<1>9. ASSUME NEW i \in Server, handler'[i].at # "idle" PROVE CallIssued(handler[i].call)'
  <2>0. handler'[i] = handler[i] /\ handler[i].at # "idle" /\ handler[i] \in HandlerState
    BY <1>2, <1>9 DEF Typed, ServerTyped
  <2>1. PICK m \in Call : m = handler[i].call
    BY <2>0, HandlerProperties
  <2>2. CallIssued(m)
    BY <2>0, <2>1 DEF Requests
  <2>3. CallIssued(m)'
    BY <1>4, <2>1, <2>2
  <2> QED BY <2>0, <2>1, <2>3
<1>10. \A entry \in started' : Issued(entry[2])'
  <2> SUFFICES ASSUME NEW entry \in started PROVE Issued(entry[2])'
    BY <1>2
  <2>1. PICK op \in Op : op = entry[2]
    BY DEF Typed, ServerTyped
  <2>2. Issued(op)'
    BY <1>5, <2>1 DEF Requests
  <2> QED BY <2>1, <2>2
<1>11. ASSUME NEW i \in Server, NEW x \in DOMAIN known'[i] PROVE Issued(known[i][x])'
  <2>0. known'[i] = known[i] /\ x \in DOMAIN known[i] /\ known[i] \in Partial(Op)
    BY <1>2, <1>11 DEF Typed, ServerTyped
  <2>1. PICK op \in Op : op = known[i][x]
    BY <2>0, PartialProperties
  <2>2. Issued(op)
    BY <2>0, <2>1 DEF Requests
  <2>3. Issued(op)'
    BY <1>5, <2>1, <2>2
  <2> QED BY <2>0, <2>1, <2>3
<1>12. ASSUME NEW i \in Server, NEW n \in DOMAIN executed'[i] PROVE Issued(executed[i][n])'
  <2>0. executed'[i] = executed[i] /\ n \in DOMAIN executed[i] /\ executed[i] \in Seq(Op)
    BY <1>2, <1>12 DEF Typed, ServerTyped
  <2>1. PICK op \in Op : op = executed[i][n]
    BY <2>0
  <2>2. Issued(op)
    BY <2>0, <2>1 DEF Requests
  <2>3. Issued(op)'
    BY <1>5, <2>1, <2>2
  <2> QED BY <2>0, <2>1, <2>3
<1> QED BY <1>6, <1>7, <1>8, <1>9, <1>10, <1>11, <1>12 DEF Requests

\* The servers make no request and no call of their own.
LEMMA ServerKeepsRequests ==
  ASSUME Requests, UNCHANGED clerkVars,
         calls' \subseteq calls,
         \A r \in replies' \ replies :
           r.call \in calls \/ \E i \in Server : handler[i].at # "idle" /\ r.call = handler[i].call,
         \A i \in Server : handler'[i].at # "idle" =>
           handler'[i].call \in calls \/ (handler[i].at # "idle" /\ handler'[i].call = handler[i].call),
         \A entry \in started' \ started : \E m \in calls : entry[2] = m.op,
         \A i \in Server : \A x \in DOMAIN known'[i] :
           \/ x \in DOMAIN known[i] /\ known'[i][x] = known[i][x]
           \/ \E entry \in started' : known'[i][x] = entry[2],
         \A i \in Server : \A n \in DOMAIN executed'[i] :
           \/ n \in DOMAIN executed[i] /\ executed'[i][n] = executed[i][n]
           \/ \E x \in DOMAIN known[i] : executed'[i][n] = known[i][x]
  PROVE  Requests'
<1>1. UNCHANGED <<m_requestId, request, server, attempts>>
  BY DEF clerkVars
<1>2. \A op : Issued(op)' <=> Issued(op)
  BY <1>1 DEF Issued
<1>3. \A m : CallIssued(m)' <=> CallIssued(m)
  BY <1>1, <1>2 DEF CallIssued
<1>4. \A m \in calls : CallIssued(m) /\ Issued(m.op)
  BY DEF Requests, CallIssued
<1>5. OwnRequest'
  BY <1>1 DEF Requests, OwnRequest
<1>6. \A m \in calls' : CallIssued(m)
  BY <1>4
<1>7. \A r \in replies' : CallIssued(r.call)
  BY <1>4 DEF Requests
<1>8. \A i \in Server : handler'[i].at # "idle" => CallIssued(handler'[i].call)
  BY <1>4 DEF Requests
<1>9. \A entry \in started' : Issued(entry[2])
  BY <1>4 DEF Requests
<1>10. \A i \in Server : \A x \in DOMAIN known'[i] : Issued(known'[i][x])
  BY <1>9 DEF Requests
<1>11. \A i \in Server : \A n \in DOMAIN executed'[i] : Issued(executed'[i][n])
  BY DEF Requests
<1> QED BY <1>1, <1>5, <1>6, <1>7, <1>8, <1>9, <1>10, <1>11 DEF Requests, Issued, CallIssued

\* What the servers do with calls, and with what was started.
Serves ==
  /\ calls' \subseteq calls
  /\ \A r \in replies' \ replies :
       \/ r.call \in calls /\ r.err = "ErrWrongLeader"
       \/ \E j \in Server : handler[j].at = "erase" /\ r.call = handler[j].call /\ r.err = handler[j].err
  /\ \A j \in Server : handler'[j].at # "idle" =>
       \/ handler'[j].call \in calls /\ handler'[j].at # "erase"
       \/ handler[j].at # "idle" /\ handler'[j].call = handler[j].call
  /\ \A entry \in started' \ started : \E m \in calls : entry[2] = m.op
  /\ \A j \in Server :
       \/ executed'[j] = executed[j]
       \/ loop[j] # "pop" /\ executed'[j] = Append(executed[j], Current(j).command)

LEMMA ServerStepServes ==
  ASSUME Typed, ServerStep
  PROVE  Serves
<1>1. PICK i \in Server : RaftStep(i) \/ LoopStep(i) \/ HandlerStep(i) \/ Kill(i) \/ Restart(i)
  BY DEF ServerStep
<1>2. handler \in [Server -> HandlerState] /\ executed \in [Server -> Seq(Op)]
  BY DEF Typed, ServerTyped
<1>3. ASSUME UNCHANGED <<calls, replies, handler, started, executed>>
      PROVE  Serves
  BY <1>3 DEF Serves
<1>4. ASSUME NEW why, ExitProcess(i, why)
      PROVE  Serves
  <2>1. /\ calls' \subseteq calls /\ UNCHANGED <<replies, started, executed>>
        /\ handler' = [handler EXCEPT ![i] = Idle]
    BY <1>4 DEF ExitProcess, raftVars
  <2>2. \A j \in Server : handler'[j].at # "idle" => handler'[j] = handler[j]
    BY <1>2, <2>1 DEF Idle
  <2> QED BY <2>1, <2>2 DEF Serves
<1>5. CASE RaftStep(i)
  BY <1>3, <1>5 DEF RaftStep, LearnCommand, ReportCommand, InstallSnapshot, rpcVars
<1>6. CASE LoopStep(i)
  <2>1. CASE Execute(i)
    <3>1. /\ UNCHANGED <<calls, replies, handler, started>> /\ loop[i] = "execute"
          /\ executed' = [executed EXCEPT ![i] = Append(@, Current(i).command)]
      BY <2>1 DEF Execute, LoopUnchanged, rpcVars, raftVars
    <3>2. \A j \in Server : executed'[j] = executed[j] \/ (j = i /\ executed'[j] = Append(executed[j], Current(j).command))
      BY <1>2, <3>1
    <3> QED BY <3>1, <3>2 DEF Serves
  <2>2. CASE InstallBreaks(i)
    BY <1>4, <2>2 DEF InstallBreaks
  <2>3. CASE ~Execute(i) /\ ~InstallBreaks(i)
    <3>1. UNCHANGED <<calls, replies, handler, started, executed>>
      BY <1>6, <2>3 DEF LoopStep, PopCovered, PopCommand, TakeSnapshot, SkipSnapshot, SendMessageToWaitChan,
           GetSnapShotFromRaft, LoopUnchanged, rpcVars, raftVars
    <3> QED BY <1>3, <3>1
  <2> QED BY <2>1, <2>2, <2>3
<1>7. CASE Kill(i) \/ GetLookup(i)
  BY <1>4, <1>7 DEF Kill, GetLookup
<1>8. CASE Restart(i)
  BY <1>3, <1>8 DEF Restart, rpcVars
<1>9. ASSUME NEW m \in calls, StartRefused(i, m)
      PROVE  Serves
  <2>1. /\ calls' \subseteq calls /\ UNCHANGED <<handler, started, executed>>
        /\ replies' = replies \cup {[call |-> m, err |-> "ErrWrongLeader"]}
    BY <1>9 DEF StartRefused, Reply, RaftUnchanged, HandlerUnchanged
  <2> QED BY <2>1 DEF Serves
<1>10. ASSUME NEW m \in calls, StartAccepted(i, m)
       PROVE  Serves
  <2>1. /\ calls' \subseteq calls /\ UNCHANGED <<replies, executed>>
        /\ started' = started \cup {<<End(i) + 1, m.op>>}
    BY <1>10 DEF StartAccepted, HandlerUnchanged
  <2>2. \A j \in Server : \/ handler'[j].call = m /\ handler'[j].at # "erase"
                         \/ handler'[j] = handler[j]
    BY <1>2, <1>10 DEF StartAccepted
  <2>3. \A entry \in started' \ started : entry[2] = m.op
    BY <2>1
  <2> QED BY <2>1, <2>2, <2>3 DEF Serves
<1>11. ASSUME UNCHANGED <<calls, replies, started, executed>>, handler[i].at \notin {"idle"},
              NEW at \in HandlerAt, NEW err,
              handler' = [handler EXCEPT ![i].at = at] \/ handler' = [handler EXCEPT ![i].at = at, ![i].err = err]
       PROVE  Serves
  <2>1. handler[i] \in [at: HandlerAt, call: Call, index: Indexes, err: Err]
    BY <1>2, <1>11, HandlerProperties
  <2>2. handler'[i].call = handler[i].call /\ \A j \in Server \ {i} : handler'[j] = handler[j]
    BY <1>2, <1>11, <2>1
  <2> QED BY <1>11, <2>2 DEF Serves
<1>12. CASE RegisterChannel(i) \/ WaitOnChannel(i) \/ PopTimesOut(i)
  <2>1. PICK at \in HandlerAt : handler' = [handler EXCEPT ![i].at = at]
    BY <1>12 DEF RegisterChannel, WaitOnChannel, PopTimesOut, MoveTo, HandlerAt
  <2>2. UNCHANGED <<calls, replies, started, executed>> /\ handler[i].at # "idle"
    BY <1>12 DEF RegisterChannel, WaitOnChannel, PopTimesOut, RaftUnchanged, HandlerUnchanged, rpcVars
  <2> QED BY <1>11, <2>1, <2>2
<1>13. CASE TimeoutPop(i) \/ CheckDuplicate(i)
  <2>1. PICK err : handler' = [handler EXCEPT ![i].at = "erase", ![i].err = err]
    BY <1>13 DEF TimeoutPop, CheckDuplicate
  <2>2. UNCHANGED <<calls, replies, started, executed>> /\ handler[i].at # "idle" /\ "erase" \in HandlerAt
    BY <1>13 DEF TimeoutPop, CheckDuplicate, RaftUnchanged, HandlerUnchanged, rpcVars, HandlerAt
  <2> QED BY <1>11, <2>1, <2>2
<1>14. CASE EraseChannel(i)
  <2>1. /\ handler[i].at = "erase" /\ handler' = [handler EXCEPT ![i] = Idle]
        /\ replies' = replies \cup {[call |-> handler[i].call, err |-> handler[i].err]}
        /\ UNCHANGED <<calls, started, executed>>
    BY <1>14 DEF EraseChannel, Reply, RaftUnchanged, HandlerUnchanged
  <2>2. \A j \in Server : handler'[j].at # "idle" => handler'[j] = handler[j]
    BY <1>2, <2>1 DEF Idle
  <2> QED BY <2>1, <2>2 DEF Serves
<1> QED BY <1>1, <1>5, <1>6, <1>7, <1>8, <1>9, <1>10, <1>12, <1>13, <1>14 DEF HandlerStep

LEMMA RequestsKept ==
  ASSUME Typed, Reported, Requests, [Next]_vars
  PROVE  Requests'
<1>1. CASE UNCHANGED vars
  <2>1. UNCHANGED <<calls, replies, handler, started, known, executed, clerkVars>>
    BY <1>1 DEF vars, kvVars, raftVars, rpcVars
  <2> QED BY <2>1, ServerKeepsRequests
<1>2. CASE ClerkStep
  BY <1>2, ClerkStepKeepsRequests
<1>3. CASE ServerStep /\ UNCHANGED clerkVars
  <2>1. Serves
    BY <1>3, ServerStepServes
  <2>2. \A i \in Server : \A x \in DOMAIN known'[i] :
          \/ x \in DOMAIN known[i] /\ known'[i][x] = known[i][x]
          \/ \E entry \in started' : known'[i][x] = entry[2]
    BY LogSteps DEF LogGoesOn, LogBegins
  <2>3. ASSUME NEW i \in Server, NEW n \in DOMAIN executed'[i]
        PROVE  \/ n \in DOMAIN executed[i] /\ executed'[i][n] = executed[i][n]
               \/ \E x \in DOMAIN known[i] : executed'[i][n] = known[i][x]
    <3>1. executed[i] \in Seq(Op)
      BY DEF Typed, ServerTyped
    <3>2. CASE executed'[i] = executed[i]
      BY <2>3, <3>2
    <3>3. CASE loop[i] # "pop" /\ executed'[i] = Append(executed[i], Current(i).command)
      <4>1. Current(i).command = known[i][Current(i).index] /\ Current(i).index \in DOMAIN known[i]
        BY <3>3, CurrentProperties DEF Reported, Typed, Placed, Current
      <4>2. PICK op : op = Current(i).command
        OBVIOUS
      <4>3. (n \in DOMAIN executed[i] /\ executed'[i][n] = executed[i][n]) \/ executed'[i][n] = op
        BY <2>3, <3>1, <3>3, <4>2
      <4> QED BY <4>1, <4>2, <4>3
    <3> QED BY <2>1, <3>2, <3>3 DEF Serves
  <2>4. \A r \in replies' \ replies :
          r.call \in calls \/ \E i \in Server : handler[i].at # "idle" /\ r.call = handler[i].call
    <3> SUFFICES ASSUME NEW r \in replies' \ replies, r.call \notin calls
                 PROVE  \E i \in Server : handler[i].at # "idle" /\ r.call = handler[i].call
      OBVIOUS
    <3>1. PICK j \in Server : handler[j].at = "erase" /\ r.call = handler[j].call
      BY <2>1 DEF Serves
    <3> QED BY <3>1
  <2>5. \A i \in Server : handler'[i].at # "idle" =>
          handler'[i].call \in calls \/ (handler[i].at # "idle" /\ handler'[i].call = handler[i].call)
    BY <2>1 DEF Serves
  <2>6. calls' \subseteq calls /\ \A entry \in started' \ started : \E m \in calls : entry[2] = m.op
    BY <2>1 DEF Serves
  <2> QED BY <1>3, <2>2, <2>3, <2>4, <2>5, <2>6, ServerKeepsRequests
<1> QED BY <1>1, <1>2, <1>3 DEF Next

-----------------------------------------------------------------------------
(* Execution                                                               *)

\* Clerks have numbers of their own.
UuidsDiffer == \A c, d \in Client : uuid[c] = uuid[d] => c = d

\* If its clerk is still at op, then server i has executed it.
Settled(i, op) ==
  request[op.client] = op /\ op # NoOp => \E n \in DOMAIN executed[i] : executed[i][n] = op

LastExecuted ==
  \A i \in Server, c \in Client : m_lastRequestId[i][uuid[c]] # 0 =>
    \E n \in DOMAIN executed[i] :
      executed[i][n].client = c /\ executed[i][n].requestId = m_lastRequestId[i][uuid[c]]

LoopSettled ==
  \A i \in Server :
    /\ loop[i] = "execute" => ~ifRequestDuplicate(i, Current(i).command)
    /\ loop[i] \in {"snapshot", "send"} /\ Current(i).command.operation = "Put" =>
         Settled(i, Current(i).command)

HandlerSettled ==
  \A i \in Server : Up(i) =>
    /\ \A x \in DOMAIN waitApplyCh[i] : waitApplyCh[i][x] # <<>> => Settled(i, handler[i].call.op)
    /\ handler[i].at = "erase" /\ handler[i].err = "OK" => Settled(i, handler[i].call.op)

ReplySettled == \A r \in replies : r.err = "OK" => Settled(r.call.server, r.call.op)

Executions == LastExecuted /\ LoopSettled /\ HandlerSettled /\ ReplySettled /\ AckedIsExecuted

Inductive == Typed /\ Reported /\ Channels /\ Requests /\ Executions

\* A clerk numbers its requests upwards and has one at a time: an executed one with a
\* number as high as that of the request it is at, is that request.
LEMMA DuplicateSettled ==
  ASSUME Inductive, NEW i \in Server, NEW op \in Op, ifRequestDuplicate(i, op)
  PROVE  Settled(i, op)
<1> SUFFICES ASSUME request[op.client] = op, op # NoOp
             PROVE  \E n \in DOMAIN executed[i] : executed[i][n] = op
  BY DEF Settled
<1> DEFINE c == op.client
           last == m_lastRequestId[i][uuid[c]]
<1>1. /\ c \in Client /\ op.requestId \in 1 .. MaxRequests /\ op.requestId <= last
      /\ last \in 0 .. MaxRequests /\ m_requestId[c] \in 0 .. MaxRequests /\ MaxRequests \in Nat
      /\ executed[i] \in Seq(Op)
  <2>1. c \in Client /\ op.requestId \in 1 .. MaxRequests /\ uuid[c] \in {uuid[d] : d \in Client}
    BY OpProperties
  <2>2. op.requestId <= last
    BY DEF ifRequestDuplicate, ClientId
  <2>3. MaxRequests \in Nat
    BY KvAssumption
  <2>4. last \in 0 .. MaxRequests /\ executed[i] \in Seq(Op)
    BY <2>1 DEF Inductive, Typed, ServerTyped
  <2>5. m_requestId[c] \in 0 .. MaxRequests
    BY <2>1 DEF Inductive, Typed, ClerkTyped
  <2> QED BY <2>1, <2>2, <2>3, <2>4, <2>5
<1>2. op.requestId = m_requestId[c]
  BY <1>1 DEF Inductive, Requests, OwnRequest
<1>3. last # 0
  BY <1>1
<1>4. PICK n \in DOMAIN executed[i] : executed[i][n].client = c /\ executed[i][n].requestId = last
  BY <1>1, <1>3 DEF Inductive, Executions, LastExecuted
<1>5. PICK e \in Op : e = executed[i][n]
  BY <1>1
<1>6. e.client = c /\ e.requestId = last /\ Issued(e)
  BY <1>4, <1>5 DEF Inductive, Requests
<1>7. last <= m_requestId[c]
  BY <1>6 DEF Issued
<1>8. last = m_requestId[c]
  BY <1>1, <1>2, <1>7
<1>9. e = request[c]
  BY <1>6, <1>8 DEF Issued
<1> QED BY <1>5, <1>9

\* A request settled is settled for good.
SettledGoesOn ==
  \A i \in Server, op \in Op : Issued(op) /\ Settled(i, op) => Settled(i, op)'

LEMMA ExecutedGrows ==
  ASSUME Typed, [Next]_vars
  PROVE  \A i \in Server : \A n \in DOMAIN executed[i] :
           n \in DOMAIN executed'[i] /\ executed'[i][n] = executed[i][n]
<1>1. CASE UNCHANGED vars \/ ClerkStep
  BY <1>1, ClerkStepLeavesServers DEF vars, kvVars, ServersUnchanged
<1>2. CASE ServerStep
  <2> SUFFICES ASSUME NEW i \in Server, NEW n \in DOMAIN executed[i]
               PROVE  n \in DOMAIN executed'[i] /\ executed'[i][n] = executed[i][n]
    OBVIOUS
  <2>1. executed[i] \in Seq(Op)
    BY DEF Typed, ServerTyped
  <2>2. PICK op : op = Current(i).command
    OBVIOUS
  <2>3. executed'[i] = executed[i] \/ executed'[i] = Append(executed[i], op)
    BY <1>2, <2>2, ServerStepServes DEF Serves
  <2> QED BY <2>1, <2>3
<1> QED BY <1>1, <1>2 DEF Next

LEMMA SettledStays ==
  ASSUME Typed, [Next]_vars
  PROVE  SettledGoesOn
<1> SUFFICES ASSUME NEW i \in Server, NEW op \in Op, Issued(op), Settled(i, op),
                    request'[op.client] = op, op # NoOp
             PROVE  \E n \in DOMAIN executed'[i] : executed'[i][n] = op
  BY DEF SettledGoesOn, Settled
<1>1. request[op.client] = op
  <2>1. CASE ClerkStep
    BY <2>1, ClerkStepKinds, IssuedStays
  <2>2. CASE request' = request
    BY <2>2
  <2> QED BY <2>1, <2>2 DEF Next, vars, clerkVars
<1>2. PICK n \in DOMAIN executed[i] : executed[i][n] = op
  BY <1>1 DEF Settled
<1> QED BY <1>2, ExecutedGrows

LEMMA RepliesStaySettled ==
  ASSUME Inductive, [Next]_vars
  PROVE  ReplySettled'
<1>1. SettledGoesOn /\ replies \subseteq [call: Call, err: Err]
  BY SettledStays DEF Inductive, Typed, ClerkTyped
<1> SUFFICES ASSUME NEW r \in replies', r.err = "OK"
             PROVE  Settled(r.call.server, r.call.op)'
  BY DEF ReplySettled
<1>2. CASE r \in replies
  <2>1. r.call.server \in Server /\ r.call.op \in Op
    BY <1>1, <1>2, CallProperties
  <2>2. Issued(r.call.op) /\ Settled(r.call.server, r.call.op)
    BY <1>2 DEF Inductive, Requests, CallIssued, Executions, ReplySettled
  <2> QED BY <1>1, <2>1, <2>2 DEF SettledGoesOn
<1>3. CASE r \notin replies
  <2>1. CASE UNCHANGED vars \/ ClerkStep
    <3>1. replies' \subseteq replies
      BY <2>1, ClerkStepKinds DEF Inductive, ClerkBegins, ClerkRetries, ClerkEnds, vars, kvVars, rpcVars
    <3> QED BY <1>3, <3>1
  <2>2. CASE ServerStep
    <3>1. PICK j \in Server : handler[j].at = "erase" /\ r.call = handler[j].call /\ r.err = handler[j].err
      BY <1>3, <2>2, ServerStepServes DEF Serves, Inductive
    <3>2. Up(j) /\ r.call.server = j /\ r.call \in Call
      BY <3>1, HandlerProperties DEF Inductive, Typed, ServerTyped, Placed
    <3>3. Settled(j, r.call.op) /\ Issued(r.call.op) /\ r.call.op \in Op
      BY <3>1, <3>2, CallProperties DEF Inductive, Executions, HandlerSettled, Requests, CallIssued
    <3> QED BY <1>1, <3>2, <3>3 DEF SettledGoesOn
  <2> QED BY <2>1, <2>2 DEF Next
<1> QED BY <1>2, <1>3

LEMMA AckedStaysExecuted ==
  ASSUME Inductive, [Next]_vars
  PROVE  AckedIsExecuted'
<1>1. \A i \in Server : \A n \in DOMAIN executed[i] : n \in DOMAIN executed'[i] /\ executed'[i][n] = executed[i][n]
  BY ExecutedGrows DEF Inductive
<1>2. acked \subseteq Server \X Op /\ AckedIsExecuted
  BY DEF Inductive, Typed, ClerkTyped, Executions
<1>3. \A ok \in acked : \E n \in DOMAIN executed'[ok[1]] : executed'[ok[1]][n] = ok[2]
  <2> SUFFICES ASSUME NEW ok \in acked PROVE \E n \in DOMAIN executed'[ok[1]] : executed'[ok[1]][n] = ok[2]
    OBVIOUS
  <2>1. PICK n \in DOMAIN executed[ok[1]] : executed[ok[1]][n] = ok[2]
    BY <1>2 DEF AckedIsExecuted
  <2> QED BY <1>1, <1>2, <2>1
<1>4. CASE acked' = acked
  BY <1>3, <1>4 DEF AckedIsExecuted
<1>5. CASE ClerkStep
  <2>1. PICK c \in Client : ClerkBegins(c) \/ ClerkRetries(c) \/ ClerkEnds(c)
    BY <1>5, ClerkStepKinds DEF Inductive
  <2>2. CASE ClerkEnds(c)
    <3>1. PICK r \in replies : Awaited(c, r) /\ r.err = "OK"
      BY <2>2 DEF ClerkEnds
    <3>2. /\ r.call.op = request[c] /\ r.call.server = server[c] /\ r.call.op.client = c /\ request[c] # NoOp
          /\ server[c] \in Server
      BY <3>1 DEF Awaited, Inductive, Requests, CallIssued, Typed, ClerkTyped
    <3>3. \E n \in DOMAIN executed[server[c]] : executed[server[c]][n] = request[c]
      BY <3>1, <3>2 DEF Inductive, Executions, ReplySettled, Settled
    <3>4. PICK s, op : s = server[c] /\ op = request[c]
      OBVIOUS
    <3>5. \E n \in DOMAIN executed'[s] : executed'[s][n] = op
      BY <1>1, <3>2, <3>3, <3>4
    <3>6. acked' = acked \cup {<<s, op>>}
      BY <2>2, <3>4 DEF ClerkEnds
    <3> QED BY <1>3, <3>5, <3>6 DEF AckedIsExecuted
  <2>3. CASE ClerkBegins(c) \/ ClerkRetries(c)
    BY <1>4, <2>3 DEF ClerkBegins, ClerkRetries
  <2> QED BY <2>1, <2>2, <2>3
<1> QED BY <1>4, <1>5 DEF Next, vars, clerkVars

LEMMA LastStaysExecuted ==
  ASSUME UuidsDiffer, Inductive, [Next]_vars
  PROVE  LastExecuted'
<1>1. \A i \in Server : \A n \in DOMAIN executed[i] : n \in DOMAIN executed'[i] /\ executed'[i][n] = executed[i][n]
  BY ExecutedGrows DEF Inductive
<1>2. /\ m_lastRequestId \in [Server -> [{uuid[c] : c \in Client} -> 0 .. MaxRequests]]
      /\ executed \in [Server -> Seq(Op)]
  BY DEF Inductive, Typed, ServerTyped
<1>3. ASSUME \A j \in Server : m_lastRequestId'[j] = m_lastRequestId[j] \/ \A c \in Client : m_lastRequestId'[j][uuid[c]] = 0
      PROVE  LastExecuted'
  <2> SUFFICES ASSUME NEW j \in Server, NEW c \in Client, m_lastRequestId'[j][uuid[c]] # 0
               PROVE  \E n \in DOMAIN executed'[j] :
                        executed'[j][n].client = c /\ executed'[j][n].requestId = m_lastRequestId'[j][uuid[c]]
    BY DEF LastExecuted
  <2>1. m_lastRequestId'[j] = m_lastRequestId[j]
    BY <1>3
  <2>2. PICK n \in DOMAIN executed[j] :
          executed[j][n].client = c /\ executed[j][n].requestId = m_lastRequestId[j][uuid[c]]
    BY <2>1 DEF Inductive, Executions, LastExecuted
  <2> QED BY <1>1, <2>1, <2>2
<1>4. CASE UNCHANGED vars \/ ClerkStep
  <2>1. m_lastRequestId' = m_lastRequestId
    BY <1>4, ClerkStepLeavesServers DEF vars, kvVars, ServersUnchanged, storeVars
  <2> QED BY <1>3, <2>1
<1>5. ASSUME NEW i \in Server, Execute(i)
      PROVE  LastExecuted'
  <2>1. PICK op \in Op : op = Current(i).command
    BY <1>5, CurrentProperties DEF Execute, Inductive
  <2>2. /\ m_lastRequestId' = [m_lastRequestId EXCEPT ![i][uuid[op.client]] = op.requestId]
        /\ executed' = [executed EXCEPT ![i] = Append(@, op)]
    BY <1>5, <2>1 DEF Execute, ClientId
  <2>3. /\ \A j \in Server \ {i} : m_lastRequestId'[j] = m_lastRequestId[j]
        /\ m_lastRequestId'[i] = [m_lastRequestId[i] EXCEPT ![uuid[op.client]] = op.requestId]
        /\ executed'[i] = Append(executed[i], op) /\ executed[i] \in Seq(Op)
    BY <1>2, <2>2
  <2>4. op.client \in Client
    BY <2>1, OpProperties
  <2> SUFFICES ASSUME NEW j \in Server, NEW c \in Client, m_lastRequestId'[j][uuid[c]] # 0
               PROVE  \E n \in DOMAIN executed'[j] :
                        executed'[j][n].client = c /\ executed'[j][n].requestId = m_lastRequestId'[j][uuid[c]]
    BY DEF LastExecuted
  <2>5. CASE j = i /\ c = op.client
    <3>0. uuid[c] \in DOMAIN m_lastRequestId[i]
      BY <1>2
    <3>1. m_lastRequestId'[j][uuid[c]] = op.requestId
      BY <2>3, <2>5, <3>0
    <3>2. Len(executed[i]) + 1 \in DOMAIN executed'[i] /\ executed'[i][Len(executed[i]) + 1] = op
      BY <2>1, <2>3
    <3> QED BY <2>5, <3>1, <3>2
  <2>6. CASE ~(j = i /\ c = op.client)
    <3>1. m_lastRequestId'[j][uuid[c]] = m_lastRequestId[j][uuid[c]]
      <4>1. CASE j # i
        BY <2>3, <4>1
      <4>2. CASE j = i
        <5>1. uuid[c] # uuid[op.client]
          BY <2>4, <2>6, <4>2 DEF UuidsDiffer
        <5>2. uuid[c] \in DOMAIN m_lastRequestId[i]
          BY <1>2
        <5> QED BY <2>3, <4>2, <5>1, <5>2
      <4> QED BY <4>1, <4>2
    <3>2. PICK n \in DOMAIN executed[j] :
            executed[j][n].client = c /\ executed[j][n].requestId = m_lastRequestId[j][uuid[c]]
      BY <3>1 DEF Inductive, Executions, LastExecuted
    <3> QED BY <1>1, <3>1, <3>2
  <2> QED BY <2>5, <2>6
<1>6. ASSUME NEW i \in Server, Restart(i)
      PROVE  LastExecuted'
  <2>1. m_lastRequestId' = [m_lastRequestId EXCEPT ![i] = [d \in DOMAIN @ |-> 0]]
    BY <1>6 DEF Restart
  <2>2. \A j \in Server \ {i} : m_lastRequestId'[j] = m_lastRequestId[j]
    BY <1>2, <2>1
  <2>3. \A c \in Client : m_lastRequestId'[i][uuid[c]] = 0
    BY <1>2, <2>1
  <2> QED BY <1>3, <2>2, <2>3
<1>7. ASSUME NEW i \in Server, RaftStep(i) \/ LoopStep(i) \/ HandlerStep(i) \/ Kill(i), ~Execute(i)
      PROVE  LastExecuted'
  <2>1. CASE RaftStep(i) \/ Kill(i)
    BY <1>3, <2>1 DEF RaftStep, LearnCommand, ReportCommand, InstallSnapshot, Kill, ExitProcess, storeVars
  <2>2. CASE LoopStep(i)
    <3>1. m_lastRequestId' = m_lastRequestId
      BY <1>7, <2>2 DEF LoopStep, PopCovered, PopCommand, TakeSnapshot, SkipSnapshot, SendMessageToWaitChan,
           GetSnapShotFromRaft, InstallBreaks, ExitProcess, storeVars
    <3> QED BY <1>3, <3>1
  <2>3. CASE HandlerStep(i)
    <3>1. m_lastRequestId' = m_lastRequestId
      BY <2>3 DEF HandlerStep, StartRefused, StartAccepted, GetLookup, RegisterChannel, WaitOnChannel, TimeoutPop,
           PopTimesOut, CheckDuplicate, EraseChannel, HandlerUnchanged, ExitProcess, storeVars
    <3> QED BY <1>3, <3>1
  <2> QED BY <1>7, <2>1, <2>2, <2>3
<1> QED BY <1>4, <1>5, <1>6, <1>7 DEF Next, ServerStep

\* The loop of j is done with its message, or goes on with it and has executed nothing.
LoopStays(j) ==
  \/ loop'[j] = "pop"
  \/ /\ loop[j] # "pop" /\ taken'[j] = taken[j]
     /\ loop'[j] = loop[j] \/ (loop[j] = "snapshot" /\ loop'[j] = "send")
     /\ m_lastRequestId'[j] = m_lastRequestId[j]
     /\ LogGoesOn(j)

LEMMA LoopStaysSettled ==
  ASSUME Inductive, SettledGoesOn, NEW j \in Server, LoopStays(j)
  PROVE  /\ loop'[j] = "execute" => ~ifRequestDuplicate(j, Current(j).command)'
         /\ loop'[j] \in {"snapshot", "send"} /\ Current(j).command.operation' = "Put" =>
              Settled(j, Current(j).command)'
<1> SUFFICES ASSUME loop'[j] # "pop"
             PROVE  /\ loop'[j] = "execute" => ~ifRequestDuplicate(j, Current(j).command)'
                    /\ loop'[j] \in {"snapshot", "send"} /\ Current(j).command.operation' = "Put" =>
                         Settled(j, Current(j).command)'
  OBVIOUS
<1>1. PICK op \in Op : op = Current(j).command
  BY CurrentProperties DEF LoopStays, Inductive
<1>2. op = Current(j)'.command
  <2>1. fed[j] \in Seq(Message) /\ taken[j] \in DOMAIN fed[j] /\ taken'[j] = taken[j]
    BY CurrentProperties DEF LoopStays, Inductive, Typed, ServerTyped
  <2>2. fed'[j] = fed[j] \/ \E msg \in Message : fed'[j] = Append(fed[j], msg)
    BY DEF LoopStays, LogGoesOn, Reports
  <2>3. fed'[j][taken[j]] = fed[j][taken[j]]
    BY <2>1, <2>2
  <2> QED BY <1>1, <2>1, <2>3 DEF Current
<1>3. Issued(op)
  BY <1>1, CurrentProperties DEF LoopStays, Inductive, Requests, Reported, Typed, Placed, Current
<1>4. ASSUME loop'[j] = "execute" PROVE ~ifRequestDuplicate(j, op)'
  <2>1. loop[j] = "execute" /\ m_lastRequestId'[j] = m_lastRequestId[j]
    BY <1>4 DEF LoopStays
  <2>2. ~ifRequestDuplicate(j, op)
    BY <1>1, <2>1 DEF Inductive, Executions, LoopSettled
  <2> QED BY <2>1, <2>2 DEF ifRequestDuplicate
<1>5. ASSUME loop'[j] \in {"snapshot", "send"}, op.operation = "Put" PROVE Settled(j, op)'
  <2>1. Settled(j, op)
    BY <1>1, <1>5 DEF LoopStays, Inductive, Executions, LoopSettled
  <2> QED BY <1>1, <1>3, <2>1 DEF SettledGoesOn
<1> QED BY <1>2, <1>4, <1>5

\* What LoopSettled says of one server.
LoopSettledAt(i) ==
  /\ loop[i] = "execute" => ~ifRequestDuplicate(i, Current(i).command)
  /\ loop[i] \in {"snapshot", "send"} /\ Current(i).command.operation = "Put" =>
       Settled(i, Current(i).command)

LEMMA LoopsStaySettled ==
  ASSUME Inductive, [Next]_vars
  PROVE  LoopSettled'
<1>1. SettledGoesOn
  BY SettledStays DEF Inductive
<1>2. /\ taken \in [Server -> Nat] /\ loop \in [Server -> {"pop", "execute", "snapshot", "send"}]
      /\ executed \in [Server -> Seq(Op)]
      /\ m_lastRequestId \in [Server -> [{uuid[c] : c \in Client} -> 0 .. MaxRequests]]
      /\ fed \in [Server -> Seq(Message)]
  BY DEF Inductive, Typed, ServerTyped
<1>3. \A j \in Server : LoopStays(j) => LoopSettledAt(j)'
  BY <1>1, LoopStaysSettled DEF LoopSettledAt
<1>4. LoopSettled' <=> \A j \in Server : LoopSettledAt(j)'
  BY DEF LoopSettled, LoopSettledAt
<1>5. ASSUME UNCHANGED <<taken, loop, m_lastRequestId>>, \A j \in Server : LogGoesOn(j)
      PROVE  LoopSettled'
  BY <1>3, <1>4, <1>5 DEF LoopStays
<1>6. CASE UNCHANGED vars \/ ClerkStep
  <2>1. UNCHANGED <<taken, loop, m_lastRequestId>>
    BY <1>6, ClerkStepLeavesServers DEF vars, kvVars, ServersUnchanged, loopVars, storeVars
  <2> QED BY <1>5, <1>6, <2>1, LogsGoOn DEF Inductive
<1>7. ASSUME NEW i \in Server, RaftStep(i) \/ HandlerStep(i) \/ Kill(i)
      PROVE  LoopSettled'
  <2>1. \A j \in Server : LogGoesOn(j)
    BY <1>7, LogsGoOn DEF Inductive
  <2>2. UNCHANGED <<taken, loop, m_lastRequestId>>
    <3>1. CASE RaftStep(i) \/ Kill(i)
      BY <3>1 DEF RaftStep, LearnCommand, ReportCommand, InstallSnapshot, Kill, ExitProcess, storeVars, loopVars
    <3>2. CASE HandlerStep(i)
      BY <3>2 DEF HandlerStep, StartRefused, StartAccepted, GetLookup, RegisterChannel, WaitOnChannel, TimeoutPop,
           PopTimesOut, CheckDuplicate, EraseChannel, HandlerUnchanged, ExitProcess, storeVars, loopVars
    <3> QED BY <1>7, <3>1, <3>2
  <2> QED BY <1>5, <2>1, <2>2
<1>8. ASSUME NEW i \in Server, Restart(i)
      PROVE  LoopSettled'
  <2>1. /\ loop'[i] = "pop"
        /\ \A j \in Server \ {i} :
             /\ taken'[j] = taken[j] /\ loop'[j] = loop[j] /\ m_lastRequestId'[j] = m_lastRequestId[j]
             /\ known'[j] = known[j] /\ fed'[j] = fed[j]
             /\ m_lastSnapshotIncludeIndex'[j] = m_lastSnapshotIncludeIndex[j]
    BY <1>2, <1>8 DEF Restart, Inductive, Typed, ServerTyped
  <2>2. \A j \in Server \ {i} : LogGoesOn(j)
    BY <2>1, SameLogGoesOn DEF Inductive
  <2>3. \A j \in Server : LoopStays(j)
    BY <2>1, <2>2 DEF LoopStays
  <2> QED BY <1>3, <1>4, <2>3
<1>9. ASSUME NEW i \in Server, LoopStep(i)
      PROVE  LoopSettled'
  <2>1. \A j \in Server : LogGoesOn(j)
    BY <1>9, LogsGoOn DEF Inductive
  <2>2. ASSUME LoopSettledAt(i)',
               \A j \in Server \ {i} : /\ taken'[j] = taken[j] /\ loop'[j] = loop[j]
                                       /\ m_lastRequestId'[j] = m_lastRequestId[j]
        PROVE  LoopSettled'
    <3>1. \A j \in Server \ {i} : LoopStays(j)
      BY <2>1, <2>2 DEF LoopStays
    <3> QED BY <1>3, <1>4, <2>2, <3>1
  <2>3. CASE PopCovered(i) \/ GetSnapShotFromRaft(i) \/ InstallBreaks(i) \/ SendMessageToWaitChan(i)
    <3>1. loop'[i] = "pop"
      BY <1>2, <2>3 DEF PopCovered, GetSnapShotFromRaft, InstallBreaks, SendMessageToWaitChan, PopMessage, ExitProcess
    <3>2. \A j \in Server \ {i} : /\ taken'[j] = taken[j] /\ loop'[j] = loop[j]
                                  /\ m_lastRequestId'[j] = m_lastRequestId[j]
      BY <1>2, <2>3 DEF PopCovered, GetSnapShotFromRaft, InstallBreaks, SendMessageToWaitChan, PopMessage,
           ExitProcess, storeVars
    <3>3. LoopSettledAt(i)'
      BY <3>1 DEF LoopSettledAt
    <3> QED BY <2>2, <3>2, <3>3
  <2>4. CASE PopCommand(i)
    <3>1. PICK n : n = taken[i] + 1
      OBVIOUS
    <3>2. /\ n \in DOMAIN fed[i] /\ taken'[i] = n /\ fed' = fed /\ UNCHANGED <<m_lastRequestId, executed>>
          /\ ~fed[i][n].snapshot
          /\ \A j \in Server \ {i} : taken'[j] = taken[j] /\ loop'[j] = loop[j]
      BY <1>2, <2>4, <3>1 DEF PopCommand, PopMessage, LoopUnchanged, raftVars, storeVars
    <3>3. fed[i][n] \in Message
      BY <1>2, <3>2
    <3>4. PICK op \in Op : op = fed[i][n].command
      BY <3>2, <3>3, MessageProperties
    <3>5. loop'[i] = IF op.operation = "Put" /\ ~ifRequestDuplicate(i, op) THEN "execute" ELSE "snapshot"
      BY <1>2, <2>4, <3>2, <3>4 DEF PopCommand
    <3>6. op = Current(i)'.command
      BY <3>2, <3>4 DEF Current
    <3>7. Issued(op)
      BY <3>2, <3>4 DEF Inductive, Requests, Reported
    <3>8. ifRequestDuplicate(i, op) => Settled(i, op)'
      BY <1>1, <3>4, <3>7, DuplicateSettled DEF SettledGoesOn
    <3>9. ifRequestDuplicate(i, op)' <=> ifRequestDuplicate(i, op)
      BY <3>2 DEF ifRequestDuplicate
    <3>10. LoopSettledAt(i)'
      BY <3>5, <3>6, <3>8, <3>9 DEF LoopSettledAt
    <3> QED BY <2>2, <3>2, <3>10
  <2>5. CASE Execute(i)
    <3>1. PICK op \in Op : op = Current(i).command
      BY <2>5, CurrentProperties DEF Execute, Inductive
    <3>2. /\ loop'[i] = "snapshot" /\ taken' = taken /\ fed' = fed
          /\ executed'[i] = Append(executed[i], op)
          /\ \A j \in Server \ {i} : loop'[j] = loop[j] /\ m_lastRequestId'[j] = m_lastRequestId[j]
      BY <1>2, <2>5, <3>1 DEF Execute, LoopUnchanged, raftVars
    <3>3. Len(executed[i]) + 1 \in DOMAIN executed'[i] /\ executed'[i][Len(executed[i]) + 1] = op
      BY <1>2, <3>1, <3>2
    <3>4. Settled(i, op)'
      BY <3>3 DEF Settled
    <3>5. op = Current(i)'.command
      BY <3>1, <3>2 DEF Current
    <3>6. LoopSettledAt(i)'
      BY <3>2, <3>4, <3>5 DEF LoopSettledAt
    <3> QED BY <2>2, <3>2, <3>6
  <2>6. CASE TakeSnapshot(i) \/ SkipSnapshot(i)
    <3>1. /\ taken' = taken /\ m_lastRequestId' = m_lastRequestId /\ loop[i] = "snapshot" /\ loop'[i] = "send"
          /\ \A j \in Server \ {i} : loop'[j] = loop[j]
      BY <1>2, <2>6 DEF TakeSnapshot, SkipSnapshot, LoopUnchanged, storeVars
    <3>2. LoopStays(i)
      BY <2>1, <3>1 DEF LoopStays
    <3> QED BY <1>3, <2>2, <3>1, <3>2
  <2> QED BY <1>9, <2>3, <2>4, <2>5, <2>6 DEF LoopStep
<1> QED BY <1>6, <1>7, <1>8, <1>9 DEF Next, ServerStep

\* What HandlerSettled says of one server.
HandlerSettledAt(i) ==
  Up(i) =>
    /\ \A x \in DOMAIN waitApplyCh[i] : waitApplyCh[i][x] # <<>> => Settled(i, handler[i].call.op)
    /\ handler[i].at = "erase" /\ handler[i].err = "OK" => Settled(i, handler[i].call.op)

\* A handler that goes on with its request, and what it comes to know of it.
LEMMA HandlerComesToKnow ==
  ASSUME Inductive, SettledGoesOn, NEW i \in Server,
         handler[i].at # "idle", handler'[i].call = handler[i].call,
         \A x \in DOMAIN waitApplyCh'[i] : waitApplyCh'[i][x] # <<>> => Settled(i, handler[i].call.op),
         handler'[i].at = "erase" /\ handler'[i].err = "OK" => Settled(i, handler[i].call.op)
  PROVE  HandlerSettledAt(i)'
<1>1. PICK op \in Op : op = handler[i].call.op
  BY HandlerProperties, CallProperties DEF Inductive, Typed, ServerTyped
<1>2. Issued(op)
  BY <1>1 DEF Inductive, Requests, CallIssued
<1>3. Settled(i, handler[i].call.op) => Settled(i, op)'
  BY <1>1, <1>2 DEF SettledGoesOn
<1>4. op = handler'[i].call.op
  BY <1>1
<1> QED BY <1>3, <1>4 DEF HandlerSettledAt

LEMMA HandlerStaysSettled ==
  ASSUME Inductive, SettledGoesOn, NEW j \in Server,
         Up(j)' => Up(j) /\ handler'[j] = handler[j] /\ waitApplyCh'[j] = waitApplyCh[j]
  PROVE  HandlerSettledAt(j)'
<1> SUFFICES ASSUME Up(j)' PROVE HandlerSettledAt(j)'
  BY DEF HandlerSettledAt
<1>1. Up(j) /\ handler'[j] = handler[j] /\ waitApplyCh'[j] = waitApplyCh[j]
  OBVIOUS
<1>2. HandlerSettledAt(j) /\ ChannelAt(j)
  BY <1>1 DEF Inductive, Executions, HandlerSettled, HandlerSettledAt, Channels
<1>3. CASE handler[j].at # "idle"
  BY <1>1, <1>2, <1>3, HandlerComesToKnow DEF HandlerSettledAt
<1>4. CASE handler[j].at = "idle"
  BY <1>1, <1>2, <1>4 DEF HandlerSettledAt, ChannelAt, HasChannel
<1> QED BY <1>3, <1>4

LEMMA HandlersStaySettled ==
  ASSUME Inductive, [Next]_vars
  PROVE  HandlerSettled'
<1>1. SettledGoesOn /\ Channels'
  BY SettledStays, ChannelsKept DEF Inductive
<1>2. handler \in [Server -> HandlerState] /\ waitApplyCh \in [Server -> Partial(Seq(Op))]
  BY DEF Inductive, Typed, ServerTyped
<1>3. HandlerSettled' <=> \A j \in Server : HandlerSettledAt(j)'
  BY DEF HandlerSettled, HandlerSettledAt
<1>4. ASSUME \A j \in Server : Up(j)' => Up(j) /\ handler'[j] = handler[j] /\ waitApplyCh'[j] = waitApplyCh[j]
      PROVE  HandlerSettled'
  BY <1>1, <1>3, <1>4, HandlerStaysSettled
<1>5. ASSUME NEW i \in Server, HandlerSettledAt(i)',
             \A j \in Server \ {i} : Up(j)' => Up(j) /\ handler'[j] = handler[j] /\ waitApplyCh'[j] = waitApplyCh[j]
      PROVE  HandlerSettled'
  BY <1>1, <1>3, <1>5, HandlerStaysSettled
<1>6. ASSUME NEW i \in Server, handler'[i].at \in {"idle", "lookup", "register"}
      PROVE  HandlerSettledAt(i)'
  BY <1>1, <1>6 DEF HandlerSettledAt, Channels, ChannelAt, HasChannel
<1>7. CASE UNCHANGED vars \/ ClerkStep
  <2>1. UNCHANGED <<process, handler, waitApplyCh>>
    BY <1>7, ClerkStepLeavesServers DEF vars, kvVars, ServersUnchanged
  <2> QED BY <1>4, <2>1 DEF Up
<1>8. ASSUME NEW i \in Server, RaftStep(i)
      PROVE  HandlerSettled'
  <2>1. UNCHANGED <<process, handler, waitApplyCh>>
    BY <1>8 DEF RaftStep, LearnCommand, ReportCommand, InstallSnapshot
  <2> QED BY <1>4, <2>1 DEF Up
<1>9. ASSUME NEW i \in Server, NEW why, why # "up", ExitProcess(i, why)
      PROVE  HandlerSettled'
  BY <1>4, <1>9, ExitLeavesOthers DEF Inductive
<1>10. ASSUME NEW i \in Server, Restart(i)
       PROVE  HandlerSettled'
  <2>1. /\ handler' = handler /\ ~Up(i)
        /\ \A j \in Server \ {i} : Up(j)' = Up(j) /\ waitApplyCh'[j] = waitApplyCh[j]
    BY <1>2, <1>10 DEF Restart, Up, Inductive, Typed, ServerTyped
  <2>2. handler'[i].at = "idle"
    BY <2>1 DEF Inductive, Typed, Placed
  <2> QED BY <1>5, <1>6, <2>1, <2>2
<1>11. ASSUME NEW i \in Server, LoopStep(i)
       PROVE  HandlerSettled'
  <2>1. CASE SendMessageToWaitChan(i)
    <3>1. PICK index \in Indexes, op \in Op : index = Current(i).index /\ op = Current(i).command
      BY <2>1, CurrentProperties DEF SendMessageToWaitChan, Inductive
    <3>2. /\ Up(i) /\ loop[i] = "send" /\ UNCHANGED <<process, handler>>
          /\ waitApplyCh' = IF index \notin DOMAIN waitApplyCh[i] THEN waitApplyCh
               ELSE [waitApplyCh EXCEPT ![i][index] = Push(@, op)]
      BY <2>1, <3>1 DEF SendMessageToWaitChan, LoopUnchanged
    <3>3. CASE index \notin DOMAIN waitApplyCh[i]
      BY <1>4, <3>2, <3>3 DEF Up
    <3>4. CASE index \in DOMAIN waitApplyCh[i]
      <4>1. ChannelAt(i) /\ HasChannel(i) /\ index = handler[i].index /\ handler[i].at \notin {"idle", "lookup"}
        BY <3>2, <3>4 DEF Inductive, Channels, ChannelAt, HasChannel
      <4>2. op = known[i][index]
        BY <3>1, <3>2, CurrentProperties DEF Inductive, Reported, Typed, Placed, Current
      <4>3. op = handler[i].call.op /\ op.operation = "Put"
        BY <4>1, <4>2 DEF ChannelAt, Inductive, Typed, Placed
      <4>4. Settled(i, handler[i].call.op)
        BY <3>1, <3>2, <4>3 DEF Inductive, Executions, LoopSettled
      <4>5. HandlerSettledAt(i)'
        BY <1>1, <3>2, <4>1, <4>4, HandlerComesToKnow
      <4>6. \A j \in Server \ {i} : waitApplyCh'[j] = waitApplyCh[j]
        BY <1>2, <3>2
      <4> QED BY <1>5, <3>2, <4>5, <4>6 DEF Up
    <3> QED BY <3>3, <3>4
  <2>2. CASE InstallBreaks(i)
    BY <1>9, <2>2 DEF InstallBreaks
  <2>3. CASE ~SendMessageToWaitChan(i) /\ ~InstallBreaks(i)
    <3>1. UNCHANGED <<process, handler, waitApplyCh>>
      BY <1>11, <2>3 DEF LoopStep, PopCovered, PopCommand, Execute, TakeSnapshot, SkipSnapshot,
           GetSnapShotFromRaft, LoopUnchanged
    <3> QED BY <1>4, <3>1 DEF Up
  <2> QED BY <2>1, <2>2, <2>3
<1>12. ASSUME NEW i \in Server, HandlerStep(i)
       PROVE  HandlerSettled'
  <2>1. ASSUME NEW m \in calls, StartRefused(i, m)
        PROVE  HandlerSettled'
    BY <1>4, <2>1 DEF StartRefused, HandlerUnchanged, Up
  <2>2. ASSUME HandlerSettledAt(i)', UNCHANGED process,
               \A j \in Server \ {i} : handler'[j] = handler[j] /\ waitApplyCh'[j] = waitApplyCh[j]
        PROVE  HandlerSettled'
    BY <1>5, <2>2 DEF Up
  <2>3. ASSUME NEW m \in calls, StartAccepted(i, m)
        PROVE  HandlerSettled'
    <3>1. /\ UNCHANGED <<process, waitApplyCh>> /\ handler'[i].at \in {"lookup", "register"}
          /\ \A j \in Server \ {i} : handler'[j] = handler[j]
      BY <1>2, <2>3 DEF StartAccepted, HandlerUnchanged
    <3> QED BY <1>6, <2>2, <3>1
  <2>4. CASE GetLookup(i)
    BY <1>9, <2>4 DEF GetLookup
  <2>5. CASE EraseChannel(i)
    <3>1. /\ UNCHANGED process /\ handler' = [handler EXCEPT ![i] = Idle]
          /\ \A j \in Server \ {i} : waitApplyCh'[j] = waitApplyCh[j]
      BY <1>2, <2>5 DEF EraseChannel, HandlerUnchanged
    <3>2. handler'[i].at = "idle" /\ \A j \in Server \ {i} : handler'[j] = handler[j]
      BY <1>2, <3>1 DEF Idle
    <3> QED BY <1>6, <2>2, <3>1, <3>2
  <2>6. CASE RegisterChannel(i)
    <3>1. /\ Up(i) /\ handler[i].at = "register" /\ UNCHANGED process
          /\ handler' = [handler EXCEPT ![i].at = "pop"]
          /\ waitApplyCh' = IF handler[i].index \in DOMAIN waitApplyCh[i] THEN waitApplyCh
               ELSE [waitApplyCh EXCEPT ![i] = With(@, handler[i].index, <<>>)]
      BY <2>6 DEF RegisterChannel, MoveTo, NewLockQueue, HandlerUnchanged
    <3>2. DOMAIN waitApplyCh[i] = {}
      BY <3>1 DEF Inductive, Channels, ChannelAt, HasChannel
    <3>3. handler[i] \in [at: HandlerAt, call: Call, index: Indexes, err: Err]
      BY <1>2, <3>1, HandlerProperties
    <3>4. /\ handler'[i].at = "pop" /\ handler'[i].call = handler[i].call
          /\ \A j \in Server \ {i} : handler'[j] = handler[j] /\ waitApplyCh'[j] = waitApplyCh[j]
      BY <1>2, <3>1, <3>3
    <3>5. waitApplyCh'[i] = With(waitApplyCh[i], handler[i].index, <<>>)
      BY <1>2, <3>1, <3>2
    <3>6. \A x \in DOMAIN waitApplyCh'[i] : waitApplyCh'[i][x] = <<>>
      BY <3>2, <3>5 DEF With
    <3>7. HandlerSettledAt(i)'
      BY <1>1, <3>1, <3>4, <3>6, HandlerComesToKnow
    <3> QED BY <2>2, <3>1, <3>4, <3>7
  <2>7. CASE WaitOnChannel(i) \/ PopTimesOut(i)
    <3>1. PICK at \in {"waiting", "timedOut"} : handler' = [handler EXCEPT ![i].at = at]
      BY <2>7 DEF WaitOnChannel, PopTimesOut, MoveTo
    <3>2. Up(i) /\ handler[i].at \in {"pop", "waiting"} /\ UNCHANGED <<waitApplyCh, process>>
      BY <2>7 DEF WaitOnChannel, PopTimesOut, HandlerUnchanged
    <3>3. handler[i] \in [at: HandlerAt, call: Call, index: Indexes, err: Err]
      BY <1>2, <3>2, HandlerProperties
    <3>4. /\ handler'[i].at = at /\ handler'[i].call = handler[i].call
          /\ \A j \in Server \ {i} : handler'[j] = handler[j]
      BY <1>2, <3>1, <3>3
    <3>5. HandlerSettledAt(i)'
      BY <1>1, <3>2, <3>4, HandlerComesToKnow DEF Inductive, Executions, HandlerSettled
    <3> QED BY <2>2, <3>2, <3>4, <3>5
  <2>8. CASE TimeoutPop(i)
    <3>1. PICK index, err : /\ index = handler[i].index
                            /\ handler' = [handler EXCEPT ![i].at = "erase", ![i].err = err]
                            /\ waitApplyCh' = [waitApplyCh EXCEPT ![i][index] = Tail(@)]
      BY <2>8 DEF TimeoutPop, AfterPop
    <3>2. Up(i) /\ handler[i].at \in {"pop", "waiting"} /\ waitApplyCh[i][index] # <<>> /\ UNCHANGED process
      BY <2>8, <3>1 DEF TimeoutPop, CanPop, Channel, HandlerUnchanged
    <3>3. handler[i] \in [at: HandlerAt, call: Call, index: Indexes, err: Err]
      BY <1>2, <3>2, HandlerProperties
    <3>4. /\ handler'[i].call = handler[i].call
          /\ \A j \in Server \ {i} : handler'[j] = handler[j] /\ waitApplyCh'[j] = waitApplyCh[j]
      BY <1>2, <3>1, <3>3
    <3>5. index \in DOMAIN waitApplyCh[i]
      BY <3>1, <3>2 DEF Inductive, Channels, ChannelAt, HasChannel
    <3>6. Settled(i, handler[i].call.op)
      BY <3>2, <3>5 DEF Inductive, Executions, HandlerSettled
    <3>7. HandlerSettledAt(i)'
      BY <1>1, <3>2, <3>4, <3>6, HandlerComesToKnow
    <3> QED BY <2>2, <3>2, <3>4, <3>7
  <2>9. CASE CheckDuplicate(i)
    <3>1. PICK op, err : /\ op = handler[i].call.op
                         /\ err = IF ifRequestDuplicate(i, op) THEN "OK" ELSE "ErrWrongLeader"
                         /\ handler' = [handler EXCEPT ![i].at = "erase", ![i].err = err]
      BY <2>9 DEF CheckDuplicate
    <3>2. Up(i) /\ handler[i].at = "timedOut" /\ UNCHANGED <<waitApplyCh, process>>
      BY <2>9 DEF CheckDuplicate, HandlerUnchanged
    <3>3. handler[i] \in [at: HandlerAt, call: Call, index: Indexes, err: Err]
      BY <1>2, <3>2, HandlerProperties
    <3>4. /\ handler'[i].call = handler[i].call /\ handler'[i].err = err
          /\ \A j \in Server \ {i} : handler'[j] = handler[j]
      BY <1>2, <3>1, <3>3
    <3>5. op \in Op
      BY <3>1, <3>3, CallProperties
    <3>6. err = "OK" => Settled(i, handler[i].call.op)
      BY <3>1, <3>5, DuplicateSettled
    <3>7. HandlerSettledAt(i)'
      BY <1>1, <3>2, <3>4, <3>6, HandlerComesToKnow DEF Inductive, Executions, HandlerSettled
    <3> QED BY <2>2, <3>2, <3>4, <3>7
  <2> QED BY <1>12, <2>1, <2>3, <2>4, <2>5, <2>6, <2>7, <2>8, <2>9 DEF HandlerStep
<1>13. ASSUME NEW i \in Server, Kill(i)
       PROVE  HandlerSettled'
  BY <1>9, <1>13 DEF Kill
<1> QED BY <1>7, <1>8, <1>10, <1>11, <1>12, <1>13 DEF Next, ServerStep

LEMMA InductiveInit == Init => Inductive
<1> SUFFICES ASSUME Init PROVE Inductive
  OBVIOUS
<1>1. Typed /\ Reported /\ Channels /\ Requests
  BY TypedInit, ReportedInit, ChannelsInit, RequestsInit DEF Init
<1>2. LastExecuted
  BY DEF LastExecuted, Init, ServerInit
<1>3. LoopSettled /\ HandlerSettled /\ ReplySettled /\ AckedIsExecuted
  BY DEF LoopSettled, HandlerSettled, ReplySettled, AckedIsExecuted, Init, ServerInit, ClerkInit, Idle
<1> QED BY <1>1, <1>2, <1>3 DEF Inductive, Executions

LEMMA InductiveKept ==
  ASSUME UuidsDiffer, Inductive, [Next]_vars
  PROVE  Inductive'
<1>1. (Typed /\ Reported /\ Channels /\ Requests)'
  BY NextTyped, ReportedKept, ChannelsKept, RequestsKept DEF Inductive
<1>2. Executions'
  BY LastStaysExecuted, LoopsStaySettled, HandlersStaySettled, RepliesStaySettled, AckedStaysExecuted
     DEF Executions
<1> QED BY <1>1, <1>2 DEF Inductive

\* With ids of their own, clerks are told OK only for what the server that says so executed.
THEOREM AcknowledgedIsExecuted ==
  ASSUME UuidsDiffer
  PROVE  Spec => []AckedIsExecuted
<1>1. Init => Inductive
  BY InductiveInit
<1>2. Inductive /\ [Next]_vars => Inductive'
  BY InductiveKept
<1>3. Inductive => AckedIsExecuted
  BY DEF Inductive, Executions
<1> QED BY <1>1, <1>2, <1>3, PTL DEF Spec

-----------------------------------------------------------------------------
(* ReplicaMap                                                              *)

\* ReplicaMap's view of the history of a server, and of what its clerks took.
Ids(puts) == [n \in DOMAIN puts |-> RequestOf(puts[n])]
AckedIds(pairs, i) == {RequestOf(ok[2]) : ok \in {a \in pairs : a[1] = i}}

LEMMA IdsOfAppend ==
  ASSUME NEW puts \in Seq(Op), NEW op \in Op
  PROVE  Ids(Append(puts, op)) = Append(Ids(puts), RequestOf(op))
<1> DEFINE longer == Append(puts, op)
<1>1. PICK id : id = RequestOf(op)
  OBVIOUS
<1>2. /\ longer \in Seq(Op) /\ DOMAIN longer = 1 .. Len(puts) + 1
      /\ longer[Len(puts) + 1] = op /\ \A n \in 1 .. Len(puts) : longer[n] = puts[n]
      /\ DOMAIN puts = 1 .. Len(puts) /\ Len(puts) \in Nat
  OBVIOUS
<1> HIDE DEF longer
<1>3. Ids(longer) = [n \in 1 .. Len(puts) + 1 |-> RequestOf(longer[n])]
  BY <1>2 DEF Ids
<1>4. PICK S : S = {RequestOf(put) : put \in Op}
  OBVIOUS
<1>5. PICK ids : ids = Ids(puts)
  OBVIOUS
<1>6. ids \in [1 .. Len(puts) -> S] /\ \A n \in 1 .. Len(puts) : ids[n] = RequestOf(puts[n])
  BY <1>2, <1>4, <1>5 DEF Ids
<1>7. ids \in Seq(S) /\ Len(ids) = Len(puts) /\ id \in S
  BY <1>1, <1>2, <1>4, <1>6
<1>8. /\ DOMAIN Append(ids, id) = 1 .. Len(puts) + 1 /\ Append(ids, id) \in Seq(S)
      /\ Append(ids, id)[Len(puts) + 1] = id /\ \A n \in 1 .. Len(puts) : Append(ids, id)[n] = ids[n]
  BY <1>2, <1>7
<1>9. \A n \in 1 .. Len(puts) + 1 : RequestOf(longer[n]) = Append(ids, id)[n]
  <2> SUFFICES ASSUME NEW n \in 1 .. Len(puts) + 1 PROVE RequestOf(longer[n]) = Append(ids, id)[n]
    OBVIOUS
  <2>1. CASE n = Len(puts) + 1
    BY <1>1, <1>2, <1>8, <2>1
  <2>2. CASE n \in 1 .. Len(puts)
    BY <1>2, <1>6, <1>8, <2>2
  <2>3. n = Len(puts) + 1 \/ n \in 1 .. Len(puts)
    BY <1>2
  <2> QED BY <2>1, <2>2, <2>3, Zenon
<1>10. Ids(longer) = Append(ids, id)
  <2>1. PICK s, t : s = Ids(longer) /\ t = Append(ids, id)
    OBVIOUS
  <2>2. t \in Seq(S) /\ DOMAIN t = 1 .. Len(puts) + 1 /\ \A n \in 1 .. Len(puts) + 1 : t[n] \in S
    BY <1>2, <1>8, <2>1
  <2>3. /\ s = [n \in 1 .. Len(puts) + 1 |-> RequestOf(longer[n])]
        /\ \A n \in 1 .. Len(puts) + 1 : RequestOf(longer[n]) = t[n]
    BY <1>3, <1>9, <2>1
  <2>4. s \in [1 .. Len(puts) + 1 -> S] /\ \A n \in 1 .. Len(puts) + 1 : s[n] = t[n]
    BY <2>2, <2>3
  <2>5. s \in Seq(S) /\ Len(s) = Len(puts) + 1 /\ Len(t) = Len(puts) + 1
    BY <1>2, <2>2, <2>4
  <2>6. s = t
    BY <2>2, <2>4, <2>5, SeqEqual
  <2> QED BY <2>1, <2>6
<1> QED BY <1>1, <1>5, <1>10 DEF longer

\* A step that changes nothing that ReplicaMap has.
LEMMA Stutters ==
  ASSUME UNCHANGED <<m_skipList, m_lastRequestId, executed, acked>>
  PROVE  UNCHANGED Replica!mapVars
BY DEF Replica!mapVars

LEMMA ExecuteRefines ==
  ASSUME Inductive, NEW i \in Server, Execute(i), UNCHANGED acked
  PROVE  Replica!Next
<1>1. PICK op \in Op : op = Current(i).command
  BY CurrentProperties DEF Execute, Inductive
<1>2. /\ m_skipList' = [m_skipList EXCEPT ![i][op.key] = ValueOf(op)]
      /\ m_lastRequestId' = [m_lastRequestId EXCEPT ![i][ClientId(op)] = op.requestId]
      /\ executed' = [executed EXCEPT ![i] = Append(@, op)] /\ loop[i] = "execute"
  BY <1>1 DEF Execute
<1>3. /\ op.requestId \in 1 .. MaxRequests /\ op.key \in Key /\ ClientId(op) \in {uuid[c] : c \in Client}
      /\ ValueOf(op) \in Client \X (1 .. MaxRequests)
  BY OpProperties
<1>4. op.requestId > m_lastRequestId[i][ClientId(op)]
  <2>1. m_lastRequestId[i][ClientId(op)] \in 0 .. MaxRequests
    BY <1>3 DEF Inductive, Typed, ServerTyped
  <2>2. ~(op.requestId <= m_lastRequestId[i][ClientId(op)])
    BY <1>1, <1>2 DEF Inductive, Executions, LoopSettled, ifRequestDuplicate
  <2>3. MaxRequests \in Nat
    BY KvAssumption
  <2> QED BY <1>3, <2>1, <2>2, <2>3
<1>5. executed \in [Server -> Seq(Op)]
  BY DEF Inductive, Typed, ServerTyped
<1>6. PICK id : id = RequestOf(op)
  OBVIOUS
<1>7. [j \in Server |-> Ids(executed'[j])] =
        [[j \in Server |-> Ids(executed[j])] EXCEPT ![i] = Append(@, id)]
  <2>1. Ids(executed'[i]) = Append(Ids(executed[i]), id)
    <3>1. PICK puts \in Seq(Op) : puts = executed[i]
      BY <1>5
    <3>2. executed'[i] = Append(puts, op)
      BY <1>2, <1>5, <3>1
    <3> QED BY <1>6, <3>1, <3>2, IdsOfAppend
  <2>2. \A j \in Server \ {i} : executed'[j] = executed[j]
    BY <1>2, <1>5
  <2> QED BY <2>1, <2>2
<1>8. id = <<ClientId(op), op.requestId>>
  BY <1>6 DEF RequestOf
<1>9. Replica!Execute(i)
  BY <1>2, <1>3, <1>4, <1>7, <1>8 DEF Replica!Execute, Ids
<1> QED BY <1>9 DEF Replica!Next

LEMMA TakeOKRefines ==
  ASSUME Inductive, Inductive', NEW c \in Client, ClerkEnds(c), ServersUnchanged
  PROVE  Replica!Next
<1>1. UNCHANGED <<m_skipList, m_lastRequestId, executed>>
  BY DEF ServersUnchanged, storeVars
<1>2. PICK i, op : i = server[c] /\ op = request[c]
  OBVIOUS
<1>3. acked' = acked \cup {<<i, op>>} /\ i \in Server
  BY <1>2 DEF ClerkEnds, Inductive, Typed, ClerkTyped
<1>4. PICK n \in DOMAIN executed[i] : executed[i][n] = op
  <2>1. <<i, op>> \in acked'
    BY <1>3
  <2>2. \E n \in DOMAIN executed'[i] : executed'[i][n] = op
    BY <2>1 DEF Inductive, Executions, AckedIsExecuted
  <2> QED BY <1>1, <2>2
<1>5. n \in DOMAIN Ids(executed[i]) /\ Ids(executed[i])[n] = RequestOf(op)
  BY <1>4 DEF Ids
<1>6. PICK id : id = RequestOf(op)
  OBVIOUS
<1>7. [j \in Server |-> AckedIds(acked', j)] =
        [[j \in Server |-> AckedIds(acked, j)] EXCEPT ![i] = @ \cup {id}]
  <2>1. AckedIds(acked', i) = AckedIds(acked, i) \cup {id}
    <3>1. PICK before, after : before = {a \in acked : a[1] = i} /\ after = {a \in acked' : a[1] = i}
      OBVIOUS
    <3>2. after = before \cup {<<i, op>>}
      BY <1>3, <3>1
    <3>3. RequestOf(<<i, op>>[2]) = id
      BY <1>6
    <3>4. {RequestOf(ok[2]) : ok \in after} = {RequestOf(ok[2]) : ok \in before} \cup {RequestOf(<<i, op>>[2])}
      BY <3>2
    <3> QED BY <3>1, <3>3, <3>4 DEF AckedIds
  <2>2. \A j \in Server \ {i} : AckedIds(acked', j) = AckedIds(acked, j)
    BY <1>3 DEF AckedIds
  <2> QED BY <2>1, <2>2
<1>8. Replica!Acknowledge(i)
  <2>1. n \in DOMAIN [j \in Server |-> Ids(executed[j])][i] /\ [j \in Server |-> Ids(executed[j])][i][n] = id
    BY <1>3, <1>5, <1>6
  <2> QED BY <1>1, <1>7, <2>1 DEF Replica!Acknowledge, Ids, AckedIds
<1> QED BY <1>3, <1>8 DEF Replica!Next

LEMMA RestartRefines ==
  ASSUME Inductive, NEW i \in Server, Restart(i), UNCHANGED acked
  PROVE  Replica!Next
<1>1. /\ m_skipList' = [m_skipList EXCEPT ![i] = [k \in Key |-> NoValue]] /\ executed' = executed
      /\ m_lastRequestId' = [m_lastRequestId EXCEPT ![i] = [d \in DOMAIN @ |-> 0]]
  BY DEF Restart
<1>2. m_lastRequestId' = [m_lastRequestId EXCEPT ![i] = [d \in {uuid[c] : c \in Client} |-> 0]]
  BY <1>1 DEF Inductive, Typed, ServerTyped
<1>3. Replica!Restart(i)
  BY <1>1, <1>2 DEF Replica!Restart
<1> QED BY <1>3 DEF Replica!Next

LEMMA StepRefines ==
  ASSUME Inductive, Inductive', [Next]_vars
  PROVE  [Replica!Next]_(Replica!mapVars)
<1>1. CASE UNCHANGED vars
  BY <1>1, Stutters DEF vars, kvVars, storeVars, clerkVars
<1>2. CASE ClerkStep
  <2>1. PICK c \in Client : ClerkBegins(c) \/ ClerkRetries(c) \/ ClerkEnds(c)
    BY <1>2, ClerkStepKinds DEF Inductive
  <2>2. ServersUnchanged
    BY <1>2, ClerkStepLeavesServers
  <2>3. CASE ClerkEnds(c)
    BY <2>2, <2>3, TakeOKRefines
  <2>4. CASE ClerkBegins(c) \/ ClerkRetries(c)
    BY <2>2, <2>4, Stutters DEF ClerkBegins, ClerkRetries, ServersUnchanged, storeVars
  <2> QED BY <2>1, <2>3, <2>4
<1>3. ASSUME UNCHANGED clerkVars, NEW i \in Server, Execute(i)
      PROVE  Replica!Next
  BY <1>3, ExecuteRefines DEF clerkVars
<1>4. ASSUME UNCHANGED clerkVars, NEW i \in Server, Restart(i)
      PROVE  Replica!Next
  BY <1>4, RestartRefines DEF clerkVars
<1>5. ASSUME UNCHANGED clerkVars, NEW i \in Server,
             RaftStep(i) \/ LoopStep(i) \/ HandlerStep(i) \/ Kill(i), ~Execute(i)
      PROVE  UNCHANGED Replica!mapVars
  <2>1. UNCHANGED acked
    BY <1>5 DEF clerkVars
  <2>2. CASE RaftStep(i) \/ Kill(i)
    BY <2>1, <2>2, Stutters DEF RaftStep, LearnCommand, ReportCommand, InstallSnapshot, Kill, ExitProcess, storeVars
  <2>3. CASE LoopStep(i)
    <3>1. UNCHANGED <<m_skipList, m_lastRequestId, executed>>
      BY <1>5, <2>3 DEF LoopStep, PopCovered, PopCommand, TakeSnapshot, SkipSnapshot, SendMessageToWaitChan,
           GetSnapShotFromRaft, InstallBreaks, ExitProcess, LoopUnchanged, storeVars
    <3> QED BY <2>1, <3>1, Stutters
  <2>4. CASE HandlerStep(i)
    <3>1. UNCHANGED <<m_skipList, m_lastRequestId, executed>>
      BY <2>4 DEF HandlerStep, StartRefused, StartAccepted, GetLookup, RegisterChannel, WaitOnChannel, TimeoutPop,
           PopTimesOut, CheckDuplicate, EraseChannel, HandlerUnchanged, ExitProcess, storeVars
    <3> QED BY <2>1, <3>1, Stutters
  <2> QED BY <1>5, <2>2, <2>3, <2>4
<1> QED BY <1>1, <1>2, <1>3, <1>4, <1>5 DEF Next, ServerStep

\* With ids of their own, every server is a map that executes a request in one step and not
\* again, in the order of its clerk's ids, and acknowledges what it has executed.
THEOREM ReplicasAreMaps ==
  ASSUME UuidsDiffer
  PROVE  Spec => ImplementsReplicaMap
<1>1. Init => Inductive
  BY InductiveInit
<1>2. Inductive /\ [Next]_vars => Inductive'
  BY InductiveKept
<1>3. Init => Replica!Init
  <2> SUFFICES ASSUME Init PROVE Replica!Init
    OBVIOUS
  <2>1. /\ m_skipList = [i \in Server |-> [k \in Key |-> NoValue]]
        /\ m_lastRequestId = [i \in Server |-> [d \in {uuid[c] : c \in Client} |-> 0]]
        /\ executed = [i \in Server |-> <<>>] /\ acked = {}
    BY DEF Init, ServerInit, ClerkInit
  <2>2. Ids(<<>>) = <<>>
    BY DEF Ids
  <2>3. \A i \in Server : Ids(executed[i]) = <<>> /\ AckedIds(acked, i) = {}
    BY <2>1, <2>2 DEF AckedIds
  <2> QED BY <2>1, <2>3 DEF Replica!Init, Ids, AckedIds
<1>4. Inductive /\ Inductive' /\ [Next]_vars => [Replica!Next]_(Replica!mapVars)
  BY StepRefines
<1> QED BY <1>1, <1>2, <1>3, <1>4, PTL DEF Spec, ImplementsReplicaMap, Replica!Spec

====
