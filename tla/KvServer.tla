---- MODULE KvServer ----
(***************************************************************************)
(* src/src/raftCore/KvServer.cpp: the replicas.  Each process has          *)
(*  - its Raft node, of which only the contract of ReplicatedLog is here;  *)
(*  - thread t2, ReadRaftApplyCommandLoop, which executes what the node    *)
(*    reports, takes snapshots and wakes the handler that waits;           *)
(*  - the RPC server's event loop, which runs one handler at a time.       *)
(* What is done under m_mtx, or under Raft's or Persister's own mutex, is  *)
(* one action.  Put and Append are the same operation (insert_set_element) *)
(* and Put stands for both; the value of a Put is named by its request.    *)
(***************************************************************************)
EXTENDS Integers, Sequences, FiniteSets, FiniteSetsExt, LockQueue

CONSTANTS
  Server,         \* their numbers in the configuration, from 0 on
  Client,         \* the Clerks
  Key,
  NoValue,        \* no entry in the skip list
  NoOp,           \* a message without a command
  uuid,           \* uuid[c]: m_clientId of clerk c
  MaxRaftState,   \* m_maxRaftState; -1 is no snapshots
  MaxLogIndex,    \* bound: the length of a log
  MaxRequests,    \* bound: requests of a clerk
  MaxCalls,       \* bound: calls a clerk makes, for all its requests
  MaxRestarts     \* bound: processes killed or begun anew

ASSUME KvAssumption ==
  /\ IsFiniteSet(Server) /\ Server # {} /\ Server = 0 .. Cardinality(Server) - 1
  /\ DOMAIN uuid = Client
  /\ MaxRaftState \in Int
  /\ {MaxLogIndex, MaxRequests, MaxCalls, MaxRestarts} \subseteq Nat

VARIABLES
  process,        \* "up", or why it is not
  started, known, m_lastSnapshotIncludeIndex, fed,   \* Raft: see ReplicatedLog
  persister,
  taken,          \* how much of fed has been popped
  loop,           \* where t2 is with the last message popped
  m_skipList, m_lastRequestId, m_lastSnapshotRaftLogIndex,
  waitApplyCh,    \* a function from log indexes to channels
  handler,        \* the RPC handler that runs
  calls, replies, \* RPCs on their way
  restarts,
  executed        \* history: executed[i], the Puts that server i has executed, in order

raftVars  == <<started, known, m_lastSnapshotIncludeIndex, fed>>
loopVars  == <<taken, loop>>
storeVars == <<m_skipList, m_lastRequestId, m_lastSnapshotRaftLogIndex>>
rpcVars   == <<calls, replies>>
kvVars == <<process, raftVars, persister, loopVars, storeVars, waitApplyCh, handler, rpcVars,
            restarts, executed>>

P == INSTANCE Persister

-----------------------------------------------------------------------------
\* Op of util.h.
Op == [operation: {"Put", "Get"}, key: Key, client: Client, requestId: 1 .. MaxRequests]

ClientId(op) == uuid[op.client]
ValueOf(op) == <<op.client, op.requestId>>
SameRequest(op1, op2) == ClientId(op1) = ClientId(op2) /\ op1.requestId = op2.requestId

Call == [op: Op, server: Server, attempt: 1 .. MaxCalls]

\* Get never lives to answer more than ErrWrongLeader.
Err == {"OK", "ErrWrongLeader"}

Message == [snapshot: {FALSE}, index: 1 .. MaxLogIndex, command: Op, data: {""}]
           \cup [snapshot: {TRUE}, index: 1 .. MaxLogIndex, command: {NoOp}, data: P!SnapshotData]

Idle == [at |-> "idle"]

Up(i) == process[i] = "up"
With(f, x, v) == [y \in DOMAIN f \cup {x} |-> IF y = x THEN v ELSE f[y]]

\* The message t2 is busy with.
Current(i) == fed[i][taken[i]]

End(i) == Max(DOMAIN known[i] \cup {m_lastSnapshotIncludeIndex[i]})

\* persistData: a header and the entries after the snapshot.
StateLength(entries, snapshotIndex) == 1 + Cardinality({x \in DOMAIN entries : x > snapshotIndex})

ifRequestDuplicate_Mutant(i, op) == op.requestId < m_lastRequestId[i][ClientId(op)]
ifRequestDuplicate(i, op) == op.requestId <= m_lastRequestId[i][ClientId(op)]

ServerInit ==
  /\ process = [i \in Server |-> "up"]
  /\ started = {}
  /\ known = [i \in Server |-> <<>>]
  /\ m_lastSnapshotIncludeIndex = [i \in Server |-> 0]
  /\ fed = [i \in Server |-> <<>>]
  /\ persister = [i \in Server |-> P!NewPersister]
  /\ taken = [i \in Server |-> 0]
  /\ loop = [i \in Server |-> "pop"]
  /\ m_skipList = [i \in Server |-> [k \in Key |-> NoValue]]
  /\ m_lastRequestId = [i \in Server |-> [d \in {uuid[c] : c \in Client} |-> 0]]
  /\ m_lastSnapshotRaftLogIndex = [i \in Server |-> 0]
  /\ waitApplyCh = [i \in Server |-> <<>>]
  /\ handler = [i \in Server |-> Idle]
  /\ calls = {} /\ replies = {}
  /\ restarts = 0
  /\ executed = [i \in Server |-> <<>>]

-----------------------------------------------------------------------------
(* The Raft node, as far as ReplicatedLog promises.                        *)

AppendLog(i, op) ==
  /\ End(i) < MaxLogIndex
  /\ known' = [known EXCEPT ![i] = With(@, End(i) + 1, op)]
  /\ persister' = [persister EXCEPT
       ![i] = P!SaveRaftState(@, StateLength(known'[i], m_lastSnapshotIncludeIndex[i]))]

LearnCommand_Mutant(i) ==
  /\ Up(i)
  /\ \E entry \in started :
       /\ entry[1] \in {End(i), End(i) + 1}
       /\ known' = [known EXCEPT ![i] = With(@, entry[1], entry[2])]
  /\ UNCHANGED <<process, started, m_lastSnapshotIncludeIndex, fed, persister, loopVars,
                 storeVars, waitApplyCh, handler, rpcVars, restarts, executed>>

\* AppendEntries brings an entry that another leader has started at this index.
LearnCommand(i) ==
  /\ Up(i)
  /\ \E entry \in started : entry[1] = End(i) + 1 /\ AppendLog(i, entry[2])
  /\ UNCHANGED <<process, started, m_lastSnapshotIncludeIndex, fed, loopVars, storeVars,
                 waitApplyCh, handler, rpcVars, restarts, executed>>

LastReported(i) == Max({0} \cup {m.index : m \in {fed[i][k] : k \in DOMAIN fed[i]}})

\* Indexes are left out only where a snapshot has moved m_lastApplied.
ReportCommand(i) ==
  /\ Up(i)
  /\ \E x \in DOMAIN known[i] :
       /\ \A k \in DOMAIN fed[i] : ~fed[i][k].snapshot => fed[i][k].index < x
       /\ m_lastSnapshotIncludeIndex[i] = 0 => x = LastReported(i) + 1
       /\ fed' = [fed EXCEPT
            ![i] = Append(@, [snapshot |-> FALSE, index |-> x, command |-> known[i][x], data |-> ""])]
  /\ UNCHANGED <<process, started, known, m_lastSnapshotIncludeIndex, persister, loopVars,
                 storeVars, waitApplyCh, handler, rpcVars, restarts, executed>>

\* leaderSendSnapShot of j and InstallSnapshot of i: j's file is read, and so emptied.
InstallSnapshot(j, i) ==
  LET index == m_lastSnapshotIncludeIndex[j]
      data == P!ReadSnapshot(persister[j])
  IN /\ Up(i) /\ Up(j) /\ i # j
     /\ index > m_lastSnapshotIncludeIndex[i]
     /\ m_lastSnapshotIncludeIndex' = [m_lastSnapshotIncludeIndex EXCEPT ![i] = index]
     /\ fed' = [fed EXCEPT
          ![i] = Append(@, [snapshot |-> TRUE, index |-> index, command |-> NoOp, data |-> data])]
     /\ persister' = [persister EXCEPT
          ![j] = P!AfterReadSnapshot(@),
          ![i] = P!Save(@, StateLength(known[i], index), data)]
     /\ UNCHANGED <<process, started, known, loopVars, storeVars, waitApplyCh, handler, rpcVars,
                    restarts, executed>>

-----------------------------------------------------------------------------
(* ReadRaftApplyCommandLoop.  Only this thread writes what it decides on   *)
(* (Get would, but see GetLookup), so pop and the checks are one step.     *)

PopMessage(i) ==
  /\ Up(i) /\ loop[i] = "pop"
  /\ taken[i] < Len(fed[i])
  /\ taken' = [taken EXCEPT ![i] = @ + 1]

LoopUnchanged == UNCHANGED <<process, raftVars, persister, handler, rpcVars, restarts>>

IsCovered(i, msg) == msg.index <= m_lastSnapshotRaftLogIndex[i]

\* GetCommandFromRaft: what a snapshot covers is dropped, and nobody is told.
PopCovered(i) ==
  /\ PopMessage(i)
  /\ LET msg == fed[i][taken'[i]] IN ~msg.snapshot /\ IsCovered(i, msg)
  /\ UNCHANGED <<loop, storeVars, waitApplyCh, executed>> /\ LoopUnchanged

PopCommand(i) ==
  /\ PopMessage(i)
  /\ LET msg == fed[i][taken'[i]] IN
     /\ ~msg.snapshot /\ ~IsCovered(i, msg)
     /\ loop' = [loop EXCEPT ![i] =
          IF msg.command.operation = "Put" /\ ~ifRequestDuplicate(i, msg.command)
          THEN "execute" ELSE "snapshot"]
  /\ UNCHANGED <<storeVars, waitApplyCh, executed>> /\ LoopUnchanged

\* ExecutePutOpOnKVDB, ExecuteAppendOpOnKVDB
Execute(i) ==
  LET op == Current(i).command IN
  /\ Up(i) /\ loop[i] = "execute"
  /\ m_skipList' = [m_skipList EXCEPT ![i][op.key] = ValueOf(op)]
  /\ m_lastRequestId' = [m_lastRequestId EXCEPT ![i][ClientId(op)] = op.requestId]
  /\ executed' = [executed EXCEPT ![i] = Append(@, op)]
  /\ loop' = [loop EXCEPT ![i] = "snapshot"]
  /\ UNCHANGED <<taken, m_lastSnapshotRaftLogIndex, waitApplyCh>> /\ LoopUnchanged

\* RaftStateSize > m_maxRaftState / 10.0
NeedsSnapshot(i) ==
  MaxRaftState # -1 /\ 10 * P!RaftStateSize(persister[i]) > MaxRaftState

\* IfNeedToSendSnapShotCommand: MakeSnapShot, then Raft::Snapshot, which refuses an index
\* that its own snapshot has reached.
TakeSnapshot(i) ==
  LET index == Current(i).index IN
  /\ Up(i) /\ loop[i] = "snapshot"
  /\ NeedsSnapshot(i) /\ index > m_lastSnapshotIncludeIndex[i]
  /\ m_lastSnapshotIncludeIndex' = [m_lastSnapshotIncludeIndex EXCEPT ![i] = index]
  /\ persister' = [persister EXCEPT ![i] = P!Save(@, StateLength(known[i], index), "archive")]
  /\ loop' = [loop EXCEPT ![i] = "send"]
  /\ UNCHANGED <<process, started, known, fed, taken, storeVars, waitApplyCh, handler, rpcVars,
                 restarts, executed>>

SkipSnapshot(i) ==
  /\ Up(i) /\ loop[i] = "snapshot"
  /\ ~NeedsSnapshot(i) \/ Current(i).index <= m_lastSnapshotIncludeIndex[i]
  /\ loop' = [loop EXCEPT ![i] = "send"]
  /\ UNCHANGED <<taken, storeVars, waitApplyCh, executed>> /\ LoopUnchanged

SendMessageToWaitChan(i) ==
  LET index == Current(i).index IN
  /\ Up(i) /\ loop[i] = "send"
  /\ waitApplyCh' = IF index \notin DOMAIN waitApplyCh[i] THEN waitApplyCh
       ELSE [waitApplyCh EXCEPT ![i][index] = Push(@, Current(i).command)]
  /\ loop' = [loop EXCEPT ![i] = "pop"]
  /\ UNCHANGED <<taken, storeVars, executed>> /\ LoopUnchanged

\* GetSnapShotFromRaft: CondInstallSnapshot is always true; an empty snapshot installs
\* nothing, but counts as installed.
GetSnapShotFromRaft(i) ==
  /\ PopMessage(i)
  /\ LET msg == fed[i][taken'[i]] IN
     /\ msg.snapshot /\ msg.data = ""
     /\ m_lastSnapshotRaftLogIndex' = [m_lastSnapshotRaftLogIndex EXCEPT ![i] = msg.index]
  /\ UNCHANGED <<loop, m_skipList, m_lastRequestId, waitApplyCh, executed>> /\ LoopUnchanged

ExitProcess(i, why) ==
  /\ Up(i)
  /\ process' = [process EXCEPT ![i] = why]
  /\ calls' = {m \in calls : m.server # i}
  /\ handler' = [handler EXCEPT ![i] = Idle]
  /\ UNCHANGED <<raftVars, persister, loop, storeVars, waitApplyCh, replies,
                 executed>>

\* text_iarchive throws on one word of an archive, and t2 does not catch.
InstallBreaks(i) ==
  /\ PopMessage(i)
  /\ LET msg == fed[i][taken'[i]] IN msg.snapshot /\ msg.data = "word"
  /\ ExitProcess(i, "archiveException")
  /\ UNCHANGED restarts

LoopStep(i) ==
  \/ PopCovered(i) \/ PopCommand(i) \/ Execute(i) \/ TakeSnapshot(i) \/ SkipSnapshot(i)
  \/ SendMessageToWaitChan(i) \/ GetSnapShotFromRaft(i) \/ InstallBreaks(i)

-----------------------------------------------------------------------------
(* Get and PutAppend, from the request to the reply.  Whether the node     *)
(* leads is Raft's business: Start may accept or refuse at any time.       *)

HandlerUnchanged ==
  UNCHANGED <<process, m_lastSnapshotIncludeIndex, fed, loopVars, storeVars, restarts,
                   executed>>

RaftUnchanged == UNCHANGED <<started, known, persister>>

Reply(m, err) == replies' = replies \cup {[call |-> m, err |-> err]}

StartRefused(i, m) ==
  /\ Up(i) /\ m.server = i /\ handler[i] = Idle
  /\ calls' = calls \ {m}
  /\ Reply(m, "ErrWrongLeader")
  /\ UNCHANGED <<waitApplyCh, handler>> /\ RaftUnchanged /\ HandlerUnchanged

StartAccepted(i, m) ==
  /\ Up(i) /\ m.server = i /\ handler[i] = Idle
  /\ calls' = calls \ {m}
  /\ started' = started \cup {<<End(i) + 1, m.op>>}
  /\ AppendLog(i, m.op)
  /\ handler' = [handler EXCEPT ![i] =
       [at |-> IF m.op.operation = "Get" THEN "lookup" ELSE "register",
        call |-> m, index |-> End(i) + 1, err |-> "ErrWrongLeader"]]
  /\ UNCHANGED <<waitApplyCh, replies>> /\ HandlerUnchanged

\* Get makes a channel only if there is one, and there is none at a new index: it takes a
\* null pointer from the map, and timeoutPop locks the mutex in it.
GetLookup(i) ==
  /\ Up(i) /\ handler[i].at = "lookup"
  /\ handler[i].index \notin DOMAIN waitApplyCh[i]
  /\ ExitProcess(i, "nullChannel")
  /\ UNCHANGED <<taken, restarts>>

MoveTo(i, at) == handler' = [handler EXCEPT ![i].at = at]

RegisterChannel(i) ==
  LET index == handler[i].index IN
  /\ Up(i) /\ handler[i].at = "register"
  /\ waitApplyCh' = IF index \in DOMAIN waitApplyCh[i] THEN waitApplyCh
       ELSE [waitApplyCh EXCEPT ![i] = With(@, index, NewLockQueue)]
  /\ MoveTo(i, "pop")
  /\ UNCHANGED <<rpcVars>> /\ RaftUnchanged /\ HandlerUnchanged

Channel(i) == waitApplyCh[i][handler[i].index]

WaitOnChannel(i) ==
  /\ Up(i) /\ handler[i].at = "pop" /\ ~CanPop(Channel(i))
  /\ MoveTo(i, "waiting")
  /\ UNCHANGED <<waitApplyCh, rpcVars>> /\ RaftUnchanged /\ HandlerUnchanged

\* What was popped must be the handler's own request.
TimeoutPop(i) ==
  LET err == IF SameRequest(Popped(Channel(i)), handler[i].call.op)
             THEN "OK" ELSE "ErrWrongLeader"
  IN /\ Up(i) /\ handler[i].at \in {"pop", "waiting"} /\ CanPop(Channel(i))
     /\ waitApplyCh' = [waitApplyCh EXCEPT ![i][handler[i].index] = AfterPop(@)]
     /\ handler' = [handler EXCEPT ![i].at = "erase", ![i].err = err]
     /\ UNCHANGED <<rpcVars>> /\ RaftUnchanged /\ HandlerUnchanged

\* wait_until reports a timeout also when an element arrives just then; it stays unread.
PopTimesOut(i) ==
  /\ Up(i) /\ handler[i].at = "waiting"
  /\ MoveTo(i, "timedOut")
  /\ UNCHANGED <<waitApplyCh, rpcVars>> /\ RaftUnchanged /\ HandlerUnchanged

CheckDuplicate_Mutant(i) ==
  /\ Up(i) /\ handler[i].at = "timedOut"
  /\ handler' = [handler EXCEPT ![i].at = "erase", ![i].err = "OK"]
  /\ UNCHANGED <<waitApplyCh, rpcVars>> /\ RaftUnchanged /\ HandlerUnchanged

\* Too late to be told, but executed all the same.  For PutAppend the code gets here only with Debug
\* off: else the DPrintf before it takes the request id for the address of a string, which ends the
\* process, as Kill does.
CheckDuplicate(i) ==
  LET err == IF ifRequestDuplicate(i, handler[i].call.op) THEN "OK" ELSE "ErrWrongLeader"
  IN /\ Up(i) /\ handler[i].at = "timedOut"
     /\ handler' = [handler EXCEPT ![i].at = "erase", ![i].err = err]
     /\ UNCHANGED <<waitApplyCh, rpcVars>> /\ RaftUnchanged /\ HandlerUnchanged

EraseChannel_Mutant(i) ==
  LET h == handler[i] IN
  /\ Up(i) /\ h.at = "erase"
  /\ handler' = [handler EXCEPT ![i] = Idle]
  /\ Reply(h.call, h.err)
  /\ UNCHANGED <<calls, waitApplyCh>> /\ RaftUnchanged /\ HandlerUnchanged

\* The channel is erased and deleted, then done->Run() sends the reply.
EraseChannel(i) ==
  LET h == handler[i] IN
  /\ Up(i) /\ h.at = "erase"
  /\ waitApplyCh' = [waitApplyCh EXCEPT
       ![i] = [x \in DOMAIN @ \ {h.index} |-> waitApplyCh[i][x]]]
  /\ handler' = [handler EXCEPT ![i] = Idle]
  /\ Reply(h.call, h.err)
  /\ UNCHANGED calls /\ RaftUnchanged /\ HandlerUnchanged

HandlerStep(i) ==
  \/ \E m \in calls : StartRefused(i, m) \/ StartAccepted(i, m)
  \/ GetLookup(i) \/ RegisterChannel(i) \/ WaitOnChannel(i) \/ TimeoutPop(i)
  \/ PopTimesOut(i) \/ CheckDuplicate(i) \/ EraseChannel(i)

RaftStep(i) ==
  \/ LearnCommand(i) \/ ReportCommand(i)
  \/ \E j \in Server : InstallSnapshot(j, i)

-----------------------------------------------------------------------------
(* Processes                                                               *)

Kill(i) ==
  /\ restarts < MaxRestarts
  /\ restarts' = restarts + 1
  /\ ExitProcess(i, "killed")
  /\ UNCHANGED taken

\* The constructor: a new Persister, whose empty files are then read by Raft::init and for
\* the snapshot to start from.
Restart(i) ==
  /\ ~Up(i) /\ restarts < MaxRestarts
  /\ restarts' = restarts + 1
  /\ process' = [process EXCEPT ![i] = "up"]
  /\ persister' = [persister EXCEPT ![i] = P!AfterReadSnapshot(P!NewPersister)]
  /\ P!ReadRaftState(P!NewPersister) = 0 /\ P!ReadSnapshot(P!NewPersister) = ""
  /\ known' = [known EXCEPT ![i] = <<>>]
  /\ m_lastSnapshotIncludeIndex' = [m_lastSnapshotIncludeIndex EXCEPT ![i] = 0]
  /\ fed' = [fed EXCEPT ![i] = <<>>]
  /\ taken' = [taken EXCEPT ![i] = 0]
  /\ loop' = [loop EXCEPT ![i] = "pop"]
  /\ m_skipList' = [m_skipList EXCEPT ![i] = [k \in Key |-> NoValue]]
  /\ m_lastRequestId' = [m_lastRequestId EXCEPT ![i] = [d \in DOMAIN @ |-> 0]]
  /\ m_lastSnapshotRaftLogIndex' = [m_lastSnapshotRaftLogIndex EXCEPT ![i] = 0]
  /\ waitApplyCh' = [waitApplyCh EXCEPT ![i] = <<>>]
  /\ UNCHANGED <<started, handler, rpcVars, executed>>

ServerStep == \E i \in Server :
  RaftStep(i) \/ LoopStep(i) \/ HandlerStep(i) \/ Kill(i) \/ Restart(i)

====
