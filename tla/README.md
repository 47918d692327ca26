# Distrib-KVstorage in TLA+

Distrib-KVstorage is a key-value store replicated with Raft, over an RPC layer and a
coroutine library of its own. This directory holds TLA+ models of its code, the TLC
configurations that check them, and TLAPS proofs about them. The models are written from the
source: a definition has the name of the function it stands for wherever TLA+ allows it, and
`PROJECT.json` ("map") gives the lines of each.

    tlc -workers 4 -config RaftThree.cfg MCRaft.tla     # a run: see the table of runs
    tlapm SkipListProofs.tla                            # the proofs of a module

| modules | contents |
|---|---|
| `Raft`, `MCRaft` | the Raft core and its properties |
| `ReplicatedLog` | abstract: what a Raft node promises its KvServer |
| `RaftProofs`, `RaftElectionProofs`, `RaftReplicationProofs` | theorems about `Raft` |
| `Persister`, `LockQueue` | the files, and the blocking queue, as operators on their state |
| `KvServer`, `Clerk`, `MCKv` | the replicas, and with the clients the whole store |
| `ReplicaMap` | abstract: what a replica promises its clients |
| `KvProofs` | theorems about the store |
| `SkipList`, `OrderedMap` | the skip list, and abstract: the map it implements |
| `SkipListProofs` | theorems about `SkipList` |
| `WireFormat`, `Rpc`, `MCRpc` | messages on the wire; the channel and the provider |
| `RpcProofs` | theorems about `WireFormat` and `Rpc` |
| `Timer`, `MCTimer`, `TimerProofs` | the timer manager with its clock, and theorems about it |
| `Scheduler`, `IOManager`, `Hook`, `MCHook` | fibers: the task queue, epoll, the hooked system calls |
| `HookProofs` | theorems about the three |

## The system

A server process holds one `KvServer`, one `Raft`, and a `Persister`; a client process holds a
`Clerk`. `KvServer` hands a client's operation to `Raft::Start`, which appends it to the log;
`Raft` replicates the log to its peers by RPC and pushes what is committed to `applyChan`, a
`LockQueue`; `KvServer`'s loop pops from there, executes on the `SkipList`, and wakes the RPC
handler that waits for that log index. When the persisted log is long, `KvServer` gives `Raft` a
snapshot to replace its prefix. The two timer loops of Raft run as coroutines on an `IOManager`.

    Clerk --RPC--> KvServer --Start, Snapshot--> Raft --RPC--> Raft of the peers
                      ^  `--SkipList              |  `--Persister (files)
                      `------ applyChan ----------'

    Raft's tickers: Fiber --hooked sleep--> Hook --addTimer--> Timer
                                             `--addEvent--> IOManager --> Scheduler

How the models compose follows this picture. `Raft` and `KvServer` are too large for one state
space, so the contract between them is a module, `ReplicatedLog`: `Raft` is checked and proved to
implement it (`KeepsPromise`), and `KvServer` is checked above a node that does what the contract permits.
`Clerk` EXTENDS `KvServer`, which uses `Persister` and `LockQueue`. `Hook` EXTENDS `IOManager`,
which EXTENDS `Scheduler`. `Rpc` uses `WireFormat`. What a lower layer may do to a higher one is
in the higher one's model: in `Raft` and `Clerk` a call may be late, lost, or answered with an
empty message by a peer that closed, and in `Raft`, whose threads share a channel, a thread may be
given the replies to the calls of others, which is what `Rpc` shows of the channel (replies that
`recv` cuts are in `Rpc` alone); in `IOManager` a timer may expire early or late, which is what
`Timer` shows of the clock.

### Inventory

Each component with its state, its operations, what is hard, when it is correct, and what of it is
modelled (`PROJECT.json`, "components", has the sources).

**Raft** (`raftCore/raft.cpp`): `Raft`. *State*: term, vote and role; the log after the snapshot;
commit and applied index; the leader's `m_nextIndex` and `m_matchIndex`; the snapshot's index and
term, under one mutex. *Operations*: three tickers (election, heartbeat, apply), three RPC
handlers, the continuations of three RPCs sent by threads of their own, `Start`, `Snapshot`,
`init`. *Hard*: every RPC is a thread that holds copies of what the server was, and continues under
the lock in whatever the server has become; replies come late, in any order, never, or to another
thread that calls the same peer, since all of these share one channel and replies carry no id; the apply
ticker collects under the lock and pushes without it; processes end on failed assertions and come
back empty. *Correct when*: votes count once and in their term, logs have no gaps, cursors stay
ordered and never go back, what is committed is on a majority, what is applied was reported, once
and in order. The first and the fourth the code ensures only while replies reach their own threads.

**Persister** (`raftCore/Persister.cpp`): `Persister`. Two files with their streams and a cached
size. The constructor truncates both, so that nothing survives a restart; `ReadSnapshot` reads one
blank-delimited word and reopens the file for writing, which empties it; what `SaveRaftState` wrote
is still in the stream's buffer when `ReadRaftState` opens the file.

**KvServer** (`raftCore/KvServer.cpp`): `KvServer`. *State*: the skip list, `m_lastRequestId`,
`waitApplyCh` (a queue for each log index a handler waits on), `m_lastSnapshotRaftLogIndex`.
*Operations*: `Get`, `PutAppend`, the apply loop, snapshots. *Hard*: a handler has its channel only
after `Start`; a timeout races the answer; a request is in the log twice; snapshots arrive empty or
broken; the process dies on a null channel or an archive exception. *Correct when*: a request is
executed at most once on a replica, and acknowledged only when it was.

**Clerk** (`raftClerk/`): `Clerk`. A request id, the server that led last, and a loop over the
servers until one says OK. *Hard*: the retry of a request that was executed, or still will be.

**RPC** (`rpc/`, `raftRpcPro/`): `Rpc`, `WireFormat`. One socket per channel, opened on first use by
clerks and in the constructor (`connectNow`) by Raft's peers, and
shared by all threads that call the peer, without a lock; the provider handles one request per
readable event and drops the rest. *Hard*: replies on a shared socket, messages cut anywhere,
connections that break between any two system calls, a reply without a byte. *Correct when*: a
caller gets the reply to its own request or a failure, and a request is handled once, as it was sent.

**SkipList** (`skipList/include/skipList.h`): `SkipList`. Linked levels with insert, insert-or-set,
delete, search, dump and load. *Hard*: the pointers of all levels through deletion and insertion
with a new random level. *Correct when*: it implements a map.

**LockQueue, Op** (`common/`): `LockQueue`, used by `KvServer`; an `Op` is a record there.

**Timer** (`fiber/timer.cpp`, `utils.hpp`): `Timer`. An ordered set of timers with cancel, refresh,
reset, expiry and detection of a clock that goes back. *Hard*: the clock does go back, once a
second; `m_tickle` suppresses wake-ups; the time is read before the lock is taken. *Correct when*:
the sleep past a timer is no longer than the clock is wrong, none runs after `cancel`, none before
its time.

**Scheduler and Fiber** (`fiber/scheduler.cpp`, `fiber.cpp`): `Scheduler`. A queue of tasks, worker
threads, an idle fiber each, `stop`. **IOManager** (`fiber/iomanager.cpp`): `IOManager`. Per
descriptor the registered events and who waits, a count of the pending ones, epoll, expired
timers. **Hook and FdManager** (`fiber/hook.cpp`, `fd_manager.cpp`): `Hook`. Blocking calls turned
into register, yield and retry, with a timer that races the event. *Hard*, of the three: a limit,
an event, a close and a stop that come together; one event's trigger forgets the other; a tickle
that is not sent. *Correct when*: exactly one thing can resume a fiber, the pending count
is the number of waiters, and stop returns with everything done.

**Not modelled**: `MprpcConfig` and `config.h` (a file of addresses read once), the examples (they
start the above).

## Raft

Each field of `raft.h` is a function on `Server` under its own name. `m_logs[i]` holds the entries
after the snapshot; position 1 has index `m_lastSnapshotIncludeIndex[i] + 1`. `votedNum` and
`appendNums` are the shared counters of a round of `doElection` or `doHeartBeat`. The code counts
answers; the model keeps the set of those counted, which is the same because a peer answers a
round once.

| code | actions |
|---|---|
| `electionTimeOutTicker`, `doElection` | `DoElection` |
| `RequestVote` | `RequestVoteExpired`, `RequestVote` |
| `sendRequestVote`, once answered | `SendRequestVoteHigherTerm`, `...Ignored`, `...Counted`, `...Won` |
| `leaderHearBeatTicker`, `doHeartBeat` | `DoHeartBeat`, `DoHeartBeatExits` (an assertion in the loop) |
| `AppendEntries1` | `AppendEntriesStale`, `...Ahead`, `...BeforeSnapshot`, `...Mismatch`, `...Match`, `...Wild`, `...Differs` |
| `sendAppendEntries`, once answered | `SendAppendEntriesHigherTerm`, `...Ignored`, `...Refused`, `...Accepted` |
| `Start` | `Start` |
| `applierTicker`, `getApplyLogs` | `GetApplyLogs`, `PushApplyMsg` |
| `Snapshot`, called by KvServer | `SnapshotOfExecuted` |
| `leaderSendSnapShot` | `LeaderSendSnapShot`, then `...Ignored`, `...HigherTerm`, `...Done` |
| `InstallSnapshot` | `InstallSnapshotStale`, `...Old`, `InstallSnapshot`, `InstallSnapshotPeerGone` |
| `MprpcChannel::CallMethod`, a reply to another call | `RequestVoteAstray`, `AppendEntriesAstray`, `InstallSnapshotAstray` |
| the end of a process, `init` | `Kill`, `Restart`, and the `...Exits`, `Wild`, `Differs`, `electedTwice` exits |

What runs in one critical section is one action. What another thread can come between is split:
an RPC into call, handler and continuation; `leaderSendSnapShot` into spawn, reading of the
arguments, handler and continuation; `applierTicker` into collecting and each single push.

Decisions a reader should know:

- **Timers are free.** `DoElection` may happen whenever a server does not lead and `DoHeartBeat`
  whenever it does. The tickers' durations, and the unlocked reads of `m_status` and of the reset
  times, only choose among these moments.
- **Failed calls.** A continuation returns at once when its call failed, so a failed or timed-out
  call is one that is never delivered, or never answered. Every step of the model may be postponed
  for ever, so every call and every reply may be lost. Calls are not duplicated (one TCP request
  each).
- **Replies to the wrong thread.** All the threads that call one peer share an `MprpcChannel`, which
  sends and receives without a lock, and a reply carries no id (`raft.cpp:409`, `:578`, `:635`;
  `mprpcchannel.cpp:69-86`). So a reply on the wire (`OnWire`) need not reach the thread of its call:
  the sets `rvWaits`, `aeWaits` and `isWaits` hold the calls whose thread is in `recv()`, and any of them may
  take any replies of that peer to that server (`ReceiveOthers`), those of other rounds, terms and
  methods included. The three reply classes number their fields alike, so that the success of an
  append parses as a granted vote and the other way round; several replies that one `recv` returns are
  parsed as one message, in which the last value of a field counts (`Flag`, `Terms`,
  `NextIndexes`). What the thread got is a reply record with `received` set and the thread's own
  arguments: with these the continuation goes on. The order in which a socket holds
  replies is left open. Replies that `recv` cuts in the middle are not in this model.
  `InstallSnapshotOld` sends nothing, for its reply has only defaults and so no bytes: its
  thread waits on, and may be given the reply to another call.
- **The process exits on `myAssert`.** Assertions that can fail are branches that set `process[i]`
  to the assertion; those that cannot are the invariants. A dead process answers nothing.
- **Undefined behaviour.** `AppendEntries1` writes the term to `m_logs[term]`, which may lie
  outside the vector. The model allows both outcomes: memory nobody reads (`AppendEntriesMatch`),
  or the end of the process (`AppendEntriesWild`).
- **Restart.** Nothing persisted is read back (see Persister), and no call to or from the old
  process survives: the new one sleeps for seconds before it connects. `Restart` is the initial
  state for this server, with its calls in flight gone.
- **Not in the model**: `leaderUpdateCommitIndex` and `pushMsgToKvServer` (never called),
  `persist` (never read), `GetState` and `GetRaftStateSize` (they read only). A command is the
  number of the `Start` that made it.
- `granted`, `elected`, `forgot` and `astray` are history: votes given, elections won, servers that
  lost track of a vote, and how many calls of each method ended with the reply to another. No guard
  reads the first three, and that of `ReceiveOthers` reads `astray` for the bound `MaxAstray` only. `forgot` grows
  in two places only: a restart, and the step of `sendAppendEntries` that drops the vote and sets the
  term to that of its own request.
- Names ending in `_Mutant` are not the system. Each is a definition with a plausible bug; with it
  in place of the original, TLC finds the property named with it in `PROJECT.json` violated. They
  show that the properties can tell.

The contract `ReplicatedLog` has for each server the commands it may still report (`known`: its log
and the batch that is collected), the end of its log, and everything it pushed to `applyChan`.
The log only grows at its end, an index is never filled twice, commands are reported once and in
order, each as it is in the log. It says nothing across servers, since the code does not make logs
agree (see Findings), nor that snapshots come in order with the commands, since they do not.

## KvServer and Clerk

| code | actions |
|---|---|
| `Raft` as its KvServer sees it | `StartAccepted`, `StartRefused`, `LearnCommand`, `ReportCommand`, `InstallSnapshot` |
| `ReadRaftApplyCommandLoop`, `GetCommandFromRaft` | `PopCovered`, `PopCommand`, `Execute`, `TakeSnapshot` or `SkipSnapshot`, `SendMessageToWaitChan` |
| `GetSnapShotFromRaft` | `GetSnapShotFromRaft`, `InstallBreaks` |
| `PutAppend` | `StartRefused`, or `StartAccepted`, `RegisterChannel`, `WaitOnChannel`, `TimeoutPop` or `PopTimesOut` and `CheckDuplicate`, `EraseChannel` |
| `Get` | `StartRefused`, or `StartAccepted`, `GetLookup` |
| a process ends or begins | `Kill`, `Restart` |
| `Clerk::Get`, `PutAppend` | `NewRequest`, then `TakeOK`, `TakeWrongLeader`, `CallFails`, `EmptyReply` |

- The apply loop is one thread, and its decisions read only what it writes, so a pop and the checks
  after it are one step. What it does under `m_mtx` with another thread's state is a step each.
- The RPC server's event loop runs handlers one after another, each until it has replied.
- `Get` takes a null pointer from `waitApplyCh` and locks the mutex in it: on a leader the first
  accepted Get ends the process (`GetLookup`). So nothing after it in `Get` is in the model.
- `ReadSnapshot` gives the first word of an archive, once, and then nothing. A follower that is
  sent that word dies of the exception (`InstallBreaks`); one that is sent nothing installs
  nothing, and drops all commands up to that index. A whole archive never arrives.
- After a timeout `PutAppend` calls `DPrintf` with an `int` for `%s` (`KvServer.cpp:205-208`), and
  `Debug` is on (`config.h:3`): built so, the process ends there, which in the model is a `Kill` at that
  moment. `CheckDuplicate` is what the code does with `Debug` off. The model has both, so what it shows
  to be safe is safe in either build.
- Persisted lengths count entries plus a header, `MaxRaftState` is compared as in the code.
- A Put's value is named by its request; Append does what Put does (`insert_set_element`).
- `executed` and `acked` are history; no action reads them.

`ReplicaMap` is what a client may count on from one replica: a map, the last request of every
client, a request that takes effect in one step, once and in the order of its client's ids, and
an acknowledgement only of what took effect. A replica may begin anew with nothing, even of what
it has acknowledged, because the code's replicas do.

## RPC

A stream is a sequence of fields, and a piece of it may end between two fields or inside of one. A
thread in `MprpcChannel::CallMethod` takes one step per system call: `Connect`, `ConnectFails`,
`Send`, `SendFails`, `CloseToReconnect`, `EnterRecv`, `Receive`, `ReceiveEnd`, `ReceiveFails`,
`CloseToFail`. `ProviderStep` is `RpcProvider::OnMessage` on one piece, with the dispatch and the
reply. `PeerCloses` ends a connection, orderly or not. A channel begins unconnected, as a Clerk's
does, or connected, as Raft's peers' do: their constructor connects, in up to three tries
(`raftRpcUtil.cpp:25`, `mprpcchannel.cpp:132-142`). `WireFormat` is what the generated code does
with a message: fields with their numbers and wire types, defaults that are not written, unknown
fields that are skipped. A message has no name or end on the wire, so whatever was received is
read as whatever was expected, which `Parse` does. Assumed: bytes from the middle of a message
spell no service's name and no reply. A response whose fields are all defaults is serialized to
nothing, so that `Respond` sends nothing and its caller waits until the connection ends;
InstallSnapshot responds so to an old snapshot (`raft.cpp:327`), and `LoneCallIsAnswered` names the
case. `served` is history: what each method was called with, and what it responded.

Left out: `RpcProvider::Run`, which writes the address file and returns before it starts the server
(the model describes the handlers as they behave once something calls them); the bytes of a field,
arenas, reflection and copying in the generated code.

## SkipList

A node is its key; `forward` has its pointers on each level. A call is a loop that walks one pointer
at a time (`Advance`, `Descend`), then changes the list in one step, which nobody can interrupt
(the list's mutex, and `KvServer`'s): `InsertNode`, `InsertExists`, `DeleteNode`, `DeleteMissing`,
`SearchFound`, `SearchMissing`. `insert_set_element` is a search, a deletion and an insertion
(`SetFound`, `SetMissing`), `dump_file` walks the lowest level (`DumpNode`, `DumpDone`), `load_file`
makes an insertion of each pair. `todo` is what is left of the user's call, `asked` that call.
`OrderedMap` is the abstract map, on which each call takes effect in one step.

## Timer

A unit of time is a tick, `TicksPerSecond` of which make a second; `Elapsed` is `GetElapsedMs`,
whose clock falls within every second and jumps at its end, because it subtracts the nanoseconds.
Callers add timers (`Create` reads the time, `AddTimer` takes the lock, `OnTimerInsertedAtFront`
tickles), `Cancel`, `Refresh` and `Reset` them. A worker asks for the first timer and sleeps
(`getNextTimer`), wakes by the pipe or its limit (`WakeUp`), collects (`listExpiredCb`), and runs
callbacks as tasks. `refresh` and `reset` are not called in src but are public, and so modelled.
`refresh` changes the timer without `addTimer`, so that it tickles nobody; since the clock goes back,
it may move a timer ahead, and `NoTimerIsOverslept` exempts the time from such a step until a
worker looks (`moved`).

Workers do sleep past timers: who reads the time late in a second gets one that is up to
`ClockError`, 2 * (`TicksPerSecond` - 1) or nearly two seconds, behind the clock, takes the timer
for that much further away, and sleeps as long (`until`). `NoTimerIsOverslept` compares when sleepers wake
with the times of the timers, and claims that they never all sleep past one by more than that.

## Scheduler, IOManager, Hook

| code | actions |
|---|---|
| `Scheduler::run` | `TakeTask`, `TickleOthers`, `Resume`, `FinishTask`, `FindNothing`, `BeIdle`, `LeaveIdle` |
| `scheduler`, `stop` by the owner | `Schedule`, `TickleScheduled`, `Stop`, `TickleAll`, `Join` |
| `IOManager::idle`, `stopping` | `CheckTimers`, `CheckPending`, `CheckScheduler`, `EpollWait`, `listExpiredCb`, `ScheduleExpired`, `HandleEvent`, `YieldIdle` |
| `do_io`, `connect_with_timeout` | `Invoke`, `Try`, `AddEvent`, `YieldInCall`, `Woken` |
| `sleep`, `usleep`, `nanosleep`; `close`; `socket`, `accept` | `Sleep`; `Close`; `Socket` |
| callbacks of timers | `RunWake`, `RunTimeout` |
| the kernel, time | `BecomeReady`, `HangUp`, `TimePasses` |

`addEvent`, `cancelEvent`, `cancelAll` and `triggerEvent` are operators under their own names, taken by
the actions that call them. Abstractions: the worker that runs a fiber does `scheduler()` and its
tickle in one step, the owner in two; the flag of a time limit and its `cancelEvent` are one step, as
is `close`; `epoll_wait` may return at any time, with nothing if its limit of MAX_TIMEOUT (5 s) has
passed; a timer expires at any time after it was added. Not modelled: tasks for one thread
(nobody gives `m_thread`), the caller as a worker (`FIBER_USE_CALLER_THREAD` is false), stacks and
contexts, `delEvent` and callbacks as waiters (no hook uses them), EINTR loops, the limit of 256
events, descriptors that go straight to the kernel (user-nonblocking, no socket, not managed), and
`fcntl`, `ioctl` and `setsockopt` (the F_GETFL branch of `fcntl` calls itself without end).

## Properties

Every module has one type invariant, `TypeOK`. Definitions ending in `_Mutant` are not the
system: each is a definition with a plausible bug; with it in place of the original, TLC finds the
property that `PROJECT.json` ("mutants") names with it violated. They show that the properties can
tell.

| property | what would break it |
|---|---|
| **Raft** | |
| `LeaderQuorum` | votes of an earlier term counted for a later one |
| `ElectionSafetyUnlessForgot` | a voter that votes twice without having lost its vote |
| `ElectedTwiceOnlyIfForgot` | a round that is won, then won again by its last vote |
| `LogContiguous` | a suffix that starts one off, a late short request that cuts the log |
| `CursorOrder` | a snapshot or commit index from elsewhere that overtakes the local log |
| `SentWithinLog` | a leader whose log gets shorter than what its old requests carry |
| `CommitIndexOnQuorum` | an acknowledgement of a short request that commits the leader's whole, longer log |
| `ReplicationCursors` | a hint or snapshot reply that moves a cursor before the first or past the last entry |
| `CommandsReportedInOrder` | a batch pushed after a snapshot, a batch collected twice |
| `AppliedIsReported` | a cursor that moves over what was never pushed |
| `NothingGoesBack` (action) | a late snapshot or heartbeat that undoes what KvServer has seen |
| `KeepsPromise` (refinement of `ReplicatedLog`) | an index given out twice, a command reported that the log does not have there |
| `CommittedIsReported` (liveness) | a batch that misses its last command |
| **KvServer, Clerk** | |
| `AckedIsExecuted` | an OK for another client's request at that index, or for one whose turn had not come |
| `ChannelsOwned` | a channel left behind, or deleted before it was read |
| `ChannelHoldsOwnRequest` | an index that another leader's command fills |
| `ImplementsReplicaMap` (refinement) | a request executed twice, or out of order, after retry, snapshot or restart |
| **SkipList** | |
| `LevelsLinked` | a pointer of a removed level that is followed, a node lost on one level |
| `WalkNotesPredecessors` | new pointers that go to the wrong node |
| `CountIsSize` | a deletion of nothing that is counted |
| `ImplementsOrderedMap` (refinement) | a search that misses what was set, a load that overwrites |
| `CallsEnd` (liveness) | a level that became a circle |
| **RPC** | |
| `ServedOnce` | a request repeated after it was handled |
| `ServedAsSentOrEmpty` | parts of two requests taken for one |
| `OwnReplyUnlessShared` | a leftover reply taken for the next one |
| `NoConnectionForgotten` | a reconnect that leaks a descriptor |
| `LoneCallIsAnswered` | a request, or a reply that has bytes, dropped while its caller waits for ever |
| **fibers** | |
| `ResumedOnce` | a limit and an event that both resume a fiber, or a fiber in a call that nothing will resume, though its registration is in place |
| `PendingCountsWaiters` | a count that stop waits for and that never gets to 0, or gets there too early |
| `JoinedMeansDone` | a worker that leaves while a fiber still sleeps |
| `OnlySharingBreaks` | a CondPanic with one fiber per descriptor |
| `StopReturns` (liveness) | a limit that cancels nothing |
| **Timer** | |
| `NoTimerIsOverslept` | an insertion at the front that tickles nobody who looks, a sleep that is longer than the time to the first timer and the error of the clock |
| `CancelledNeverRuns` | a cancelled timer that is still in the set |

Four properties of Raft hold only as long as replies reach their own threads, which nothing in the
code ensures, and they say so by a condition on `astray`. `LeaderQuorum` and
`ElectionSafetyUnlessForgot` presume that no thread of `sendRequestVote` was given the reply to another call,
`CommitIndexOnQuorum` the same of `sendAppendEntries`, and `ElectedTwiceOnlyIfForgot` names it as a
cause. Each leaves the replies of the other two methods free to go astray. Without the condition the four are false
in the code. A grant of term T that reaches the thread of an earlier round counts there, since only
`reply->term` and `m_currentTerm` are compared: with three servers the round of T-1 wins in term T,
then that of T does, and the assert fails; with five, a server leads with two votes of its term. A
success that reaches the thread of a later round commits what that thread's longer request carries,
which no follower need have. When the conditions of `ElectedTwiceOnlyIfForgot` and
`CommitIndexOnQuorum` are dropped, TLC finds both violated by the run RaftThree; the other two take five
servers, which no run has. The remaining properties of Raft, and the
contract with the store among them, hold wherever replies go.

`CommitIndexOnQuorum` is about positions and not contents: the code keeps a conflicting entry (see
Findings), so contents may differ. It also presumes that no server restarts, for a restarted server has
no log. `ElectedTwiceOnlyIfForgot` is what is left of the assert of `sendRequestVote` that a server
does not win an election while it leads (raft.cpp:609, "同一个term当两次领导"): the assert can also fail in
the process of a server that has taken a lower term over from its own old request (raft.cpp:649, the
step of `RaftTwoLeaders`). Such a server goes through a term again, holds a second election in it, and
wins both by late votes. The shortest behaviour we know has three servers, five elections and two
rounds of heartbeats, which is past the bounds of the runs. `AppliedIsReported` and `CommittedIsReported` presume that no snapshot is taken: `Snapshot`
skips applies (see Findings). `OnlySharingBreaks` and `StopReturns` presume that no two fibers wait
on one descriptor, because triggering one event clears both (`triggerEvent`). A waiter whose event
was cleared so is `Forgotten`: nothing in the code resumes it, as `cancelEvent`, `cancelAll` and epoll
ask for the event, and `ResumedOnce` claims just that of it. `StopReturns` says nothing of tickles:
`epoll_wait` returns within five seconds in any case, so a lost tickle is a delay and not a hang.

## Runs

| run | module | distinct states | shows |
|---|---|---|---|
| `RaftThree` | MCRaft | 640,000 | three servers: late votes, replies to the wrong thread, leaders that overwrite each other's followers, snapshots among appends |
| `RaftTwo` | MCRaft | 690,000 | two servers, one killed or restarted, replies to the wrong thread, or terms beyond the log: cursors in order, the contract kept |
| `RaftApply` | MCRaft | 600 | committed commands are reported in the end |
| `KvStore` | MCKv | 550,000 | two replicas, two clerks, retries, timeouts, a snapshot, a crash: each replica implements `ReplicaMap` |
| `SkipListStore` | SkipList | 1,400,000 | every sequence of calls: the list implements a map, and every call ends |
| `RpcChannel` | MCRpc | 1,550,000 | two threads on a channel, streams cut anywhere, a peer that closes |
| `HookCalls` | MCHook | 570,000 | two fibers, every kind of call on one descriptor, limits, events, close and stop in any order |
| `TimerManager` | MCTimer | 1,650,000 | two workers, a third thread with two timers, and the clock of the code |
| `RaftTwoLeaders`, `RaftCommitLost`, `KvSameId`, `TimerEarly` | | | find a claim of the code violated: see Findings |

**Bounds, and why they are enough.** When they are used up the system stops, hence
`CHECK_DEADLOCK FALSE` in the runs of Raft, the store, RPC and timers; the skip list's run, and that
of the fibers, check deadlock too. Elements that no property tells apart are symmetric where the run
has no liveness property.

*Raft.* The six bounds count, over the whole cluster, elections started, rounds of heartbeats,
commands accepted, snapshots taken, kills and restarts, and, for each method, calls that end with
another's reply; within them every order of deliveries, losses and local steps is explored, but for
what the cases leave out. `RaftThree` and `RaftTwo` explore several cases each: a case is a state
constraint of `MCRaft` that gives the bounds one question needs.

Three servers are the least with which a majority is not everybody. Three rounds of election
(`Elections`) are the least in which a server can be made to step back over a term it voted in; the
third begins when the votes of the first are in, so that a vote is late by one round. Two leaders and
four commands (`Divergence`) are the least that leave a follower with one leader's entries and another
leader to overwrite them, and let the rewritten slot meet an entry of the same term; past two
commands the votes of the first leader are in. A third election, of the server that led first, makes a
request disagree with the middle of a follower's log (`AppendEntriesMismatch`);
`ThirdElectionInTurn` admits it only after the first two are over. Two rounds of heartbeats overlap in
every order (`Snapshots`), and the second carries the commit index of the first or sends a snapshot;
a third (`ThirdRoundSendsSnapshot`) sends it twice. They begin when the one election is over: late
votes among heartbeats are in the other cases.

In the case `Astray` one thread is given replies of others, which is enough to break
`CommitIndexOnQuorum` and `ElectedTwiceOnlyIfForgot` without their conditions. Two elections and two
rounds of heartbeats, three of these in all with three servers, give replies of an earlier round, of
another term and of each method to take, and a snapshot that is sent can be the call that takes
them. The constraints of the other cases cut such steps off.

With two servers, `LongTerms` needs a term two above the log's length;
`OneCandidateTwiceUnheard` keeps the behaviours in which one server holds the first three elections
and the requests of the first two are lost, which is the way to get there, and lets further elections
follow when both commands are in the log. With two servers a majority is both, which excludes nothing of what
`RaftTwo` and `RaftApply` ask, as they are about one server's cursors.

*Store.* Two servers are the least with a leader and another to retry at, two clerks the least that
could take each other's channel or id. `FewCalls` gives three calls in all, one less for each of a
snapshot, a Get, and a crash: a retry that duplicates a request in the log needs two calls, a
snapshot of one server sent to the other needs one, a restart between the two calls of a retry two.

*Skip list.* Three keys and two levels are the least with a node before, at and after the key and
with a level that becomes empty; two values tell an overwritten value from a kept one.

*RPC.* Two threads share a channel; with three connections each can break one and go on; pieces end
at and inside of every field. `FewCombinations` lets every method be called alone and two of them
beside or after one another.

*Fibers.* One worker, as in `config.h` (FIBER_THREAD_NUM is 1), and two fibers, one of which may
close the descriptor that the other waits on; the second call follows a closed or new descriptor
or a call that ran out of time. *Timers.* Two workers, since a tickle wakes only one; seconds of four
ticks, a start shortly before the clock goes through its first full hour, and time for one whole
second.

**Fairness.** `Raft!FairSpec`: weak fairness of `GetApplyLogs` and `PushApplyMsg`; `applierTicker` is a
thread of its own that only sleeps for a fixed interval, takes the lock and pushes to an unbounded
queue. Nothing is assumed of messages or timers, so no claim is made that a leader is elected or a
command commits. `SkipList!Spec`: weak fairness of `Step`, as a call is a loop that nothing
interrupts; nothing makes the user call. `Hook!Spec`: weak fairness of each worker thread, of the
owner's own steps once it has decided (tickles, join), and of time; not of the owner's decisions, nor
of the kernel, so `StopReturns` excepts a fiber that waits without a time limit.

## Findings

Four runs show, each with its shortest counterexample, a claim of a comment of the code that the
code does not keep. `PROJECT.json` has lines and quotations.

- `RaftTwoLeaders`: a reply with a higher term makes `sendAppendEntries` take the term of its own
  old request and drop the vote. The server votes again, and two leaders share a term.
- `RaftCommitLost`: a follower keeps its own command at a conflicting entry and answers success; the
  leader commits a command that no majority has.
- `KvSameId`: clerk ids come from an unseeded `rand()`, so the first clerks of all processes have one
  id; the request of one is taken for a repetition of the other's, acknowledged, never executed.
- `TimerEarly`: the clock falls within every second, and below an hour of uptime the rollover test
  wraps: timers just added are collected at once.

The models contain more of what the code does against its comments, with no run of their own:
replies reach other threads than their own, so that votes count in another round and
commands commit that nobody has (`...Astray`, see Properties); a restarted server votes again (`Persister` truncates first; see `forgot`); `Snapshot` moves
`m_lastApplied` to the commit index, over what was not reported; a kept entry's term is rewritten at a
slot numbered by a term (`AppendEntriesDiffers`, `...Wild`); the hint to a leader that is ahead is a
term plus one (`DoHeartBeatExits`); a server that took a lower term wins two elections of one term
and fails the assert on it (`SendRequestVoteWon`); the first accepted `Get` ends its process (`GetLookup`); snapshots
arrive as one word or empty (`InstallBreaks`); an empty reply of a closed peer counts as an answer
(`ReceiveEnd`); a reply of which all fields are defaults serialises to nothing, so that its caller
waits on; triggering one event forgets the other (`triggerEvent`).

Because of these, the usual theorems (election safety, log matching, state machine safety,
linearizability of the store) are not properties of this code. The properties above are what it
does keep.

## Proofs

Everything here is proved by TLAPS for every value of the constants, under the named ASSUMEs of the
module and, for two theorems about the store, that clerk ids differ, and for two about fibers, that
there is one worker. The properties of runs among them TLC has found to hold on the runs above.

### RaftProofs, RaftElectionProofs, RaftReplicationProofs

From `ServerAssumption` and `BoundsAssumption`: for every finite set of servers and all bounds.

- `IndInvHolds`: `IndInv`, the conjunction of `TypeOK`, `LogContiguous`, `CursorOrder` and
  `SentWithinLog`, is an invariant;
- `TypeCorrect`, `LogsHaveNoGap`, `CursorsInOrder`, `RequestsWithinLog`: so is each of them;
- `ServersGoOn`: the action property `NothingGoesBack`;
- `LeadersHaveQuorum`, `TwoLeadersNeedForgotten`, `ElectedOncePerTerm`: `LeaderQuorum`,
  `ElectionSafetyUnlessForgot` and `ElectedTwiceOnlyIfForgot` are invariants;
- `CursorsInRange`, `CommitsNeedQuorum`, `ReportsInOrder`, `AppliedReported`: `ReplicationCursors`,
  `CommitIndexOnQuorum`, `CommandsReportedInOrder` and `AppliedIsReported` are (`MaxAstray` is any number, so
  that all are proved of replies that go astray as well, under the conditions the properties state);
- `RaftKeepsPromise`: `Raft` implements `ReplicatedLog`.

With `RaftKeepsPromise` the proofs of the store rest on the node that the code has: the contract
that `KvProofs` shows its environment to keep is the one `Raft` keeps.

None of the four parts of `IndInv` is inductive alone. `TypeOK` needs the log to have no gap,
since a term is read at a slot computed from an index, and outside the log that is no number.
`LogContiguous` needs the request that is merged to start no later than one past the log, and to
have no gap itself, so the invariant speaks of requests in flight too. `CursorOrder` needs
`SentWithinLog`: a leader commits up to the end of a request that was acknowledged, whatever it
has become since. `SentWithinLog` holds because no action makes a log end earlier: the merge loop
never shortens one, and what a snapshot drops is below its index.

The layout: `LeastNatural` (a non-empty set of naturals has a least element) stands in for
induction, whose library theorem takes an operator and is out of the provers' reach.
`MergeRecursion` uses it to show that the recursive function of `MergeEntries` exists,
`MergeEntriesShape` to show by a least counterexample that merging keeps a log gap-free, no
shorter, and reaching every merged entry. `LogShapeUpdate` reduces "one server's log or cursors
change" to facts about that server; `LogShapeKept` covers the steps that touch no log. Then there
is a lemma for each handler, one for each group of `Next`, and `NextKeepsIndInv`.

The lemma of each step also shows `GoesOn`, what `NothingGoesBack` asks of that step: the same
facts about the log's end and the cursors give both.

The election theorems rest on a second invariant, `VoteInv` (`VoteInvHolds`), which is inductive
given `IndInv` and that no thread of `sendRequestVote` was given another's reply
(`astray["RequestVote"]` never decreases, so a state that has none had none before). A vote is in up to three places: in `granted`, in a reply in flight, and in the
counter of a round. `RoundsCountVotes` says that the requests of a round are from one candidate
and term and that whoever the round counts has voted for it; `RepliesGranted` that a reply with a
vote was sent when the vote was given, in the term of its request. So when a vote counts, the term
of its round is the candidate's term now (`CountedVotesGranted`), and a counter that reaches a
majority stands for a majority of that very term: `ElectedByQuorum`, which is what `LeaderQuorum`
claims under its condition. `RepliesGranted` is what a grant of another round breaks. For two leaders of a term,
`MajoritiesMeet` gives a server that voted for both. `VotesRemembered` says that a server not in
`forgot` still has the vote of its current term in `m_votedFor` and has voted in no later term,
which is why it cannot have voted twice (`OneVoteUnlessForgot`). The steps that give no vote only
have to keep `VotesKept`: no server outside `forgot'` takes a lower term, or drops a vote without
taking a higher one. `Restart` and `SendAppendEntriesHigherTerm` are the two steps that put a
server in `forgot`, and the run RaftTwoLeaders shows that one of them does break one leader per
term.

`ElectedOncePerTerm` adds `RoundInv`, under the same condition. A candidate outside `forgot` has one
round per term and no request of a later term (`RoundsAdvance`), and a peer is counted at most
once per round (`AskedOnce`). So while it leads, the voters that the round of its term has counted
since it won, and those still outstanding, are together no majority (`NoSecondMajority`): winning takes
a majority out of all servers and sets the counter back to nobody. `WonOnceUnlessForgot` follows.

The leader's cursors need `CursorInv`: no reply in flight carries a hint below 1 (`HintsPositive`),
which for the search of `AppendEntriesMismatch` needs that a request with prevlogindex 0 has
prevlogterm 0 and so matches everywhere (`NoTermBeforeFirst`); and no snapshot in flight is past the
end of its sender's log (`SnapshotsWithinLog`), though its thread may have read it in another term.

The commit index needs `CommitInv`, an invariant as long as no thread of `sendAppendEntries` was given
another's reply. All requests of a round end at the same index, so one counter
serves them (`RoundsReach`); whoever the round counts has a log that reaches it (`CountedReach`), and
so has the sender of a successful reply (`AckedReach`, from `MergeEntriesShape`, and false of a success
that another round's thread was given); and a commit index
or snapshot under way is on a majority already (`SentOnQuorum`), so that a follower may take it over.
Logs do not get shorter unless their server restarts (`EndsGoOn`), hence the premise on restarts.

The reports need `ReportInv`. `ReportOrder` is about one server's channel, batch and two cursors:
what is in the batch is above every command in the channel and at most m_lastApplied, so that
neither a snapshot between two pushes nor one that moves m_lastApplied can bring an index back.
`LogStays` gives what a step does to a log as KvServer may see it: the commands that stay in it stay
at their indexes, for a merge keeps the stored command in every case (`CommandsStay`), and what is
past the old end was started. `PendingInLog` follows: a command that waits is the one in the log,
unless a snapshot took its place. These give the three theorems: in the refinement, `KnownInv` reads
the function `Known(i)` off the log and the batch, `KnownGoesOn` and `FedGoesOn` map each step to one
of the contract, and `Restart` to a `Restart`.

### SkipListProofs

From `SkipListAssumption`: for every finite set of positive keys, all values, any number of levels.

- `IInvHolds`: `IInv`, the conjunction of `Calls`, `Shape`, `Lists` and `Walking`, is an invariant;
- `TypeCorrect`, `ListsStaySorted`, `WalkIsRight`, `CountIsRight`: so is each invariant of the run;
- `SkipListImplementsMap`: the list implements `OrderedMap`.

That the levels are lists, and that a walk notes the predecessors of its key, need each other: a walk
stays on a level because the level is a list, and an insertion keeps it one because it links after
the noted node. Two lemmas about a single list carry this, and know nothing of the program: `LinkOne`
(linking a key after the node that precedes it gives the list of one key more) and `UnlinkOne`.
`UnlinkedAreItsLevels` shows that the loop of `delete_element`, which stops at the first level that
does not lead to the node, has then been on all of the node's levels; this is where it counts that
a node of a level is on all levels below. `CountIsRight` is by cardinalities.

For the refinement, `Stage` relates what the user asked for to what is left of it: between the
deletion and the insertion of `insert_set_element` the map still shows the old value (`Held`), a
dump has exactly the nodes it has passed, in order, and a load has added a prefix of its file. Each
step is then a step of `OrderedMap` or invisible to it (`Unseen`).

### TimerProofs

From `TimerAssumption`: any timers, callers and workers (at least one), any clock from one second
after the machine's start on.

- `IInvHolds`: `IInv`, the conjunction of `Typed`, `HeldOnce`, `CancelledApart` and `LookInv`;
- `TypeCorrect`, `CancelIsFinal`, `NobodyOversleeps`: the three invariants of the run.

`HeldOnce` says that a timer with a callback is in the set or with the one thread that is inserting
it, which `CancelledApart` (a cancelled timer that does not recur is in no set and in no worker's
hands) rests on. `ElapsedIsBehind` bounds what the clock is wrong by, and `SleepIsBounded` with it how
long a worker sleeps that looked at the first timer. `LookInv` is `NoTimerIsOverslept` and
`TickleMeansLooking`: while `m_tickle` is set,
some worker is not asleep, or the pipe has a byte, or a caller is about to tickle. That is why an
insertion at the front may omit the tickle; with it, each step that puts a worker to sleep has read
the first timer in the same step.

### KvProofs

From `KvAssumption`: for any servers, clerks, keys and bounds.

- `TypeCorrect`: `TypeOK` of the store;
- `RaftOfStoreKeepsContract`: the node that `KvServer` stands on is a `ReplicatedLog`;
- `ChannelsHaveOwners`, `ChannelsHoldOwnRequest`: the two invariants about wait channels;
- `AcknowledgedIsExecuted`, `ReplicasAreMaps`: `AckedIsExecuted`, and the refinement of `ReplicaMap`,
  under `UuidsDiffer`. Without it both are false, which is what the run KvSameId shows.

The inductive invariant is `Inductive`, of five parts, each inductive given the ones before it.
`Typed` has `TypeOK` and `Placed`: a loop that is busy has popped a command, and a handler runs in a
live process, on a call to this server. `Reported` says that what was pushed to `applyChan` is in
the log at its index, commands in increasing order. `LogSteps` shows that every step extends a
server's log (`LogGoesOn`) or begins it anew (`LogBegins`), which the contract needs and all later
parts use in place of the actions. `Channels` ties a handler's index to its own request in the log,
and a full channel to a loop that is done with that index (`Sent`): since commands are reported in
increasing order, an index is sent once, and a channel never has two elements. `Requests` says that
every operation anywhere (in calls, replies, handlers, logs, histories) was issued by its clerk:
its number is at most the clerk's, and with the clerk's number it is the request that the clerk is
at; likewise for calls and their attempts. That is what makes a late answer to an earlier attempt
harmless. `Executions` follows an operation from the loop to the clerk: `Settled(i, op)` says that if
its clerk is still at `op`, server i has executed it, and holds of a command after the duplicate
check (`LoopSettled`), of a full channel and a handler about to say OK (`HandlerSettled`), of a
reply (`ReplySettled`). `DuplicateSettled` is the heart of it: `ifRequestDuplicate` compares numbers
with `<=` only, so a late request of the past may be told OK; but a clerk numbers its requests
upwards and has one at a time, so for the request that a clerk is still at, a recorded number as
high is that request's. The clause `LastExecuted`, that the recorded number is of an execution of
this clerk's, is where ids must differ. After a restart the records are zero and the history is not,
so a request may be executed again, as `ReplicaMap` allows.

### RpcProofs

From `RpcAssumption` and `MessagesAssumption` (stubs and services take and give messages of their own
classes): for any threads, requests, responses and bounds.

- `MessageRoundTrip`: what was serialized is parsed again in every field, for every message class;
- `IInvHolds`: `IInv` is an invariant;
- `TypeCorrect`, `ServedAtMostOnce`, `ServedAsSent`, `OwnReply`, `NoConnectionLeft`, `LoneCallAnswered`:
  so is each invariant of the run.

The loops come first. `ReadField` and `FlattenSeq` are functions defined by recursion; what they
compute is shown with a least counterexample (`NoLeast`), the library's induction theorems being out
of the provers' reach. `ReadWritten` (each field is read back out of all that were written) and
`MessageRoundTrip` follow, and `ReplyTyped`: whatever typed fields arrive, what is parsed of them is a
message of the class that was expected.

`IInv` is what the properties need of a stream that may be cut anywhere. `WholeRequests`: behind the
size of a request comes all of it, so that what `OnMessage` reads as header and arguments is of that
request or missing. `SentOnce`: a request is at one place, with its thread, on one connection, or
served; that `send` is repeated only on a new connection, of which the old one lost everything, is
what keeps it there. `RepliesTyped`, `ServedTyped`: fields under way have values that any parser
takes, and a response is of its method's class. The rest holds of a channel that is not shared:
`OneCaller` (its connection is the only open one, and known) and, as long as messages arrive whole,
`LoneExchange`: the connection has the request of the call that waits, or the reply to it, or, once
the peer has closed, nothing. `OwnReply` and `LoneCallAnswered` are read off it, `NoConnectionLeft` off
`OneCaller`.

### HookProofs

From `WorkerAssumption`, `NoFiberAssumption` and `HookAssumption`: any fibers and descriptors, any
finite set of workers, any numbers of calls of any kinds.

- `Invariant`: `IInv` is an invariant;
- `TypeCorrect`, `FibersResumedOnce`, `PendingIsCounted`: so are `TypeOK`, `ResumedOnce` and
  `PendingCountsWaiters`;
- `JoinedIsDone`, `OnlySharing`: and with `OneWorker` so are `JoinedMeansDone` and `OnlySharingBreaks`.

`RunnersInv` is the heart of `IInv`. What will resume a fiber is in one of five places: the queue
(`InQueue`), a context it is the waiter of (`AsWaiter`), a timer (`Sleeping`), the callbacks that a
worker collected (`Expired`), or the hands of a worker that has its task or runs it (`Held`). For a
live fiber one of them has exactly one element and the others are empty (`OneRuns`); for one that was
not scheduled or has ended all are empty (`NoneRuns`). Each step leaves it where it is or moves it
from one place to the next. A waiter stays in its place when `triggerEvent` erases its registration,
but nothing looks there any more: `ResumedOnce` counts registered waiters only, and says that nothing
resumes a forgotten one, which follows because the other places are empty then. `RunByOne`: a RUNNING fiber is run by one worker, and a READY one is at
its start or will be woken from a call. An event may queue a fiber that has registered and not yet
yielded, so between these two steps it counts with its waiter or its task, and not with the worker
that runs it. `CollectedOnce` says that only a worker that is scheduling holds callbacks,
`Registered` that a registered event has a waiter. The converse of that is false, as `triggerEvent`
clears all events of a context, and so the pending count is of waiters (`Pending`).

The actions are many and what they do to a fiber's resumption is little. So the steps are first
classified: a lemma for each action says what it does (`TakeIs`, `AddEventIs`, ...), `NextIs` that
every step is an `Effect` (a worker's, a fiber's, the owner's scheduling, or none of these), and the
parts of the invariant are shown for effects.

With one worker two more invariants are inductive above `IInv`. `StopInv`: what `stopping()` has read
so far is still so (`Quiet`), since the only thread that could change it is reading; and once
`stop` was called every fiber has been scheduled. `AloneInv`: until a descriptor is shared there is
no panic, a context has at most one waiter and it is of the one registered event (`LoneWaiters`), and
what epoll reported is registered still (`ReportsStand`). The program has one worker
(`FIBER_THREAD_NUM` in `config.h`), and the assumption cannot be dropped: with two, TLC finds both
properties violated. `JoinedMeansDone`: one worker reads the timers and the pending count in
`stopping()` while the other runs a fiber; the fiber registers and yields, and then the first reads
that nobody is active, so that its idle fiber ends; when that has happened to both workers they
exit, and `stop` returns with a fiber waiting. `OnlySharingBreaks`: an event queues a fiber that has
registered and not yet yielded, and the other worker resumes it, which `resume` asserts not to happen.

### What stays with TLC

Liveness (`CommittedIsReported`, `CallsEnd`, `StopReturns`) is not within the prover's reach. Every
invariant of a passing run, the one action property and the three refinements are proved.
