---- MODULE Raft ----
(***************************************************************************)
(* The Raft core: src/src/raftCore/raft.cpp.  Every server is one process; *)
(* its fields, guarded by m_mtx, are the functions on Server below, under  *)
(* the names of raft.h.  A handler that runs under the lock is one action. *)
(* An outgoing RPC is a thread of its own: the caller snapshots the        *)
(* arguments under the lock, calls without it, and continues under it      *)
(* when the reply is there.  So a call is a record in flight, the handler  *)
(* turns it into a reply record, and the continuation consumes the reply;  *)
(* calls and replies are delivered in any order, or never (a failed call   *)
(* returns at once and changes nothing).  All the threads that call one    *)
(* peer share one MprpcChannel, whose replies carry no id: a thread that   *)
(* waits in recv() may get the replies to other calls than its own.        *)
(*                                                                         *)
(* The timers are free: electionTimeOutTicker may fire whenever the server *)
(* is not Leader, leaderHearBeatTicker whenever it is.  What persist()     *)
(* writes is never read back, because Persister's constructor truncates    *)
(* the files: a restarted server begins in the initial state.              *)
(***************************************************************************)
EXTENDS Integers, Sequences, FiniteSets

CONSTANTS
  Server,           \* the processes of the cluster
  Nil,              \* m_votedFor = -1
  MaxElections,     \* bound: calls of doElection, in the whole cluster
  MaxHeartBeats,    \* bound: calls of doHeartBeat, in the whole cluster
  MaxCommands,      \* bound: calls of Start on a leader
  MaxSnapshots,     \* bound: calls of Snapshot that take effect
  MaxRestarts,      \* bound: restarts of a process
  MaxAstray         \* bound: for each method, calls that end with the reply to another

ASSUME ServerAssumption == IsFiniteSet(Server) /\ Nil \notin Server
ASSUME BoundsAssumption ==
  {MaxElections, MaxHeartBeats, MaxCommands, MaxSnapshots, MaxRestarts, MaxAstray} \subseteq Nat

VARIABLES
  process,          \* "up", "killed", or the myAssert that made it exit
  m_currentTerm, m_votedFor, m_status,
  m_logs,           \* the entries after the snapshot
  m_commitIndex, m_lastApplied,
  m_nextIndex, m_matchIndex,
  m_lastSnapshotIncludeIndex, m_lastSnapshotIncludeTerm,
  applyMsgs,        \* applierTicker's local: collected, not yet pushed
  applyChan,        \* every ApplyMsg pushed so far, oldest first
  votedNum,         \* per doElection round, the servers its shared counter counts
  appendNums,       \* per doHeartBeat round, the same
  rvCalls, rvReplies,             \* RequestVote in flight
  aeCalls, aeReplies,             \* AppendEntries in flight
  isThreads, isCalls, isReplies,  \* leaderSendSnapShot: spawned, called, answered
  rvWaits, aeWaits, isWaits,      \* the calls whose thread is still in recv()
  commands, snapshots, restarts,  \* the counters that MaxCommands... bound
  granted,          \* history: <<term, voter, candidate>>, every vote given
  elected,          \* history: <<term, server>>, every election won
  forgot,           \* history: servers that lost track of a vote they gave
  astray            \* history: per method, the calls that ended with another's reply

termVars   == <<m_currentTerm, m_votedFor, m_status>>
logVars    == <<m_logs, m_lastSnapshotIncludeIndex, m_lastSnapshotIncludeTerm>>
indexVars  == <<m_commitIndex, m_lastApplied>>
leaderVars == <<m_nextIndex, m_matchIndex>>
applyVars  == <<applyMsgs, applyChan>>
rvVars     == <<votedNum, rvCalls, rvReplies, rvWaits>>
aeVars     == <<appendNums, aeCalls, aeReplies, aeWaits>>
isVars     == <<isThreads, isCalls, isReplies, isWaits>>
boundVars  == <<commands, snapshots, restarts>>
historyVars == <<granted, elected, forgot, astray>>
vars == <<process, termVars, logVars, indexVars, leaderVars, applyVars, rvVars, aeVars,
          isVars, boundVars, historyVars>>

-----------------------------------------------------------------------------
Status == {"Follower", "Candidate", "Leader"}

\* LogEntry of raftRPC.proto; a command is the number of the Start that made it.
LogEntry == [logindex: Nat, logterm: Nat, command: Nat]

\* ApplyMsg: CommandValid and SnapShotValid exclude each other, "snapshot" tells which.
ApplyMsg == [snapshot: BOOLEAN, index: Nat, command: Nat]

\* Arguments in flight, with the peer they go to and the round that sent them.
RequestVoteArgs ==
  [round: Nat, server: Server, term: Nat, candidateid: Server,
   lastlogindex: Nat, lastlogterm: Nat]
AppendEntriesArgs ==
  [round: Nat, server: Server, term: Nat, leaderid: Server, prevlogindex: Nat,
   prevlogterm: Nat, entries: Seq(LogEntry), leadercommit: Nat]
InstallSnapshotRequest ==
  [round: Nat, server: Server, term: Nat, leaderid: Server,
   lastsnapshotincludeindex: Nat, lastsnapshotincludeterm: Nat]
SnapshotThread == [round: Nat, server: Server, leaderid: Server]

\* The updatenextindex that a leader must not use.
NoNextIndex == -100

\* A reply: on the wire, the answer to the call with these arguments; received, what recv()
\* has given to the thread of that call, which goes on to use its own arguments.
RequestVoteReply == [args: RequestVoteArgs, term: Nat, votegranted: BOOLEAN, received: BOOLEAN]
AppendEntriesReply ==
  [args: AppendEntriesArgs, term: Nat, success: BOOLEAN,
   updatenextindex: Nat \cup {NoNextIndex}, received: BOOLEAN]
InstallSnapShotResponse == [args: InstallSnapshotRequest, term: Nat, received: BOOLEAN]

\* VoteState of a refused vote.
Voted  == 1
Expire == 2

Method == {"RequestVote", "AppendEntries", "InstallSnapShot"}

Larger_Mutant(a, b) == b
Larger(a, b) == IF a >= b THEN a ELSE b
Smaller(a, b) == IF a <= b THEN a ELSE b

\* Definitions named ..._Mutant are not part of the system: each is a definition with a
\* plausible bug, and a property that is checked must tell the two apart.
IsMajority_Mutant(S) == Cardinality(S) >= Cardinality(Server) \div 2

\* *votedNum >= m_peers.size() / 2 + 1
IsMajority(S) == Cardinality(S) >= Cardinality(Server) \div 2 + 1

Up(i) == process[i] = "up"
Peers(i) == Server \ {i}

LastLogIndex(i) ==
  IF m_logs[i] = <<>> THEN m_lastSnapshotIncludeIndex[i]
                      ELSE m_logs[i][Len(m_logs[i])].logindex

LastLogTerm(i) ==
  IF m_logs[i] = <<>> THEN m_lastSnapshotIncludeTerm[i]
                      ELSE m_logs[i][Len(m_logs[i])].logterm

\* getSlicesIndexFromLogIndex, counted from 1
Slot(i, index) == index - m_lastSnapshotIncludeIndex[i]

LogTerm(i, index) ==
  IF index = m_lastSnapshotIncludeIndex[i] THEN m_lastSnapshotIncludeTerm[i]
                                           ELSE m_logs[i][Slot(i, index)].logterm

-----------------------------------------------------------------------------
Init ==
  /\ process = [i \in Server |-> "up"]
  /\ m_currentTerm = [i \in Server |-> 0]
  /\ m_votedFor = [i \in Server |-> Nil]
  /\ m_status = [i \in Server |-> "Follower"]
  /\ m_logs = [i \in Server |-> <<>>]
  /\ m_commitIndex = [i \in Server |-> 0]
  /\ m_lastApplied = [i \in Server |-> 0]
  /\ m_nextIndex = [i \in Server |-> [j \in Server |-> 0]]
  /\ m_matchIndex = [i \in Server |-> [j \in Server |-> 0]]
  /\ m_lastSnapshotIncludeIndex = [i \in Server |-> 0]
  /\ m_lastSnapshotIncludeTerm = [i \in Server |-> 0]
  /\ applyMsgs = [i \in Server |-> <<>>]
  /\ applyChan = [i \in Server |-> <<>>]
  /\ votedNum = <<>> /\ rvCalls = {} /\ rvReplies = {}
  /\ appendNums = <<>> /\ aeCalls = {} /\ aeReplies = {}
  /\ isThreads = {} /\ isCalls = {} /\ isReplies = {}
  /\ rvWaits = {} /\ aeWaits = {} /\ isWaits = {}
  /\ commands = 0 /\ snapshots = 0 /\ restarts = 0
  /\ granted = {} /\ elected = {} /\ forgot = {}
  /\ astray = [method \in Method |-> 0]

\* A failed myAssert calls std::exit: the process is gone, with all its threads.
ExitProcess(i, assertion) == process' = [process EXCEPT ![i] = assertion]

\* An incoming term above ours: adopt it, drop the vote; step down in any case.
FollowTerm(i, term) ==
  /\ m_currentTerm' = [m_currentTerm EXCEPT ![i] = term]
  /\ m_votedFor' = [m_votedFor EXCEPT ![i] = IF term > m_currentTerm[i] THEN Nil ELSE @]
  /\ m_status' = [m_status EXCEPT ![i] = "Follower"]

-----------------------------------------------------------------------------
(* Elections                                                               *)

VoteRequest(i, j) ==
  [round |-> Len(votedNum) + 1, server |-> j, term |-> m_currentTerm[i] + 1,
   candidateid |-> i, lastlogindex |-> LastLogIndex(i), lastlogterm |-> LastLogTerm(i)]

DoElection(i) ==
  /\ Up(i) /\ m_status[i] # "Leader"
  /\ Len(votedNum) < MaxElections
  /\ m_status' = [m_status EXCEPT ![i] = "Candidate"]
  /\ m_currentTerm' = [m_currentTerm EXCEPT ![i] = @ + 1]
  /\ m_votedFor' = [m_votedFor EXCEPT ![i] = i]
  /\ votedNum' = Append(votedNum, {i})
  /\ rvCalls' = rvCalls \cup {VoteRequest(i, j) : j \in Peers(i)}
  /\ rvWaits' = rvWaits \cup {VoteRequest(i, j) : j \in Peers(i)}
  /\ granted' = granted \cup {<<m_currentTerm[i] + 1, i, i>>}
  /\ UNCHANGED <<process, logVars, indexVars, leaderVars, applyVars, rvReplies, aeVars,
                 isVars, boundVars, elected, forgot, astray>>

UpToDate(i, index, term) ==
  \/ term > LastLogTerm(i)
  \/ term = LastLogTerm(i) /\ index >= LastLogIndex(i)

AnswerVote(m, term, vote) ==
  /\ rvCalls' = rvCalls \ {m}
  /\ rvReplies' = rvReplies \cup
       {[args |-> m, term |-> term, votegranted |-> vote, received |-> FALSE]}
  /\ UNCHANGED <<process, logVars, indexVars, leaderVars, applyVars, votedNum, rvWaits, aeVars,
                 isVars, boundVars, elected, forgot, astray>>

RequestVoteExpired(m) ==
  /\ Up(m.server) /\ m.term < m_currentTerm[m.server]
  /\ AnswerVote(m, m_currentTerm[m.server], FALSE)
  /\ UNCHANGED <<termVars, granted>>

\* The vote this server has given in the term of the request, once it adopted that term.
VoteInTerm(m) == IF m.term > m_currentTerm[m.server] THEN Nil ELSE m_votedFor[m.server]

MayVote_Mutant(m) == UpToDate(m.server, m.lastlogindex, m.lastlogterm)

MayVote(m) ==
  /\ UpToDate(m.server, m.lastlogindex, m.lastlogterm)
  /\ VoteInTerm(m) \in {Nil, m.candidateid}

\* A candidate or leader that refuses a request of its own term keeps its status.
RequestVote(m) ==
  LET j == m.server IN
  /\ Up(j) /\ m.term >= m_currentTerm[j]
  /\ m_currentTerm' = [m_currentTerm EXCEPT ![j] = m.term]
  /\ m_status' = [m_status EXCEPT ![j] = IF m.term > m_currentTerm[j] THEN "Follower" ELSE @]
  /\ m_votedFor' = [m_votedFor EXCEPT ![j] = IF MayVote(m) THEN m.candidateid
                                                           ELSE VoteInTerm(m)]
  /\ granted' = IF MayVote(m) THEN granted \cup {<<m.term, j, m.candidateid>>} ELSE granted
  /\ AnswerVote(m, m.term, MayVote(m))

\* The continuation of sendRequestVote, in the candidate's process: with the reply its
\* thread has received, or with its own, received here.
TakeVoteReply(r) ==
  /\ Up(r.args.candidateid)
  /\ r.received \/ r.args \in rvWaits
  /\ rvReplies' = rvReplies \ {r}
  /\ rvWaits' = rvWaits \ {r.args}
  /\ UNCHANGED <<logVars, indexVars, applyVars, rvCalls, aeVars, isVars, boundVars, granted,
                 forgot, astray>>

SendRequestVoteHigherTerm(r) ==
  LET i == r.args.candidateid IN
  /\ TakeVoteReply(r)
  /\ r.term > m_currentTerm[i]
  /\ FollowTerm(i, r.term)
  /\ UNCHANGED <<process, leaderVars, votedNum, elected>>

SendRequestVoteIgnored(r) ==
  /\ TakeVoteReply(r)
  /\ \/ r.term < m_currentTerm[r.args.candidateid]
     \/ r.term = m_currentTerm[r.args.candidateid] /\ ~r.votegranted
  /\ UNCHANGED <<process, termVars, leaderVars, votedNum, elected>>

VotesWith(r) == votedNum[r.args.round] \cup {r.args.server}

VoteCounts_Mutant(r) ==
  TakeVoteReply(r) /\ r.term <= m_currentTerm[r.args.candidateid] /\ r.votegranted

VoteCounts(r) ==
  /\ TakeVoteReply(r)
  /\ r.term = m_currentTerm[r.args.candidateid] /\ r.votegranted

SendRequestVoteCounted(r) ==
  /\ VoteCounts(r) /\ ~IsMajority(VotesWith(r))
  /\ votedNum' = [votedNum EXCEPT ![r.args.round] = VotesWith(r)]
  /\ UNCHANGED <<process, termVars, leaderVars, elected>>

\* Nothing asks whether the server still is the candidate of this term; the myAssert in
\* between only asks that it is not the leader already.
SendRequestVoteWon(r) ==
  LET i == r.args.candidateid IN
  /\ VoteCounts(r) /\ IsMajority(VotesWith(r))
  /\ process' = [process EXCEPT ![i] = IF m_status[i] = "Leader" THEN "electedTwice" ELSE @]
  /\ votedNum' = [votedNum EXCEPT ![r.args.round] = {}]
  /\ m_status' = [m_status EXCEPT ![i] = "Leader"]
  /\ m_nextIndex' = [m_nextIndex EXCEPT ![i] = [j \in Server |-> LastLogIndex(i) + 1]]
  /\ m_matchIndex' = [m_matchIndex EXCEPT ![i] = [j \in Server |-> 0]]
  /\ elected' = elected \cup {<<m_currentTerm[i], i>>}
  /\ UNCHANGED <<m_currentTerm, m_votedFor>>

-----------------------------------------------------------------------------
(* Heartbeats and log replication                                          *)

NeedsSnapshot(i, j) == m_nextIndex[i][j] <= m_lastSnapshotIncludeIndex[i]

\* What getPrevLogInfo and the loop of doHeartBeat assert before they send to j.
CanAppend(i, j) ==
  m_nextIndex[i][j] >= 1 /\ (NeedsSnapshot(i, j) \/ m_nextIndex[i][j] - 1 <= LastLogIndex(i))

\* What a request carries: the entries from the given slot of the log to its end.
EntriesFrom_Mutant(i, slot) == SubSeq(m_logs[i], slot + 1, Len(m_logs[i]))
EntriesFrom(i, slot) == SubSeq(m_logs[i], slot, Len(m_logs[i]))

AppendTo(i, j) ==
  LET prev == m_nextIndex[i][j] - 1 IN
  [round |-> Len(appendNums) + 1, server |-> j, term |-> m_currentTerm[i], leaderid |-> i,
   prevlogindex |-> prev, prevlogterm |-> LogTerm(i, prev),
   entries |-> EntriesFrom(i, Slot(i, prev) + 1),
   leadercommit |-> m_commitIndex[i]]

\* Threads spawned for the peers in "to": a snapshot thread or an AppendEntries call.
SpawnAppends(i, to) ==
  /\ Up(i) /\ m_status[i] = "Leader"
  /\ Len(appendNums) < MaxHeartBeats
  /\ appendNums' = Append(appendNums, {i})
  /\ isThreads' = isThreads \cup
       {[round |-> Len(appendNums) + 1, server |-> j, leaderid |-> i]
        : j \in {k \in to : NeedsSnapshot(i, k)}}
  /\ aeCalls' = aeCalls \cup {AppendTo(i, j) : j \in {k \in to : ~NeedsSnapshot(i, k)}}
  /\ aeWaits' = aeWaits \cup {AppendTo(i, j) : j \in {k \in to : ~NeedsSnapshot(i, k)}}
  /\ UNCHANGED <<termVars, logVars, indexVars, leaderVars, applyVars, rvVars, aeReplies,
                 isCalls, isReplies, isWaits, boundVars, historyVars>>

DoHeartBeat(i) ==
  /\ \A j \in Peers(i) : CanAppend(i, j)
  /\ SpawnAppends(i, Peers(i))
  /\ UNCHANGED process

\* A peer's nextIndex is past the log, and the loop exits there: the peers before it in
\* m_peers (any set of them: servers are not ordered here) have their threads already.
DoHeartBeatExits(i) ==
  /\ \E j \in Peers(i) : ~CanAppend(i, j)
  /\ \E to \in SUBSET {j \in Peers(i) : CanAppend(i, j)} : SpawnAppends(i, to)
  /\ ExitProcess(i, "nextIndexBeyondLog")

AnswerAppend(m, term, success, next) ==
  /\ aeCalls' = aeCalls \ {m}
  /\ aeReplies' = aeReplies \cup
       {[args |-> m, term |-> term, success |-> success, updatenextindex |-> next,
         received |-> FALSE]}
  /\ UNCHANGED <<process, m_lastSnapshotIncludeIndex, m_lastSnapshotIncludeTerm, m_lastApplied,
                 leaderVars, applyVars, rvVars, appendNums, aeWaits, isVars, boundVars,
                 historyVars>>

AppendEntriesStale(m) ==
  /\ Up(m.server) /\ m.term < m_currentTerm[m.server]
  /\ AnswerAppend(m, m_currentTerm[m.server], FALSE, NoNextIndex)
  /\ UNCHANGED <<termVars, m_logs, m_commitIndex>>

\* The caller is the leader of this server's term, or of a later one.
HearLeader(m) ==
  /\ Up(m.server) /\ m.term >= m_currentTerm[m.server]
  /\ FollowTerm(m.server, m.term)

\* The answer to a leader that is ahead is built from the TERM of the last entry.
AheadHint_Mutant(i) == LastLogTerm(i)
AheadHint(i) == LastLogTerm(i) + 1

AppendEntriesAhead(m) ==
  /\ HearLeader(m)
  /\ m.prevlogindex > LastLogIndex(m.server)
  /\ AnswerAppend(m, m.term, FALSE, AheadHint(m.server))
  /\ UNCHANGED <<m_logs, m_commitIndex>>

AppendEntriesBeforeSnapshot(m) ==
  LET snap == m_lastSnapshotIncludeIndex[m.server] IN
  /\ HearLeader(m)
  /\ m.prevlogindex < snap
  /\ AnswerAppend(m, m.term, FALSE, snap + 1)
  /\ UNCHANGED <<m_logs, m_commitIndex>>

InLog(m) ==
  /\ m_lastSnapshotIncludeIndex[m.server] <= m.prevlogindex
  /\ m.prevlogindex <= LastLogIndex(m.server)

\* One past the last index whose term differs from that at prev, or prev if none does.
IsBackoff(i, prev, next) ==
  LET snap == m_lastSnapshotIncludeIndex[i]
      Same(k) == LogTerm(i, k) = LogTerm(i, prev)
  IN \/ next = prev /\ \A k \in snap .. prev : Same(k)
     \/ next > snap /\ ~Same(next - 1) /\ \A k \in next .. prev : Same(k)

AppendEntriesMismatch(m) ==
  /\ HearLeader(m)
  /\ InLog(m) /\ LogTerm(m.server, m.prevlogindex) # m.prevlogterm
  /\ \E next \in 0 .. m.prevlogindex :
       /\ IsBackoff(m.server, m.prevlogindex, next)
       /\ AnswerAppend(m, m.term, FALSE, next)
  /\ UNCHANGED <<m_logs, m_commitIndex>>

\* One entry of the request.  Past the end it is appended.  Otherwise the stored entry
\* keeps its command; the term is compared with and written to the entry whose zero-based
\* position is that TERM, and "wild" says that there is none.
MergeEntry(snap, st, e) ==
  LET last == IF st.logs = <<>> THEN snap ELSE st.logs[Len(st.logs)].logindex
      mine == st.logs[e.logindex - snap]
      hit  == mine.logterm + 1
  IN IF e.logindex > last THEN [st EXCEPT !.logs = Append(@, e)]
     ELSE [logs |-> IF hit <= Len(st.logs) THEN [st.logs EXCEPT ![hit].logterm = e.logterm]
                                           ELSE st.logs,
           differs |-> st.differs \/ (mine.logterm = e.logterm /\ mine.command # e.command),
           wild |-> st.wild \/ hit > Len(st.logs)]

MergeEntries(snap, logs, entries) ==
  LET merged[n \in 0 .. Len(entries)] ==
        IF n = 0 THEN [logs |-> logs, differs |-> FALSE, wild |-> FALSE]
                 ELSE MergeEntry(snap, merged[n - 1], entries[n])
  IN merged[Len(entries)]

Merged(m) ==
  MergeEntries(m_lastSnapshotIncludeIndex[m.server], m_logs[m.server], m.entries)

Matches(m) ==
  /\ HearLeader(m)
  /\ InLog(m) /\ LogTerm(m.server, m.prevlogindex) = m.prevlogterm

\* An access outside m_logs either hits memory nobody reads, which is this action too,
\* or kills the process: AppendEntriesWild.
AppendEntriesMatch(m) ==
  LET j == m.server
      new == Merged(m).logs
      last == IF new = <<>> THEN m_lastSnapshotIncludeIndex[j] ELSE new[Len(new)].logindex
  IN /\ Matches(m) /\ ~Merged(m).differs
     /\ m_logs' = [m_logs EXCEPT ![j] = new]
     /\ m_commitIndex' = [m_commitIndex EXCEPT
          ![j] = IF m.leadercommit > @ THEN Smaller(m.leadercommit, last) ELSE @]
     /\ AnswerAppend(m, m.term, TRUE, 0)

\* The handler does not return: the call is consumed, the process and its log are gone.
DieInAppend(m, assertion) ==
  /\ ExitProcess(m.server, assertion)
  /\ aeCalls' = aeCalls \ {m}
  /\ UNCHANGED <<logVars, indexVars, leaderVars, applyVars, rvVars, appendNums, aeReplies,
                 aeWaits, isVars, boundVars, historyVars>>

AppendEntriesWild(m) == Matches(m) /\ Merged(m).wild /\ DieInAppend(m, "wildSlot")

AppendEntriesDiffers(m) == Matches(m) /\ Merged(m).differs /\ DieInAppend(m, "commandDiffers")

\* The continuation of sendAppendEntries, in the process that sent the heartbeat.
TakeAppendReply(r) ==
  /\ Up(r.args.leaderid)
  /\ r.received \/ r.args \in aeWaits
  /\ aeReplies' = aeReplies \ {r}
  /\ aeWaits' = aeWaits \ {r.args}
  /\ UNCHANGED <<process, logVars, m_lastApplied, applyVars, rvVars, aeCalls, isVars, boundVars,
                 granted, elected, astray>>

\* The reply's term is above ours: the term taken over is that of our own REQUEST.
SendAppendEntriesHigherTerm(r) ==
  LET i == r.args.leaderid IN
  /\ TakeAppendReply(r)
  /\ r.term > m_currentTerm[i]
  /\ m_status' = [m_status EXCEPT ![i] = "Follower"]
  /\ m_currentTerm' = [m_currentTerm EXCEPT ![i] = r.args.term]
  /\ m_votedFor' = [m_votedFor EXCEPT ![i] = Nil]
  /\ forgot' = forgot \cup {i}
  /\ UNCHANGED <<m_commitIndex, leaderVars, appendNums>>

SendAppendEntriesIgnored(r) ==
  LET i == r.args.leaderid IN
  /\ TakeAppendReply(r)
  /\ \/ r.term < m_currentTerm[i]
     \/ r.term = m_currentTerm[i] /\ m_status[i] # "Leader"
  /\ UNCHANGED <<termVars, m_commitIndex, leaderVars, appendNums, forgot>>

LeaderTakes(r) ==
  /\ TakeAppendReply(r)
  /\ r.term = m_currentTerm[r.args.leaderid] /\ m_status[r.args.leaderid] = "Leader"
  /\ UNCHANGED <<termVars, forgot>>

SendAppendEntriesRefused_Mutant(r) ==
  /\ LeaderTakes(r) /\ ~r.success
  /\ m_nextIndex' = [m_nextIndex EXCEPT ![r.args.leaderid][r.args.server] = r.updatenextindex]
  /\ UNCHANGED <<m_commitIndex, m_matchIndex, appendNums>>

SendAppendEntriesRefused(r) ==
  /\ LeaderTakes(r) /\ ~r.success
  /\ m_nextIndex' = IF r.updatenextindex = NoNextIndex THEN m_nextIndex
       ELSE [m_nextIndex EXCEPT ![r.args.leaderid][r.args.server] = r.updatenextindex]
  /\ UNCHANGED <<m_commitIndex, m_matchIndex, appendNums>>

\* The last index that a request carries.
LastSent(m) == m.prevlogindex + Len(m.entries)

Acked(r) == appendNums[r.args.round] \cup {r.args.server}

\* Only a request that ends with an entry of the current term commits, up to that entry.
Commits(r) ==
  LET sent == r.args.entries IN
  /\ IsMajority(Acked(r))
  /\ sent # <<>> /\ sent[Len(sent)].logterm = m_currentTerm[r.args.leaderid]

CommitAfter_Mutant(r) ==
  IF Commits(r) THEN LastLogIndex(r.args.leaderid) ELSE m_commitIndex[r.args.leaderid]

CommitAfter(r) ==
  LET commit == m_commitIndex[r.args.leaderid] IN
  IF Commits(r) THEN Larger(commit, LastSent(r.args)) ELSE commit

SendAppendEntriesAccepted(r) ==
  LET i == r.args.leaderid
      j == r.args.server
      match == Larger(m_matchIndex[i][j], LastSent(r.args))
  IN /\ LeaderTakes(r) /\ r.success
     /\ m_matchIndex' = [m_matchIndex EXCEPT ![i][j] = match]
     /\ m_nextIndex' = [m_nextIndex EXCEPT ![i][j] = match + 1]
     /\ appendNums' = [appendNums EXCEPT
          ![r.args.round] = IF IsMajority(Acked(r)) THEN {} ELSE Acked(r)]
     /\ m_commitIndex' = [m_commitIndex EXCEPT ![i] = CommitAfter(r)]

\* KvServer hands a command over; on a server that does not lead, nothing happens.
Start(i) ==
  /\ Up(i) /\ m_status[i] = "Leader"
  /\ commands < MaxCommands
  /\ commands' = commands + 1
  /\ m_logs' = [m_logs EXCEPT ![i] = Append(@,
       [logindex |-> LastLogIndex(i) + 1, logterm |-> m_currentTerm[i],
        command |-> commands + 1])]
  /\ UNCHANGED <<process, termVars, m_lastSnapshotIncludeIndex, m_lastSnapshotIncludeTerm,
                 indexVars, leaderVars, applyVars, rvVars, aeVars, isVars, snapshots, restarts,
                 historyVars>>

-----------------------------------------------------------------------------
(* applierTicker: one thread per process; collects under the lock, pushes without it. *)

CommandMsg(i, index) ==
  [snapshot |-> FALSE, index |-> index, command |-> m_logs[i][Slot(i, index)].command]

Batch_Mutant(i) ==
  [k \in 1 .. m_commitIndex[i] - m_lastApplied[i] - 1 |-> CommandMsg(i, m_lastApplied[i] + k)]

Batch(i) ==
  [k \in 1 .. m_commitIndex[i] - m_lastApplied[i] |-> CommandMsg(i, m_lastApplied[i] + k)]

GetApplyLogs(i) ==
  /\ Up(i) /\ applyMsgs[i] = <<>>
  /\ m_lastApplied[i] < m_commitIndex[i]
  /\ applyMsgs' = [applyMsgs EXCEPT ![i] = Batch(i)]
  /\ m_lastApplied' = [m_lastApplied EXCEPT ![i] = m_commitIndex[i]]
  /\ UNCHANGED <<process, termVars, logVars, m_commitIndex, leaderVars, applyChan, rvVars,
                 aeVars, isVars, boundVars, historyVars>>

PushApplyMsg(i) ==
  /\ Up(i) /\ applyMsgs[i] # <<>>
  /\ applyChan' = [applyChan EXCEPT ![i] = Append(@, Head(applyMsgs[i]))]
  /\ applyMsgs' = [applyMsgs EXCEPT ![i] = Tail(@)]
  /\ UNCHANGED <<process, termVars, logVars, indexVars, leaderVars, rvVars, aeVars, isVars,
                 boundVars, historyVars>>

-----------------------------------------------------------------------------
(* Snapshots                                                               *)

\* Also what is committed and not yet applied counts as applied from here on.
AppliedAfterSnapshot_Mutant(i, index) == index
AppliedAfterSnapshot(i, index) == Larger(m_commitIndex[i], index)

\* The entries that stay when the snapshot reaches index.
LogAfter_Mutant(i, index) == <<>>
LogAfter(i, index) ==
  IF LastLogIndex(i) > index THEN EntriesFrom(i, Slot(i, index) + 1) ELSE <<>>

\* KvServer has executed the command at index, a message it took from applyChan, and
\* hands its state over.
Snapshot(i, index) ==
  /\ Up(i)
  /\ m_lastSnapshotIncludeIndex[i] < index /\ index <= m_commitIndex[i]
  /\ snapshots < MaxSnapshots
  /\ snapshots' = snapshots + 1
  /\ m_lastSnapshotIncludeIndex' = [m_lastSnapshotIncludeIndex EXCEPT ![i] = index]
  /\ m_lastSnapshotIncludeTerm' = [m_lastSnapshotIncludeTerm EXCEPT ![i] = LogTerm(i, index)]
  /\ m_logs' = [m_logs EXCEPT ![i] = LogAfter(i, index)]
  /\ m_lastApplied' = [m_lastApplied EXCEPT ![i] = AppliedAfterSnapshot(i, index)]
  /\ UNCHANGED <<process, termVars, m_commitIndex, leaderVars, applyVars, rvVars, aeVars,
                 isVars, commands, restarts, historyVars>>

SnapshotOfExecuted(i) ==
  \E k \in DOMAIN applyChan[i] : ~applyChan[i][k].snapshot /\ Snapshot(i, applyChan[i][k].index)

\* The first half of leaderSendSnapShot: the thread fills the arguments when it gets the
\* lock, whatever the server has become since doHeartBeat spawned it.
LeaderSendSnapShot(t) ==
  LET i == t.leaderid
      call == [round |-> t.round, server |-> t.server, term |-> m_currentTerm[i], leaderid |-> i,
               lastsnapshotincludeindex |-> m_lastSnapshotIncludeIndex[i],
               lastsnapshotincludeterm |-> m_lastSnapshotIncludeTerm[i]]
  IN
  /\ Up(i)
  /\ isThreads' = isThreads \ {t}
  /\ isCalls' = isCalls \cup {call}
  /\ isWaits' = isWaits \cup {call}
  /\ UNCHANGED <<process, termVars, logVars, indexVars, leaderVars, applyVars, rvVars, aeVars,
                 isReplies, boundVars, historyVars>>

AnswerInstall(m, replies) ==
  /\ isCalls' = isCalls \ {m}
  /\ isReplies' = isReplies \cup replies
  /\ UNCHANGED <<process, leaderVars, applyMsgs, rvVars, aeVars, isThreads, boundVars,
                 historyVars>>

InstallReply(m, term, received) == [args |-> m, term |-> term, received |-> received]

InstallSnapshotStale(m) ==
  /\ Up(m.server) /\ m.term < m_currentTerm[m.server]
  /\ AnswerInstall(m, {InstallReply(m, m_currentTerm[m.server], FALSE)})
  /\ UNCHANGED <<termVars, logVars, indexVars, applyChan, isWaits>>

\* This server's snapshot is as recent: nothing is set in the reply, which makes it a
\* message of no bytes, and nothing is sent.
InstallSnapshotOld(m) ==
  /\ HearLeader(m)
  /\ m.lastsnapshotincludeindex <= m_lastSnapshotIncludeIndex[m.server]
  /\ AnswerInstall(m, {})
  /\ UNCHANGED <<logVars, indexVars, applyChan, isWaits>>

InstallSnapshot(m) ==
  LET j == m.server
      index == m.lastsnapshotincludeindex
  IN /\ HearLeader(m)
     /\ index > m_lastSnapshotIncludeIndex[j]
     /\ m_logs' = [m_logs EXCEPT ![j] = LogAfter(j, index)]
     /\ m_commitIndex' = [m_commitIndex EXCEPT ![j] = Larger(@, index)]
     /\ m_lastApplied' = [m_lastApplied EXCEPT ![j] = Larger(@, index)]
     /\ m_lastSnapshotIncludeIndex' = [m_lastSnapshotIncludeIndex EXCEPT ![j] = index]
     /\ m_lastSnapshotIncludeTerm' =
          [m_lastSnapshotIncludeTerm EXCEPT ![j] = m.lastsnapshotincludeterm]
     /\ applyChan' = [applyChan EXCEPT
          ![j] = Append(@, [snapshot |-> TRUE, index |-> index, command |-> 0])]
     /\ AnswerInstall(m, {InstallReply(m, m.term, FALSE)})
     /\ UNCHANGED isWaits

\* The peer is gone: recv() returns 0 in MprpcChannel, the empty reply parses, and the
\* call counts as answered, with term 0.  (Empty votes and append replies are ignored.)
InstallSnapshotPeerGone(m) ==
  /\ ~Up(m.server) /\ Up(m.leaderid)
  /\ AnswerInstall(m, {InstallReply(m, 0, TRUE)})
  /\ isWaits' = isWaits \ {m}
  /\ UNCHANGED <<termVars, logVars, indexVars, applyChan>>

\* The second half of leaderSendSnapShot.
TakeInstallReply(r) ==
  /\ Up(r.args.leaderid)
  /\ r.received \/ r.args \in isWaits
  /\ isReplies' = isReplies \ {r}
  /\ isWaits' = isWaits \ {r.args}
  /\ UNCHANGED <<process, logVars, indexVars, applyVars, rvVars, aeVars, isThreads, isCalls,
                 boundVars, historyVars>>

LeadsStill(r) ==
  m_status[r.args.leaderid] = "Leader" /\ m_currentTerm[r.args.leaderid] = r.args.term

LeaderSendSnapShotIgnored(r) ==
  TakeInstallReply(r) /\ ~LeadsStill(r) /\ UNCHANGED <<termVars, leaderVars>>

LeaderSendSnapShotHigherTerm(r) ==
  /\ TakeInstallReply(r) /\ LeadsStill(r)
  /\ r.term > m_currentTerm[r.args.leaderid]
  /\ FollowTerm(r.args.leaderid, r.term)
  /\ UNCHANGED leaderVars

LeaderSendSnapShotDone(r) ==
  LET i == r.args.leaderid
      j == r.args.server
  IN /\ TakeInstallReply(r) /\ LeadsStill(r)
     /\ r.term <= m_currentTerm[i]
     /\ m_matchIndex' = [m_matchIndex EXCEPT ![i][j] = r.args.lastsnapshotincludeindex]
     /\ m_nextIndex' = [m_nextIndex EXCEPT ![i][j] = r.args.lastsnapshotincludeindex + 1]
     /\ UNCHANGED termVars

-----------------------------------------------------------------------------
(* Replies that go astray: MprpcChannel::CallMethod sends and receives without a lock on the
   connection of the peer, for all the threads that call it.                              *)

\* What the peer has answered to this server and no thread has received.  In what order a
\* socket holds it is left open.
OnWire(i, peer) ==
  {r \in rvReplies : ~r.received /\ r.args.candidateid = i /\ r.args.server = peer} \cup
  {r \in aeReplies : ~r.received /\ r.args.leaderid = i /\ r.args.server = peer} \cup
  {r \in isReplies : ~r.received /\ r.args.leaderid = i /\ r.args.server = peer}

\* A thread of i in recv() gets these replies, run together if there are several: not just
\* the one to its own call.  Its own is then left for whoever receives next.
ReceiveOthers(method, i, call, replies) ==
  /\ Up(i) /\ astray[method] < MaxAstray
  /\ replies \subseteq OnWire(i, call.server)
  /\ {r.args : r \in replies} \notin {{}, {call}}
  /\ astray' = [astray EXCEPT ![method] = @ + 1]
  /\ UNCHANGED <<process, termVars, logVars, indexVars, leaderVars, applyVars, boundVars,
                 votedNum, rvCalls, appendNums, aeCalls, isThreads, isCalls, granted, elected,
                 forgot>>

\* The three reply classes number their fields alike, so any reply parses as any other:
\* VoteGranted is Success and VoteState is UpdateNextIndex.  Of replies run together, each
\* field is the last that is not 0, and a flag is set if one of them sets it.
Flag(replies) ==
  \/ \E r \in replies \cap rvReplies : r.votegranted
  \/ \E r \in replies \cap aeReplies : r.success

Terms(replies) == {r.term : r \in replies}

NextIndexes(replies) ==
  IF Flag(replies) THEN {0}
  ELSE {r.updatenextindex : r \in replies \cap aeReplies} \cup
       (IF replies \cap rvReplies = {} THEN {} ELSE {Voted, Expire})

RequestVoteAstray(m, replies) ==
  /\ ReceiveOthers("RequestVote", m.candidateid, m, replies)
  /\ \E term \in Terms(replies) :
       rvReplies' = (rvReplies \ replies) \cup
         {[args |-> m, term |-> term, votegranted |-> Flag(replies), received |-> TRUE]}
  /\ rvWaits' = rvWaits \ {m}
  /\ aeReplies' = aeReplies \ replies /\ isReplies' = isReplies \ replies
  /\ UNCHANGED <<aeWaits, isWaits>>

\* Without an AppendEntriesReply among them AppState is 0, Disconnected, and the thread ends.
AppendEntriesAstray(m, replies) ==
  /\ ReceiveOthers("AppendEntries", m.leaderid, m, replies)
  /\ \/ replies \cap aeReplies = {} /\ aeReplies' = aeReplies
     \/ /\ replies \cap aeReplies # {}
        /\ \E term \in Terms(replies), next \in NextIndexes(replies) :
             aeReplies' = (aeReplies \ replies) \cup
               {[args |-> m, term |-> term, success |-> Flag(replies),
                 updatenextindex |-> next, received |-> TRUE]}
  /\ aeWaits' = aeWaits \ {m}
  /\ rvReplies' = rvReplies \ replies /\ isReplies' = isReplies \ replies
  /\ UNCHANGED <<rvWaits, isWaits>>

InstallSnapshotAstray(m, replies) ==
  /\ ReceiveOthers("InstallSnapShot", m.leaderid, m, replies)
  /\ \E term \in Terms(replies) :
       isReplies' = (isReplies \ replies) \cup {InstallReply(m, term, TRUE)}
  /\ isWaits' = isWaits \ {m}
  /\ rvReplies' = rvReplies \ replies /\ aeReplies' = aeReplies \ replies
  /\ UNCHANGED <<rvWaits, aeWaits>>

-----------------------------------------------------------------------------
(* Processes                                                               *)

Kill(i) ==
  /\ Up(i) /\ restarts < MaxRestarts
  /\ ExitProcess(i, "killed")
  /\ UNCHANGED <<termVars, logVars, indexVars, leaderVars, applyVars, rvVars, aeVars, isVars,
                 boundVars, historyVars>>

\* Raft::init after Persister's constructor has truncated both files.  No thread and no
\* connection of the old process is left: KvServer sleeps before it connects to the peers.
Restart(i) ==
  /\ ~Up(i) /\ restarts < MaxRestarts
  /\ restarts' = restarts + 1
  /\ process' = [process EXCEPT ![i] = "up"]
  /\ m_currentTerm' = [m_currentTerm EXCEPT ![i] = 0]
  /\ m_votedFor' = [m_votedFor EXCEPT ![i] = Nil]
  /\ m_status' = [m_status EXCEPT ![i] = "Follower"]
  /\ m_logs' = [m_logs EXCEPT ![i] = <<>>]
  /\ m_commitIndex' = [m_commitIndex EXCEPT ![i] = 0]
  /\ m_lastApplied' = [m_lastApplied EXCEPT ![i] = 0]
  /\ m_nextIndex' = [m_nextIndex EXCEPT ![i] = [j \in Server |-> 0]]
  /\ m_matchIndex' = [m_matchIndex EXCEPT ![i] = [j \in Server |-> 0]]
  /\ m_lastSnapshotIncludeIndex' = [m_lastSnapshotIncludeIndex EXCEPT ![i] = 0]
  /\ m_lastSnapshotIncludeTerm' = [m_lastSnapshotIncludeTerm EXCEPT ![i] = 0]
  /\ applyMsgs' = [applyMsgs EXCEPT ![i] = <<>>]
  /\ applyChan' = [applyChan EXCEPT ![i] = <<>>]
  /\ rvCalls' = {m \in rvCalls : i \notin {m.server, m.candidateid}}
  /\ rvReplies' = {r \in rvReplies : i \notin {r.args.server, r.args.candidateid}}
  /\ aeCalls' = {m \in aeCalls : i \notin {m.server, m.leaderid}}
  /\ aeReplies' = {r \in aeReplies : i \notin {r.args.server, r.args.leaderid}}
  /\ isThreads' = {t \in isThreads : t.leaderid # i}
  /\ isCalls' = {m \in isCalls : i \notin {m.server, m.leaderid}}
  /\ isReplies' = {r \in isReplies : i \notin {r.args.server, r.args.leaderid}}
  /\ rvWaits' = {m \in rvWaits : i \notin {m.server, m.candidateid}}
  /\ aeWaits' = {m \in aeWaits : i \notin {m.server, m.leaderid}}
  /\ isWaits' = {m \in isWaits : i \notin {m.server, m.leaderid}}
  /\ forgot' = forgot \cup {i}
  /\ UNCHANGED <<votedNum, appendNums, commands, snapshots, granted, elected, astray>>

-----------------------------------------------------------------------------
ElectionStep ==
  \/ \E i \in Server : DoElection(i)
  \/ \E m \in rvCalls : RequestVoteExpired(m) \/ RequestVote(m)
  \/ \E r \in rvReplies : \/ SendRequestVoteHigherTerm(r)
                          \/ SendRequestVoteIgnored(r)
                          \/ SendRequestVoteCounted(r)
                          \/ SendRequestVoteWon(r)

AppendStep ==
  \/ \E i \in Server : DoHeartBeat(i) \/ DoHeartBeatExits(i) \/ Start(i)
  \/ \E m \in aeCalls : \/ AppendEntriesStale(m)
                        \/ AppendEntriesAhead(m)
                        \/ AppendEntriesBeforeSnapshot(m)
                        \/ AppendEntriesMismatch(m)
                        \/ AppendEntriesMatch(m)
                        \/ AppendEntriesWild(m)
                        \/ AppendEntriesDiffers(m)
  \/ \E r \in aeReplies : \/ SendAppendEntriesHigherTerm(r)
                          \/ SendAppendEntriesIgnored(r)
                          \/ SendAppendEntriesRefused(r)
                          \/ SendAppendEntriesAccepted(r)

ApplyStep == \E i \in Server : GetApplyLogs(i) \/ PushApplyMsg(i)

SnapshotStep ==
  \/ \E i \in Server : SnapshotOfExecuted(i)
  \/ \E t \in isThreads : LeaderSendSnapShot(t)
  \/ \E m \in isCalls : \/ InstallSnapshotStale(m)
                        \/ InstallSnapshotOld(m)
                        \/ InstallSnapshot(m)
  \/ \E m \in isWaits : InstallSnapshotPeerGone(m)
  \/ \E r \in isReplies : \/ LeaderSendSnapShotIgnored(r)
                          \/ LeaderSendSnapShotHigherTerm(r)
                          \/ LeaderSendSnapShotDone(r)

AstrayStep ==
  \/ \E m \in rvWaits : \E replies \in SUBSET OnWire(m.candidateid, m.server) :
       RequestVoteAstray(m, replies)
  \/ \E m \in aeWaits : \E replies \in SUBSET OnWire(m.leaderid, m.server) :
       AppendEntriesAstray(m, replies)
  \/ \E m \in isWaits : \E replies \in SUBSET OnWire(m.leaderid, m.server) :
       InstallSnapshotAstray(m, replies)

ProcessStep == \E i \in Server : Kill(i) \/ Restart(i)

Next == ElectionStep \/ AppendStep \/ ApplyStep \/ SnapshotStep \/ AstrayStep \/ ProcessStep

Spec == Init /\ [][Next]_vars

\* applierTicker is a thread that does nothing else and never waits for long.
FairSpec == Spec /\ \A i \in Server : WF_vars(GetApplyLogs(i)) /\ WF_vars(PushApplyMsg(i))

-----------------------------------------------------------------------------
(* Properties                                                              *)

Process == {"up", "killed", "electedTwice", "nextIndexBeyondLog", "wildSlot", "commandDiffers"}

\* Every field holds a value of its C++ type, and what is unsigned by intent is.
TypeOK ==
  /\ process \in [Server -> Process]
  /\ m_currentTerm \in [Server -> Nat]
  /\ m_votedFor \in [Server -> Server \cup {Nil}]
  /\ m_status \in [Server -> Status]
  /\ m_logs \in [Server -> Seq(LogEntry)]
  /\ m_commitIndex \in [Server -> Nat]
  /\ m_lastApplied \in [Server -> Nat]
  /\ m_nextIndex \in [Server -> [Server -> Nat]]
  /\ m_matchIndex \in [Server -> [Server -> Nat]]
  /\ m_lastSnapshotIncludeIndex \in [Server -> Nat]
  /\ m_lastSnapshotIncludeTerm \in [Server -> Nat]
  /\ applyMsgs \in [Server -> Seq(ApplyMsg)]
  /\ applyChan \in [Server -> Seq(ApplyMsg)]
  /\ votedNum \in Seq(SUBSET Server) /\ appendNums \in Seq(SUBSET Server)
  /\ rvCalls \subseteq RequestVoteArgs /\ rvReplies \subseteq RequestVoteReply
  /\ aeCalls \subseteq AppendEntriesArgs /\ aeReplies \subseteq AppendEntriesReply
  /\ isThreads \subseteq SnapshotThread
  /\ isCalls \subseteq InstallSnapshotRequest /\ isReplies \subseteq InstallSnapShotResponse
  /\ rvWaits \subseteq RequestVoteArgs /\ aeWaits \subseteq AppendEntriesArgs
  /\ isWaits \subseteq InstallSnapshotRequest
  /\ {commands, snapshots, restarts} \subseteq Nat
  /\ granted \subseteq Nat \X Server \X Server
  /\ elected \subseteq Nat \X Server
  /\ forgot \subseteq Server
  /\ astray \in [Method -> Nat]

\* Every append request there is: waiting for its handler, or kept by its sender's thread.
AppendsInFlight == aeCalls \cup {r.args : r \in aeReplies} \cup aeWaits

\* The invariant behind the slice arithmetic of getSlicesIndexFromLogIndex: log indexes
\* run on from the snapshot without a gap, in every log and in every request, although
\* followers take over whatever suffix they are sent.
LogContiguous ==
  /\ \A i \in Server : \A k \in DOMAIN m_logs[i] :
       m_logs[i][k].logindex = m_lastSnapshotIncludeIndex[i] + k
  /\ \A m \in AppendsInFlight : \A k \in DOMAIN m.entries :
       m.entries[k].logindex = m.prevlogindex + k

\* The asserts of getApplyLogs and sendAppendEntries: the snapshot is not ahead of what is
\* applied, nor that of what is committed, nor that of the log, also after a snapshot from
\* a leader with a shorter log and a commit index from one with a longer.
CursorOrder ==
  \A i \in Server :
    /\ m_lastSnapshotIncludeIndex[i] <= m_lastApplied[i]
    /\ m_lastApplied[i] <= m_commitIndex[i]
    /\ m_commitIndex[i] <= LastLogIndex(i)

\* Why a leader never commits past its own log, although it commits what a reply to an old
\* round acknowledges: no request in flight, nor any whose reply is still to be handled,
\* reaches past the log of its sender, whatever that server has been since.
SentWithinLog ==
  \A m \in AppendsInFlight : LastSent(m) <= LastLogIndex(m.leaderid)

\* The asserts on the leader's view of its peers, whose numbers come from replies to
\* requests of any earlier round: never past its own log, never before the first entry.
ReplicationCursors ==
  \A i \in Server : m_status[i] = "Leader" =>
    \A j \in Peers(i) : m_nextIndex[i][j] >= 1 /\ m_matchIndex[i][j] <= LastLogIndex(i)

\* While its process lives, a server never loses the end of its log, a commit, an applied
\* index or a snapshot: KvServer counts on it when it waits for the index of its command.
NothingGoesBack ==
  [][\A i \in Server : Up(i) /\ Up(i)' =>
       /\ LastLogIndex(i)' >= LastLogIndex(i)
       /\ m_commitIndex'[i] >= m_commitIndex[i]
       /\ m_lastApplied'[i] >= m_lastApplied[i]
       /\ m_lastSnapshotIncludeIndex'[i] >= m_lastSnapshotIncludeIndex[i]]_vars

\* What the per-round counters of sendAppendEntries are for: an index is committed, anywhere,
\* only when the logs of a majority reach it (no word on what these logs hold there).  Two
\* things break it, and it is claimed without them: a server that begins anew has lost its
\* log, and the majority with it; and a thread that is given the success of another round,
\* or a vote, commits what its own request carried, although no peer need have it.
CommitIndexOnQuorum ==
  restarts = 0 /\ astray["AppendEntries"] = 0 =>
    \A i \in Server : m_commitIndex[i] > 0 =>
      IsMajority({j \in Server : LastLogIndex(j) >= m_commitIndex[i]})

\* What the per-round counters of sendRequestVote are for: whoever was elected had been
\* given a majority of the votes of that very term, whatever replies came late - as long as
\* each came to the thread that asked.  No code sees to that: reply->term is compared with
\* m_currentTerm, never with args->term, and a grant given to the thread of an earlier round
\* counts there.  Replies that go astray to the threads of other methods do no harm here.
LeaderQuorum ==
  astray["RequestVote"] = 0 =>
  \A e \in elected : IsMajority({v \in Server : <<e[1], v, e[2]>> \in granted})

\* Two leaders of one term need a server that voted for both, and such a server must have
\* gone through the one step that loses a vote: see ElectionSafety for that step.  Again
\* without a vote that reached another round's thread.
ElectionSafetyUnlessForgot ==
  astray["RequestVote"] = 0 =>
  \A d, e \in elected : d[1] = e[1] /\ d[2] # e[2] =>
    \E v \in forgot : {<<d[1], v, d[2]>>, <<d[1], v, e[2]>>} \subseteq granted

\* The assert of sendRequestVote, "同一个term当两次领导": a round that has won does not win
\* again when the rest of its votes comes in.  Two things make it fail: a server that took a
\* lower term holds two rounds in one term, and the votes of both count; and a thread that
\* is given a vote of a later round wins its own round in that term.
ElectedTwiceOnlyIfForgot ==
  \A i \in Server : process[i] = "electedTwice" => i \in forgot \/ astray["RequestVote"] > 0

\* applierTicker reports commands one at a time without the lock, while InstallSnapshot
\* moves m_lastApplied: no command is reported twice or after a later one.
CommandsReportedInOrder ==
  \A i \in Server :
    LET reported == applyChan[i] \o applyMsgs[i]
    IN \A k, l \in 1 .. Len(reported) :
         k < l /\ ~reported[k].snapshot /\ ~reported[l].snapshot =>
           reported[k].index < reported[l].index

\* m_lastApplied is "已经汇报给上层状态机的最新日志的index": every index up to it was reported (or is
\* in the batch being reported).  With snapshots it is not so: InstallSnapshot moves
\* m_lastApplied over committed commands, which the snapshot reports only if it gets there.
AppliedIsReported ==
  snapshots = 0 =>
    \A i \in Server : \A index \in 1 .. m_lastApplied[i] :
      \E k \in 1 .. Len(applyChan[i] \o applyMsgs[i]) : (applyChan[i] \o applyMsgs[i])[k].index = index

\* A committed index is reported in the end, if the process lives: applierTicker misses none.
CommittedIsReported ==
  \A i \in Server : \A index \in 1 .. MaxCommands :
    m_commitIndex[i] >= index ~>
      (\E k \in DOMAIN applyChan[i] : applyChan[i][k].index >= index) \/ ~Up(i)

(* What the comments and asserts of raft.cpp claim and the code does not keep. *)

\* What the votes are for: a term has at most one leader.
ElectionSafety == \A d, e \in elected : d[1] = e[1] => d[2] = e[2]

\* "超过一半的节点同步成功，可以提交了": the entry a leader has committed in its own term is,
\* with its command, in the logs (or snapshots) of a majority.
CommittedEntryOnMajority ==
  \A i \in Server : Up(i) /\ m_status[i] = "Leader" =>
    \A k \in DOMAIN m_logs[i] :
      LET entry == m_logs[i][k] IN
      entry.logterm = m_currentTerm[i] /\ entry.logindex <= m_commitIndex[i] =>
        IsMajority({j \in Server : \/ m_lastSnapshotIncludeIndex[j] >= entry.logindex
                                   \/ \E l \in DOMAIN m_logs[j] :
                                        /\ m_logs[j][l].logindex = entry.logindex
                                        /\ m_logs[j][l].command = entry.command})

-----------------------------------------------------------------------------
(* The contract with KvServer                                              *)

\* What i may still report: its log, and the batch that applierTicker has collected.
Known(i) ==
  LET pending == {applyMsgs[i][k] : k \in DOMAIN applyMsgs[i]} IN
  [x \in {m_logs[i][k].logindex : k \in DOMAIN m_logs[i]} \cup {msg.index : msg \in pending} |->
     IF x > m_lastSnapshotIncludeIndex[i] THEN m_logs[i][Slot(i, x)].command
     ELSE (CHOOSE msg \in pending : msg.index = x).command]

Promise == INSTANCE ReplicatedLog WITH
  started <- 1 .. commands,
  known <- [i \in Server |-> Known(i)],
  end <- [i \in Server |-> LastLogIndex(i)],
  fed <- applyChan

\* Raft implements ReplicatedLog: an index that Start gave out is never given again nor
\* filled by another leader, and what is reported at it is the command it was given for,
\* each index once and in order, whatever leaders, snapshots and late requests come between.
KeepsPromise == Promise!Spec

====
