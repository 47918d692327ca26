---- MODULE RaftReplicationProofs ----
(***************************************************************************)
(* Proofs about what Raft replicates, for every number of servers and      *)
(* every bound: the leader's cursors, the commit index, and what is        *)
(* reported to KvServer.  Each part has an inductive invariant of its own  *)
(* on top of IndInv, and uses what the parts before it have proved.        *)
(***************************************************************************)
EXTENDS RaftElectionProofs

-----------------------------------------------------------------------------
(* What the groups of steps leave alone.                                   *)

\* The voting protocol.
LEMMA ElectionFrame ==
  ASSUME ElectionStep
  PROVE  UNCHANGED <<logVars, indexVars, applyVars, aeVars, isVars, boundVars>>
BY DEF ElectionStep, DoElection, RequestVoteExpired, RequestVote, AnswerVote, TakeVoteReply,
       SendRequestVoteHigherTerm, SendRequestVoteIgnored, SendRequestVoteCounted, VoteCounts,
       SendRequestVoteWon

\* Log replication.
LEMMA AppendFrame ==
  ASSUME AppendStep
  PROVE  UNCHANGED <<m_lastSnapshotIncludeIndex, m_lastSnapshotIncludeTerm, m_lastApplied,
                     applyVars, rvVars, isCalls, isReplies, isWaits, snapshots, restarts>>
<1>1. ASSUME NEW i \in Server, DoHeartBeat(i) \/ DoHeartBeatExits(i)
      PROVE  UNCHANGED <<logVars, indexVars, applyVars, rvVars, isCalls, isReplies, isWaits,
                         boundVars>>
  BY <1>1 DEF DoHeartBeat, DoHeartBeatExits, SpawnAppends
<1>2. ASSUME NEW m \in aeCalls,
             \/ AppendEntriesStale(m) \/ AppendEntriesAhead(m)
             \/ AppendEntriesBeforeSnapshot(m) \/ AppendEntriesMismatch(m)
             \/ AppendEntriesMatch(m) \/ AppendEntriesWild(m) \/ AppendEntriesDiffers(m)
      PROVE  UNCHANGED <<m_lastSnapshotIncludeIndex, m_lastSnapshotIncludeTerm, m_lastApplied,
                         applyVars, rvVars, isVars, boundVars>>
  BY <1>2 DEF AppendEntriesStale, AppendEntriesAhead, AppendEntriesBeforeSnapshot,
     AppendEntriesMismatch, AppendEntriesMatch, AppendEntriesWild, AppendEntriesDiffers,
     AnswerAppend, DieInAppend, logVars, indexVars
<1>3. ASSUME NEW r \in aeReplies,
             \/ SendAppendEntriesHigherTerm(r) \/ SendAppendEntriesIgnored(r)
             \/ SendAppendEntriesRefused(r) \/ SendAppendEntriesAccepted(r)
      PROVE  UNCHANGED <<logVars, m_lastApplied, applyVars, rvVars, isVars, boundVars>>
  BY <1>3 DEF SendAppendEntriesHigherTerm, SendAppendEntriesIgnored, SendAppendEntriesRefused,
     SendAppendEntriesAccepted, LeaderTakes, TakeAppendReply
<1> QED BY <1>1, <1>2, <1>3 DEF AppendStep, Start, logVars, indexVars, isVars, boundVars

\* applierTicker.
LEMMA ApplyFrame ==
  ASSUME ApplyStep
  PROVE  UNCHANGED <<process, termVars, logVars, m_commitIndex, leaderVars, rvVars, aeVars,
                     isVars, boundVars, historyVars>>
BY DEF ApplyStep, GetApplyLogs, PushApplyMsg, indexVars

\* Snapshots.
LEMMA SnapshotFrame ==
  ASSUME SnapshotStep
  PROVE  UNCHANGED <<process, applyMsgs, rvVars, aeVars, commands, restarts, historyVars>>
<1>1. ASSUME NEW m \in isCalls \cup isWaits,
             \/ InstallSnapshotStale(m) \/ InstallSnapshotOld(m)
             \/ InstallSnapshot(m) \/ InstallSnapshotPeerGone(m)
      PROVE  UNCHANGED <<process, applyMsgs, rvVars, aeVars, boundVars, historyVars>>
  BY <1>1 DEF InstallSnapshotStale, InstallSnapshotOld, InstallSnapshot,
     InstallSnapshotPeerGone, AnswerInstall
<1>2. ASSUME NEW r \in isReplies,
             \/ LeaderSendSnapShotIgnored(r) \/ LeaderSendSnapShotHigherTerm(r)
             \/ LeaderSendSnapShotDone(r)
      PROVE  UNCHANGED <<process, applyVars, rvVars, aeVars, boundVars, historyVars>>
  BY <1>2 DEF LeaderSendSnapShotIgnored, LeaderSendSnapShotHigherTerm, LeaderSendSnapShotDone,
     TakeInstallReply
<1> QED BY <1>1, <1>2 DEF SnapshotStep, SnapshotOfExecuted, Snapshot, LeaderSendSnapShot,
                          applyVars, boundVars

\* Replies that go astray: whose thread receives one moves nothing but replies and waits.
LEMMA AstrayFrame ==
  ASSUME AstrayStep
  PROVE  /\ UNCHANGED <<process, termVars, logVars, indexVars, leaderVars, applyVars, boundVars,
                        appendNums, aeCalls, isThreads, isCalls>>
         /\ aeWaits' \subseteq aeWaits /\ isWaits' \subseteq isWaits
BY DEF AstrayStep, RequestVoteAstray, AppendEntriesAstray, InstallSnapshotAstray, ReceiveOthers

\* The log of a server that is down, or goes down, stays as it is until it restarts.
LEMMA LogsOfTheDown ==
  ASSUME TypeOK, [Next]_vars, NEW i \in Server, ~(Up(i) /\ Up(i)'), ~Restart(i)
  PROVE  m_logs'[i] = m_logs[i] /\ m_lastSnapshotIncludeIndex'[i] = m_lastSnapshotIncludeIndex[i]
<1> DEFINE Same == UNCHANGED <<m_logs, m_lastSnapshotIncludeIndex>>
           Other(j) == /\ \A k \in Server : k # j =>
                            /\ m_logs'[k] = m_logs[k]
                            /\ m_lastSnapshotIncludeIndex'[k] = m_lastSnapshotIncludeIndex[k]
                       /\ Up(j) /\ process' = process
<1>1. CASE ElectionStep
  BY <1>1, ElectionFrame DEF logVars
<1>2. CASE AppendStep
  <2>1. ASSUME NEW j \in Server, DoHeartBeat(j) \/ DoHeartBeatExits(j) PROVE Same
    BY <2>1 DEF DoHeartBeat, DoHeartBeatExits, SpawnAppends, logVars
  <2>2. ASSUME NEW j \in Server, Start(j) PROVE Other(j)
    BY <2>2 DEF Start, TypeOK
  <2>3. ASSUME NEW m \in aeCalls,
               \/ AppendEntriesStale(m) \/ AppendEntriesAhead(m)
               \/ AppendEntriesBeforeSnapshot(m) \/ AppendEntriesMismatch(m)
               \/ AppendEntriesWild(m) \/ AppendEntriesDiffers(m)
        PROVE  Same
    BY <2>3 DEF AppendEntriesStale, AppendEntriesAhead, AppendEntriesBeforeSnapshot,
       AppendEntriesMismatch, AppendEntriesWild, AppendEntriesDiffers, AnswerAppend,
       DieInAppend, logVars
  <2>4. ASSUME NEW m \in aeCalls, AppendEntriesMatch(m) PROVE Other(m.server)
    BY <2>4 DEF AppendEntriesMatch, Matches, HearLeader, AnswerAppend, TypeOK
  <2>5. ASSUME NEW r \in aeReplies,
               \/ SendAppendEntriesHigherTerm(r) \/ SendAppendEntriesIgnored(r)
               \/ SendAppendEntriesRefused(r) \/ SendAppendEntriesAccepted(r)
        PROVE  Same
    BY <2>5 DEF SendAppendEntriesHigherTerm, SendAppendEntriesIgnored,
       SendAppendEntriesRefused, SendAppendEntriesAccepted, LeaderTakes, TakeAppendReply, logVars
  <2>6. Same \/ \E j : Other(j)
    <3> HIDE DEF Same, Other
    <3> QED BY <2>1, <2>2, <2>3, <2>4, <2>5, <1>2 DEF AppendStep
  <2> QED BY <2>6 DEF Up
<1>3. CASE ApplyStep
  BY <1>3, ApplyFrame DEF logVars
<1>4. CASE SnapshotStep
  <2>1. ASSUME NEW j \in Server, SnapshotOfExecuted(j) PROVE Other(j)
    BY <2>1 DEF SnapshotOfExecuted, Snapshot, TypeOK
  <2>2. ASSUME NEW m \in isCalls, InstallSnapshot(m) PROVE Other(m.server)
    BY <2>2 DEF InstallSnapshot, HearLeader, AnswerInstall, TypeOK
  <2>3. ASSUME NEW m \in isCalls \cup isWaits,
               \/ InstallSnapshotStale(m) \/ InstallSnapshotOld(m) \/ InstallSnapshotPeerGone(m)
        PROVE  Same
    BY <2>3 DEF InstallSnapshotStale, InstallSnapshotOld, InstallSnapshotPeerGone, logVars
  <2>4. ASSUME NEW r \in isReplies,
               \/ LeaderSendSnapShotIgnored(r) \/ LeaderSendSnapShotHigherTerm(r)
               \/ LeaderSendSnapShotDone(r)
        PROVE  Same
    BY <2>4 DEF LeaderSendSnapShotIgnored, LeaderSendSnapShotHigherTerm,
       LeaderSendSnapShotDone, TakeInstallReply, logVars
  <2>5. ASSUME NEW t \in isThreads, LeaderSendSnapShot(t) PROVE Same
    BY <2>5 DEF LeaderSendSnapShot, logVars
  <2>6. Same \/ \E j : Other(j)
    <3> HIDE DEF Same, Other
    <3> QED BY <2>1, <2>2, <2>3, <2>4, <2>5, <1>4 DEF SnapshotStep
  <2> QED BY <2>6 DEF Up
<1>5. CASE ProcessStep
  <2>1. ASSUME NEW j \in Server, Kill(j) PROVE Same
    BY <2>1 DEF Kill, logVars
  <2>2. ASSUME NEW j \in Server, Restart(j), j # i
        PROVE  /\ m_logs'[i] = m_logs[i]
               /\ m_lastSnapshotIncludeIndex'[i] = m_lastSnapshotIncludeIndex[i]
    BY <2>2 DEF Restart, TypeOK
  <2> QED BY <2>1, <2>2, <1>5 DEF ProcessStep
<1>6. CASE UNCHANGED vars
  BY <1>6 DEF vars, logVars
<1>7. CASE AstrayStep
  BY <1>7, AstrayFrame DEF logVars
<1> QED BY <1>1, <1>2, <1>3, <1>4, <1>5, <1>6, <1>7 DEF Next

\* The end of a log only moves forward, unless its server begins anew.
LEMMA EndsGoOn ==
  ASSUME IndInv, [Next]_vars, NEW i \in Server
  PROVE  /\ LastLogIndex(i) \in Nat
         /\ LastLogIndex(i)' \in Nat
         /\ Restart(i) \/ LastLogIndex(i)' >= LastLogIndex(i)
<1>1. IndInv' /\ GoesOn
  BY NextKeepsIndInv
<1>2. LastLogIndex(i) \in Nat
  BY LogAccess DEF IndInv, LogShape
<1>3. LastLogIndex(i)' \in Nat
  <2>1. PICK log \in Seq(LogEntry), snap \in Nat :
          log = m_logs'[i] /\ snap = m_lastSnapshotIncludeIndex'[i]
    BY <1>1 DEF IndInv, TypeOK
  <2>2. LastLogIndex(i)' = IF log = <<>> THEN snap ELSE log[Len(log)].logindex
    BY <2>1 DEF LastLogIndex
  <2>3. \A e \in LogEntry : e.logindex \in Nat
    BY DEF LogEntry
  <2> QED BY <2>2, <2>3
<1>4. Up(i) /\ Up(i)' => LastLogIndex(i)' >= LastLogIndex(i)
  BY <1>1 DEF GoesOn
<1>5. ~(Up(i) /\ Up(i)') /\ ~Restart(i) => LastLogIndex(i)' >= LastLogIndex(i)
  <2>1. ~(Up(i) /\ Up(i)') /\ ~Restart(i) => LastLogIndex(i)' = LastLogIndex(i)
    BY LogsOfTheDown DEF LastLogIndex, IndInv
  <2> QED BY <2>1, <1>2
<1> QED BY <1>2, <1>3, <1>4, <1>5

\* Restart counts itself.
LEMMA NoRestart ==
  ASSUME TypeOK, UNCHANGED restarts, NEW i
  PROVE  ~Restart(i)
<1>1. restarts \in Nat
  BY DEF TypeOK
<1> QED BY <1>1 DEF Restart

-----------------------------------------------------------------------------
(* The leader's cursors.                                                   *)

\* A cluster without a snapshot has no snapshot term either, and a request for the first
\* entry says so.
NoTermBeforeFirst ==
  /\ \A i \in Server : m_lastSnapshotIncludeIndex[i] = 0 => m_lastSnapshotIncludeTerm[i] = 0
  /\ \A m \in aeCalls : m.prevlogindex = 0 => m.prevlogterm = 0

\* The updatenextindex of a refusal, where there is one, is not before the first entry.
HintsPositive ==
  \A r \in aeReplies :
    ~r.success /\ r.updatenextindex # NoNextIndex => r.updatenextindex >= 1

\* Every snapshot request there is: waiting for its handler, or kept by its sender's thread.
InstallsInFlight == isCalls \cup {r.args : r \in isReplies} \cup isWaits

\* SentWithinLog, of snapshots.
SnapshotsWithinLog ==
  \A m \in InstallsInFlight : m.lastsnapshotincludeindex <= LastLogIndex(m.leaderid)

CursorInv == NoTermBeforeFirst /\ HintsPositive /\ SnapshotsWithinLog /\ ReplicationCursors

\* What a leader has in its cursors, it had before.
LeadersKept ==
  \A i \in Server : m_status'[i] = "Leader" =>
    /\ m_status[i] = "Leader"
    /\ m_nextIndex'[i] = m_nextIndex[i] /\ m_matchIndex'[i] = m_matchIndex[i]

\* A heartbeat sends to peers whose nextIndex is within the log, all or some.
LEMMA HeartBeatsSend ==
  ASSUME NEW i \in Server, DoHeartBeat(i) \/ DoHeartBeatExits(i)
  PROVE  \E to \in SUBSET Server : (\A j \in to : CanAppend(i, j)) /\ SpawnAppends(i, to)
<1>1. CASE DoHeartBeat(i)
  BY <1>1 DEF DoHeartBeat, Peers
<1>2. CASE DoHeartBeatExits(i)
  <2>1. PICK to \in SUBSET {j \in Peers(i) : CanAppend(i, j)} : SpawnAppends(i, to)
    BY <1>2, Zenon DEF DoHeartBeatExits
  <2> QED BY <2>1 DEF Peers
<1> QED BY <1>1, <1>2

\* Append requests only appear in a heartbeat.
LEMMA RequestsSent ==
  ASSUME AppendStep
  PROVE  \/ aeCalls' \subseteq aeCalls
         \/ \E i \in Server : \E to \in SUBSET Server :
              (\A j \in to : CanAppend(i, j)) /\ SpawnAppends(i, to)
<1>1. ASSUME NEW i \in Server, DoHeartBeat(i) \/ DoHeartBeatExits(i)
      PROVE  \E to \in SUBSET Server : (\A j \in to : CanAppend(i, j)) /\ SpawnAppends(i, to)
  BY <1>1, HeartBeatsSend
<1>2. ASSUME NEW m \in aeCalls,
             \/ AppendEntriesStale(m) \/ AppendEntriesAhead(m)
             \/ AppendEntriesBeforeSnapshot(m) \/ AppendEntriesMismatch(m)
             \/ AppendEntriesMatch(m) \/ AppendEntriesWild(m) \/ AppendEntriesDiffers(m)
      PROVE  aeCalls' \subseteq aeCalls
  BY <1>2 DEF AppendEntriesStale, AppendEntriesAhead, AppendEntriesBeforeSnapshot,
     AppendEntriesMismatch, AppendEntriesMatch, AppendEntriesWild, AppendEntriesDiffers,
     AnswerAppend, DieInAppend
<1>3. ASSUME NEW r \in aeReplies,
             \/ SendAppendEntriesHigherTerm(r) \/ SendAppendEntriesIgnored(r)
             \/ SendAppendEntriesRefused(r) \/ SendAppendEntriesAccepted(r)
      PROVE  aeCalls' \subseteq aeCalls
  BY <1>3 DEF SendAppendEntriesHigherTerm, SendAppendEntriesIgnored, SendAppendEntriesRefused,
     SendAppendEntriesAccepted, LeaderTakes, TakeAppendReply
<1> QED BY <1>1, <1>2, <1>3 DEF AppendStep, Start, aeVars

\* A reply to an append request, in the step in which the handler makes it.
ReplyMade(r, m) ==
  /\ r.args = m
  /\ r.success => AppendEntriesMatch(m)
  /\ ~r.success =>
       \/ r.updatenextindex \in
            {NoNextIndex, AheadHint(m.server), m_lastSnapshotIncludeIndex[m.server] + 1}
       \/ /\ InLog(m) /\ LogTerm(m.server, m.prevlogindex) # m.prevlogterm
          /\ r.updatenextindex \in 0 .. m.prevlogindex
          /\ IsBackoff(m.server, m.prevlogindex, r.updatenextindex)

\* Every new reply to an append request was made by a handler of that request.
LEMMA RepliesMade ==
  ASSUME AppendStep, NEW r \in aeReplies', r \notin aeReplies
  PROVE  \E m \in aeCalls : ReplyMade(r, m)
<1> DEFINE Reply(m, term, success, next) ==
             [args |-> m, term |-> term, success |-> success, updatenextindex |-> next,
              received |-> FALSE]
<1>1. ASSUME NEW i \in Server, DoHeartBeat(i) \/ DoHeartBeatExits(i) \/ Start(i)
      PROVE  FALSE
  BY <1>1 DEF DoHeartBeat, DoHeartBeatExits, SpawnAppends, Start, aeVars
<1>2. ASSUME NEW q \in aeReplies,
             \/ SendAppendEntriesHigherTerm(q) \/ SendAppendEntriesIgnored(q)
             \/ SendAppendEntriesRefused(q) \/ SendAppendEntriesAccepted(q)
      PROVE  FALSE
  BY <1>2 DEF SendAppendEntriesHigherTerm, SendAppendEntriesIgnored, SendAppendEntriesRefused,
     SendAppendEntriesAccepted, LeaderTakes, TakeAppendReply
<1>3. ASSUME NEW m \in aeCalls, AppendEntriesWild(m) \/ AppendEntriesDiffers(m)
      PROVE  FALSE
  BY <1>3 DEF AppendEntriesWild, AppendEntriesDiffers, DieInAppend
<1>4. ASSUME NEW m \in aeCalls, NEW term, NEW success, NEW next,
             AnswerAppend(m, term, success, next)
      PROVE  r.args = m /\ r.success = success /\ r.updatenextindex = next
  <2>1. r = Reply(m, term, success, next)
    BY <1>4 DEF AnswerAppend
  <2> QED BY <2>1
<1>5. ASSUME NEW m \in aeCalls, AppendEntriesStale(m) PROVE ReplyMade(r, m)
  BY <1>4, <1>5 DEF AppendEntriesStale, ReplyMade
<1>6. ASSUME NEW m \in aeCalls, AppendEntriesAhead(m) PROVE ReplyMade(r, m)
  BY <1>4, <1>6 DEF AppendEntriesAhead, ReplyMade
<1>7. ASSUME NEW m \in aeCalls, AppendEntriesBeforeSnapshot(m) PROVE ReplyMade(r, m)
  <2>1. AnswerAppend(m, m.term, FALSE, m_lastSnapshotIncludeIndex[m.server] + 1)
    BY <1>7, Zenon DEF AppendEntriesBeforeSnapshot
  <2>2. /\ r.args = m /\ r.success = FALSE
        /\ r.updatenextindex = m_lastSnapshotIncludeIndex[m.server] + 1
    BY <1>4, <2>1, Zenon
  <2> QED BY <2>2 DEF ReplyMade
<1>8. ASSUME NEW m \in aeCalls, AppendEntriesMismatch(m) PROVE ReplyMade(r, m)
  BY <1>4, <1>8 DEF AppendEntriesMismatch, ReplyMade
<1>9. ASSUME NEW m \in aeCalls, AppendEntriesMatch(m) PROVE ReplyMade(r, m)
  <2>1. AnswerAppend(m, m.term, TRUE, 0)
    BY <1>9 DEF AppendEntriesMatch
  <2> QED BY <1>4, <1>9, <2>1 DEF ReplyMade
<1> QED BY <1>1, <1>2, <1>3, <1>5, <1>6, <1>7, <1>8, <1>9 DEF AppendStep

\* Only snapshots change the snapshot, and none of them ends at index 0.
LEMMA NextKeepsFirst ==
  ASSUME IndInv, NoTermBeforeFirst, [Next]_vars
  PROVE  NoTermBeforeFirst'
<1> DEFINE Same == /\ UNCHANGED <<m_lastSnapshotIncludeIndex, m_lastSnapshotIncludeTerm>>
                   /\ aeCalls' \subseteq aeCalls
           Moved(i) == /\ m_lastSnapshotIncludeIndex'[i] # 0 \/ m_lastSnapshotIncludeTerm'[i] = 0
                       /\ \A k \in Server : k # i =>
                            /\ m_lastSnapshotIncludeIndex'[k] = m_lastSnapshotIncludeIndex[k]
                            /\ m_lastSnapshotIncludeTerm'[k] = m_lastSnapshotIncludeTerm[k]
                       /\ aeCalls' \subseteq aeCalls
<1>1. CASE Same
  BY <1>1 DEF NoTermBeforeFirst
<1>2. ASSUME NEW i \in Server, Moved(i) PROVE NoTermBeforeFirst'
  BY <1>2 DEF NoTermBeforeFirst
<1>3. ASSUME NEW i \in Server, NEW to \in SUBSET Server, \A j \in to : CanAppend(i, j),
             SpawnAppends(i, to)
      PROVE  NoTermBeforeFirst'
  <2>1. /\ aeCalls' = aeCalls \cup {AppendTo(i, j) : j \in {k \in to : ~NeedsSnapshot(i, k)}}
        /\ UNCHANGED logVars
    BY <1>3 DEF SpawnAppends
  <2>2. ASSUME NEW j \in to, ~NeedsSnapshot(i, j), AppendTo(i, j).prevlogindex = 0
        PROVE  AppendTo(i, j).prevlogterm = 0
    <3>1. m_nextIndex[i][j] \in Nat /\ m_lastSnapshotIncludeIndex[i] \in Nat
      BY DEF IndInv, TypeOK
    <3>2. m_nextIndex[i][j] - 1 = 0
      BY <2>2 DEF AppendTo
    <3>3. m_lastSnapshotIncludeIndex[i] = 0
      BY <2>2, <3>1, <3>2 DEF NeedsSnapshot
    <3>4. LogTerm(i, 0) = 0
      BY <3>3 DEF LogTerm, NoTermBeforeFirst
    <3> QED BY <3>2, <3>4 DEF AppendTo
  <2> QED BY <2>1, <2>2 DEF NoTermBeforeFirst, logVars
<1>4. ASSUME NEW i \in Server, SnapshotOfExecuted(i) PROVE Moved(i)
  <2>1. PICK k \in DOMAIN applyChan[i] : Snapshot(i, applyChan[i][k].index)
    BY <1>4 DEF SnapshotOfExecuted
  <2>2. PICK index : index = applyChan[i][k].index
    OBVIOUS
  <2>3. Snapshot(i, index)
    BY <2>1, <2>2
  <2>4. m_lastSnapshotIncludeIndex[i] \in Nat /\ m_lastSnapshotIncludeIndex[i] < index
    BY <2>3 DEF Snapshot, IndInv, TypeOK
  <2>5. index # 0
    BY <2>4
  <2> QED BY <2>3, <2>5 DEF Snapshot, IndInv, TypeOK, aeVars
<1>5. ASSUME NEW m \in isCalls, InstallSnapshot(m) PROVE m.server \in Server /\ Moved(m.server)
  <2>1. m.server \in Server /\ m.lastsnapshotincludeindex \in Nat
    BY InstallCallTypes DEF IndInv
  <2>2. /\ m_lastSnapshotIncludeIndex[m.server] \in Nat
        /\ m.lastsnapshotincludeindex > m_lastSnapshotIncludeIndex[m.server]
    BY <1>5, <2>1 DEF InstallSnapshot, IndInv, TypeOK
  <2>3. m.lastsnapshotincludeindex # 0
    BY <2>1, <2>2
  <2> QED BY <1>5, <2>1, <2>3 DEF InstallSnapshot, AnswerInstall, IndInv, TypeOK, aeVars
<1>6. ASSUME NEW i \in Server, Restart(i) PROVE Moved(i)
  BY <1>6 DEF Restart, IndInv, TypeOK
<1>7. CASE ElectionStep
  BY <1>1, <1>7, ElectionFrame DEF logVars, aeVars
<1>8. CASE AppendStep
  BY <1>1, <1>3, <1>8, AppendFrame, RequestsSent
<1>9. CASE ApplyStep
  BY <1>1, <1>9, ApplyFrame DEF logVars, aeVars
<1>10. CASE SnapshotStep
  <2>1. ASSUME NEW t \in isThreads, LeaderSendSnapShot(t) PROVE Same
    BY <2>1 DEF LeaderSendSnapShot, logVars, aeVars
  <2>2. ASSUME NEW m \in isCalls \cup isWaits,
               \/ InstallSnapshotStale(m) \/ InstallSnapshotOld(m) \/ InstallSnapshotPeerGone(m)
        PROVE  Same
    BY <2>2 DEF InstallSnapshotStale, InstallSnapshotOld, InstallSnapshotPeerGone,
       AnswerInstall, logVars, aeVars
  <2>3. ASSUME NEW r \in isReplies,
               \/ LeaderSendSnapShotIgnored(r) \/ LeaderSendSnapShotHigherTerm(r)
               \/ LeaderSendSnapShotDone(r)
        PROVE  Same
    BY <2>3 DEF LeaderSendSnapShotIgnored, LeaderSendSnapShotHigherTerm,
       LeaderSendSnapShotDone, TakeInstallReply, logVars, aeVars
  <2> HIDE DEF Same, Moved
  <2> QED BY <2>1, <2>2, <2>3, <1>1, <1>2, <1>4, <1>5, <1>10 DEF SnapshotStep
<1>11. CASE ProcessStep
  <2>1. ASSUME NEW i \in Server, Kill(i) PROVE Same
    BY <2>1 DEF Kill, logVars, aeVars
  <2> HIDE DEF Same, Moved
  <2> QED BY <2>1, <1>1, <1>2, <1>6, <1>11 DEF ProcessStep
<1>12. CASE UNCHANGED vars
  BY <1>1, <1>12 DEF vars, logVars, aeVars
<1>13. CASE AstrayStep
  BY <1>1, <1>13, AstrayFrame DEF logVars
<1> QED BY <1>7, <1>8, <1>9, <1>10, <1>11, <1>12, <1>13 DEF Next

\* A refusal answers with NoNextIndex, or with an index that a leader may continue from.
LEMMA NextKeepsHints ==
  ASSUME IndInv, NoTermBeforeFirst, HintsPositive, [Next]_vars
  PROVE  HintsPositive'
<1>1. CASE aeReplies' \subseteq aeReplies
  BY <1>1 DEF HintsPositive
<1>2. CASE AppendStep
  <2>1. ASSUME NEW r \in aeReplies', r \notin aeReplies,
               ~r.success, r.updatenextindex # NoNextIndex
        PROVE  r.updatenextindex >= 1
    <3>1. PICK m \in aeCalls : ReplyMade(r, m)
      BY <1>2, <2>1, RepliesMade
    <3>2. /\ m.server \in Server /\ m.prevlogindex \in Nat
      BY AppendCallTypes DEF AppendsInFlight
    <3> DEFINE j == m.server
               snap == m_lastSnapshotIncludeIndex[j]
               next == r.updatenextindex
    <3>3. snap \in Nat /\ LastLogTerm(j) \in Nat
      BY <3>2, LogAccess DEF IndInv, LogShape
    <3>4. CASE next \in {AheadHint(j), snap + 1}
      BY <3>3, <3>4 DEF AheadHint
    <3>5. CASE /\ InLog(m) /\ LogTerm(j, m.prevlogindex) # m.prevlogterm
               /\ next \in 0 .. m.prevlogindex /\ IsBackoff(j, m.prevlogindex, next)
      <4>1. CASE next > snap
        <5>1. next \in Nat
          BY <3>2, <3>5
        <5>2. next >= 1
          <6> HIDE DEF next, snap, j
          <6> QED BY <4>1, <5>1, <3>3
        <5> QED BY <5>2
      <4>2. CASE next = m.prevlogindex
        <5>1. CASE next = 0
          <6>1. snap = 0
            BY <3>3, <3>5, <4>2, <5>1 DEF InLog
          <6>2. LogTerm(j, 0) = 0
            BY <3>2, <6>1 DEF LogTerm, NoTermBeforeFirst
          <6>3. m.prevlogterm = 0
            BY <4>2, <5>1 DEF NoTermBeforeFirst
          <6> QED BY <3>5, <4>2, <5>1, <6>2, <6>3
        <5>2. CASE next # 0
          BY <3>2, <4>2, <5>2
        <5> QED BY <5>1, <5>2
      <4>3. next > snap \/ next = m.prevlogindex
        BY <3>5 DEF IsBackoff
      <4> QED BY <4>1, <4>2, <4>3
    <3> QED BY <2>1, <3>1, <3>4, <3>5 DEF ReplyMade
  <2> QED BY <2>1 DEF HintsPositive
<1>3. CASE ElectionStep \/ ApplyStep \/ SnapshotStep
  BY <1>1, <1>3, ElectionFrame, ApplyFrame, SnapshotFrame DEF aeVars
<1>4. CASE ProcessStep
  BY <1>1, <1>4 DEF ProcessStep, Kill, Restart, aeVars
<1>5. CASE UNCHANGED vars
  BY <1>1, <1>5 DEF vars, aeVars
<1>6. CASE AstrayStep
  <2>1. ASSUME NEW m \in aeWaits, NEW replies \in SUBSET OnWire(m.leaderid, m.server),
               AppendEntriesAstray(m, replies),
               NEW r \in aeReplies', ~r.success, r.updatenextindex # NoNextIndex
        PROVE  r.updatenextindex >= 1
    <3>1. CASE r \in aeReplies
      BY <2>1, <3>1 DEF HintsPositive
    <3>2. ASSUME r \notin aeReplies, NEW term, NEW next \in NextIndexes(replies),
                 r = [args |-> m, term |-> term, success |-> Flag(replies),
                      updatenextindex |-> next, received |-> TRUE]
          PROVE  r.updatenextindex >= 1
      <4>1. r.updatenextindex = next /\ ~Flag(replies) /\ next # NoNextIndex
        BY <2>1, <3>2
      <4>2. \A q \in replies \cap aeReplies :
              ~q.success /\ (q.updatenextindex # NoNextIndex => q.updatenextindex >= 1)
        BY <4>1 DEF Flag, HintsPositive
      <4>3. \/ \E q \in replies \cap aeReplies : next = q.updatenextindex
            \/ next \in {1, 2}
        BY <3>2, <4>1 DEF NextIndexes, Voted, Expire
      <4> QED BY <4>1, <4>2, <4>3
    <3>3. \/ aeReplies' = aeReplies
          \/ \E term \in Terms(replies), next \in NextIndexes(replies) :
               aeReplies' = (aeReplies \ replies) \cup
                 {[args |-> m, term |-> term, success |-> Flag(replies),
                   updatenextindex |-> next, received |-> TRUE]}
      BY <2>1 DEF AppendEntriesAstray
    <3> QED BY <2>1, <3>1, <3>2, <3>3
  <2>2. ASSUME NEW m, NEW replies,
               RequestVoteAstray(m, replies) \/ InstallSnapshotAstray(m, replies)
        PROVE  HintsPositive'
    BY <1>1, <2>2 DEF RequestVoteAstray, InstallSnapshotAstray
  <2> QED BY <1>6, <2>1, <2>2 DEF AstrayStep, HintsPositive
<1> QED BY <1>2, <1>3, <1>4, <1>5, <1>6 DEF Next

\* A snapshot request carries a snapshot that its sender has, and whose end its log reaches.
LEMMA NextKeepsInstalls ==
  ASSUME IndInv, SnapshotsWithinLog, [Next]_vars
  PROVE  SnapshotsWithinLog'
<1> DEFINE Within(m) == m.lastsnapshotincludeindex <= LastLogIndex(m.leaderid)
<1>1. ASSUME NEW m \in InstallsInFlight
      PROVE  m.leaderid \in Server /\ m.lastsnapshotincludeindex \in Nat
  BY InstallCallTypes DEF InstallsInFlight, IndInv
<1>2. ASSUME InstallsInFlight' \subseteq InstallsInFlight,
             \A m \in InstallsInFlight' : ~Restart(m.leaderid)
      PROVE  SnapshotsWithinLog'
  <2>1. ASSUME NEW m \in InstallsInFlight'
        PROVE  m.lastsnapshotincludeindex <= LastLogIndex(m.leaderid)'
    <3>1. m.leaderid \in Server /\ m.lastsnapshotincludeindex \in Nat /\ ~Restart(m.leaderid)
      BY <1>1, <1>2
    <3>2. /\ LastLogIndex(m.leaderid) \in Nat /\ LastLogIndex(m.leaderid)' \in Nat
          /\ LastLogIndex(m.leaderid)' >= LastLogIndex(m.leaderid)
      BY <3>1, EndsGoOn
    <3>3. m.lastsnapshotincludeindex <= LastLogIndex(m.leaderid)
      BY <1>2 DEF SnapshotsWithinLog
    <3> QED BY <3>1, <3>2, <3>3
  <2> QED BY <2>1 DEF SnapshotsWithinLog
<1>3. ASSUME UNCHANGED restarts, InstallsInFlight' \subseteq InstallsInFlight
      PROVE  SnapshotsWithinLog'
  BY <1>2, <1>3, NoRestart DEF IndInv
<1>4. CASE ElectionStep \/ AppendStep \/ ApplyStep
  BY <1>3, <1>4, ElectionFrame, AppendFrame, ApplyFrame
     DEF InstallsInFlight, isVars, boundVars
<1>5. CASE SnapshotStep
  <2>1. ASSUME NEW t \in isThreads, LeaderSendSnapShot(t) PROVE SnapshotsWithinLog'
    <3> DEFINE i == t.leaderid
               request == [round |-> t.round, server |-> t.server, term |-> m_currentTerm[i],
                           leaderid |-> i,
                           lastsnapshotincludeindex |-> m_lastSnapshotIncludeIndex[i],
                           lastsnapshotincludeterm |-> m_lastSnapshotIncludeTerm[i]]
    <3>1. /\ isCalls' = isCalls \cup {request} /\ isWaits' = isWaits \cup {request}
          /\ isReplies' = isReplies /\ UNCHANGED logVars
      BY <2>1 DEF LeaderSendSnapShot
    <3>2. request.leaderid = i /\ request.lastsnapshotincludeindex = m_lastSnapshotIncludeIndex[i]
      OBVIOUS
    <3>3. i \in Server
      BY DEF IndInv, TypeOK, SnapshotThread
    <3>4. m_lastSnapshotIncludeIndex[i] <= LastLogIndex(i)
      <4>1. /\ m_lastSnapshotIncludeIndex[i] \in Nat /\ Len(m_logs[i]) \in Nat
            /\ LastLogIndex(i) = m_lastSnapshotIncludeIndex[i] + Len(m_logs[i])
        BY <3>3, LogAccess DEF IndInv, LogShape
      <4> HIDE DEF i
      <4> QED BY <4>1
    <3> HIDE DEF request
    <3>5. InstallsInFlight' = InstallsInFlight \cup {request}
      BY <3>1 DEF InstallsInFlight
    <3>6. \A k : LastLogIndex(k)' = LastLogIndex(k)
      BY <3>1 DEF LastLogIndex, logVars
    <3> QED BY <3>2, <3>4, <3>5, <3>6 DEF SnapshotsWithinLog
  <2>2. ASSUME NEW m \in isCalls \cup isWaits, NEW term, NEW received,
               AnswerInstall(m, {}) \/ AnswerInstall(m, {InstallReply(m, term, received)}),
               isWaits' \subseteq isWaits
        PROVE  InstallsInFlight' \subseteq InstallsInFlight
    BY <2>2 DEF AnswerInstall, InstallReply, InstallsInFlight
  <2>3. ASSUME NEW m \in isCalls \cup isWaits,
               \/ InstallSnapshotStale(m) \/ InstallSnapshotOld(m)
               \/ InstallSnapshot(m) \/ InstallSnapshotPeerGone(m)
        PROVE  InstallsInFlight' \subseteq InstallsInFlight
    BY <2>2, <2>3 DEF InstallSnapshotStale, InstallSnapshotOld, InstallSnapshot,
       InstallSnapshotPeerGone
  <2>4. ASSUME NEW r \in isReplies,
               \/ LeaderSendSnapShotIgnored(r) \/ LeaderSendSnapShotHigherTerm(r)
               \/ LeaderSendSnapShotDone(r)
        PROVE  InstallsInFlight' \subseteq InstallsInFlight
    BY <2>4 DEF LeaderSendSnapShotIgnored, LeaderSendSnapShotHigherTerm,
       LeaderSendSnapShotDone, TakeInstallReply, InstallsInFlight
  <2>5. ASSUME NEW i \in Server, SnapshotOfExecuted(i)
        PROVE  InstallsInFlight' \subseteq InstallsInFlight
    BY <2>5 DEF SnapshotOfExecuted, Snapshot, isVars, InstallsInFlight
  <2> QED BY <2>1, <2>3, <2>4, <2>5, <1>3, <1>5, SnapshotFrame DEF SnapshotStep
<1>6. CASE ProcessStep
  <2>1. ASSUME NEW i \in Server, Kill(i) PROVE SnapshotsWithinLog'
    BY <2>1, <1>3 DEF Kill, isVars, boundVars, InstallsInFlight
  <2>2. ASSUME NEW i \in Server, Restart(i) PROVE SnapshotsWithinLog'
    <3>1. /\ InstallsInFlight' \subseteq InstallsInFlight
          /\ \A m \in InstallsInFlight' : m.leaderid # i
      BY <2>2 DEF Restart, InstallsInFlight
    <3>2. \A k \in Server : k # i => ~Restart(k)
      BY <2>2 DEF Restart, Up, IndInv, TypeOK
    <3> QED BY <3>1, <3>2, <1>1, <1>2
  <2> QED BY <2>1, <2>2, <1>6 DEF ProcessStep
<1>7. CASE UNCHANGED vars
  BY <1>3, <1>7 DEF vars, isVars, boundVars, InstallsInFlight
<1>8. CASE AstrayStep
  <2>1. /\ isCalls' = isCalls /\ UNCHANGED restarts /\ isWaits' \subseteq isWaits
    BY <1>8, AstrayFrame DEF boundVars
  <2>2. {r.args : r \in isReplies'} \subseteq {r.args : r \in isReplies} \cup isWaits
    BY <1>8 DEF AstrayStep, RequestVoteAstray, AppendEntriesAstray, InstallSnapshotAstray,
       InstallReply
  <2> QED BY <2>1, <2>2, <1>3 DEF InstallsInFlight
<1> QED BY <1>4, <1>5, <1>6, <1>7, <1>8 DEF Next

\* Where nobody becomes leader and no leader moves a cursor, the cursors stay in range.
LEMMA KeptLeadersKeepCursors ==
  ASSUME IndInv, ReplicationCursors, [Next]_vars, LeadersKept
  PROVE  ReplicationCursors'
<1>1. ASSUME NEW i \in Server, m_status'[i] = "Leader", NEW j \in Peers(i)
      PROVE  m_nextIndex'[i][j] >= 1 /\ m_matchIndex'[i][j] <= LastLogIndex(i)'
  <2>1. /\ m_status[i] = "Leader"
        /\ m_nextIndex'[i] = m_nextIndex[i] /\ m_matchIndex'[i] = m_matchIndex[i]
    BY <1>1 DEF LeadersKept
  <2>2. m_nextIndex[i][j] >= 1 /\ m_matchIndex[i][j] <= LastLogIndex(i)
    BY <1>1, <2>1 DEF ReplicationCursors
  <2>3. ~Restart(i)
    BY <1>1 DEF Restart, IndInv, TypeOK
  <2>4. /\ LastLogIndex(i) \in Nat /\ LastLogIndex(i)' \in Nat
        /\ LastLogIndex(i)' >= LastLogIndex(i)
    BY <2>3, EndsGoOn
  <2>5. m_matchIndex[i][j] \in Nat
    BY <1>1 DEF IndInv, TypeOK, Peers
  <2> QED BY <2>1, <2>2, <2>4, <2>5
<1> QED BY <1>1 DEF ReplicationCursors, Peers

\* A leader that moves its cursors for one peer, to values in range.
LEMMA CursorMove ==
  ASSUME IndInv, ReplicationCursors, UNCHANGED <<m_status, logVars>>,
         NEW i \in Server, NEW j \in Server, NEW next \in Nat, NEW match \in Nat,
         m_nextIndex' = [m_nextIndex EXCEPT ![i][j] = next],
         m_matchIndex' = [m_matchIndex EXCEPT ![i][j] = match],
         m_status[i] = "Leader" /\ j \in Peers(i) => next >= 1 /\ match <= LastLogIndex(i)
  PROVE  ReplicationCursors'
<1>1. \A k : LastLogIndex(k)' = LastLogIndex(k)
  BY DEF LastLogIndex, logVars
<1>2. \A k, l \in Server :
        /\ m_nextIndex'[k][l] = IF k = i /\ l = j THEN next ELSE m_nextIndex[k][l]
        /\ m_matchIndex'[k][l] = IF k = i /\ l = j THEN match ELSE m_matchIndex[k][l]
  BY DEF IndInv, TypeOK
<1>3. ASSUME NEW k \in Server, m_status'[k] = "Leader", NEW l \in Peers(k)
      PROVE  m_nextIndex'[k][l] >= 1 /\ m_matchIndex'[k][l] <= LastLogIndex(k)'
  BY <1>1, <1>2, <1>3 DEF ReplicationCursors, Peers
<1> QED BY <1>3 DEF ReplicationCursors, Peers

\* A step of the voting protocol: the cursors of a server that wins start at its log's end.
LEMMA ElectionKeepsCursors ==
  ASSUME IndInv, ReplicationCursors, [Next]_vars, ElectionStep
  PROVE  ReplicationCursors'
<1>1. ASSUME NEW r \in rvReplies, SendRequestVoteWon(r) PROVE ReplicationCursors'
  <2> DEFINE i == r.args.candidateid
  <2>1. i \in Server
    BY VoteReplyTypes DEF IndInv
  <2>2. LastLogIndex(i) \in Nat
    BY <2>1, LogAccess DEF IndInv, LogShape
  <2>3. /\ UNCHANGED logVars
        /\ m_status' = [m_status EXCEPT ![i] = "Leader"]
        /\ m_nextIndex' = [m_nextIndex EXCEPT ![i] = [j \in Server |-> LastLogIndex(i) + 1]]
        /\ m_matchIndex' = [m_matchIndex EXCEPT ![i] = [j \in Server |-> 0]]
    BY <1>1 DEF SendRequestVoteWon, VoteCounts, TakeVoteReply
  <2>4. \A k : LastLogIndex(k)' = LastLogIndex(k)
    BY <2>3 DEF LastLogIndex, logVars
  <2> HIDE DEF i
  <2>5. ASSUME NEW k \in Server, m_status'[k] = "Leader", NEW j \in Peers(k)
        PROVE  m_nextIndex'[k][j] >= 1 /\ m_matchIndex'[k][j] <= LastLogIndex(k)'
    <3>1. CASE k = i
      <4>1. m_nextIndex'[k][j] = LastLogIndex(k) + 1 /\ m_matchIndex'[k][j] = 0
        BY <2>3, <2>5, <3>1 DEF IndInv, TypeOK, Peers
      <4> QED BY <2>2, <2>4, <3>1, <4>1
    <3>2. CASE k # i
      <4>1. m_status[k] = "Leader" /\ m_nextIndex'[k] = m_nextIndex[k]
            /\ m_matchIndex'[k] = m_matchIndex[k]
        BY <2>3, <2>5, <3>2 DEF IndInv, TypeOK
      <4> QED BY <2>4, <2>5, <4>1 DEF ReplicationCursors
    <3> QED BY <3>1, <3>2
  <2> QED BY <2>5 DEF ReplicationCursors, Peers
<1>2. ASSUME NEW i \in Server, DoElection(i) PROVE LeadersKept
  BY <1>2 DEF DoElection, LeadersKept, leaderVars, IndInv, TypeOK
<1>3. ASSUME NEW m \in rvCalls, RequestVoteExpired(m) PROVE LeadersKept
  BY <1>3 DEF RequestVoteExpired, AnswerVote, LeadersKept, leaderVars, termVars
<1>4. ASSUME NEW m \in rvCalls, RequestVote(m) PROVE LeadersKept
  <2>1. m_status' = [m_status EXCEPT ![m.server] =
                       IF m.term > m_currentTerm[m.server] THEN "Follower" ELSE @]
    BY <1>4 DEF RequestVote
  <2>2. \A i \in Server : m_status'[i] = "Leader" => m_status[i] = "Leader"
    BY <2>1 DEF IndInv, TypeOK
  <2> QED BY <2>2, <1>4 DEF RequestVote, AnswerVote, LeadersKept, leaderVars
<1>5. ASSUME NEW r \in rvReplies,
             \/ SendRequestVoteHigherTerm(r) \/ SendRequestVoteIgnored(r)
             \/ SendRequestVoteCounted(r)
      PROVE  LeadersKept
  <2>1. UNCHANGED leaderVars
    BY <1>5 DEF SendRequestVoteHigherTerm, SendRequestVoteIgnored, SendRequestVoteCounted
  <2>2. m_status' = m_status \/ m_status' = [m_status EXCEPT ![r.args.candidateid] = "Follower"]
    BY <1>5 DEF SendRequestVoteHigherTerm, SendRequestVoteIgnored, SendRequestVoteCounted,
       FollowTerm, termVars
  <2> QED BY <2>1, <2>2 DEF LeadersKept, leaderVars, IndInv, TypeOK
<1> QED BY <1>1, <1>2, <1>3, <1>4, <1>5, KeptLeadersKeepCursors DEF ElectionStep

\* A step of log replication: the cursors follow what the replies say.
LEMMA AppendKeepsCursors ==
  ASSUME IndInv, HintsPositive, ReplicationCursors, [Next]_vars, AppendStep
  PROVE  ReplicationCursors'
<1>1. ASSUME NEW i \in Server, DoHeartBeat(i) \/ DoHeartBeatExits(i) \/ Start(i)
      PROVE  LeadersKept
  BY <1>1 DEF DoHeartBeat, DoHeartBeatExits, SpawnAppends, Start, LeadersKept, leaderVars,
     termVars
<1>2. ASSUME NEW m \in aeCalls,
             \/ AppendEntriesStale(m) \/ AppendEntriesAhead(m)
             \/ AppendEntriesBeforeSnapshot(m) \/ AppendEntriesMismatch(m)
             \/ AppendEntriesMatch(m) \/ AppendEntriesWild(m) \/ AppendEntriesDiffers(m)
      PROVE  LeadersKept
  <2>1. UNCHANGED leaderVars
    BY <1>2 DEF AppendEntriesStale, AppendEntriesAhead, AppendEntriesBeforeSnapshot,
       AppendEntriesMismatch, AppendEntriesMatch, AppendEntriesWild, AppendEntriesDiffers,
       AnswerAppend, DieInAppend
  <2>2. m_status' = m_status \/ m_status' = [m_status EXCEPT ![m.server] = "Follower"]
    BY <1>2 DEF AppendEntriesStale, AppendEntriesAhead, AppendEntriesBeforeSnapshot,
       AppendEntriesMismatch, AppendEntriesMatch, AppendEntriesWild, AppendEntriesDiffers,
       Matches, HearLeader, FollowTerm, termVars
  <2> QED BY <2>1, <2>2 DEF LeadersKept, leaderVars, IndInv, TypeOK
<1>3. ASSUME NEW r \in aeReplies,
             SendAppendEntriesHigherTerm(r) \/ SendAppendEntriesIgnored(r)
      PROVE  LeadersKept
  BY <1>3 DEF SendAppendEntriesHigherTerm, SendAppendEntriesIgnored, LeadersKept, leaderVars,
     termVars, IndInv, TypeOK
<1>4. ASSUME NEW r \in aeReplies
      PROVE  /\ r.args.leaderid \in Server /\ r.args.server \in Server
             /\ LastSent(r.args) \in Nat /\ LastSent(r.args) <= LastLogIndex(r.args.leaderid)
             /\ r.updatenextindex \in Nat \cup {NoNextIndex}
  BY AppendReplyTypes, AppendCallTypes
<1>5. ASSUME NEW r \in aeReplies, SendAppendEntriesRefused(r) PROVE ReplicationCursors'
  <2> DEFINE i == r.args.leaderid
             j == r.args.server
             next == r.updatenextindex
  <2>1. /\ UNCHANGED <<m_status, logVars, m_matchIndex>> /\ ~r.success
        /\ m_nextIndex' = IF next = NoNextIndex THEN m_nextIndex
                          ELSE [m_nextIndex EXCEPT ![i][j] = next]
    BY <1>5 DEF SendAppendEntriesRefused, LeaderTakes, TakeAppendReply, termVars
  <2>2. CASE next = NoNextIndex
    BY <2>1, <2>2, KeptLeadersKeepCursors DEF LeadersKept
  <2>3. CASE next # NoNextIndex
    <3>1. i \in Server /\ j \in Server /\ next \in Nat
      BY <1>4, <2>3
    <3>2. next >= 1
      BY <2>1, <2>3 DEF HintsPositive
    <3> HIDE DEF i, j, next
    <3>3. m_matchIndex[i][j] \in Nat
      BY <3>1 DEF IndInv, TypeOK
    <3>4. m_matchIndex' = [m_matchIndex EXCEPT ![i][j] = m_matchIndex[i][j]]
      BY <2>1, <3>1 DEF IndInv, TypeOK
    <3>5. m_status[i] = "Leader" /\ j \in Peers(i) => m_matchIndex[i][j] <= LastLogIndex(i)
      BY <3>1 DEF ReplicationCursors
    <3> QED BY <2>1, <2>3, <3>1, <3>2, <3>3, <3>4, <3>5, CursorMove
  <2> QED BY <2>2, <2>3
<1>6. ASSUME NEW r \in aeReplies, SendAppendEntriesAccepted(r) PROVE ReplicationCursors'
  <2> DEFINE i == r.args.leaderid
             j == r.args.server
             match == Larger(m_matchIndex[i][j], LastSent(r.args))
  <2>1. /\ UNCHANGED <<m_status, logVars>>
        /\ m_matchIndex' = [m_matchIndex EXCEPT ![i][j] = match]
        /\ m_nextIndex' = [m_nextIndex EXCEPT ![i][j] = match + 1]
    BY <1>6 DEF SendAppendEntriesAccepted, LeaderTakes, TakeAppendReply, termVars
  <2>2. /\ i \in Server /\ j \in Server
        /\ LastSent(r.args) \in Nat /\ LastSent(r.args) <= LastLogIndex(i)
    BY <1>4
  <2> HIDE DEF i, j
  <2>3. m_matchIndex[i][j] \in Nat
    BY <2>2 DEF IndInv, TypeOK
  <2>4. match \in Nat /\ match + 1 \in Nat /\ match + 1 >= 1
    BY <2>2, <2>3 DEF Larger
  <2>5. m_status[i] = "Leader" /\ j \in Peers(i) => match <= LastLogIndex(i)
    BY <2>2 DEF ReplicationCursors, Larger
  <2> HIDE DEF match
  <2> QED BY <2>1, <2>2, <2>4, <2>5, CursorMove
<1> QED BY <1>1, <1>2, <1>3, <1>5, <1>6, KeptLeadersKeepCursors DEF AppendStep

\* A step that has to do with snapshots: a peer that took one continues after it.
LEMMA SnapshotKeepsCursors ==
  ASSUME IndInv, SnapshotsWithinLog, ReplicationCursors, [Next]_vars, SnapshotStep
  PROVE  ReplicationCursors'
<1>1. ASSUME \/ \E i \in Server : SnapshotOfExecuted(i)
             \/ \E t \in isThreads : LeaderSendSnapShot(t)
      PROVE  LeadersKept
  BY <1>1 DEF SnapshotOfExecuted, Snapshot, LeaderSendSnapShot, LeadersKept, leaderVars, termVars
<1>2. ASSUME NEW m \in isCalls \cup isWaits,
             \/ InstallSnapshotStale(m) \/ InstallSnapshotOld(m)
             \/ InstallSnapshot(m) \/ InstallSnapshotPeerGone(m)
      PROVE  LeadersKept
  <2>1. UNCHANGED leaderVars
    BY <1>2 DEF InstallSnapshotStale, InstallSnapshotOld, InstallSnapshot,
       InstallSnapshotPeerGone, AnswerInstall
  <2>2. m_status' = m_status \/ m_status' = [m_status EXCEPT ![m.server] = "Follower"]
    BY <1>2 DEF InstallSnapshotStale, InstallSnapshotOld, InstallSnapshot,
       InstallSnapshotPeerGone, HearLeader, FollowTerm, termVars
  <2> QED BY <2>1, <2>2 DEF LeadersKept, leaderVars, IndInv, TypeOK
<1>3. ASSUME NEW r \in isReplies,
             LeaderSendSnapShotIgnored(r) \/ LeaderSendSnapShotHigherTerm(r)
      PROVE  LeadersKept
  BY <1>3 DEF LeaderSendSnapShotIgnored, LeaderSendSnapShotHigherTerm, FollowTerm, LeadersKept,
     leaderVars, termVars, IndInv, TypeOK
<1>4. ASSUME NEW r \in isReplies, LeaderSendSnapShotDone(r) PROVE ReplicationCursors'
  <2> DEFINE i == r.args.leaderid
             j == r.args.server
             index == r.args.lastsnapshotincludeindex
  <2>1. /\ UNCHANGED <<m_status, logVars>>
        /\ m_matchIndex' = [m_matchIndex EXCEPT ![i][j] = index]
        /\ m_nextIndex' = [m_nextIndex EXCEPT ![i][j] = index + 1]
    BY <1>4 DEF LeaderSendSnapShotDone, TakeInstallReply, termVars
  <2>2. i \in Server /\ j \in Server /\ index \in Nat
    BY InstallCallTypes DEF IndInv
  <2>3. index <= LastLogIndex(i)
    BY DEF SnapshotsWithinLog, InstallsInFlight
  <2> HIDE DEF i, j, index
  <2>4. index + 1 \in Nat /\ index + 1 >= 1
    BY <2>2
  <2> QED BY <2>1, <2>2, <2>3, <2>4, CursorMove
<1> QED BY <1>1, <1>2, <1>3, <1>4, KeptLeadersKeepCursors DEF SnapshotStep

\* Every step keeps all of it.
LEMMA NextKeepsCursorInv == IndInv /\ CursorInv /\ [Next]_vars => CursorInv'
<1> SUFFICES ASSUME IndInv, CursorInv, [Next]_vars PROVE CursorInv'
  OBVIOUS
<1> USE DEF CursorInv
<1>1. NoTermBeforeFirst' /\ HintsPositive' /\ SnapshotsWithinLog'
  BY NextKeepsFirst, NextKeepsHints, NextKeepsInstalls
<1>2. ASSUME ApplyStep \/ AstrayStep \/ UNCHANGED vars PROVE ReplicationCursors'
  <2>1. LeadersKept
    BY <1>2, ApplyFrame, AstrayFrame DEF LeadersKept, vars, termVars, leaderVars
  <2> QED BY <2>1, KeptLeadersKeepCursors
<1>3. ASSUME ProcessStep PROVE ReplicationCursors'
  <2>1. ASSUME NEW i \in Server, Kill(i) PROVE LeadersKept
    BY <2>1 DEF Kill, LeadersKept, termVars, leaderVars
  <2>2. ASSUME NEW i \in Server, Restart(i) PROVE LeadersKept
    BY <2>2 DEF Restart, LeadersKept, IndInv, TypeOK
  <2> QED BY <1>3, <2>1, <2>2, KeptLeadersKeepCursors DEF ProcessStep
<1>4. ReplicationCursors'
  BY <1>2, <1>3, ElectionKeepsCursors, AppendKeepsCursors, SnapshotKeepsCursors DEF Next
<1> QED BY <1>1, <1>4

\* Nothing is in flight at the start, and nobody leads.
LEMMA InitCursorInv == Init => CursorInv
<1> SUFFICES ASSUME Init PROVE CursorInv
  OBVIOUS
<1>1. InstallsInFlight = {} /\ aeCalls = {} /\ aeReplies = {}
  BY DEF Init, InstallsInFlight
<1>2. \A i \in Server : m_status[i] = "Follower" /\ m_lastSnapshotIncludeTerm[i] = 0
  BY DEF Init
<1> QED BY <1>1, <1>2 DEF CursorInv, NoTermBeforeFirst, HintsPositive, SnapshotsWithinLog,
                          ReplicationCursors

\* The inductive invariant of the leader's cursors holds in every reachable state.
THEOREM CursorInvHolds == Spec => []CursorInv
BY InitCursorInv, NextKeepsCursorInv, IndInvHolds, PTL DEF Spec

\* Whatever round a reply belongs to, no leader moves its nextIndex of a peer below the first
\* entry, nor its matchIndex past its own log: what doHeartBeat and sendAppendEntries assert.
THEOREM CursorsInRange == Spec => []ReplicationCursors
<1>1. CursorInv => ReplicationCursors
  BY DEF CursorInv
<1> QED BY <1>1, CursorInvHolds, PTL

-----------------------------------------------------------------------------
(* The commit index.                                                       *)

\* The logs of a majority reach the index.
OnQuorum(index) == index > 0 => IsMajority({j \in Server : LastLogIndex(j) >= index})

\* Every request belongs to a round that was opened, and those of one round end alike: they
\* carry the log of one leader, up to its end at one moment.
RoundsReach ==
  /\ \A m \in AppendsInFlight : m.round \in DOMAIN appendNums
  /\ \A m, n \in AppendsInFlight : m.round = n.round => LastSent(m) = LastSent(n)

\* The log of whoever is counted in a round reaches what the round sent.
CountedReach ==
  restarts = 0 =>
    \A m \in AppendsInFlight : \A j \in appendNums[m.round] : LastLogIndex(j) >= LastSent(m)

\* So does that of whoever is about to be counted, if the thread has the reply to its own
\* call: this is what a success that goes astray would break.
AckedReach ==
  \A r \in aeReplies : r.success => LastLogIndex(r.args.server) >= LastSent(r.args)

\* The commit index and the snapshot that a request carries were committed by its sender.
SentOnQuorum ==
  restarts = 0 =>
    /\ \A m \in AppendsInFlight : OnQuorum(m.leadercommit)
    /\ \A m \in isCalls : OnQuorum(m.lastsnapshotincludeindex)

\* What is committed is in the logs of a majority.
CommitsReached ==
  restarts = 0 =>
    \A i \in Server : m_commitIndex[i] > 0 =>
      IsMajority({j \in Server : LastLogIndex(j) >= m_commitIndex[i]})

CommitInv == RoundsReach /\ CountedReach /\ AckedReach /\ SentOnQuorum /\ CommitsReached

\* What is on a quorum stays on it, and with it everything before.
LEMMA QuorumStays ==
  ASSUME IndInv, [Next]_vars, UNCHANGED restarts,
         NEW index \in Nat, OnQuorum(index), NEW lower \in Nat, lower <= index
  PROVE  OnQuorum(lower) /\ OnQuorum(lower)'
<1> DEFINE S == {j \in Server : LastLogIndex(j) >= index}
           T == {j \in Server : LastLogIndex(j) >= lower}
           U == {j \in Server : LastLogIndex(j)' >= lower}
<1>1. ASSUME NEW j \in Server, LastLogIndex(j) >= index
      PROVE  LastLogIndex(j) >= lower /\ LastLogIndex(j)' >= lower
  <2>1. ~Restart(j)
    BY NoRestart DEF IndInv
  <2>2. /\ LastLogIndex(j) \in Nat /\ LastLogIndex(j)' \in Nat
        /\ LastLogIndex(j)' >= LastLogIndex(j)
    BY <2>1, EndsGoOn
  <2> QED BY <1>1, <2>2
<1>2. S \subseteq T /\ S \subseteq U /\ T \subseteq Server /\ U \subseteq Server
  BY <1>1
<1>3. CASE lower > 0
  <2>1. IsMajority(S)
    BY <1>3 DEF OnQuorum
  <2> HIDE DEF S, T, U
  <2>2. IsMajority(T)
    BY <1>2, <2>1, LargerMajority
  <2>3. \E V : V = U /\ IsMajority(V)
    <3>1. PICK V : V = U
      OBVIOUS
    <3> QED BY <3>1, <1>2, <2>1, LargerMajority
  <2> QED BY <2>2, <2>3 DEF OnQuorum, IsMajority, T, U
<1>4. CASE ~(lower > 0)
  BY <1>4 DEF OnQuorum
<1> QED BY <1>3, <1>4

\* As long as nobody has restarted, nobody is restarting.
LEMMA NoRestartYet ==
  ASSUME TypeOK, [Next]_vars, restarts' = 0
  PROVE  UNCHANGED restarts
<1>1. restarts \in Nat
  BY DEF TypeOK
<1>2. CASE ElectionStep \/ AppendStep \/ ApplyStep \/ SnapshotStep \/ AstrayStep
  BY <1>2, ElectionFrame, AppendFrame, ApplyFrame, SnapshotFrame, AstrayFrame DEF boundVars
<1>3. CASE ProcessStep
  <2>1. \A i \in Server : Restart(i) => restarts' = restarts + 1
    BY DEF Restart
  <2> QED BY <1>1, <1>3, <2>1 DEF ProcessStep, Kill, boundVars
<1> QED BY <1>2, <1>3 DEF Next, vars, boundVars

\* The three ways a step deals with requests and their rounds: it sends none and counts
\* nobody, it opens a round, or it counts an acknowledgement.
LEMMA RoundSteps ==
  ASSUME [Next]_vars
  PROVE  \/ AppendsInFlight' \subseteq AppendsInFlight /\ UNCHANGED appendNums
         \/ \E i \in Server : \E to \in SUBSET Server :
              (\A j \in to : CanAppend(i, j)) /\ SpawnAppends(i, to)
         \/ \E r \in aeReplies : SendAppendEntriesAccepted(r)
<1> DEFINE Kept == AppendsInFlight' \subseteq AppendsInFlight /\ UNCHANGED appendNums
<1>1. CASE UNCHANGED aeVars
  BY <1>1 DEF aeVars, AppendsInFlight
<1>2. CASE ElectionStep \/ ApplyStep \/ SnapshotStep \/ UNCHANGED vars
  BY <1>1, <1>2, ElectionFrame, ApplyFrame, SnapshotFrame DEF vars
<1>3. ASSUME NEW i \in Server, Restart(i) PROVE Kept
  BY <1>3 DEF Restart, AppendsInFlight
<1>4. CASE ProcessStep
  <2> HIDE DEF Kept
  <2>1. UNCHANGED aeVars \/ Kept
    BY <1>3, <1>4 DEF ProcessStep, Kill
  <2> QED BY <2>1, <1>1 DEF Kept
<1>5. ASSUME NEW m \in aeCalls,
             \/ AppendEntriesStale(m) \/ AppendEntriesAhead(m)
             \/ AppendEntriesBeforeSnapshot(m) \/ AppendEntriesMismatch(m)
             \/ AppendEntriesMatch(m) \/ AppendEntriesWild(m) \/ AppendEntriesDiffers(m)
      PROVE  Kept
  <2>1. ASSUME NEW term, NEW success, NEW next, AnswerAppend(m, term, success, next)
        PROVE  Kept
    BY <2>1 DEF AnswerAppend, AppendsInFlight
  <2>2. ASSUME NEW assertion, DieInAppend(m, assertion) PROVE Kept
    BY <2>2 DEF DieInAppend, AppendsInFlight
  <2> HIDE DEF Kept
  <2> QED BY <1>5, <2>1, <2>2 DEF AppendEntriesStale, AppendEntriesAhead,
     AppendEntriesBeforeSnapshot, AppendEntriesMismatch, AppendEntriesMatch,
     AppendEntriesWild, AppendEntriesDiffers
<1>6. ASSUME NEW r \in aeReplies,
             \/ SendAppendEntriesHigherTerm(r) \/ SendAppendEntriesIgnored(r)
             \/ SendAppendEntriesRefused(r)
      PROVE  Kept
  BY <1>6 DEF SendAppendEntriesHigherTerm, SendAppendEntriesIgnored, SendAppendEntriesRefused,
     LeaderTakes, TakeAppendReply, AppendsInFlight
<1>7. ASSUME NEW i \in Server, DoHeartBeat(i) \/ DoHeartBeatExits(i)
      PROVE  \E to \in SUBSET Server : (\A j \in to : CanAppend(i, j)) /\ SpawnAppends(i, to)
  BY <1>7, HeartBeatsSend
<1>8. CASE AppendStep
  <2> HIDE DEF Kept
  <2> QED BY <1>1, <1>5, <1>6, <1>7, <1>8 DEF AppendStep, Start, Kept
<1>9. CASE AstrayStep
  <2>1. aeCalls' = aeCalls /\ UNCHANGED appendNums /\ aeWaits' \subseteq aeWaits
    BY <1>9, AstrayFrame
  <2>2. ASSUME NEW r \in aeReplies', r \notin aeReplies PROVE r.args \in aeWaits
    <3>1. PICK m \in aeWaits : \E replies : AppendEntriesAstray(m, replies)
      BY <1>9, <2>2 DEF AstrayStep, RequestVoteAstray, InstallSnapshotAstray
    <3>2. \E term, success, next :
            r = [args |-> m, term |-> term, success |-> success, updatenextindex |-> next,
                 received |-> TRUE]
      BY <2>2, <3>1 DEF AppendEntriesAstray
    <3> QED BY <3>1, <3>2
  <2> QED BY <2>1, <2>2 DEF AppendsInFlight
<1> QED BY <1>2, <1>4, <1>8, <1>9 DEF Next

\* The requests of a heartbeat: one new round, and all of it ends where the log ends.
LEMMA RoundOpened ==
  ASSUME IndInv, NEW i \in Server, NEW to \in SUBSET Server, \A j \in to : CanAppend(i, j),
         SpawnAppends(i, to), RoundsReach
  PROVE  /\ appendNums' = Append(appendNums, {i}) /\ Len(appendNums) \in Nat
         /\ DOMAIN appendNums = 1 .. Len(appendNums)
         /\ DOMAIN appendNums' = 1 .. Len(appendNums) + 1
         /\ \A n \in 1 .. Len(appendNums) : appendNums'[n] = appendNums[n]
         /\ appendNums'[Len(appendNums) + 1] = {i}
         /\ \A k : LastLogIndex(k)' = LastLogIndex(k)
         /\ \A m \in AppendsInFlight' :
              \/ m \in AppendsInFlight /\ m.round \in 1 .. Len(appendNums)
              \/ /\ m.round = Len(appendNums) + 1 /\ LastSent(m) = LastLogIndex(i)
                 /\ m.leadercommit = m_commitIndex[i]
<1> DEFINE sent == {AppendTo(i, j) : j \in {k \in to : ~NeedsSnapshot(i, k)}}
<1>1. /\ aeCalls' = aeCalls \cup sent /\ aeWaits' = aeWaits \cup sent
      /\ aeReplies' = aeReplies
      /\ appendNums' = Append(appendNums, {i}) /\ UNCHANGED logVars
  BY DEF SpawnAppends
<1>2. appendNums \in Seq(SUBSET Server) /\ {i} \in SUBSET Server
  BY DEF IndInv, TypeOK
<1>3. /\ Len(appendNums) \in Nat /\ DOMAIN appendNums = 1 .. Len(appendNums)
      /\ DOMAIN appendNums' = 1 .. Len(appendNums) + 1
      /\ \A n \in 1 .. Len(appendNums) : appendNums'[n] = appendNums[n]
      /\ appendNums'[Len(appendNums) + 1] = {i}
  BY <1>1, <1>2, AppendProperties
<1>4. \A k : LastLogIndex(k)' = LastLogIndex(k)
  BY <1>1 DEF LastLogIndex, logVars
<1>5. ASSUME NEW j \in to, ~NeedsSnapshot(i, j)
      PROVE  /\ AppendTo(i, j).round = Len(appendNums) + 1
             /\ AppendTo(i, j).leadercommit = m_commitIndex[i]
             /\ LastSent(AppendTo(i, j)) = LastLogIndex(i)
  <2> DEFINE snap == m_lastSnapshotIncludeIndex[i]
             log == m_logs[i]
             prev == m_nextIndex[i][j] - 1
             slot == Slot(i, prev) + 1
  <2>1. /\ snap \in Nat /\ RunsFrom(snap, log) /\ Len(log) \in Nat
        /\ LastLogIndex(i) = snap + Len(log)
    BY LogAccess DEF IndInv, LogShape
  <2>2. m_nextIndex[i][j] \in Nat
    BY DEF IndInv, TypeOK
  <2>3. prev \in Nat /\ slot \in 1 .. Len(log) + 1 /\ snap + slot - 1 = prev
    <3>1. m_nextIndex[i][j] > snap /\ m_nextIndex[i][j] - 1 <= LastLogIndex(i)
      BY <1>5, <2>1, <2>2 DEF CanAppend, NeedsSnapshot
    <3>2. slot = m_nextIndex[i][j] - 1 - snap + 1
      BY DEF Slot
    <3>3. PICK next \in Nat : next = m_nextIndex[i][j]
      BY <2>2
    <3>4. prev = next - 1
      BY <3>3
    <3>5. PICK base \in Nat, length \in Nat : base = snap /\ length = Len(log)
      BY <2>1
    <3>6. slot = next - base /\ next > base /\ next - 1 <= base + length
      BY <2>1, <3>1, <3>2, <3>3, <3>5
    <3> HIDE DEF snap, log, slot, prev
    <3>7. prev \in Nat /\ base + slot - 1 = prev
      BY <3>4, <3>6
    <3>8. slot \in 1 .. length + 1
      BY <3>6
    <3> QED BY <3>5, <3>7, <3>8
  <2>4. /\ AppendTo(i, j).round = Len(appendNums) + 1
        /\ AppendTo(i, j).leadercommit = m_commitIndex[i]
        /\ AppendTo(i, j).prevlogindex = prev
        /\ AppendTo(i, j).entries = SubSeq(log, slot, Len(log))
    BY DEF AppendTo, EntriesFrom
  <2> HIDE DEF snap, log, prev, slot
  <2>5. Len(SubSeq(log, slot, Len(log))) = Len(log) - slot + 1
    BY <2>1, <2>3, SuffixRunsOn
  <2>6. LastSent(AppendTo(i, j)) = prev + (Len(log) - slot + 1)
    BY <2>4, <2>5 DEF LastSent
  <2>7. prev + (Len(log) - slot + 1) = snap + Len(log)
    BY <2>1, <2>3
  <2> QED BY <2>1, <2>4, <2>6, <2>7
<1> HIDE DEF sent
<1>6. AppendsInFlight' = AppendsInFlight \cup sent
  BY <1>1 DEF AppendsInFlight
<1>7. \A m \in sent : /\ m.round = Len(appendNums) + 1 /\ LastSent(m) = LastLogIndex(i)
                      /\ m.leadercommit = m_commitIndex[i]
  BY <1>5 DEF sent
<1>8. \A m \in AppendsInFlight : m.round \in 1 .. Len(appendNums)
  BY <1>3 DEF RoundsReach
<1> QED BY <1>1, <1>3, <1>4, <1>6, <1>7, <1>8

\* A round is never opened twice.
LEMMA NextKeepsRoundsReach ==
  ASSUME IndInv, RoundsReach, [Next]_vars
  PROVE  RoundsReach'
<1>1. \A m : LastSent(m)' = LastSent(m)
  BY DEF LastSent
<1>2. ASSUME AppendsInFlight' \subseteq AppendsInFlight, DOMAIN appendNums' = DOMAIN appendNums
      PROVE  RoundsReach'
  BY <1>1, <1>2 DEF RoundsReach
<1>3. ASSUME NEW i \in Server, NEW to \in SUBSET Server, \A j \in to : CanAppend(i, j),
             SpawnAppends(i, to)
      PROVE  RoundsReach'
  <2> DEFINE n == Len(appendNums)
             Old(m) == m \in AppendsInFlight /\ m.round \in 1 .. n
             New(m) == m.round = n + 1 /\ LastSent(m) = LastLogIndex(i)
  <2>1. n \in Nat /\ DOMAIN appendNums' = 1 .. n + 1
        /\ \A m \in AppendsInFlight' : Old(m) \/ New(m)
    BY <1>3, RoundOpened
  <2> HIDE DEF n
  <2>2. \A m \in AppendsInFlight' : m.round \in DOMAIN appendNums'
    BY <2>1
  <2>3. \A l, m \in AppendsInFlight' : l.round = m.round => LastSent(l) = LastSent(m)
    BY <2>1 DEF RoundsReach
  <2> QED BY <2>2, <2>3, <1>1 DEF RoundsReach
<1>4. ASSUME NEW r \in aeReplies, SendAppendEntriesAccepted(r)
      PROVE  /\ AppendsInFlight' \subseteq AppendsInFlight
             /\ DOMAIN appendNums' = DOMAIN appendNums
  BY <1>4 DEF SendAppendEntriesAccepted, LeaderTakes, TakeAppendReply, AppendsInFlight
<1> QED BY <1>2, <1>3, <1>4, RoundSteps

\* A follower that accepts a request has a log that reaches the end of the request.
LEMMA MatchReaches ==
  ASSUME IndInv, NEW m \in aeCalls, AppendEntriesMatch(m)
  PROVE  LastLogIndex(m.server)' >= LastSent(m)
<1> DEFINE j == m.server
           snap == m_lastSnapshotIncludeIndex[j]
           log == m_logs[j]
           new == Merged(m).logs
<1>1. /\ j \in Server /\ m.prevlogindex \in Nat /\ Len(m.entries) \in Nat
      /\ RunsFrom(m.prevlogindex, m.entries)
  BY AppendCallTypes DEF AppendsInFlight
<1>2. /\ snap \in Nat /\ RunsFrom(snap, log) /\ Len(log) \in Nat
      /\ LastLogIndex(j) = snap + Len(log)
  BY <1>1, LogAccess DEF IndInv, LogShape
<1>3. /\ Matches(m) /\ m_logs' = [m_logs EXCEPT ![j] = new]
      /\ m_lastSnapshotIncludeIndex' = m_lastSnapshotIncludeIndex
  BY DEF AppendEntriesMatch, AnswerAppend
<1>4. RunsFrom(snap, new) /\ m.prevlogindex + Len(m.entries) <= snap + Len(new)
  <2>1. snap <= m.prevlogindex /\ m.prevlogindex <= snap + Len(log)
    BY <1>2, <1>3 DEF Matches, InLog
  <2>2. new = MergeEntries(snap, log, m.entries).logs
    BY DEF Merged
  <2> HIDE DEF snap, log, new, j
  <2> QED BY <2>1, <2>2, <1>1, <1>2, MergeEntriesShape
<1>5. m_logs'[j] = new /\ m_lastSnapshotIncludeIndex'[j] = snap
  BY <1>1, <1>3 DEF IndInv, TypeOK
<1>6. LastLogIndex(j)' = IF new = <<>> THEN snap ELSE new[Len(new)].logindex
  BY <1>5 DEF LastLogIndex
<1> HIDE DEF new, snap, log, j
<1>7. new \in Seq(LogEntry) /\ Len(new) \in Nat /\ (new # <<>> => Len(new) \in DOMAIN new)
  <2>1. new \in Seq(LogEntry)
    BY <1>4 DEF RunsFrom
  <2> QED BY <2>1
<1>8. LastLogIndex(j)' = snap + Len(new)
  BY <1>2, <1>4, <1>6, <1>7 DEF RunsFrom
<1> QED BY <1>1, <1>2, <1>4, <1>7, <1>8 DEF LastSent, j

\* No thread of sendAppendEntries is given a reply to another call in this step, nor was one.
LEMMA AppendsNotAstray ==
  ASSUME IndInv, [Next]_vars, astray'["AppendEntries"] = 0
  PROVE  /\ astray["AppendEntries"] = 0
         /\ AstrayStep => aeReplies' \subseteq aeReplies
<1>1. astray \in [Method -> Nat] /\ Method = {"RequestVote", "AppendEntries", "InstallSnapShot"}
  BY DEF IndInv, TypeOK, Method
<1>2. ASSUME NEW method \in Method, NEW i, NEW call, NEW replies,
             ReceiveOthers(method, i, call, replies)
      PROVE  method # "AppendEntries" /\ astray["AppendEntries"] = 0
  <2>1. astray' = [astray EXCEPT ![method] = @ + 1]
    BY <1>2 DEF ReceiveOthers
  <2> QED BY <1>1, <2>1
<1>3. CASE AstrayStep
  <2>1. ASSUME NEW m, NEW replies, AppendEntriesAstray(m, replies) PROVE FALSE
    BY <2>1, <1>1, <1>2 DEF AppendEntriesAstray
  <2>2. ASSUME NEW m, NEW replies,
               RequestVoteAstray(m, replies) \/ InstallSnapshotAstray(m, replies)
        PROVE  astray["AppendEntries"] = 0 /\ aeReplies' \subseteq aeReplies
    BY <2>2, <1>1, <1>2 DEF RequestVoteAstray, InstallSnapshotAstray
  <2> QED BY <1>3, <2>1, <2>2 DEF AstrayStep
<1>4. CASE ~AstrayStep
  BY <1>4, AstrayKept
<1> QED BY <1>3, <1>4

\* Replies only appear when a handler answers.
LEMMA NoReplyMade ==
  ASSUME IndInv, [Next]_vars, astray'["AppendEntries"] = 0, ~AppendStep
  PROVE  aeReplies' \subseteq aeReplies
<1>1. CASE ProcessStep
  BY <1>1 DEF ProcessStep, Kill, Restart, aeVars
<1> QED BY <1>1, ElectionFrame, ApplyFrame, SnapshotFrame, AppendsNotAstray DEF Next, vars, aeVars

\* An acknowledgement outlives no log that it speaks of.
LEMMA NextKeepsAckedReach ==
  ASSUME IndInv, AckedReach, [Next]_vars, astray'["AppendEntries"] = 0
  PROVE  AckedReach'
<1>1. ASSUME NEW r \in aeReplies', r.success
      PROVE  LastLogIndex(r.args.server)' >= LastSent(r.args)
  <2>1. CASE r \in aeReplies
    <3>1. r.args.server \in Server /\ LastSent(r.args) \in Nat
      BY <2>1, AppendReplyTypes, AppendCallTypes
    <3>2. ~Restart(r.args.server)
      BY DEF Restart
    <3>3. /\ LastLogIndex(r.args.server) \in Nat /\ LastLogIndex(r.args.server)' \in Nat
          /\ LastLogIndex(r.args.server)' >= LastLogIndex(r.args.server)
      BY <3>1, <3>2, EndsGoOn
    <3>4. LastLogIndex(r.args.server) >= LastSent(r.args)
      BY <1>1, <2>1 DEF AckedReach
    <3> QED BY <3>1, <3>3, <3>4
  <2>2. CASE r \notin aeReplies
    <3>1. AppendStep
      BY <2>2, NoReplyMade
    <3>2. PICK m \in aeCalls : ReplyMade(r, m)
      BY <2>2, <3>1, RepliesMade
    <3>3. LastLogIndex(m.server)' >= LastSent(m) /\ r.args = m
      BY <1>1, <3>2, MatchReaches DEF ReplyMade
    <3> QED BY <3>3
  <2> QED BY <2>1, <2>2
<1>2. \A m : LastSent(m)' = LastSent(m)
  BY DEF LastSent
<1> QED BY <1>1, <1>2 DEF AckedReach

\* Whoever is counted stays counted rightly: logs only grow while nobody restarts.
LEMMA NextKeepsCountedReach ==
  ASSUME IndInv, RoundsReach, CountedReach, AckedReach, [Next]_vars
  PROVE  CountedReach'
<1> SUFFICES ASSUME restarts' = 0, NEW m \in AppendsInFlight', NEW j \in appendNums'[m.round]
             PROVE  LastLogIndex(j)' >= LastSent(m)
  BY DEF CountedReach, LastSent
<1>1. UNCHANGED restarts /\ restarts = 0
  BY NoRestartYet DEF IndInv
<1>2. ASSUME NEW l \in AppendsInFlight, NEW k \in Server, LastLogIndex(k) >= LastSent(l)
      PROVE  LastLogIndex(k)' >= LastSent(l)
  <2>1. /\ LastLogIndex(k) \in Nat /\ LastLogIndex(k)' \in Nat
        /\ LastLogIndex(k)' >= LastLogIndex(k)
    BY <1>1, NoRestart, EndsGoOn DEF IndInv
  <2>2. LastSent(l) \in Nat
    BY AppendCallTypes
  <2> QED BY <1>2, <2>1, <2>2
<1>3. ASSUME NEW l \in AppendsInFlight, NEW k \in appendNums[l.round]
      PROVE  k \in Server /\ LastLogIndex(k) >= LastSent(l)
  <2>1. l.round \in DOMAIN appendNums
    BY DEF RoundsReach
  <2>2. appendNums[l.round] \in SUBSET Server
    BY <2>1 DEF IndInv, TypeOK
  <2> QED BY <1>1, <2>2 DEF CountedReach
<1>4. CASE AppendsInFlight' \subseteq AppendsInFlight /\ UNCHANGED appendNums
  BY <1>2, <1>3, <1>4
<1>5. ASSUME NEW i \in Server, NEW to \in SUBSET Server, \A k \in to : CanAppend(i, k),
             SpawnAppends(i, to)
      PROVE  LastLogIndex(j)' >= LastSent(m)
  <2> DEFINE n == Len(appendNums)
  <2>1. /\ \A l \in 1 .. n : appendNums'[l] = appendNums[l]
        /\ appendNums'[n + 1] = {i} /\ \A k : LastLogIndex(k)' = LastLogIndex(k)
        /\ \/ m \in AppendsInFlight /\ m.round \in 1 .. n
           \/ m.round = n + 1 /\ LastSent(m) = LastLogIndex(i)
    BY <1>5, RoundOpened
  <2>2. LastLogIndex(i) \in Nat
    BY EndsGoOn
  <2> HIDE DEF n
  <2>3. CASE m \in AppendsInFlight /\ m.round \in 1 .. n
    BY <1>3, <2>1, <2>3
  <2>4. CASE m.round = n + 1 /\ LastSent(m) = LastLogIndex(i)
    <3>1. j = i
      BY <2>1, <2>4
    <3> QED BY <2>1, <2>2, <2>4, <3>1
  <2> QED BY <2>1, <2>3, <2>4
<1>6. ASSUME NEW r \in aeReplies, SendAppendEntriesAccepted(r)
      PROVE  LastLogIndex(j)' >= LastSent(m)
  <2>1. /\ appendNums' = [appendNums EXCEPT
              ![r.args.round] = IF IsMajority(Acked(r)) THEN {} ELSE Acked(r)]
        /\ r.success /\ m \in AppendsInFlight
    BY <1>6 DEF SendAppendEntriesAccepted, LeaderTakes, TakeAppendReply, AppendsInFlight
  <2>2. r.args \in AppendsInFlight
    BY AppendReplyTypes
  <2>3. r.args.server \in Server /\ m.round \in DOMAIN appendNums
    BY <2>1, <2>2, AppendCallTypes DEF RoundsReach
  <2>4. CASE j \in appendNums[m.round]
    BY <1>2, <1>3, <2>1, <2>4
  <2>5. CASE j \notin appendNums[m.round]
    <3>1. m.round = r.args.round /\ j = r.args.server
      BY <2>1, <2>3, <2>5 DEF Acked
    <3>2. LastSent(m) = LastSent(r.args)
      BY <2>1, <2>2, <3>1 DEF RoundsReach
    <3>3. LastLogIndex(r.args.server) >= LastSent(r.args)
      BY <2>1 DEF AckedReach
    <3> QED BY <1>2, <2>2, <2>3, <3>1, <3>2, <3>3
  <2> QED BY <2>4, <2>5
<1> QED BY <1>4, <1>5, <1>6, RoundSteps

\* A request only carries what its sender has committed.
LEMMA NextKeepsSentOnQuorum ==
  ASSUME IndInv, RoundsReach, SentOnQuorum, CommitsReached, [Next]_vars
  PROVE  SentOnQuorum'
<1> SUFFICES ASSUME restarts' = 0
             PROVE  /\ \A m \in AppendsInFlight' : OnQuorum(m.leadercommit)'
                    /\ \A m \in isCalls' : OnQuorum(m.lastsnapshotincludeindex)'
  BY DEF SentOnQuorum
<1>1. UNCHANGED restarts /\ restarts = 0
  BY NoRestartYet DEF IndInv
<1>2. ASSUME NEW i \in Server
      PROVE  /\ m_commitIndex[i] \in Nat /\ OnQuorum(m_commitIndex[i])
             /\ m_lastSnapshotIncludeIndex[i] \in Nat
             /\ m_lastSnapshotIncludeIndex[i] <= m_commitIndex[i]
  <2>1. /\ m_commitIndex[i] \in Nat /\ m_lastSnapshotIncludeIndex[i] \in Nat
        /\ m_lastApplied[i] \in Nat
        /\ m_lastSnapshotIncludeIndex[i] <= m_lastApplied[i]
        /\ m_lastApplied[i] <= m_commitIndex[i]
    BY DEF IndInv, TypeOK, LogShape, CursorOrder
  <2>2. OnQuorum(m_commitIndex[i])
    BY <1>1 DEF CommitsReached, OnQuorum
  <2> QED BY <2>1, <2>2
<1>3. ASSUME NEW index \in Nat, OnQuorum(index), NEW lower \in Nat, lower <= index
      PROVE  OnQuorum(lower)'
  BY <1>1, <1>3, QuorumStays
<1>4. ASSUME NEW m \in AppendsInFlight' PROVE OnQuorum(m.leadercommit)'
  <2>1. CASE m \in AppendsInFlight
    <3>1. m.leadercommit \in Nat /\ OnQuorum(m.leadercommit)
      BY <1>1, <2>1, AppendCallTypes DEF SentOnQuorum
    <3> QED BY <3>1, <1>3
  <2>2. CASE m \notin AppendsInFlight
    <3>1. PICK i \in Server, to \in SUBSET Server :
            (\A j \in to : CanAppend(i, j)) /\ SpawnAppends(i, to)
      <4>1. ASSUME NEW r \in aeReplies, SendAppendEntriesAccepted(r)
            PROVE  AppendsInFlight' \subseteq AppendsInFlight
        BY <4>1 DEF SendAppendEntriesAccepted, LeaderTakes, TakeAppendReply, AppendsInFlight
      <4> QED BY <2>2, <4>1, RoundSteps
    <3>2. m.leadercommit = m_commitIndex[i]
      BY <2>2, <3>1, RoundOpened
    <3>3. PICK index : index = m_commitIndex[i]
      OBVIOUS
    <3>4. OnQuorum(index)'
      BY <1>2, <1>3, <3>3
    <3> QED BY <3>2, <3>3, <3>4
  <2> QED BY <2>1, <2>2
<1>5. ASSUME NEW m \in isCalls' PROVE OnQuorum(m.lastsnapshotincludeindex)'
  <2>1. CASE m \in isCalls
    <3>1. m.lastsnapshotincludeindex \in Nat /\ OnQuorum(m.lastsnapshotincludeindex)
      BY <1>1, <2>1, InstallCallTypes DEF SentOnQuorum, IndInv
    <3> QED BY <3>1, <1>3
  <2>2. CASE m \notin isCalls
    <3>1. SnapshotStep
      BY <2>2, ElectionFrame, AppendFrame, ApplyFrame, AstrayFrame
         DEF Next, vars, isVars, ProcessStep, Kill, Restart
    <3>2. PICK t \in isThreads : LeaderSendSnapShot(t)
      BY <2>2, <3>1 DEF SnapshotStep, SnapshotOfExecuted, Snapshot, isVars, AnswerInstall,
         InstallSnapshotStale, InstallSnapshotOld, InstallSnapshot, InstallSnapshotPeerGone,
         LeaderSendSnapShotIgnored, LeaderSendSnapShotHigherTerm, LeaderSendSnapShotDone,
         TakeInstallReply
    <3>3. t.leaderid \in Server
      BY DEF IndInv, TypeOK, SnapshotThread
    <3>4. m.lastsnapshotincludeindex = m_lastSnapshotIncludeIndex[t.leaderid]
      BY <2>2, <3>2 DEF LeaderSendSnapShot
    <3>5. PICK index, lower : /\ index = m_commitIndex[t.leaderid]
                              /\ lower = m_lastSnapshotIncludeIndex[t.leaderid]
      OBVIOUS
    <3>6. OnQuorum(lower)'
      BY <1>2, <1>3, <3>3, <3>5
    <3> QED BY <3>4, <3>5, <3>6
  <2> QED BY <2>1, <2>2
<1> QED BY <1>4, <1>5

\* What a server commits is no further than what it had committed, than what its leader
\* tells it, than the snapshot it takes, or than what a majority has acknowledged.
LEMMA CommitsOnQuorum ==
  ASSUME IndInv, CommitInv, [Next]_vars, restarts = 0, UNCHANGED restarts, NEW i \in Server
  PROVE  \E index \in Nat : OnQuorum(index) /\ m_commitIndex'[i] <= index
<1> USE DEF CommitInv
<1> DEFINE Goal == \E index \in Nat : OnQuorum(index) /\ m_commitIndex'[i] <= index
           commit == m_commitIndex[i]
<1>1. commit \in Nat /\ OnQuorum(commit)
  BY DEF IndInv, TypeOK, CommitsReached, OnQuorum
<1>2. ASSUME m_commitIndex'[i] = commit PROVE Goal
  BY <1>1, <1>2
<1>3. CASE UNCHANGED m_commitIndex
  BY <1>2, <1>3
<1>4. ASSUME NEW m \in aeCalls, AppendEntriesMatch(m) PROVE Goal
  <2> DEFINE new == Merged(m).logs
             last == IF new = <<>> THEN m_lastSnapshotIncludeIndex[m.server]
                                   ELSE new[Len(new)].logindex
  <2>1. m_commitIndex' = [m_commitIndex EXCEPT
          ![m.server] = IF m.leadercommit > @ THEN Smaller(m.leadercommit, last) ELSE @]
    BY <1>4 DEF AppendEntriesMatch
  <2> HIDE DEF last
  <2>2. m.leadercommit \in Nat /\ OnQuorum(m.leadercommit)
    BY AppendCallTypes DEF AppendsInFlight, SentOnQuorum
  <2>3. m_commitIndex'[i] \in {commit, m.leadercommit, last}
        /\ (m_commitIndex'[i] = commit \/ m_commitIndex'[i] <= m.leadercommit)
    <3>1. m_commitIndex'[i] = commit \/ m_commitIndex'[i] = Smaller(m.leadercommit, last)
      BY <2>1 DEF IndInv, TypeOK
    <3>2. IndInv'
      BY NextKeepsIndInv
    <3>3. m_commitIndex'[i] \in Nat
      BY <3>2 DEF IndInv, TypeOK
    <3>4. CASE m_commitIndex'[i] = Smaller(m.leadercommit, last)
      <4>1. CASE m.leadercommit <= last
        BY <2>2, <3>4, <4>1 DEF Smaller
      <4>2. CASE ~(m.leadercommit <= last)
        <5>1. m_commitIndex'[i] = last /\ last \in Nat
          BY <3>3, <3>4, <4>2 DEF Smaller
        <5> QED BY <2>2, <4>2, <5>1
      <4> QED BY <4>1, <4>2
    <3> QED BY <3>1, <3>4
  <2> HIDE DEF commit
  <2> QED BY <1>1, <1>2, <2>2, <2>3 DEF commit
<1>5. ASSUME NEW r \in aeReplies, SendAppendEntriesAccepted(r) PROVE Goal
  <2>1. /\ m_commitIndex' = [m_commitIndex EXCEPT ![r.args.leaderid] = CommitAfter(r)]
        /\ r.success
    BY <1>5 DEF SendAppendEntriesAccepted, LeaderTakes
  <2>2. r.args \in AppendsInFlight
    BY AppendReplyTypes
  <2>3. /\ r.args.server \in Server /\ LastSent(r.args) \in Nat
        /\ r.args.round \in DOMAIN appendNums
    BY <2>2, AppendCallTypes DEF RoundsReach
  <2>4. CASE m_commitIndex'[i] = commit
    BY <1>2, <2>4
  <2>5. CASE m_commitIndex'[i] # commit
    <3>1. i = r.args.leaderid /\ m_commitIndex'[i] = CommitAfter(r)
      BY <2>1, <2>5 DEF IndInv, TypeOK
    <3>2. Commits(r) /\ m_commitIndex'[i] = Larger(commit, LastSent(r.args))
      BY <2>5, <3>1 DEF CommitAfter
    <3>3. m_commitIndex'[i] = LastSent(r.args)
      BY <2>5, <3>2 DEF Larger
    <3>4. Acked(r) \subseteq {j \in Server : LastLogIndex(j) >= LastSent(r.args)}
      <4>1. appendNums[r.args.round] \subseteq Server
        <5>1. appendNums \in Seq(SUBSET Server)
          BY DEF IndInv, TypeOK
        <5> QED BY <5>1, <2>3
      <4>2. \A j \in appendNums[r.args.round] : LastLogIndex(j) >= LastSent(r.args)
        BY <2>2 DEF CountedReach
      <4>3. LastLogIndex(r.args.server) >= LastSent(r.args)
        BY <2>1 DEF AckedReach
      <4> QED BY <2>3, <4>1, <4>2, <4>3 DEF Acked
    <3>5. OnQuorum(LastSent(r.args))
      <4>1. IsMajority(Acked(r))
        BY <3>2 DEF Commits
      <4> QED BY <3>4, <4>1, LargerMajority DEF OnQuorum
    <3> QED BY <2>3, <3>3, <3>5
  <2> QED BY <2>4, <2>5
<1>6. ASSUME NEW m \in isCalls, InstallSnapshot(m) PROVE Goal
  <2>1. m_commitIndex' = [m_commitIndex EXCEPT
          ![m.server] = Larger(@, m.lastsnapshotincludeindex)]
    BY <1>6 DEF InstallSnapshot
  <2>2. m.lastsnapshotincludeindex \in Nat /\ OnQuorum(m.lastsnapshotincludeindex)
    BY InstallCallTypes DEF IndInv, SentOnQuorum
  <2>3. m_commitIndex'[i] \in {commit, m.lastsnapshotincludeindex}
    BY <2>1 DEF Larger, IndInv, TypeOK
  <2> QED BY <1>2, <2>2, <2>3
<1> HIDE DEF Goal
<1>7. CASE AppendStep
  <2>1. ASSUME NEW k \in Server, DoHeartBeat(k) \/ DoHeartBeatExits(k) \/ Start(k)
        PROVE  UNCHANGED m_commitIndex
    BY <2>1 DEF DoHeartBeat, DoHeartBeatExits, SpawnAppends, Start, indexVars
  <2>2. ASSUME NEW m \in aeCalls,
               \/ AppendEntriesStale(m) \/ AppendEntriesAhead(m)
               \/ AppendEntriesBeforeSnapshot(m) \/ AppendEntriesMismatch(m)
               \/ AppendEntriesWild(m) \/ AppendEntriesDiffers(m)
        PROVE  UNCHANGED m_commitIndex
    BY <2>2 DEF AppendEntriesStale, AppendEntriesAhead, AppendEntriesBeforeSnapshot,
       AppendEntriesMismatch, AppendEntriesWild, AppendEntriesDiffers, DieInAppend, indexVars
  <2>3. ASSUME NEW r \in aeReplies,
               \/ SendAppendEntriesHigherTerm(r) \/ SendAppendEntriesIgnored(r)
               \/ SendAppendEntriesRefused(r)
        PROVE  UNCHANGED m_commitIndex
    BY <2>3 DEF SendAppendEntriesHigherTerm, SendAppendEntriesIgnored, SendAppendEntriesRefused
  <2> QED BY <1>3, <1>4, <1>5, <1>7, <2>1, <2>2, <2>3 DEF AppendStep, Goal
<1>8. CASE SnapshotStep
  <2>1. ASSUME NEW k \in Server, SnapshotOfExecuted(k) PROVE UNCHANGED m_commitIndex
    BY <2>1 DEF SnapshotOfExecuted, Snapshot
  <2>2. ASSUME NEW t \in isThreads, LeaderSendSnapShot(t) PROVE UNCHANGED m_commitIndex
    BY <2>2 DEF LeaderSendSnapShot, indexVars
  <2>3. ASSUME NEW m \in isCalls \cup isWaits,
               \/ InstallSnapshotStale(m) \/ InstallSnapshotOld(m) \/ InstallSnapshotPeerGone(m)
        PROVE  UNCHANGED m_commitIndex
    BY <2>3 DEF InstallSnapshotStale, InstallSnapshotOld, InstallSnapshotPeerGone, indexVars
  <2>4. ASSUME NEW r \in isReplies,
               \/ LeaderSendSnapShotIgnored(r) \/ LeaderSendSnapShotHigherTerm(r)
               \/ LeaderSendSnapShotDone(r)
        PROVE  UNCHANGED m_commitIndex
    BY <2>4 DEF LeaderSendSnapShotIgnored, LeaderSendSnapShotHigherTerm,
       LeaderSendSnapShotDone, TakeInstallReply, indexVars
  <2> QED BY <1>3, <1>6, <1>8, <2>1, <2>2, <2>3, <2>4 DEF SnapshotStep, Goal
<1>9. CASE ProcessStep
  <2>1. ASSUME NEW k \in Server, Kill(k) PROVE UNCHANGED m_commitIndex
    BY <2>1 DEF Kill, indexVars
  <2> QED BY <1>3, <1>9, <2>1, NoRestart DEF ProcessStep, IndInv, Goal
<1> QED BY <1>3, <1>7, <1>8, <1>9, ElectionFrame, ApplyFrame, AstrayFrame
        DEF Next, vars, indexVars, Goal

\* Every step keeps all of it.
LEMMA NextKeepsCommitInv ==
  ASSUME IndInv, CommitInv, [Next]_vars, astray'["AppendEntries"] = 0
  PROVE  CommitInv'
<1>1. RoundsReach' /\ CountedReach' /\ AckedReach' /\ SentOnQuorum'
  BY NextKeepsRoundsReach, NextKeepsCountedReach, NextKeepsAckedReach, NextKeepsSentOnQuorum
     DEF CommitInv
<1>2. CommitsReached'
  <2>1. ASSUME restarts' = 0, NEW i \in Server PROVE OnQuorum(m_commitIndex[i])'
    <3>1. UNCHANGED restarts /\ restarts = 0
      BY <2>1, NoRestartYet DEF IndInv
    <3>2. PICK index \in Nat : OnQuorum(index) /\ m_commitIndex'[i] <= index
      BY <3>1, CommitsOnQuorum
    <3>3. IndInv'
      BY NextKeepsIndInv
    <3>4. PICK lower \in Nat : lower = m_commitIndex'[i]
      BY <3>3 DEF IndInv, TypeOK
    <3>5. OnQuorum(lower)'
      BY <3>1, <3>2, <3>4, QuorumStays
    <3> QED BY <3>4, <3>5 DEF OnQuorum, IsMajority
  <2> QED BY <2>1 DEF CommitsReached, OnQuorum, IsMajority
<1> QED BY <1>1, <1>2 DEF CommitInv

\* Nothing is in flight at the start, and nothing is committed.
LEMMA InitCommitInv == Init => CommitInv
<1> SUFFICES ASSUME Init PROVE CommitInv
  OBVIOUS
<1>1. AppendsInFlight = {} /\ aeReplies = {} /\ isCalls = {}
  BY DEF Init, AppendsInFlight
<1>2. \A i \in Server : m_commitIndex[i] = 0
  BY DEF Init
<1> QED BY <1>1, <1>2 DEF CommitInv, RoundsReach, CountedReach, AckedReach, SentOnQuorum,
                          CommitsReached

\* The inductive invariant of the commit index holds in every state before which no thread
\* of sendAppendEntries was given a reply to another call.
THEOREM CommitInvHolds == Spec => [](astray["AppendEntries"] = 0 => CommitInv)
<1> DEFINE Inv == astray["AppendEntries"] = 0 => CommitInv
<1>1. Init => Inv
  BY InitCommitInv
<1>2. IndInv /\ Inv /\ [Next]_vars => Inv'
  BY NextKeepsCommitInv, AppendsNotAstray
<1> QED BY <1>1, <1>2, IndInvHolds, PTL DEF Spec

\* However late the acknowledgements of a round come in, and whatever leaders tell each
\* other's followers in the meantime, no server commits an index that the logs of a majority
\* do not reach; the per-round counters count nobody whose log is shorter.  This needs every
\* acknowledgement to come to the thread that asked, as the shared channel does not ensure.
THEOREM CommitsNeedQuorum == Spec => []CommitIndexOnQuorum
<1>1. (astray["AppendEntries"] = 0 => CommitInv) => CommitIndexOnQuorum
  BY DEF CommitInv, CommitsReached, CommitIndexOnQuorum
<1> QED BY <1>1, CommitInvHolds, PTL

-----------------------------------------------------------------------------
(* What happens to one server's log, and to its reports, in a step.        *)

\* The ways in which the log of i changes: an entry from Start, the merge of a request, a
\* snapshot that takes its place up to an index, or a new process.
LEMMA LogSteps ==
  ASSUME IndInv, [Next]_vars, NEW i \in Server
  PROVE  \/ Restart(i)
         \/ /\ m_logs'[i] = m_logs[i]
            /\ m_lastSnapshotIncludeIndex'[i] = m_lastSnapshotIncludeIndex[i]
         \/ Start(i)
         \/ \E m \in aeCalls : m.server = i /\ AppendEntriesMatch(m)
         \/ \E index \in Nat : /\ m_lastSnapshotIncludeIndex[i] < index
                              /\ m_lastSnapshotIncludeIndex'[i] = index
                              /\ m_logs'[i] = LogAfter(i, index)
<1> DEFINE Same == /\ m_logs'[i] = m_logs[i]
                   /\ m_lastSnapshotIncludeIndex'[i] = m_lastSnapshotIncludeIndex[i]
           Cut == \E index \in Nat : /\ m_lastSnapshotIncludeIndex[i] < index
                                    /\ m_lastSnapshotIncludeIndex'[i] = index
                                    /\ m_logs'[i] = LogAfter(i, index)
<1>1. CASE UNCHANGED <<m_logs, m_lastSnapshotIncludeIndex>>
  BY <1>1
<1>2. CASE AppendStep
  <2>1. ASSUME NEW j \in Server, DoHeartBeat(j) \/ DoHeartBeatExits(j) PROVE Same
    BY <2>1 DEF DoHeartBeat, DoHeartBeatExits, SpawnAppends, logVars
  <2>2. ASSUME NEW j \in Server, j # i, Start(j) PROVE Same
    BY <2>2 DEF Start, IndInv, TypeOK
  <2>3. ASSUME NEW m \in aeCalls,
               \/ AppendEntriesStale(m) \/ AppendEntriesAhead(m)
               \/ AppendEntriesBeforeSnapshot(m) \/ AppendEntriesMismatch(m)
               \/ AppendEntriesWild(m) \/ AppendEntriesDiffers(m)
        PROVE  Same
    BY <2>3 DEF AppendEntriesStale, AppendEntriesAhead, AppendEntriesBeforeSnapshot,
       AppendEntriesMismatch, AppendEntriesWild, AppendEntriesDiffers, AnswerAppend,
       DieInAppend, logVars
  <2>4. ASSUME NEW m \in aeCalls, m.server # i, AppendEntriesMatch(m) PROVE Same
    BY <2>4 DEF AppendEntriesMatch, AnswerAppend, IndInv, TypeOK
  <2>5. ASSUME NEW r \in aeReplies,
               \/ SendAppendEntriesHigherTerm(r) \/ SendAppendEntriesIgnored(r)
               \/ SendAppendEntriesRefused(r) \/ SendAppendEntriesAccepted(r)
        PROVE  Same
    BY <2>5 DEF SendAppendEntriesHigherTerm, SendAppendEntriesIgnored,
       SendAppendEntriesRefused, SendAppendEntriesAccepted, LeaderTakes, TakeAppendReply, logVars
  <2> HIDE DEF Same
  <2>6. Same \/ Start(i) \/ \E m \in aeCalls : m.server = i /\ AppendEntriesMatch(m)
    BY <1>2, <2>1, <2>2, <2>3, <2>4, <2>5 DEF AppendStep
  <2> QED BY <2>6 DEF Same
<1>3. CASE SnapshotStep
  <2>1. ASSUME NEW j \in Server, SnapshotOfExecuted(j) PROVE Same \/ Cut
    <3>1. PICK k \in DOMAIN applyChan[j] : Snapshot(j, applyChan[j][k].index)
      BY <2>1 DEF SnapshotOfExecuted
    <3>2. applyChan[j] \in Seq(ApplyMsg) /\ applyChan[j][k] \in ApplyMsg
      <4>1. applyChan[j] \in Seq(ApplyMsg)
        BY DEF IndInv, TypeOK
      <4> QED BY <3>1, <4>1
    <3>3. PICK index \in Nat : index = applyChan[j][k].index
      BY <3>2 DEF ApplyMsg
    <3>4. Snapshot(j, index)
      BY <3>1, <3>3
    <3>5. CASE j = i
      BY <3>4, <3>5 DEF Snapshot, IndInv, TypeOK
    <3>6. CASE j # i
      BY <3>4, <3>6 DEF Snapshot, IndInv, TypeOK
    <3> QED BY <3>5, <3>6
  <2>2. ASSUME NEW m \in isCalls, InstallSnapshot(m) PROVE Same \/ Cut
    <3>1. m.server \in Server /\ m.lastsnapshotincludeindex \in Nat
      BY InstallCallTypes DEF IndInv
    <3>2. CASE m.server = i
      BY <2>2, <3>1, <3>2 DEF InstallSnapshot, IndInv, TypeOK
    <3>3. CASE m.server # i
      BY <2>2, <3>1, <3>3 DEF InstallSnapshot, IndInv, TypeOK
    <3> QED BY <3>2, <3>3
  <2>3. ASSUME NEW m \in isCalls \cup isWaits,
               \/ InstallSnapshotStale(m) \/ InstallSnapshotOld(m) \/ InstallSnapshotPeerGone(m)
        PROVE  Same
    BY <2>3 DEF InstallSnapshotStale, InstallSnapshotOld, InstallSnapshotPeerGone, logVars
  <2>4. ASSUME NEW r \in isReplies,
               \/ LeaderSendSnapShotIgnored(r) \/ LeaderSendSnapShotHigherTerm(r)
               \/ LeaderSendSnapShotDone(r)
        PROVE  Same
    BY <2>4 DEF LeaderSendSnapShotIgnored, LeaderSendSnapShotHigherTerm,
       LeaderSendSnapShotDone, TakeInstallReply, logVars
  <2>5. ASSUME NEW t \in isThreads, LeaderSendSnapShot(t) PROVE Same
    BY <2>5 DEF LeaderSendSnapShot, logVars
  <2> HIDE DEF Same, Cut
  <2>6. Same \/ Cut
    BY <1>3, <2>1, <2>2, <2>3, <2>4, <2>5 DEF SnapshotStep
  <2> QED BY <2>6 DEF Same, Cut
<1>4. CASE ProcessStep
  <2>1. ASSUME NEW j \in Server, Kill(j) PROVE Same
    BY <2>1 DEF Kill, logVars
  <2>2. ASSUME NEW j \in Server, j # i, Restart(j) PROVE Same
    BY <2>2 DEF Restart, IndInv, TypeOK
  <2> HIDE DEF Same
  <2>3. Same \/ Restart(i)
    BY <1>4, <2>1, <2>2 DEF ProcessStep
  <2> QED BY <2>3 DEF Same
<1> QED BY <1>1, <1>2, <1>3, <1>4, ElectionFrame, ApplyFrame, AstrayFrame DEF Next, vars, logVars

\* The command at an index of the log of i, past its snapshot.
CommandAt(i, x) == m_logs[i][x - m_lastSnapshotIncludeIndex[i]].command

\* What is left when a snapshot takes the place of the entries up to index.
LEMMA LogAfterCommands ==
  ASSUME IndInv, NEW i \in Server, NEW index \in Nat, m_lastSnapshotIncludeIndex[i] < index
  PROVE  \A x \in index + 1 .. LastLogIndex(i) :
           LogAfter(i, index)[x - index].command = CommandAt(i, x)
<1> DEFINE snap == m_lastSnapshotIncludeIndex[i]
           log == m_logs[i]
           slot == Slot(i, index) + 1
<1>1. /\ snap \in Nat /\ RunsFrom(snap, log) /\ Len(log) \in Nat
      /\ LastLogIndex(i) = snap + Len(log)
  BY LogAccess DEF IndInv, LogShape
<1>2. ASSUME NEW x \in index + 1 .. LastLogIndex(i)
      PROVE  LogAfter(i, index)[x - index] = log[x - snap]
  <2>1. LogAfter(i, index) = SubSeq(log, slot, Len(log))
    <3>1. LastLogIndex(i) > index
      BY <1>1
    <3> QED BY <3>1 DEF LogAfter, EntriesFrom
  <2>2. slot = index - snap + 1
    BY DEF Slot
  <2> HIDE DEF snap, log, slot
  <2>3. log \in Seq(LogEntry)
    BY <1>1 DEF RunsFrom
  <2>4. slot \in 1 .. Len(log) + 1 /\ x - index \in 1 .. Len(log) - slot + 1
        /\ slot + (x - index) - 1 = x - snap
    <3>1. snap + 1 <= x /\ x <= snap + Len(log) /\ index < x /\ snap < index
      BY <1>1, <1>2 DEF snap
    <3>2. snap \in Nat /\ Len(log) \in Nat /\ x \in Int
      BY <1>1, <1>2
    <3> QED BY <2>2, <3>1, <3>2
  <2>5. SubSeq(log, slot, Len(log))[x - index] = log[slot + (x - index) - 1]
    BY <1>1, <2>3, <2>4, SubSeqProperties
  <2> QED BY <2>1, <2>4, <2>5
<1> QED BY <1>2 DEF CommandAt

\* The commands in a log and in the requests are those that Start was given.
CommandsStarted ==
  /\ \A i \in Server : \A k \in DOMAIN m_logs[i] : m_logs[i][k].command \in 1 .. commands
  /\ \A m \in aeCalls : \A k \in DOMAIN m.entries : m.entries[k].command \in 1 .. commands

\* What is in the log of i after a step: the commands that were there, at the same indexes,
\* and past the old end commands that were started.
LogGoesOn(i) ==
  /\ m_lastSnapshotIncludeIndex'[i] >= m_lastSnapshotIncludeIndex[i]
  /\ \A x \in m_lastSnapshotIncludeIndex'[i] + 1 .. LastLogIndex(i)' :
       IF x <= LastLogIndex(i) THEN CommandAt(i, x)' = CommandAt(i, x)
                               ELSE CommandAt(i, x)' \in 1 .. commands'

\* Start counts the commands.
LEMMA CommandsCount ==
  ASSUME TypeOK, [Next]_vars
  PROVE  commands \in Nat /\ commands' \in Nat /\ commands <= commands'
<1>1. commands \in Nat
  BY DEF TypeOK
<1>2. commands' = commands \/ commands' = commands + 1
  <2>1. CASE AppendStep
    <3>1. ASSUME NEW i \in Server, DoHeartBeat(i) \/ DoHeartBeatExits(i) PROVE UNCHANGED commands
      BY <3>1 DEF DoHeartBeat, DoHeartBeatExits, SpawnAppends, boundVars
    <3>2. ASSUME NEW m \in aeCalls,
                 \/ AppendEntriesStale(m) \/ AppendEntriesAhead(m)
                 \/ AppendEntriesBeforeSnapshot(m) \/ AppendEntriesMismatch(m)
                 \/ AppendEntriesMatch(m) \/ AppendEntriesWild(m) \/ AppendEntriesDiffers(m)
          PROVE  UNCHANGED commands
      BY <3>2 DEF AppendEntriesStale, AppendEntriesAhead, AppendEntriesBeforeSnapshot,
         AppendEntriesMismatch, AppendEntriesMatch, AppendEntriesWild, AppendEntriesDiffers,
         AnswerAppend, DieInAppend, boundVars
    <3>3. ASSUME NEW r \in aeReplies,
                 \/ SendAppendEntriesHigherTerm(r) \/ SendAppendEntriesIgnored(r)
                 \/ SendAppendEntriesRefused(r) \/ SendAppendEntriesAccepted(r)
          PROVE  UNCHANGED commands
      BY <3>3 DEF SendAppendEntriesHigherTerm, SendAppendEntriesIgnored,
         SendAppendEntriesRefused, SendAppendEntriesAccepted, LeaderTakes, TakeAppendReply,
         boundVars
    <3> QED BY <2>1, <3>1, <3>2, <3>3 DEF AppendStep, Start
  <2>2. CASE ProcessStep
    BY <2>2 DEF ProcessStep, Kill, Restart, boundVars
  <2> QED BY <2>1, <2>2, ElectionFrame, ApplyFrame, SnapshotFrame, AstrayFrame
      DEF Next, vars, boundVars
<1> QED BY <1>1, <1>2

\* While its process lives, a server keeps the commands of its log at their indexes, and
\* new entries carry commands that were started.
LEMMA LogStays ==
  ASSUME IndInv, CommandsStarted, [Next]_vars, NEW i \in Server, ~Restart(i)
  PROVE  LogGoesOn(i)
<1> DEFINE snap == m_lastSnapshotIncludeIndex[i]
           log == m_logs[i]
           last == LastLogIndex(i)
<1>1. /\ snap \in Nat /\ RunsFrom(snap, log) /\ Len(log) \in Nat
      /\ last = snap + Len(log) /\ log \in Seq(LogEntry)
  BY LogAccess DEF IndInv, LogShape, RunsFrom
<1>2. \A k \in 1 .. Len(log) : log[k].command \in 1 .. commands
  BY <1>1 DEF CommandsStarted
<1>3. /\ commands \in Nat /\ commands' \in Nat /\ commands <= commands'
  BY CommandsCount DEF IndInv
<1>4. CASE m_logs'[i] = log /\ m_lastSnapshotIncludeIndex'[i] = snap
  <2>1. LastLogIndex(i)' = last
    BY <1>4 DEF LastLogIndex
  <2>2. \A x : CommandAt(i, x)' = CommandAt(i, x)
    BY <1>4 DEF CommandAt
  <2> QED BY <1>1, <1>4, <2>1, <2>2 DEF LogGoesOn
<1>5. ASSUME NEW new \in Seq(LogEntry), m_logs'[i] = new,
             m_lastSnapshotIncludeIndex'[i] = snap, RunsFrom(snap, new),
             \A k \in 1 .. Len(new) : IF k <= Len(log) THEN new[k].command = log[k].command
                                       ELSE new[k].command \in 1 .. commands'
      PROVE  LogGoesOn(i)
  <2>1. Len(new) \in Nat /\ (new # <<>> => Len(new) \in DOMAIN new)
    BY <1>5
  <2>2. LastLogIndex(i)' = IF new = <<>> THEN snap ELSE new[Len(new)].logindex
    BY <1>5 DEF LastLogIndex
  <2>3. LastLogIndex(i)' = snap + Len(new)
    BY <1>1, <1>5, <2>1, <2>2 DEF RunsFrom
  <2>4. \A x : CommandAt(i, x)' = new[x - snap].command /\ CommandAt(i, x) = log[x - snap].command
    BY <1>5 DEF CommandAt
  <2>6. m_lastSnapshotIncludeIndex'[i] >= m_lastSnapshotIncludeIndex[i]
    BY <1>1, <1>5
  <2> HIDE DEF snap, log, last
  <2>5. ASSUME NEW x \in snap + 1 .. snap + Len(new)
        PROVE  IF x <= last THEN CommandAt(i, x)' = CommandAt(i, x)
                            ELSE CommandAt(i, x)' \in 1 .. commands'
    <3>1. x - snap \in 1 .. Len(new) /\ (x <= last <=> x - snap <= Len(log))
      BY <1>1, <2>1
    <3> QED BY <1>5, <2>4, <3>1
  <2> QED BY <1>5, <2>3, <2>5, <2>6 DEF LogGoesOn, last
<1>6. CASE Start(i)
  <2> DEFINE entry == [logindex |-> LastLogIndex(i) + 1, logterm |-> m_currentTerm[i],
                       command |-> commands + 1]
             new == Append(log, entry)
  <2>1. /\ m_logs'[i] = new /\ m_lastSnapshotIncludeIndex'[i] = snap /\ commands' = commands + 1
    BY <1>6 DEF Start, IndInv, TypeOK
  <2>2. entry.command = commands + 1
    OBVIOUS
  <2>3. IndInv'
    BY NextKeepsIndInv
  <2> HIDE DEF entry
  <2>4. /\ Len(new) = Len(log) + 1
        /\ \A k \in 1 .. Len(log) : new[k] = log[k]
        /\ new[Len(log) + 1] = entry
    BY <1>1
  <2> HIDE DEF new, snap
  <2>5. new \in Seq(LogEntry)
    BY <2>1, <2>3 DEF IndInv, TypeOK
  <2>6. RunsFrom(snap, new)
    BY <2>1, <2>3, <2>5 DEF IndInv, LogShape, LogContiguous, RunsFrom
  <2>7. ASSUME NEW k \in 1 .. Len(new)
        PROVE  IF k <= Len(log) THEN new[k].command = log[k].command
               ELSE new[k].command \in 1 .. commands'
    <3>1. CASE k <= Len(log)
      BY <1>1, <2>4, <3>1
    <3>2. CASE ~(k <= Len(log))
      <4>1. new[k] = entry
        BY <1>1, <2>4, <3>2
      <4> QED BY <1>3, <2>1, <2>2, <3>2, <4>1
    <3> QED BY <3>1, <3>2
  <2> QED BY <1>5, <2>1, <2>5, <2>6, <2>7 DEF snap
<1>7. ASSUME NEW m \in aeCalls, m.server = i, AppendEntriesMatch(m) PROVE LogGoesOn(i)
  <2> DEFINE new == Merged(m).logs
  <2>1. m_logs'[i] = new /\ m_lastSnapshotIncludeIndex'[i] = snap
    BY <1>7 DEF AppendEntriesMatch, AnswerAppend, IndInv, TypeOK
  <2>2. /\ m.prevlogindex \in Nat /\ RunsFrom(m.prevlogindex, m.entries)
    BY AppendCallTypes DEF AppendsInFlight
  <2>3. snap <= m.prevlogindex /\ m.prevlogindex <= snap + Len(log)
    BY <1>1, <1>7 DEF AppendEntriesMatch, Matches, InLog
  <2>4. new = MergeEntries(snap, log, m.entries).logs
    BY <1>7 DEF Merged
  <2> HIDE DEF new, snap, log
  <2>5. RunsFrom(snap, new) /\ CommandsStay(log, new, m.entries)
    BY <1>1, <2>2, <2>3, <2>4, MergeEntriesShape
  <2>6. ASSUME NEW k \in 1 .. Len(new)
        PROVE  IF k <= Len(log) THEN new[k].command = log[k].command
               ELSE new[k].command \in 1 .. commands'
    <3>1. \A l \in DOMAIN m.entries : m.entries[l].command \in 1 .. commands'
      BY <1>3 DEF CommandsStarted
    <3> QED BY <2>5, <3>1 DEF CommandsStay
  <2>7. new \in Seq(LogEntry)
    BY <2>5 DEF RunsFrom
  <2> QED BY <1>5, <2>1, <2>5, <2>6, <2>7 DEF snap, log
<1>8. ASSUME NEW index \in Nat, snap < index, m_lastSnapshotIncludeIndex'[i] = index,
             m_logs'[i] = LogAfter(i, index)
      PROVE  LogGoesOn(i)
  <2> DEFINE new == LogAfter(i, index)
  <2>1. /\ RunsFrom(index, new) /\ Len(new) \in Nat /\ new \in Seq(LogEntry)
        /\ last <= index + Len(new)
    BY <1>8, LogAfterShape DEF IndInv, LogShape, RunsFrom
  <2>2. \A x \in index + 1 .. last : new[x - index].command = CommandAt(i, x)
    BY <1>8, LogAfterCommands
  <2>3. \A x : CommandAt(i, x)' = new[x - index].command
    BY <1>8 DEF CommandAt
  <2>4. LastLogIndex(i)' = IF new = <<>> THEN index ELSE new[Len(new)].logindex
    BY <1>8 DEF LastLogIndex
  <2>5. new = <<>> \/ last = index + Len(new)
    <3>1. CASE last > index
      <4>1. new = SubSeq(log, Slot(i, index) + 1, Len(log))
        BY <3>1 DEF LogAfter, EntriesFrom
      <4>2. Slot(i, index) + 1 \in 1 .. Len(log) + 1 /\ Slot(i, index) = index - snap
        BY <1>1, <1>8, <3>1 DEF Slot
      <4>3. Len(new) = Len(log) - (Slot(i, index) + 1) + 1
        <5> HIDE DEF new, log, snap
        <5> QED BY <1>1, <4>1, <4>2, SuffixRunsOn
      <4> HIDE DEF new, snap, last, log
      <4> QED BY <1>1, <4>2, <4>3
    <3>2. CASE ~(last > index)
      BY <3>2 DEF LogAfter
    <3> QED BY <3>1, <3>2
  <2> HIDE DEF new, snap, last
  <2>6. LastLogIndex(i)' = index + Len(new)
    <3>1. new # <<>> => Len(new) \in DOMAIN new
      BY <2>1
    <3> QED BY <2>1, <2>4, <3>1 DEF RunsFrom
  <2>7. last \in Nat /\ (new = <<>> => Len(new) = 0)
    BY <1>1
  <2>8. \A x \in index + 1 .. index + Len(new) : x <= last /\ CommandAt(i, x)' = CommandAt(i, x)
    BY <2>1, <2>2, <2>3, <2>5, <2>7
  <2>9. m_lastSnapshotIncludeIndex'[i] >= m_lastSnapshotIncludeIndex[i]
    BY <1>1, <1>8 DEF snap
  <2> QED BY <1>8, <2>6, <2>8, <2>9 DEF LogGoesOn, last
<1> QED BY <1>4, <1>6, <1>7, <1>8, LogSteps

-----------------------------------------------------------------------------
(* What is reported to KvServer.                                           *)

\* The reports of one process, of which msgs are collected and chan are pushed: commands up to
\* "applied", snapshots up to "snap", each kind in order of its indexes, in the channel, in
\* the batch and from the one to the other.
ReportOrder(msgs, chan, applied, snap) ==
  /\ \A k \in DOMAIN msgs : ~msgs[k].snapshot /\ msgs[k].index \in 1 .. applied
  /\ \A k \in DOMAIN chan : chan[k].index <= IF chan[k].snapshot THEN snap ELSE applied
  /\ \A k, l \in DOMAIN msgs : k < l => msgs[k].index < msgs[l].index
  /\ \A k, l \in DOMAIN chan :
       k < l /\ chan[k].snapshot = chan[l].snapshot => chan[k].index < chan[l].index
  /\ \A k \in DOMAIN chan : \A l \in DOMAIN msgs :
       ~chan[k].snapshot => chan[k].index < msgs[l].index

OrderInv ==
  \A i \in Server : ReportOrder(applyMsgs[i], applyChan[i], m_lastApplied[i],
                                m_lastSnapshotIncludeIndex[i])

\* A command that waits to be pushed is the one in the log, unless a snapshot took its place.
PendingInLog ==
  \A i \in Server : \A k \in DOMAIN applyMsgs[i] :
    LET msg == applyMsgs[i][k] IN
    msg.index > m_lastSnapshotIncludeIndex[i] => msg.command = CommandAt(i, msg.index)

\* Before the first snapshot nobody has one, nor is sent one.
NoSnapshots ==
  snapshots = 0 =>
    /\ \A i \in Server : m_lastSnapshotIncludeIndex[i] = 0
    /\ \A m \in isCalls : m.lastsnapshotincludeindex = 0

\* Index x is pushed, or about to be.
IsReported(msgs, chan, x) ==
  \/ \E k \in DOMAIN chan : chan[k].index = x
  \/ \E k \in DOMAIN msgs : msgs[k].index = x

AllReported ==
  snapshots = 0 =>
    \A i \in Server : \A x \in 1 .. m_lastApplied[i] : IsReported(applyMsgs[i], applyChan[i], x)

ReportInv == OrderInv /\ PendingInLog /\ CommandsStarted /\ NoSnapshots /\ AllReported

\* Nothing is reported by i; what was applied may grow, with a snapshot of KvServer.
ReportsNothing(i) ==
  /\ applyMsgs'[i] = applyMsgs[i] /\ applyChan'[i] = applyChan[i]
  /\ \/ m_lastApplied'[i] = m_lastApplied[i]
     \/ m_lastApplied'[i] >= m_lastApplied[i] /\ snapshots' = snapshots + 1

\* A leader's snapshot is pushed to i, past the batch that may be waiting.
ReportsSnapshot(i) ==
  \E m \in isCalls :
    LET index == m.lastsnapshotincludeindex IN
    /\ index > m_lastSnapshotIncludeIndex[i]
    /\ m_lastSnapshotIncludeIndex'[i] = index
    /\ m_lastApplied'[i] >= m_lastApplied[i]
    /\ applyMsgs'[i] = applyMsgs[i]
    /\ applyChan'[i] = Append(applyChan[i], [snapshot |-> TRUE, index |-> index, command |-> 0])

\* The ways in which the reports of i go on.
LEMMA ReportSteps ==
  ASSUME IndInv, [Next]_vars, NEW i \in Server
  PROVE  \/ Restart(i) \/ ReportsNothing(i) \/ ReportsSnapshot(i)
         \/ GetApplyLogs(i) \/ PushApplyMsg(i)
<1>1. CASE UNCHANGED <<applyVars, m_lastApplied>>
  BY <1>1 DEF ReportsNothing, applyVars
<1>2. CASE ApplyStep
  <2>1. ASSUME NEW j \in Server, j # i, GetApplyLogs(j) \/ PushApplyMsg(j)
        PROVE  ReportsNothing(i)
    BY <2>1 DEF GetApplyLogs, PushApplyMsg, ReportsNothing, IndInv, TypeOK, indexVars
  <2> QED BY <1>2, <2>1 DEF ApplyStep
<1>3. CASE SnapshotStep
  <2>1. ASSUME NEW j \in Server, NEW index \in Nat, Snapshot(j, index)
        PROVE  ReportsNothing(i)
    <3>1. /\ m_lastApplied \in [Server -> Nat]
          /\ m_lastApplied[j] \in Nat /\ m_commitIndex[j] \in Nat
          /\ m_lastApplied[i] \in Nat /\ m_lastApplied[j] <= m_commitIndex[j]
      BY DEF IndInv, TypeOK, LogShape, CursorOrder
    <3>2. applyMsgs' = applyMsgs /\ applyChan' = applyChan /\ snapshots' = snapshots + 1
      BY <2>1 DEF Snapshot, applyVars
    <3>3. m_lastApplied' = [m_lastApplied EXCEPT ![j] = AppliedAfterSnapshot(j, index)]
      BY <2>1 DEF Snapshot
    <3> QED BY <3>1, <3>2, <3>3 DEF ReportsNothing, AppliedAfterSnapshot, Larger
  <2>2. ASSUME NEW j \in Server, SnapshotOfExecuted(j) PROVE ReportsNothing(i)
    <3>1. PICK k \in DOMAIN applyChan[j] : Snapshot(j, applyChan[j][k].index)
      BY <2>2 DEF SnapshotOfExecuted
    <3>2. applyChan[j] \in Seq(ApplyMsg)
      BY DEF IndInv, TypeOK
    <3>3. applyChan[j][k] \in ApplyMsg
      BY <3>1, <3>2
    <3>4. applyChan[j][k].index \in Nat
      BY <3>3 DEF ApplyMsg
    <3> QED BY <2>1, <3>1, <3>4
  <2>3. ASSUME NEW m \in isCalls, InstallSnapshot(m)
        PROVE  ReportsNothing(i) \/ ReportsSnapshot(i)
    <3>1. m.server \in Server /\ m.lastsnapshotincludeindex \in Nat
      BY InstallCallTypes DEF IndInv
    <3>2. CASE m.server = i
      <4>1. /\ m_lastApplied \in [Server -> Nat] /\ m_lastApplied[i] \in Nat
            /\ m_lastSnapshotIncludeIndex \in [Server -> Nat]
            /\ applyChan \in [Server -> Seq(ApplyMsg)]
        BY DEF IndInv, TypeOK
      <4>2. /\ m.lastsnapshotincludeindex > m_lastSnapshotIncludeIndex[i]
            /\ m_lastSnapshotIncludeIndex' =
                 [m_lastSnapshotIncludeIndex EXCEPT ![i] = m.lastsnapshotincludeindex]
        BY <2>3, <3>2 DEF InstallSnapshot
      <4>3. m_lastApplied'[i] >= m_lastApplied[i]
        BY <2>3, <3>1, <3>2, <4>1 DEF InstallSnapshot, Larger
      <4>4. applyMsgs' = applyMsgs
        BY <2>3 DEF InstallSnapshot, AnswerInstall
      <4>5. applyChan'[i] = Append(applyChan[i], [snapshot |-> TRUE,
                              index |-> m.lastsnapshotincludeindex, command |-> 0])
        BY <2>3, <3>2, <4>1 DEF InstallSnapshot
      <4> QED BY <4>1, <4>2, <4>3, <4>4, <4>5 DEF ReportsSnapshot
    <3>3. CASE m.server # i
      BY <2>3, <3>1, <3>3 DEF InstallSnapshot, AnswerInstall, ReportsNothing, IndInv, TypeOK
    <3> QED BY <3>2, <3>3
  <2>4. ASSUME NEW m \in isCalls \cup isWaits,
               \/ InstallSnapshotStale(m) \/ InstallSnapshotOld(m) \/ InstallSnapshotPeerGone(m)
        PROVE  UNCHANGED <<applyVars, m_lastApplied>>
    BY <2>4 DEF InstallSnapshotStale, InstallSnapshotOld, InstallSnapshotPeerGone,
       AnswerInstall, applyVars, indexVars
  <2>5. ASSUME NEW r \in isReplies,
               \/ LeaderSendSnapShotIgnored(r) \/ LeaderSendSnapShotHigherTerm(r)
               \/ LeaderSendSnapShotDone(r)
        PROVE  UNCHANGED <<applyVars, m_lastApplied>>
    BY <2>5 DEF LeaderSendSnapShotIgnored, LeaderSendSnapShotHigherTerm,
       LeaderSendSnapShotDone, TakeInstallReply, indexVars
  <2>6. ASSUME NEW t \in isThreads, LeaderSendSnapShot(t)
        PROVE  UNCHANGED <<applyVars, m_lastApplied>>
    BY <2>6 DEF LeaderSendSnapShot, indexVars
  <2> QED BY <1>1, <1>3, <2>2, <2>3, <2>4, <2>5, <2>6 DEF SnapshotStep
<1>4. CASE ProcessStep
  <2>1. ASSUME NEW j \in Server, j # i, Restart(j) PROVE ReportsNothing(i)
    BY <2>1 DEF Restart, ReportsNothing, IndInv, TypeOK
  <2>2. ASSUME NEW j \in Server, Kill(j) PROVE UNCHANGED <<applyVars, m_lastApplied>>
    BY <2>2 DEF Kill, indexVars
  <2> QED BY <1>1, <1>4, <2>1, <2>2 DEF ProcessStep
<1> QED BY <1>1, <1>2, <1>3, <1>4, ElectionFrame, AppendFrame, AstrayFrame
        DEF Next, vars, indexVars

\* Snapshots of KvServer are counted.
LEMMA SnapshotsCount ==
  ASSUME TypeOK, [Next]_vars
  PROVE  snapshots \in Nat /\ (snapshots' = snapshots \/ snapshots' = snapshots + 1)
<1>1. snapshots \in Nat
  BY DEF TypeOK
<1>2. CASE SnapshotStep
  <2>1. ASSUME NEW m \in isCalls \cup isWaits,
               \/ InstallSnapshotStale(m) \/ InstallSnapshotOld(m)
               \/ InstallSnapshot(m) \/ InstallSnapshotPeerGone(m)
        PROVE  UNCHANGED snapshots
    BY <2>1 DEF InstallSnapshotStale, InstallSnapshotOld, InstallSnapshot,
       InstallSnapshotPeerGone, AnswerInstall, boundVars
  <2>2. ASSUME NEW r \in isReplies,
               \/ LeaderSendSnapShotIgnored(r) \/ LeaderSendSnapShotHigherTerm(r)
               \/ LeaderSendSnapShotDone(r)
        PROVE  UNCHANGED snapshots
    BY <2>2 DEF LeaderSendSnapShotIgnored, LeaderSendSnapShotHigherTerm,
       LeaderSendSnapShotDone, TakeInstallReply, boundVars
  <2>3. ASSUME NEW i \in Server, SnapshotOfExecuted(i) PROVE snapshots' = snapshots + 1
    BY <2>3 DEF SnapshotOfExecuted, Snapshot
  <2>4. ASSUME NEW t \in isThreads, LeaderSendSnapShot(t) PROVE UNCHANGED snapshots
    BY <2>4 DEF LeaderSendSnapShot, boundVars
  <2> QED BY <1>1, <1>2, <2>1, <2>2, <2>3, <2>4 DEF SnapshotStep
<1>3. CASE ProcessStep
  <2>1. UNCHANGED snapshots
    BY <1>3 DEF ProcessStep, Kill, Restart, boundVars
  <2> QED BY <1>1, <2>1
<1> QED BY <1>1, <1>2, <1>3, ElectionFrame, AppendFrame, ApplyFrame, AstrayFrame
        DEF Next, vars, boundVars

\* What is read off a message.
LEMMA MessageTypes ==
  ASSUME NEW msgs \in Seq(ApplyMsg)
  PROVE  \A k \in DOMAIN msgs : msgs[k].index \in Nat /\ msgs[k].snapshot \in BOOLEAN
<1> SUFFICES ASSUME NEW k \in DOMAIN msgs
             PROVE  msgs[k].index \in Nat /\ msgs[k].snapshot \in BOOLEAN
  OBVIOUS
<1>1. msgs[k] \in ApplyMsg
  OBVIOUS
<1> QED BY <1>1 DEF ApplyMsg

\* Nothing is reported, and the bounds only grow.
LEMMA OrderStays ==
  ASSUME NEW msgs \in Seq(ApplyMsg), NEW chan \in Seq(ApplyMsg), NEW applied \in Nat,
         NEW snap \in Nat, NEW applied2 \in Nat, NEW snap2 \in Nat,
         ReportOrder(msgs, chan, applied, snap), applied <= applied2, snap <= snap2
  PROVE  ReportOrder(msgs, chan, applied2, snap2)
<1>1. /\ \A k \in DOMAIN msgs : msgs[k].index \in Nat
      /\ \A k \in DOMAIN chan : chan[k].index \in Nat
  BY MessageTypes
<1> QED BY <1>1 DEF ReportOrder

\* A batch starts where the last one ended.
LEMMA OrderOfBatch ==
  ASSUME NEW chan \in Seq(ApplyMsg), NEW applied \in Nat, NEW snap \in Nat,
         NEW commit \in Nat, NEW batch \in Seq(ApplyMsg),
         ReportOrder(<<>>, chan, applied, snap), applied < commit,
         \A k \in DOMAIN batch : /\ ~batch[k].snapshot
                                 /\ batch[k].index = applied + k /\ batch[k].index <= commit
  PROVE  ReportOrder(batch, chan, commit, snap)
<1>1. \A k \in DOMAIN batch : k \in Nat /\ k >= 1
  OBVIOUS
<1>2. \A k \in DOMAIN chan : chan[k].index \in Nat
  BY MessageTypes
<1>3. \A k \in DOMAIN batch : batch[k].index \in 1 .. commit /\ batch[k].index > applied
  BY <1>1
<1>4. \A k, l \in DOMAIN batch : k < l => batch[k].index < batch[l].index
  BY <1>1
<1> QED BY <1>2, <1>3, <1>4 DEF ReportOrder

\* One command moves from the batch to the channel.
LEMMA OrderOfPush ==
  ASSUME NEW msgs \in Seq(ApplyMsg), NEW chan \in Seq(ApplyMsg), NEW applied \in Nat,
         NEW snap \in Nat, ReportOrder(msgs, chan, applied, snap), msgs # <<>>
  PROVE  ReportOrder(Tail(msgs), Append(chan, Head(msgs)), applied, snap)
<1> DEFINE left == Tail(msgs)
           fed == Append(chan, Head(msgs))
<1>1. /\ Len(msgs) \in Nat /\ Len(msgs) >= 1 /\ DOMAIN msgs = 1 .. Len(msgs) /\ Head(msgs) = msgs[1]
      /\ Len(chan) \in Nat /\ DOMAIN chan = 1 .. Len(chan)
  OBVIOUS
<1>2. /\ DOMAIN left = 1 .. Len(msgs) - 1
      /\ \A k \in 1 .. Len(msgs) - 1 : left[k] = msgs[k + 1]
  BY <1>1
<1>3. /\ DOMAIN fed = 1 .. Len(chan) + 1
      /\ \A k \in 1 .. Len(chan) : fed[k] = chan[k]
      /\ fed[Len(chan) + 1] = msgs[1]
  BY <1>1
<1> HIDE DEF left, fed
<1>4. ~msgs[1].snapshot /\ msgs[1].index \in 1 .. applied
  BY <1>1 DEF ReportOrder
<1>5. \A k \in DOMAIN left : /\ ~left[k].snapshot /\ left[k].index \in 1 .. applied
                             /\ msgs[1].index < left[k].index
  <2> SUFFICES ASSUME NEW k \in 1 .. Len(msgs) - 1
               PROVE  ~left[k].snapshot /\ left[k].index \in 1 .. applied
                      /\ msgs[1].index < left[k].index
    BY <1>2
  <2>1. k + 1 \in DOMAIN msgs /\ 1 \in DOMAIN msgs /\ 1 < k + 1 /\ left[k] = msgs[k + 1]
    BY <1>1, <1>2
  <2> QED BY <2>1 DEF ReportOrder
<1>6. \A k \in DOMAIN fed : fed[k].index <= IF fed[k].snapshot THEN snap ELSE applied
  <2> SUFFICES ASSUME NEW k \in 1 .. Len(chan) + 1
               PROVE  fed[k].index <= IF fed[k].snapshot THEN snap ELSE applied
    BY <1>3
  <2>1. CASE k \in 1 .. Len(chan)
    BY <1>1, <1>3, <2>1 DEF ReportOrder
  <2>2. CASE k = Len(chan) + 1
    BY <1>3, <1>4, <2>2
  <2> QED BY <1>1, <2>1, <2>2
<1>7. \A k, l \in DOMAIN left : k < l => left[k].index < left[l].index
  <2> SUFFICES ASSUME NEW k \in 1 .. Len(msgs) - 1, NEW l \in 1 .. Len(msgs) - 1, k < l
               PROVE  left[k].index < left[l].index
    BY <1>2
  <2>1. /\ k + 1 \in DOMAIN msgs /\ l + 1 \in DOMAIN msgs /\ k + 1 < l + 1
        /\ left[k] = msgs[k + 1] /\ left[l] = msgs[l + 1]
    BY <1>1, <1>2
  <2> QED BY <2>1 DEF ReportOrder
<1>8. \A k, l \in DOMAIN fed :
        k < l /\ fed[k].snapshot = fed[l].snapshot => fed[k].index < fed[l].index
  <2> SUFFICES ASSUME NEW k \in 1 .. Len(chan) + 1, NEW l \in 1 .. Len(chan) + 1, k < l,
                      fed[k].snapshot = fed[l].snapshot
               PROVE  fed[k].index < fed[l].index
    BY <1>3
  <2>1. k \in DOMAIN chan /\ fed[k] = chan[k]
    BY <1>1, <1>3
  <2>2. CASE l \in 1 .. Len(chan)
    BY <1>1, <1>3, <2>1, <2>2 DEF ReportOrder
  <2>3. CASE l = Len(chan) + 1
    <3>1. fed[l] = msgs[1] /\ ~chan[k].snapshot /\ 1 \in DOMAIN msgs
      BY <1>1, <1>3, <1>4, <2>1, <2>3
    <3> QED BY <2>1, <3>1 DEF ReportOrder
  <2> QED BY <1>1, <2>2, <2>3
<1>9. \A k \in DOMAIN fed : \A l \in DOMAIN left : ~fed[k].snapshot => fed[k].index < left[l].index
  <2> SUFFICES ASSUME NEW k \in 1 .. Len(chan) + 1, NEW l \in DOMAIN left, ~fed[k].snapshot
               PROVE  fed[k].index < left[l].index
    BY <1>3
  <2>1. CASE k \in 1 .. Len(chan)
    <3>1. l + 1 \in DOMAIN msgs /\ left[l] = msgs[l + 1]
      BY <1>1, <1>2
    <3>2. k \in DOMAIN chan /\ fed[k] = chan[k]
      BY <1>1, <1>3, <2>1
    <3> QED BY <3>1, <3>2 DEF ReportOrder
  <2>2. CASE k = Len(chan) + 1
    BY <1>3, <1>5, <2>2
  <2> QED BY <1>1, <2>1, <2>2
<1> QED BY <1>5, <1>6, <1>7, <1>8, <1>9 DEF ReportOrder, left, fed

\* A snapshot is pushed whose index is above that of the last one.
LEMMA OrderOfSnapshot ==
  ASSUME NEW msgs \in Seq(ApplyMsg), NEW chan \in Seq(ApplyMsg), NEW applied \in Nat,
         NEW snap \in Nat, NEW index \in Nat, NEW msg, msg.snapshot = TRUE, msg.index = index,
         ReportOrder(msgs, chan, applied, snap), snap < index
  PROVE  ReportOrder(msgs, Append(chan, msg), applied, index)
<1> DEFINE fed == Append(chan, msg)
<1>1. Len(chan) \in Nat /\ DOMAIN chan = 1 .. Len(chan)
  OBVIOUS
<1>2. \A k \in DOMAIN chan : chan[k].index \in Nat /\ chan[k].snapshot \in BOOLEAN
  BY MessageTypes
<1>3. /\ DOMAIN fed = 1 .. Len(chan) + 1
      /\ \A k \in 1 .. Len(chan) : fed[k] = chan[k]
      /\ fed[Len(chan) + 1] = msg
  BY <1>1
<1> HIDE DEF fed
<1>4. \A k \in DOMAIN fed : fed[k].index <= IF fed[k].snapshot THEN index ELSE applied
  <2> SUFFICES ASSUME NEW k \in 1 .. Len(chan) + 1
               PROVE  fed[k].index <= IF fed[k].snapshot THEN index ELSE applied
    BY <1>3
  <2>1. CASE k \in 1 .. Len(chan)
    BY <1>1, <1>2, <1>3, <2>1 DEF ReportOrder
  <2>2. CASE k = Len(chan) + 1
    BY <1>3, <2>2
  <2> QED BY <1>1, <2>1, <2>2
<1>5. \A k, l \in DOMAIN fed :
        k < l /\ fed[k].snapshot = fed[l].snapshot => fed[k].index < fed[l].index
  <2> SUFFICES ASSUME NEW k \in 1 .. Len(chan) + 1, NEW l \in 1 .. Len(chan) + 1, k < l,
                      fed[k].snapshot = fed[l].snapshot
               PROVE  fed[k].index < fed[l].index
    BY <1>3
  <2>1. k \in DOMAIN chan /\ fed[k] = chan[k]
    BY <1>1, <1>3
  <2>2. CASE l \in 1 .. Len(chan)
    BY <1>1, <1>3, <2>1, <2>2 DEF ReportOrder
  <2>3. CASE l = Len(chan) + 1
    <3>1. fed[l] = msg /\ chan[k].snapshot = TRUE
      BY <1>3, <2>1, <2>3
    <3>2. chan[k].index <= snap
      BY <2>1, <3>1 DEF ReportOrder
    <3> QED BY <1>2, <2>1, <3>1, <3>2
  <2> QED BY <1>1, <2>2, <2>3
<1>6. \A k \in DOMAIN fed : \A l \in DOMAIN msgs : ~fed[k].snapshot => fed[k].index < msgs[l].index
  <2> SUFFICES ASSUME NEW k \in 1 .. Len(chan) + 1, NEW l \in DOMAIN msgs, ~fed[k].snapshot
               PROVE  fed[k].index < msgs[l].index
    BY <1>3
  <2>1. k \in 1 .. Len(chan)
    BY <1>1, <1>3
  <2> QED BY <1>1, <1>3, <2>1 DEF ReportOrder
<1> QED BY <1>4, <1>5, <1>6 DEF ReportOrder, fed

\* What GetApplyLogs collects: the commands from the last applied to the committed one.
LEMMA BatchShape ==
  ASSUME IndInv, NEW i \in Server, m_lastApplied[i] < m_commitIndex[i]
  PROVE  /\ DOMAIN Batch(i) = 1 .. m_commitIndex[i] - m_lastApplied[i]
         /\ \A k \in DOMAIN Batch(i) :
              /\ ~Batch(i)[k].snapshot
              /\ Batch(i)[k].index = m_lastApplied[i] + k
              /\ Batch(i)[k].index \in m_lastApplied[i] + 1 .. m_commitIndex[i]
              /\ Batch(i)[k].command = CommandAt(i, Batch(i)[k].index)
<1>1. m_lastApplied[i] \in Nat /\ m_commitIndex[i] \in Nat
  BY DEF IndInv, TypeOK
<1>2. DOMAIN Batch(i) = 1 .. m_commitIndex[i] - m_lastApplied[i]
  BY DEF Batch
<1>3. ASSUME NEW k \in DOMAIN Batch(i)
      PROVE  /\ ~Batch(i)[k].snapshot
             /\ Batch(i)[k].index = m_lastApplied[i] + k
             /\ Batch(i)[k].command = CommandAt(i, m_lastApplied[i] + k)
  <2>1. Batch(i)[k] = CommandMsg(i, m_lastApplied[i] + k)
    BY <1>2, <1>3 DEF Batch
  <2> QED BY <2>1 DEF CommandMsg, CommandAt, Slot
<1> QED BY <1>1, <1>2, <1>3

\* Copies of the state of i before and after a step, of their types.
LEMMA ReportTypes ==
  ASSUME IndInv, IndInv', NEW i \in Server
  PROVE  /\ applyMsgs[i] \in Seq(ApplyMsg) /\ applyChan[i] \in Seq(ApplyMsg)
         /\ m_lastApplied[i] \in Nat /\ m_lastSnapshotIncludeIndex[i] \in Nat
         /\ applyMsgs'[i] \in Seq(ApplyMsg) /\ applyChan'[i] \in Seq(ApplyMsg)
         /\ m_lastApplied'[i] \in Nat /\ m_lastSnapshotIncludeIndex'[i] \in Nat
BY DEF IndInv, TypeOK

\* The order of the reports is kept by every step: the pushes that race with a snapshot too.
LEMMA NextKeepsOrder ==
  ASSUME IndInv, CommandsStarted, OrderInv, [Next]_vars
  PROVE  OrderInv'
<1> SUFFICES ASSUME NEW i \in Server
             PROVE  ReportOrder(applyMsgs'[i], applyChan'[i], m_lastApplied'[i],
                                m_lastSnapshotIncludeIndex'[i])
  BY DEF OrderInv
<1>1. IndInv'
  BY NextKeepsIndInv
<1>2. PICK msgs \in Seq(ApplyMsg), chan \in Seq(ApplyMsg), applied \in Nat, snap \in Nat :
        /\ msgs = applyMsgs[i] /\ chan = applyChan[i]
        /\ applied = m_lastApplied[i] /\ snap = m_lastSnapshotIncludeIndex[i]
  BY <1>1, ReportTypes
<1>3. PICK msgs2 \in Seq(ApplyMsg), chan2 \in Seq(ApplyMsg), applied2 \in Nat, snap2 \in Nat :
        /\ msgs2 = applyMsgs'[i] /\ chan2 = applyChan'[i]
        /\ applied2 = m_lastApplied'[i] /\ snap2 = m_lastSnapshotIncludeIndex'[i]
  BY <1>1, ReportTypes
<1>4. ReportOrder(msgs, chan, applied, snap)
  BY <1>2 DEF OrderInv
<1>5. ~Restart(i) => snap <= snap2
  BY <1>2, <1>3, LogStays DEF LogGoesOn
<1>6. CASE Restart(i)
  <2>1. msgs2 = <<>> /\ chan2 = <<>>
    BY <1>3, <1>6 DEF Restart, IndInv, TypeOK
  <2>2. ReportOrder(msgs2, chan2, applied2, snap2)
    BY <2>1 DEF ReportOrder
  <2> QED BY <1>3, <2>2
<1>7. CASE ~Restart(i) /\ ReportsNothing(i)
  <2>1. msgs2 = msgs /\ chan2 = chan /\ applied <= applied2
    BY <1>2, <1>3, <1>7 DEF ReportsNothing
  <2> QED BY <1>3, <1>4, <1>5, <1>7, <2>1, OrderStays
<1>8. CASE ReportsSnapshot(i)
  <2>1. PICK m \in isCalls :
          /\ m.lastsnapshotincludeindex > snap /\ snap2 = m.lastsnapshotincludeindex
          /\ applied2 >= applied /\ msgs2 = msgs
          /\ chan2 = Append(chan, [snapshot |-> TRUE, index |-> m.lastsnapshotincludeindex,
                                   command |-> 0])
    BY <1>2, <1>3, <1>8 DEF ReportsSnapshot
  <2>2. PICK msg : msg = [snapshot |-> TRUE, index |-> snap2, command |-> 0]
    OBVIOUS
  <2>3. msg.snapshot = TRUE /\ msg.index = snap2 /\ chan2 = Append(chan, msg) /\ snap < snap2
    BY <2>1, <2>2
  <2>4. ReportOrder(msgs, chan, applied2, snap)
    BY <1>4, <2>1, OrderStays
  <2>5. ReportOrder(msgs, Append(chan, msg), applied2, snap2)
    BY <2>3, <2>4, OrderOfSnapshot
  <2> QED BY <1>3, <2>1, <2>3, <2>5
<1>9. CASE GetApplyLogs(i)
  <2>1. /\ msgs = <<>> /\ chan2 = chan /\ snap2 = snap
        /\ applied < applied2 /\ applied2 = m_commitIndex[i] /\ msgs2 = Batch(i)
    <3>1. /\ applyMsgs[i] = <<>> /\ applyChan' = applyChan /\ m_lastApplied[i] < m_commitIndex[i]
          /\ m_lastSnapshotIncludeIndex' = m_lastSnapshotIncludeIndex
      BY <1>9 DEF GetApplyLogs, logVars
    <3>2. m_lastApplied'[i] = m_commitIndex[i] /\ applyMsgs'[i] = Batch(i)
      BY <1>9 DEF GetApplyLogs, IndInv, TypeOK
    <3> QED BY <1>2, <1>3, <3>1, <3>2
  <2>2. \A k \in DOMAIN msgs2 :
          ~msgs2[k].snapshot /\ msgs2[k].index = applied + k /\ msgs2[k].index <= applied2
    <3>1. \A k \in DOMAIN Batch(i) :
            /\ ~Batch(i)[k].snapshot /\ Batch(i)[k].index = m_lastApplied[i] + k
            /\ Batch(i)[k].index \in m_lastApplied[i] + 1 .. m_commitIndex[i]
      BY <1>9, BatchShape DEF GetApplyLogs
    <3>2. m_lastApplied[i] \in Nat /\ m_commitIndex[i] \in Nat
      BY DEF IndInv, TypeOK
    <3>3. \A k \in DOMAIN Batch(i) : Batch(i)[k].index <= m_commitIndex[i]
      BY <3>1, <3>2
    <3> QED BY <1>2, <2>1, <3>1, <3>3
  <2>3. ReportOrder(<<>>, chan, applied, snap)
    BY <1>4, <2>1
  <2>4. ReportOrder(msgs2, chan, applied2, snap)
    BY <2>1, <2>2, <2>3, OrderOfBatch
  <2> QED BY <1>3, <2>1, <2>4
<1>10. CASE PushApplyMsg(i)
  <2>1. /\ msgs # <<>> /\ chan2 = Append(chan, Head(msgs)) /\ msgs2 = Tail(msgs)
        /\ applied2 = applied /\ snap2 = snap
    BY <1>2, <1>3, <1>10 DEF PushApplyMsg, IndInv, TypeOK, indexVars, logVars
  <2> QED BY <1>3, <1>4, <2>1, OrderOfPush
<1> QED BY <1>6, <1>7, <1>8, <1>9, <1>10, ReportSteps

\* Where a waiting message comes from: it waited before, or it was just read off the log.
LEMMA PendingSteps ==
  ASSUME IndInv, [Next]_vars, NEW i \in Server, NEW k \in DOMAIN applyMsgs'[i]
  PROVE  /\ ~Restart(i)
         /\ \/ \E l \in DOMAIN applyMsgs[i] : applyMsgs'[i][k] = applyMsgs[i][l]
            \/ /\ GetApplyLogs(i)
               /\ applyMsgs'[i][k].index \in m_lastApplied[i] + 1 .. m_commitIndex[i]
               /\ applyMsgs'[i][k].command = CommandAt(i, applyMsgs'[i][k].index)
<1>1. ~Restart(i)
  <2>1. Restart(i) => applyMsgs'[i] = <<>>
    BY DEF Restart, IndInv, TypeOK
  <2> QED BY <2>1
<1>2. CASE ReportsNothing(i) \/ ReportsSnapshot(i)
  BY <1>1, <1>2 DEF ReportsNothing, ReportsSnapshot
<1>3. CASE GetApplyLogs(i)
  <2>1. m_lastApplied[i] < m_commitIndex[i] /\ applyMsgs'[i] = Batch(i)
    BY <1>3 DEF GetApplyLogs, IndInv, TypeOK
  <2> QED BY <1>1, <1>3, <2>1, BatchShape
<1>4. CASE PushApplyMsg(i)
  <2>1. PICK msgs \in Seq(ApplyMsg) : msgs = applyMsgs[i]
    BY DEF IndInv, TypeOK
  <2>2. msgs # <<>> /\ applyMsgs'[i] = Tail(msgs)
    BY <1>4, <2>1 DEF PushApplyMsg, IndInv, TypeOK
  <2>3. k + 1 \in DOMAIN msgs /\ Tail(msgs)[k] = msgs[k + 1]
    BY <2>2
  <2> QED BY <1>1, <2>1, <2>2, <2>3
<1> QED BY <1>1, <1>2, <1>3, <1>4, ReportSteps

\* A step leaves what waits to be pushed in agreement with the log.
LEMMA NextKeepsPending ==
  ASSUME IndInv, OrderInv, PendingInLog, CommandsStarted, [Next]_vars
  PROVE  PendingInLog'
<1> SUFFICES ASSUME NEW i \in Server, NEW k \in DOMAIN applyMsgs'[i], NEW x,
                    x = applyMsgs'[i][k].index, x > m_lastSnapshotIncludeIndex'[i]
             PROVE  applyMsgs'[i][k].command = CommandAt(i, x)'
  BY DEF PendingInLog, CommandAt
<1> DEFINE msg == applyMsgs'[i][k]
<1>1. IndInv'
  BY NextKeepsIndInv
<1>2. /\ m_lastSnapshotIncludeIndex[i] \in Nat /\ m_lastSnapshotIncludeIndex'[i] \in Nat
      /\ m_lastApplied[i] \in Nat /\ m_commitIndex[i] \in Nat
      /\ m_lastSnapshotIncludeIndex[i] <= m_lastApplied[i]
      /\ m_lastApplied[i] <= m_commitIndex[i] /\ m_commitIndex[i] <= LastLogIndex(i)
  BY <1>1 DEF IndInv, TypeOK, LogShape, CursorOrder
<1>3. LogGoesOn(i)
  BY PendingSteps, LogStays
<1>4. LastLogIndex(i) \in Nat /\ LastLogIndex(i)' \in Nat /\ LastLogIndex(i)' >= LastLogIndex(i)
  BY EndsGoOn, PendingSteps
<1>5. ASSUME x \in Nat, x <= LastLogIndex(i),
             x > m_lastSnapshotIncludeIndex[i] => msg.command = CommandAt(i, x)
      PROVE  msg.command = CommandAt(i, x)'
  <2>1. /\ x \in m_lastSnapshotIncludeIndex'[i] + 1 .. LastLogIndex(i)'
        /\ x <= LastLogIndex(i) /\ x > m_lastSnapshotIncludeIndex[i]
    BY <1>2, <1>3, <1>4, <1>5 DEF LogGoesOn
  <2>2. CommandAt(i, x)' = CommandAt(i, x)
    BY <1>3, <2>1 DEF LogGoesOn
  <2> QED BY <1>5, <2>1, <2>2
<1>6. ASSUME NEW l \in DOMAIN applyMsgs[i], msg = applyMsgs[i][l]
      PROVE  msg.command = CommandAt(i, x)'
  <2>1. x \in 1 .. m_lastApplied[i]
    BY <1>6 DEF OrderInv, ReportOrder
  <2>2. x > m_lastSnapshotIncludeIndex[i] => msg.command = CommandAt(i, x)
    BY <1>6 DEF PendingInLog
  <2>3. x \in Nat /\ x <= LastLogIndex(i)
    BY <1>2, <1>4, <2>1
  <2> QED BY <1>5, <2>2, <2>3
<1>7. ASSUME x \in m_lastApplied[i] + 1 .. m_commitIndex[i],
             msg.command = CommandAt(i, x)
      PROVE  msg.command = CommandAt(i, x)'
  <2>1. x \in Nat /\ x <= LastLogIndex(i)
    BY <1>2, <1>4, <1>7
  <2> QED BY <1>5, <1>7, <2>1
<1> QED BY <1>6, <1>7, PendingSteps

\* Every command in a log or on its way to one was given to Start.
LEMMA NextKeepsCommands ==
  ASSUME IndInv, CommandsStarted, [Next]_vars
  PROVE  CommandsStarted'
<1>1. IndInv'
  BY NextKeepsIndInv
<1>2. commands \in Nat /\ commands' \in Nat /\ commands <= commands'
  BY CommandsCount DEF IndInv
<1>3. ASSUME NEW i \in Server, NEW k \in DOMAIN m_logs'[i]
      PROVE  m_logs'[i][k].command \in 1 .. commands'
  <2>1. CASE Restart(i)
    BY <1>3, <2>1 DEF Restart, IndInv, TypeOK
  <2>2. CASE ~Restart(i)
    <3>1. LogGoesOn(i)
      BY <2>2, LogStays
    <3>2. PICK log \in Seq(LogEntry), snap \in Nat :
            log = m_logs[i] /\ snap = m_lastSnapshotIncludeIndex[i]
      BY DEF IndInv, TypeOK
    <3>3. PICK log2 \in Seq(LogEntry), snap2 \in Nat :
            log2 = m_logs'[i] /\ snap2 = m_lastSnapshotIncludeIndex'[i]
      BY <1>1 DEF IndInv, TypeOK
    <3>4. LastLogIndex(i) = snap + Len(log)
      BY <3>2, LogAccess DEF IndInv, LogShape
    <3>5. LastLogIndex(i)' = snap2 + Len(log2)
      <4>1. \A l \in DOMAIN log2 : log2[l].logindex = snap2 + l
        BY <1>1, <3>3 DEF IndInv, LogShape, LogContiguous
      <4>2. LastLogIndex(i)' = IF log2 = <<>> THEN snap2 ELSE log2[Len(log2)].logindex
        BY <3>3 DEF LastLogIndex
      <4>3. log2 # <<>> => Len(log2) \in DOMAIN log2
        OBVIOUS
      <4> QED BY <4>1, <4>2, <4>3
    <3>6. PICK x \in Nat : x = snap2 + k /\ k \in 1 .. Len(log2)
      BY <1>3, <3>3
    <3>7. x \in snap2 + 1 .. LastLogIndex(i)'
      BY <3>5, <3>6
    <3>8. CommandAt(i, x)' = m_logs'[i][k].command
      BY <3>3, <3>6 DEF CommandAt
    <3>9. CASE x <= LastLogIndex(i)
      <4>1. snap2 >= snap /\ CommandAt(i, x)' = CommandAt(i, x)
        BY <3>1, <3>2, <3>3, <3>7, <3>9 DEF LogGoesOn
      <4>2. x - snap \in 1 .. Len(log)
        BY <3>4, <3>6, <3>9, <4>1
      <4>3. CommandAt(i, x) = log[x - snap].command
        BY <3>2 DEF CommandAt
      <4>4. log[x - snap].command \in 1 .. commands
        BY <3>2, <4>2 DEF CommandsStarted
      <4> QED BY <1>2, <3>8, <4>1, <4>3, <4>4
    <3>10. CASE ~(x <= LastLogIndex(i))
      BY <3>1, <3>3, <3>7, <3>8, <3>10 DEF LogGoesOn
    <3> QED BY <3>9, <3>10
  <2> QED BY <2>1, <2>2
<1>4. ASSUME NEW m \in aeCalls', NEW k \in DOMAIN m.entries
      PROVE  m.entries[k].command \in 1 .. commands'
  <2>1. CASE m \in aeCalls
    BY <1>2, <1>4, <2>1 DEF CommandsStarted
  <2>2. CASE m \notin aeCalls
    <3>1. PICK i \in Server, to \in SUBSET Server :
            (\A j \in to : CanAppend(i, j)) /\ SpawnAppends(i, to)
      <4>1. AppendStep
        <5>1. CASE ProcessStep
          BY <1>4, <2>2, <5>1 DEF ProcessStep, Kill, Restart, aeVars
        <5> QED BY <1>4, <2>2, <5>1, ElectionFrame, ApplyFrame, SnapshotFrame, AstrayFrame
                DEF Next, vars, aeVars
      <4> QED BY <1>4, <2>2, <4>1, RequestsSent
    <3>2. PICK j \in to : m = AppendTo(i, j) /\ ~NeedsSnapshot(i, j)
      BY <1>4, <2>2, <3>1 DEF SpawnAppends
    <3>3. PICK log \in Seq(LogEntry), snap \in Nat :
            log = m_logs[i] /\ snap = m_lastSnapshotIncludeIndex[i]
      BY DEF IndInv, TypeOK
    <3>4. PICK slot : slot = m_nextIndex[i][j] - snap /\ m.entries = EntriesFrom(i, slot)
      <4>1. m.entries = EntriesFrom(i, Slot(i, m_nextIndex[i][j] - 1) + 1)
        BY <3>2 DEF AppendTo
      <4>2. Slot(i, m_nextIndex[i][j] - 1) + 1 = m_nextIndex[i][j] - snap
        <5>1. m_nextIndex[i][j] \in Nat
          BY <3>1 DEF IndInv, TypeOK
        <5>2. Slot(i, m_nextIndex[i][j] - 1) = m_nextIndex[i][j] - 1 - snap
          BY <3>3 DEF Slot
        <5> QED BY <3>3, <5>1, <5>2
      <4> QED BY <4>1, <4>2
    <3>5. slot \in 1 .. Len(log) + 1
      <4>1. m_nextIndex[i][j] \in Nat /\ LastLogIndex(i) = snap + Len(log)
        BY <3>1, <3>2, <3>3, LogAccess DEF IndInv, LogShape, TypeOK
      <4>2. m_nextIndex[i][j] > snap /\ m_nextIndex[i][j] - 1 <= LastLogIndex(i)
        BY <3>1, <3>2, <3>3, <4>1 DEF CanAppend, NeedsSnapshot
      <4> QED BY <3>3, <3>4, <4>1, <4>2
    <3>6. slot + k - 1 \in DOMAIN log /\ m.entries[k] = log[slot + k - 1]
      BY <1>4, <3>3, <3>4, <3>5, SubSeqProperties DEF EntriesFrom
    <3>7. log[slot + k - 1].command \in 1 .. commands
      BY <3>3, <3>6 DEF CommandsStarted
    <3> QED BY <1>2, <3>6, <3>7
  <2> QED BY <2>1, <2>2
<1> QED BY <1>3, <1>4 DEF CommandsStarted

\* Snapshot requests carry the sender's snapshot.
LEMMA NextKeepsNoSnapshots ==
  ASSUME IndInv, NoSnapshots, [Next]_vars
  PROVE  NoSnapshots'
<1>1. snapshots \in Nat /\ (snapshots' = snapshots \/ snapshots' = snapshots + 1)
  BY SnapshotsCount DEF IndInv
<1> SUFFICES ASSUME snapshots' = 0, snapshots = 0
             PROVE  /\ \A i \in Server : m_lastSnapshotIncludeIndex'[i] = 0
                    /\ \A m \in isCalls' : m.lastsnapshotincludeindex = 0
  BY <1>1 DEF NoSnapshots
<1>2. /\ \A i \in Server : m_lastSnapshotIncludeIndex[i] = 0
      /\ \A m \in isCalls : m.lastsnapshotincludeindex = 0
  BY DEF NoSnapshots
<1> DEFINE Same == UNCHANGED m_lastSnapshotIncludeIndex /\ isCalls' \subseteq isCalls
<1>3. Same => /\ \A i \in Server : m_lastSnapshotIncludeIndex'[i] = 0
              /\ \A m \in isCalls' : m.lastsnapshotincludeindex = 0
  BY <1>2
<1>4. CASE SnapshotStep
  <2>1. ASSUME NEW i \in Server PROVE ~SnapshotOfExecuted(i)
    BY <1>1 DEF SnapshotOfExecuted, Snapshot
  <2>2. ASSUME NEW t \in isThreads, LeaderSendSnapShot(t)
        PROVE  /\ UNCHANGED m_lastSnapshotIncludeIndex
               /\ \A m \in isCalls' : m.lastsnapshotincludeindex = 0
    <3>1. t.leaderid \in Server
      BY DEF IndInv, TypeOK, SnapshotThread
    <3>2. PICK m : /\ m.lastsnapshotincludeindex = m_lastSnapshotIncludeIndex[t.leaderid]
                   /\ isCalls' = isCalls \cup {m}
      BY <2>2 DEF LeaderSendSnapShot
    <3>3. UNCHANGED m_lastSnapshotIncludeIndex
      BY <2>2 DEF LeaderSendSnapShot, logVars
    <3> QED BY <1>2, <3>1, <3>2, <3>3
  <2>3. ASSUME NEW m \in isCalls PROVE ~InstallSnapshot(m)
    <3>1. m.server \in Server /\ m.lastsnapshotincludeindex = 0
      BY <1>2, InstallCallTypes DEF IndInv
    <3> QED BY <1>2, <3>1 DEF InstallSnapshot
  <2>4. ASSUME NEW m \in isCalls \cup isWaits,
               \/ InstallSnapshotStale(m) \/ InstallSnapshotOld(m) \/ InstallSnapshotPeerGone(m)
        PROVE  Same
    BY <2>4 DEF InstallSnapshotStale, InstallSnapshotOld, InstallSnapshotPeerGone,
       AnswerInstall, logVars
  <2>5. ASSUME NEW r \in isReplies,
               \/ LeaderSendSnapShotIgnored(r) \/ LeaderSendSnapShotHigherTerm(r)
               \/ LeaderSendSnapShotDone(r)
        PROVE  Same
    BY <2>5 DEF LeaderSendSnapShotIgnored, LeaderSendSnapShotHigherTerm,
       LeaderSendSnapShotDone, TakeInstallReply, logVars
  <2>6. Same \/ \E t \in isThreads : LeaderSendSnapShot(t)
    <3> HIDE DEF Same
    <3> QED BY <1>4, <2>1, <2>3, <2>4, <2>5 DEF SnapshotStep
  <2>7. CASE Same
    BY <1>3, <2>7
  <2>8. CASE \E t \in isThreads : LeaderSendSnapShot(t)
    BY <1>2, <2>2, <2>8
  <2> QED BY <2>6, <2>7, <2>8
<1>5. CASE ProcessStep
  <2>1. ASSUME NEW j \in Server, Restart(j)
        PROVE  /\ \A i \in Server : m_lastSnapshotIncludeIndex'[i] = 0
               /\ isCalls' \subseteq isCalls
    BY <1>2, <2>1 DEF Restart, IndInv, TypeOK
  <2>2. ASSUME NEW j \in Server, Kill(j) PROVE Same
    BY <2>2 DEF Kill, logVars, isVars
  <2> QED BY <1>2, <1>5, <2>1, <2>2 DEF ProcessStep
<1>6. Same \/ SnapshotStep \/ ProcessStep
  BY ElectionFrame, AppendFrame, ApplyFrame, AstrayFrame DEF Next, vars, logVars, isVars
<1> QED BY <1>3, <1>4, <1>5, <1>6

\* A message that is pushed moves from the batch to the channel, so no index is lost.
LEMMA PushKeepsReported ==
  ASSUME NEW msgs \in Seq(ApplyMsg), msgs # <<>>, NEW chan \in Seq(ApplyMsg), NEW x,
         IsReported(msgs, chan, x)
  PROVE  IsReported(Tail(msgs), Append(chan, Head(msgs)), x)
<1> DEFINE fed == Append(chan, Head(msgs))
           left == Tail(msgs)
<1>1. /\ Len(msgs) \in Nat /\ DOMAIN msgs = 1 .. Len(msgs) /\ Head(msgs) = msgs[1]
      /\ Len(chan) \in Nat /\ DOMAIN chan = 1 .. Len(chan)
  OBVIOUS
<1>2. /\ DOMAIN left = 1 .. Len(msgs) - 1
      /\ \A k \in 1 .. Len(msgs) - 1 : left[k] = msgs[k + 1]
  BY <1>1
<1>3. /\ DOMAIN fed = 1 .. Len(chan) + 1
      /\ \A k \in 1 .. Len(chan) : fed[k] = chan[k]
      /\ fed[Len(chan) + 1] = msgs[1]
  BY <1>1
<1> HIDE DEF fed, left
<1>4. ASSUME NEW k \in DOMAIN chan, chan[k].index = x PROVE IsReported(left, fed, x)
  BY <1>1, <1>3, <1>4 DEF IsReported
<1>5. ASSUME NEW k \in DOMAIN msgs, msgs[k].index = x PROVE IsReported(left, fed, x)
  <2>1. CASE k = 1
    BY <1>1, <1>3, <1>5, <2>1 DEF IsReported
  <2>2. CASE k # 1
    <3>1. k - 1 \in DOMAIN left /\ left[k - 1] = msgs[k]
      BY <1>1, <1>2, <2>2
    <3> QED BY <1>5, <3>1 DEF IsReported
  <2> QED BY <2>1, <2>2
<1> QED BY <1>4, <1>5 DEF IsReported, fed, left

\* Without snapshots, applierTicker passes over no index.
LEMMA NextKeepsReported ==
  ASSUME IndInv, NoSnapshots, AllReported, [Next]_vars
  PROVE  AllReported'
<1>1. snapshots \in Nat /\ (snapshots' = snapshots \/ snapshots' = snapshots + 1)
  BY SnapshotsCount DEF IndInv
<1> SUFFICES ASSUME snapshots' = 0, snapshots = 0,
                    NEW i \in Server, NEW x \in 1 .. m_lastApplied'[i]
             PROVE  IsReported(applyMsgs'[i], applyChan'[i], x)
  BY <1>1 DEF AllReported
<1>2. IndInv'
  BY NextKeepsIndInv
<1>3. PICK msgs \in Seq(ApplyMsg), chan \in Seq(ApplyMsg), applied \in Nat :
        msgs = applyMsgs[i] /\ chan = applyChan[i] /\ applied = m_lastApplied[i]
  BY <1>2, ReportTypes
<1>4. PICK msgs2 \in Seq(ApplyMsg), chan2 \in Seq(ApplyMsg), applied2 \in Nat :
        msgs2 = applyMsgs'[i] /\ chan2 = applyChan'[i] /\ applied2 = m_lastApplied'[i]
  BY <1>2, ReportTypes
<1>5. SUFFICES IsReported(msgs2, chan2, x)
  BY <1>4
<1>6. x \in 1 .. applied => IsReported(msgs, chan, x)
  BY <1>3 DEF AllReported
<1>7. CASE Restart(i)
  <2>1. m_lastApplied'[i] = 0
    BY <1>7 DEF Restart, IndInv, TypeOK
  <2> QED BY <2>1
<1>8. CASE ReportsNothing(i)
  <2>1. msgs2 = msgs /\ chan2 = chan /\ applied2 = applied
    BY <1>1, <1>3, <1>4, <1>8 DEF ReportsNothing
  <2> QED BY <1>4, <1>6, <2>1
<1>9. ~ReportsSnapshot(i)
  <2>1. \A m \in isCalls : ~(m.lastsnapshotincludeindex > m_lastSnapshotIncludeIndex[i])
    BY DEF NoSnapshots
  <2> QED BY <2>1 DEF ReportsSnapshot
<1>10. CASE GetApplyLogs(i)
  <2>1. /\ msgs = <<>> /\ chan2 = chan /\ applied < applied2
        /\ applied2 = m_commitIndex[i] /\ msgs2 = Batch(i)
    <3>1. /\ applyMsgs[i] = <<>> /\ applyChan' = applyChan /\ m_lastApplied[i] < m_commitIndex[i]
      BY <1>10 DEF GetApplyLogs
    <3>2. m_lastApplied'[i] = m_commitIndex[i] /\ applyMsgs'[i] = Batch(i)
      BY <1>10 DEF GetApplyLogs, IndInv, TypeOK
    <3> QED BY <1>3, <1>4, <3>1, <3>2
  <2>2. /\ DOMAIN msgs2 = 1 .. applied2 - applied
        /\ \A k \in DOMAIN msgs2 : msgs2[k].index = applied + k
    BY <1>3, <2>1, BatchShape
  <2>3. CASE x \in 1 .. applied
    BY <1>6, <2>1, <2>3 DEF IsReported
  <2>4. CASE x \notin 1 .. applied
    <3>1. x - applied \in DOMAIN msgs2 /\ applied + (x - applied) = x
      BY <1>4, <2>1, <2>2, <2>4
    <3> QED BY <2>2, <3>1 DEF IsReported
  <2> QED BY <2>3, <2>4
<1>11. CASE PushApplyMsg(i)
  <2>1. /\ msgs # <<>> /\ chan2 = Append(chan, Head(msgs)) /\ msgs2 = Tail(msgs)
        /\ applied2 = applied
    BY <1>3, <1>4, <1>11 DEF PushApplyMsg, IndInv, TypeOK, indexVars
  <2>2. IsReported(msgs, chan, x)
    BY <1>4, <1>6, <2>1
  <2> QED BY <2>1, <2>2, PushKeepsReported
<1> QED BY <1>7, <1>8, <1>9, <1>10, <1>11, ReportSteps

\* All of ReportInv, over one step.
LEMMA NextKeepsReportInv == IndInv /\ ReportInv /\ [Next]_vars => ReportInv'
<1> SUFFICES ASSUME IndInv, ReportInv, [Next]_vars
             PROVE  ReportInv'
  OBVIOUS
<1>1. OrderInv /\ PendingInLog /\ CommandsStarted /\ NoSnapshots /\ AllReported
  BY DEF ReportInv
<1>2. OrderInv' /\ PendingInLog' /\ CommandsStarted'
  BY <1>1, NextKeepsOrder, NextKeepsPending, NextKeepsCommands
<1>3. NoSnapshots' /\ AllReported'
  BY <1>1, NextKeepsNoSnapshots, NextKeepsReported
<1> QED BY <1>2, <1>3 DEF ReportInv

\* Nothing has been reported, nor anything started, in the beginning.
LEMMA InitReportInv == Init => ReportInv
<1> SUFFICES ASSUME Init PROVE ReportInv
  OBVIOUS
<1>1. OrderInv /\ PendingInLog
  BY DEF Init, OrderInv, ReportOrder, PendingInLog
<1>2. CommandsStarted /\ NoSnapshots /\ AllReported
  BY DEF Init, CommandsStarted, NoSnapshots, AllReported
<1> QED BY <1>1, <1>2 DEF ReportInv

\* The invariant behind what is reported holds in every reachable state.
THEOREM ReportInvHolds == Spec => []ReportInv
<1>1. IndInv /\ ReportInv /\ [Next]_vars => ReportInv'
  BY NextKeepsReportInv
<1> QED BY <1>1, InitReportInv, IndInvHolds, PTL DEF Spec

\* applierTicker pushes without the lock while snapshots move m_lastApplied under it, and
\* still no command reaches KvServer twice or after a later one.
THEOREM ReportsInOrder == Spec => []CommandsReportedInOrder
<1>1. IndInv /\ ReportInv => CommandsReportedInOrder
  <2> SUFFICES ASSUME IndInv, ReportInv, NEW i \in Server,
                      NEW k \in 1 .. Len(applyChan[i] \o applyMsgs[i]),
                      NEW l \in 1 .. Len(applyChan[i] \o applyMsgs[i]), k < l,
                      ~(applyChan[i] \o applyMsgs[i])[k].snapshot,
                      ~(applyChan[i] \o applyMsgs[i])[l].snapshot
               PROVE  (applyChan[i] \o applyMsgs[i])[k].index
                        < (applyChan[i] \o applyMsgs[i])[l].index
    BY DEF CommandsReportedInOrder
  <2>1. PICK msgs \in Seq(ApplyMsg), chan \in Seq(ApplyMsg) :
          msgs = applyMsgs[i] /\ chan = applyChan[i]
    BY DEF IndInv, TypeOK
  <2>2. /\ \A a, b \in DOMAIN msgs : a < b => msgs[a].index < msgs[b].index
        /\ \A a, b \in DOMAIN chan :
             a < b /\ chan[a].snapshot = chan[b].snapshot => chan[a].index < chan[b].index
        /\ \A a \in DOMAIN chan : \A b \in DOMAIN msgs :
             ~chan[a].snapshot => chan[a].index < msgs[b].index
    BY <2>1 DEF ReportInv, OrderInv, ReportOrder
  <2>3. /\ Len(chan) \in Nat /\ DOMAIN chan = 1 .. Len(chan)
        /\ Len(msgs) \in Nat /\ DOMAIN msgs = 1 .. Len(msgs)
        /\ Len(chan \o msgs) = Len(chan) + Len(msgs)
        /\ \A a \in 1 .. Len(chan) : (chan \o msgs)[a] = chan[a]
        /\ \A a \in Len(chan) + 1 .. Len(chan) + Len(msgs) : (chan \o msgs)[a] = msgs[a - Len(chan)]
    OBVIOUS
  <2>4. k \in Int /\ l \in Int /\ l <= Len(chan) + Len(msgs) /\ 1 <= k
    <3>1. k \in 1 .. Len(chan \o msgs) /\ l \in 1 .. Len(chan \o msgs)
      BY <2>1
    <3>2. Len(chan \o msgs) = Len(chan) + Len(msgs) /\ Len(chan) \in Nat /\ Len(msgs) \in Nat
      BY <2>3
    <3> QED BY <3>1, <3>2
  <2>5. CASE l <= Len(chan)
    <3>1. /\ k \in DOMAIN chan /\ l \in DOMAIN chan
          /\ (chan \o msgs)[k] = chan[k] /\ (chan \o msgs)[l] = chan[l]
      BY <2>3, <2>4, <2>5
    <3>2. chan[k].snapshot \in BOOLEAN /\ chan[l].snapshot \in BOOLEAN
      BY <3>1, MessageTypes
    <3> QED BY <2>1, <2>2, <3>1, <3>2
  <2>6. CASE k <= Len(chan) /\ l > Len(chan)
    <3>1. /\ k \in DOMAIN chan /\ l - Len(chan) \in DOMAIN msgs
          /\ (chan \o msgs)[k] = chan[k] /\ (chan \o msgs)[l] = msgs[l - Len(chan)]
      BY <2>3, <2>4, <2>6
    <3> QED BY <2>1, <2>2, <3>1
  <2>7. CASE k > Len(chan)
    <3>1. /\ k - Len(chan) \in DOMAIN msgs /\ l - Len(chan) \in DOMAIN msgs
          /\ k - Len(chan) < l - Len(chan)
          /\ (chan \o msgs)[k] = msgs[k - Len(chan)] /\ (chan \o msgs)[l] = msgs[l - Len(chan)]
      BY <2>3, <2>4, <2>7
    <3> QED BY <2>1, <2>2, <3>1
  <2> QED BY <2>3, <2>4, <2>5, <2>6, <2>7
<1> QED BY <1>1, ReportInvHolds, IndInvHolds, PTL

\* As long as no snapshot moves it, m_lastApplied is past no index that applierTicker has not
\* reported or at least collected.
THEOREM AppliedReported == Spec => []AppliedIsReported
<1>1. IndInv /\ ReportInv => AppliedIsReported
  <2> SUFFICES ASSUME IndInv, ReportInv, snapshots = 0, NEW i \in Server,
                      NEW x \in 1 .. m_lastApplied[i]
               PROVE  \E k \in 1 .. Len(applyChan[i] \o applyMsgs[i]) :
                        (applyChan[i] \o applyMsgs[i])[k].index = x
    BY DEF AppliedIsReported
  <2>1. PICK msgs \in Seq(ApplyMsg), chan \in Seq(ApplyMsg) :
          msgs = applyMsgs[i] /\ chan = applyChan[i]
    BY DEF IndInv, TypeOK
  <2>2. \/ \E k \in DOMAIN chan : chan[k].index = x
        \/ \E k \in DOMAIN msgs : msgs[k].index = x
    BY <2>1 DEF ReportInv, AllReported, IsReported
  <2>3. /\ Len(chan) \in Nat /\ DOMAIN chan = 1 .. Len(chan)
        /\ Len(msgs) \in Nat /\ DOMAIN msgs = 1 .. Len(msgs)
        /\ Len(chan \o msgs) = Len(chan) + Len(msgs)
        /\ \A a \in 1 .. Len(chan) : (chan \o msgs)[a] = chan[a]
        /\ \A a \in 1 .. Len(msgs) : (chan \o msgs)[Len(chan) + a] = msgs[a]
    OBVIOUS
  <2>4. ASSUME NEW k \in DOMAIN chan, chan[k].index = x
        PROVE  \E a \in 1 .. Len(chan \o msgs) : (chan \o msgs)[a].index = x
    BY <2>3, <2>4
  <2>5. ASSUME NEW k \in DOMAIN msgs, msgs[k].index = x
        PROVE  \E a \in 1 .. Len(chan \o msgs) : (chan \o msgs)[a].index = x
    <3>1. Len(chan) + k \in 1 .. Len(chan \o msgs)
      BY <2>3
    <3> QED BY <2>3, <2>5, <3>1
  <2> QED BY <2>1, <2>2, <2>4, <2>5
<1> QED BY <1>1, ReportInvHolds, IndInvHolds, PTL

-----------------------------------------------------------------------------
(* Raft implements ReplicatedLog.                                          *)

\* The function Known(i), read off: the log past the snapshot, and the batch.
KnownInv ==
  \A i \in Server :
    /\ DOMAIN Known(i) = (m_lastSnapshotIncludeIndex[i] + 1 .. LastLogIndex(i))
                           \cup {applyMsgs[i][k].index : k \in DOMAIN applyMsgs[i]}
    /\ \A x \in m_lastSnapshotIncludeIndex[i] + 1 .. LastLogIndex(i) :
         Known(i)[x] = CommandAt(i, x)
    /\ \A k \in DOMAIN applyMsgs[i] : \A x :
         x = applyMsgs[i][k].index => Known(i)[x] = applyMsgs[i][k].command

\* Known(i) holds the log and the batch: the invariants make its CHOOSE unique.
LEMMA KnownShape == IndInv /\ ReportInv => KnownInv
<1> SUFFICES ASSUME IndInv, ReportInv, NEW i \in Server
             PROVE  /\ DOMAIN Known(i) =
                         (m_lastSnapshotIncludeIndex[i] + 1 .. LastLogIndex(i))
                           \cup {applyMsgs[i][k].index : k \in DOMAIN applyMsgs[i]}
                    /\ \A x \in m_lastSnapshotIncludeIndex[i] + 1 .. LastLogIndex(i) :
                         Known(i)[x] = CommandAt(i, x)
                    /\ \A k \in DOMAIN applyMsgs[i] : \A x :
                         x = applyMsgs[i][k].index => Known(i)[x] = applyMsgs[i][k].command
  BY DEF KnownInv
<1> DEFINE snap == m_lastSnapshotIncludeIndex[i]
           log == m_logs[i]
           msgs == applyMsgs[i]
           last == LastLogIndex(i)
           pending == {msgs[k] : k \in DOMAIN msgs}
           dom == {log[k].logindex : k \in DOMAIN log} \cup {msg.index : msg \in pending}
           value(x) == IF x > snap THEN log[x - snap].command
                       ELSE (CHOOSE msg \in pending : msg.index = x).command
<1>1. /\ snap \in Nat /\ Len(log) \in Nat /\ last = snap + Len(log) /\ DOMAIN log = 1 .. Len(log)
      /\ \A k \in 1 .. Len(log) : log[k].logindex = snap + k
  BY LogAccess DEF IndInv, LogShape, RunsFrom
<1>2. /\ DOMAIN Known(i) = dom
      /\ \A x \in dom : Known(i)[x] = value(x)
  BY DEF Known, Slot
<1>3. {log[k].logindex : k \in DOMAIN log} = snap + 1 .. last
  <2>1. ASSUME NEW x \in snap + 1 .. last PROVE \E k \in DOMAIN log : log[k].logindex = x
    <3>1. x - snap \in 1 .. Len(log) /\ snap + (x - snap) = x
      BY <1>1
    <3> QED BY <1>1, <3>1
  <2>2. ASSUME NEW k \in DOMAIN log PROVE log[k].logindex \in snap + 1 .. last
    BY <1>1
  <2> QED BY <2>1, <2>2
<1>4. {msg.index : msg \in pending} = {msgs[k].index : k \in DOMAIN msgs}
  OBVIOUS
<1>5. \A x \in snap + 1 .. last : value(x) = CommandAt(i, x)
  BY <1>1 DEF CommandAt
<1>6. ASSUME NEW k \in DOMAIN msgs, NEW x, x = msgs[k].index
      PROVE  value(x) = msgs[k].command
  <2>1. msgs \in Seq(ApplyMsg)
    BY DEF IndInv, TypeOK
  <2>2. x \in Nat
    BY <1>6, <2>1, MessageTypes
  <2>3. CASE x > snap
    BY <1>6, <2>3 DEF ReportInv, PendingInLog, CommandAt
  <2>4. CASE ~(x > snap)
    <3>1. \A l \in DOMAIN msgs : msgs[l].index = x => l = k
      <4>1. \A a, b \in DOMAIN msgs : a < b => msgs[a].index < msgs[b].index
        BY DEF ReportInv, OrderInv, ReportOrder
      <4>2. \A l \in DOMAIN msgs : l \in Nat
        BY <2>1
      <4> HIDE DEF msgs
      <4> QED BY <1>6, <2>2, <4>1, <4>2
    <3>2. \A msg \in pending : msg.index = x <=> msg = msgs[k]
      BY <1>6, <3>1
    <3>3. msgs[k] \in pending /\ msgs[k].index = x
      BY <1>6
    <3>4. (CHOOSE msg \in pending : msg.index = x) = msgs[k]
      <4> HIDE DEF pending
      <4> QED BY <3>2, <3>3
    <3> QED BY <2>4, <3>4
  <2> QED BY <2>3, <2>4
<1> HIDE DEF value
<1>7. \A k \in DOMAIN msgs : msgs[k].index \in dom
  OBVIOUS
<1>8. \A x \in snap + 1 .. last : x \in dom
  BY <1>3
<1> QED BY <1>2, <1>3, <1>4, <1>5, <1>6, <1>7, <1>8

\* What is known at an index stays, as long as the process lives.
LEMMA KnownGoesOn ==
  ASSUME IndInv, IndInv', ReportInv, ReportInv', KnownInv, KnownInv', [Next]_vars,
         NEW i \in Server, ~Restart(i), NEW x \in DOMAIN Known(i)'
  PROVE  IF x \in DOMAIN Known(i) THEN Known(i)'[x] = Known(i)[x]
         ELSE x > LastLogIndex(i) /\ Known(i)'[x] \in 1 .. commands'
<1>1. LogGoesOn(i)
  BY LogStays DEF ReportInv
<1>2. PICK snap \in Nat, last \in Nat, applied \in Nat, commit \in Nat :
        /\ snap = m_lastSnapshotIncludeIndex[i] /\ last = LastLogIndex(i)
        /\ applied = m_lastApplied[i] /\ commit = m_commitIndex[i]
        /\ snap <= applied /\ applied <= commit /\ commit <= last
  BY EndsGoOn DEF IndInv, TypeOK, LogShape, CursorOrder
<1>3. PICK snap2 \in Nat, last2 \in Nat :
        /\ snap2 = m_lastSnapshotIncludeIndex'[i] /\ last2 = LastLogIndex(i)'
        /\ snap <= snap2 /\ last <= last2
  BY <1>1, <1>2, EndsGoOn DEF IndInv, TypeOK, LogGoesOn
<1>4. /\ DOMAIN Known(i)' = (snap2 + 1 .. last2)
                             \cup {applyMsgs'[i][k].index : k \in DOMAIN applyMsgs'[i]}
      /\ \A y \in snap2 + 1 .. last2 : Known(i)'[y] = CommandAt(i, y)'
      /\ \A k \in DOMAIN applyMsgs'[i] : \A y :
           y = applyMsgs'[i][k].index => Known(i)'[y] = applyMsgs'[i][k].command
  BY <1>3 DEF KnownInv
<1>5. /\ DOMAIN Known(i) = (snap + 1 .. last)
                             \cup {applyMsgs[i][k].index : k \in DOMAIN applyMsgs[i]}
      /\ \A y \in snap + 1 .. last : Known(i)[y] = CommandAt(i, y)
      /\ \A k \in DOMAIN applyMsgs[i] : \A y :
           y = applyMsgs[i][k].index => Known(i)[y] = applyMsgs[i][k].command
  BY <1>2 DEF KnownInv
<1>6. CASE x \in snap2 + 1 .. last2
  <2>1. Known(i)'[x] = CommandAt(i, x)' /\ x \in Nat
    BY <1>4, <1>6
  <2>2. CASE x <= last
    <3>1. CommandAt(i, x)' = CommandAt(i, x)
      BY <1>1, <1>2, <1>3, <1>6, <2>2 DEF LogGoesOn
    <3>2. x \in snap + 1 .. last
      BY <1>3, <1>6, <2>2
    <3> QED BY <1>5, <2>1, <3>1, <3>2
  <2>3. CASE ~(x <= last)
    <3>1. CommandAt(i, x)' \in 1 .. commands'
      BY <1>1, <1>2, <1>3, <1>6, <2>3 DEF LogGoesOn
    <3>2. x > LastLogIndex(i)
      BY <1>2, <2>1, <2>3
    <3>3. x \notin DOMAIN Known(i)
      <4>1. \A k \in DOMAIN applyMsgs[i] : applyMsgs[i][k].index \in 1 .. applied
        BY <1>2 DEF ReportInv, OrderInv, ReportOrder
      <4> QED BY <1>2, <1>5, <2>1, <2>3, <4>1
    <3> QED BY <2>1, <3>1, <3>2, <3>3
  <2> QED BY <2>2, <2>3
<1>7. CASE x \notin snap2 + 1 .. last2
  <2>1. PICK k \in DOMAIN applyMsgs'[i] : x = applyMsgs'[i][k].index
    BY <1>4, <1>7
  <2>2. Known(i)'[x] = applyMsgs'[i][k].command
    BY <1>4, <2>1
  <2>3. CASE \E l \in DOMAIN applyMsgs[i] : applyMsgs'[i][k] = applyMsgs[i][l]
    <3>1. PICK l \in DOMAIN applyMsgs[i] : applyMsgs'[i][k] = applyMsgs[i][l]
      BY <2>3
    <3>2. x \in DOMAIN Known(i) /\ Known(i)[x] = applyMsgs[i][l].command
      BY <1>5, <2>1, <3>1
    <3> QED BY <2>2, <3>1, <3>2
  <2>4. CASE /\ applyMsgs'[i][k].index \in m_lastApplied[i] + 1 .. m_commitIndex[i]
             /\ applyMsgs'[i][k].command = CommandAt(i, applyMsgs'[i][k].index)
    <3>1. x \in applied + 1 .. commit /\ Known(i)'[x] = CommandAt(i, x)
      BY <1>2, <2>1, <2>2, <2>4
    <3>2. x \in snap + 1 .. last
      BY <1>2, <3>1
    <3> QED BY <1>5, <3>1, <3>2
  <2> QED BY <2>3, <2>4, PendingSteps
<1> QED BY <1>6, <1>7

\* What is pushed in a step that is not a restart: nothing, or one message in its order, and
\* a command as it is known.
LEMMA FedGoesOn ==
  ASSUME IndInv, ReportInv, KnownInv, [Next]_vars, NEW i \in Server, ~Restart(i)
  PROVE  \/ applyChan'[i] = applyChan[i]
         \/ \E msg : /\ applyChan'[i] = Append(applyChan[i], msg)
                     /\ \A k \in DOMAIN applyChan[i] :
                          applyChan[i][k].snapshot = msg.snapshot =>
                            applyChan[i][k].index < msg.index
                     /\ ~msg.snapshot =>
                          /\ msg.index \in DOMAIN Known(i)
                          /\ msg.command = Known(i)[msg.index]
<1>1. CASE ReportsNothing(i)
  BY <1>1 DEF ReportsNothing
<1>2. CASE GetApplyLogs(i)
  BY <1>2 DEF GetApplyLogs
<1>3. PICK msgs \in Seq(ApplyMsg), chan \in Seq(ApplyMsg), applied \in Nat, snap \in Nat :
        /\ msgs = applyMsgs[i] /\ chan = applyChan[i]
        /\ applied = m_lastApplied[i] /\ snap = m_lastSnapshotIncludeIndex[i]
  BY DEF IndInv, TypeOK
<1>4. ReportOrder(msgs, chan, applied, snap)
  BY <1>3 DEF ReportInv, OrderInv
<1>5. \A k \in DOMAIN chan : chan[k].index \in Nat /\ chan[k].snapshot \in BOOLEAN
  BY MessageTypes
<1>6. CASE ReportsSnapshot(i)
  <2>1. PICK m \in isCalls :
          /\ m.lastsnapshotincludeindex > snap
          /\ applyChan'[i] = Append(chan, [snapshot |-> TRUE, index |-> m.lastsnapshotincludeindex,
                                           command |-> 0])
    BY <1>3, <1>6 DEF ReportsSnapshot
  <2>2. PICK msg : msg = [snapshot |-> TRUE, index |-> m.lastsnapshotincludeindex, command |-> 0]
    OBVIOUS
  <2>3. msg.snapshot = TRUE /\ msg.index > snap /\ applyChan'[i] = Append(chan, msg)
    BY <2>1, <2>2
  <2>4. m.lastsnapshotincludeindex \in Nat /\ msg.index \in Nat
    BY <2>2, InstallCallTypes DEF IndInv
  <2>5. \A k \in DOMAIN chan : chan[k].snapshot = msg.snapshot => chan[k].index < msg.index
    <3> SUFFICES ASSUME NEW k \in DOMAIN chan, chan[k].snapshot = TRUE
                 PROVE  chan[k].index < msg.index
      BY <2>3
    <3>1. chan[k].index <= snap
      BY <1>4 DEF ReportOrder
    <3> QED BY <1>5, <2>3, <2>4, <3>1
  <2> QED BY <1>3, <2>3, <2>5
<1>7. CASE PushApplyMsg(i)
  <2>1. msgs # <<>> /\ applyChan'[i] = Append(chan, Head(msgs))
    BY <1>3, <1>7 DEF PushApplyMsg, IndInv, TypeOK
  <2>2. PICK msg : msg = msgs[1] /\ applyChan'[i] = Append(chan, msg) /\ 1 \in DOMAIN msgs
    BY <2>1
  <2>3. ~msg.snapshot /\ \A k \in DOMAIN chan : ~chan[k].snapshot => chan[k].index < msg.index
    BY <1>4, <2>2 DEF ReportOrder
  <2>4. msg.index \in DOMAIN Known(i) /\ msg.command = Known(i)[msg.index]
    BY <1>3, <2>2 DEF KnownInv
  <2>5. \A k \in DOMAIN chan : chan[k].snapshot = msg.snapshot => chan[k].index < msg.index
    BY <2>3
  <2> QED BY <1>3, <2>2, <2>4, <2>5
<1> QED BY <1>1, <1>2, <1>6, <1>7, ReportSteps

\* The function of nothing is the empty sequence.
LEMMA EmptyIsSequence == [x \in {} |-> 0] = <<>>
<1>1. PICK f : f = [x \in {} |-> 0]
  OBVIOUS
<1>2. f \in [1 .. 0 -> Nat]
  BY <1>1
<1>3. f \in Seq(Nat) /\ Len(f) = 0
  BY <1>2
<1> QED BY <1>1, <1>3

\* A new process knows nothing.
LEMMA KnownBegins ==
  ASSUME IndInv, NEW i \in Server, Restart(i)
  PROVE  Known(i)' = <<>> /\ LastLogIndex(i)' = 0 /\ applyChan'[i] = <<>>
<1>1. /\ m_logs'[i] = <<>> /\ applyMsgs'[i] = <<>> /\ applyChan'[i] = <<>>
      /\ m_lastSnapshotIncludeIndex'[i] = 0
  BY DEF Restart, IndInv, TypeOK
<1>2. LastLogIndex(i)' = 0
  BY <1>1 DEF LastLogIndex
<1>3. Known(i)' = [x \in {} |-> 0]
  BY <1>1 DEF Known
<1> QED BY <1>1, <1>2, <1>3, EmptyIsSequence

\* A step of Raft, as KvServer sees it.
LEMMA StepKeepsPromise ==
  ASSUME IndInv, IndInv', ReportInv, ReportInv', KnownInv, KnownInv', [Next]_vars
  PROVE  Promise!Next
<1>1. 1 .. commands \subseteq 1 .. commands'
  BY CommandsCount DEF IndInv
<1>2. ASSUME NEW i \in Server, ~Restart(i) PROVE Promise!Step(i)
  <2>1. Promise!LogGrows(i)
    <3>1. LastLogIndex(i)' >= LastLogIndex(i)
      BY <1>2, EndsGoOn
    <3>2. \A x \in DOMAIN Known(i)' :
            IF x \in DOMAIN Known(i) THEN Known(i)'[x] = Known(i)[x]
            ELSE x > LastLogIndex(i) /\ Known(i)'[x] \in 1 .. commands'
      BY <1>2, KnownGoesOn
    <3> QED BY <3>1, <3>2 DEF Promise!LogGrows
  <2>2. CASE applyChan'[i] = applyChan[i]
    BY <2>1, <2>2 DEF Promise!Step
  <2>3. ASSUME NEW msg, applyChan'[i] = Append(applyChan[i], msg),
               \A k \in DOMAIN applyChan[i] :
                 applyChan[i][k].snapshot = msg.snapshot => applyChan[i][k].index < msg.index,
               ~msg.snapshot => /\ msg.index \in DOMAIN Known(i)
                                /\ msg.command = Known(i)[msg.index]
        PROVE  Promise!Step(i)
    <3>1. Len(applyChan'[i]) = Len(applyChan[i]) + 1 /\ applyChan'[i][Len(applyChan'[i])] = msg
      <4>1. PICK chan \in Seq(ApplyMsg) : chan = applyChan[i]
        BY DEF IndInv, TypeOK
      <4> QED BY <2>3, <4>1
    <3>2. Promise!Reports(i, msg)
      BY <2>3 DEF Promise!Reports
    <3> QED BY <2>1, <3>1, <3>2 DEF Promise!Step
  <2> QED BY <1>2, <2>2, <2>3, FedGoesOn
<1>3. ASSUME NEW i \in Server, Restart(i) PROVE Promise!Restart(i)
  BY <1>3, KnownBegins DEF Promise!Restart
<1> QED BY <1>1, <1>2, <1>3 DEF Promise!Next

\* Raft begins where its contract begins.
LEMMA InitKeepsPromise == Init => Promise!Init
<1> SUFFICES ASSUME Init PROVE Promise!Init
  OBVIOUS
<1>1. ASSUME NEW i \in Server
      PROVE  Known(i) = <<>> /\ LastLogIndex(i) = 0 /\ applyChan[i] = <<>>
  <2>1. /\ m_logs[i] = <<>> /\ applyMsgs[i] = <<>> /\ applyChan[i] = <<>>
        /\ m_lastSnapshotIncludeIndex[i] = 0
    BY DEF Init
  <2>2. LastLogIndex(i) = 0
    BY <2>1 DEF LastLogIndex
  <2>3. Known(i) = [x \in {} |-> 0]
    BY <2>1 DEF Known
  <2> QED BY <2>1, <2>2, <2>3, EmptyIsSequence
<1>2. 1 .. commands = {} /\ applyChan = [i \in Server |-> <<>>]
  BY DEF Init
<1> QED BY <1>1, <1>2 DEF Promise!Init

\* Raft keeps the promise that KvServer is modelled and proved with: what Start gave out at an
\* index stays there, and is reported in order, whatever the other servers do.
THEOREM RaftKeepsPromise == Spec => KeepsPromise
<1>1. /\ IndInv /\ ReportInv /\ KnownInv /\ (IndInv /\ ReportInv /\ KnownInv)' /\ [Next]_vars
        => [Promise!Next]_(Promise!promiseVars)
  BY StepKeepsPromise
<1> QED BY <1>1, InitKeepsPromise, KnownShape, ReportInvHolds, IndInvHolds, PTL
        DEF Spec, KeepsPromise, Promise!Spec

====
