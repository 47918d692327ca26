---- MODULE RaftElectionProofs ----
(***************************************************************************)
(* Proofs about the votes of Raft, for every number of servers and every   *)
(* bound.                                                                  *)
(*                                                                         *)
(* A leader's quorum follows from what ties the three places a vote is in: *)
(* the history of votes given, the replies in flight, and the counter of   *)
(* the round.  That two leaders of a term share a voter who lost its vote  *)
(* needs more: a server that never lost one still holds, in m_votedFor,    *)
(* the vote it gave in its current term.  And that no round wins twice     *)
(* needs the votes still to come: after a win they are no majority.        *)
(*                                                                         *)
(* All this rests on replies that come to the thread that asked, which     *)
(* nothing in the code sees to.  So the invariants are claimed as long as  *)
(* no reply has reached a thread of sendRequestVote but its own; whatever  *)
(* reaches the threads of the other two calls does not disturb them.       *)
(***************************************************************************)
EXTENDS RaftProofs

VotesInFlight == rvCalls \cup {r.args : r \in rvReplies}

\* Requests of one round are from one candidate and term, and whoever the round counts has
\* voted for it.
RoundsCountVotes ==
  /\ \A m \in VotesInFlight :
       /\ m.round \in DOMAIN votedNum
       /\ \A v \in votedNum[m.round] : <<m.term, v, m.candidateid>> \in granted
  /\ \A m, n \in VotesInFlight :
       m.round = n.round => m.term = n.term /\ m.candidateid = n.candidateid

\* A reply that carries a vote was sent when the vote was given, in the term of the request.
RepliesGranted ==
  \A r \in rvReplies : r.votegranted =>
    /\ r.term = r.args.term
    /\ <<r.args.term, r.args.server, r.args.candidateid>> \in granted

\* A server that lost no vote remembers the one of its current term.
VotesRemembered ==
  \A t \in Nat : \A v, c \in Server : <<t, v, c>> \in granted /\ v \notin forgot =>
    /\ t <= m_currentTerm[v]
    /\ t = m_currentTerm[v] => m_votedFor[v] = c

\* A server that lost no vote has given one vote in each term.
OneVoteUnlessForgot ==
  \A t \in Nat : \A v, c, d \in Server :
    {<<t, v, c>>, <<t, v, d>>} \subseteq granted /\ v \notin forgot => c = d

\* Whoever was elected had been given a majority of the votes of that term.
ElectedByQuorum ==
  \A e \in elected : IsMajority({v \in Server : <<e[1], v, e[2]>> \in granted})

VoteInv ==
  /\ RoundsCountVotes /\ RepliesGranted
  /\ VotesRemembered /\ OneVoteUnlessForgot
  /\ ElectedByQuorum

\* No server that has its votes takes a lower term, or drops a vote of its term.
VotesKept ==
  \A v \in Server \ forgot' :
    \/ m_currentTerm'[v] > m_currentTerm[v]
    \/ m_currentTerm'[v] = m_currentTerm[v] /\ m_votedFor'[v] = m_votedFor[v]

-----------------------------------------------------------------------------
(* Majorities.                                                             *)

\* A set of servers that contains a majority is one.
LEMMA LargerMajority ==
  ASSUME NEW S, NEW T, S \subseteq T, T \subseteq Server, IsMajority(S)
  PROVE  IsMajority(T)
<1>1. IsFiniteSet(Server) /\ IsFiniteSet(T)
  BY ServerAssumption, FS_Subset
<1>2. Cardinality(S) <= Cardinality(T)
  BY <1>1, FS_Subset
<1>3. Cardinality(S) \in Nat /\ Cardinality(T) \in Nat /\ Cardinality(Server) \in Nat
  BY <1>1, FS_Subset, FS_CardinalityType
<1> QED BY <1>2, <1>3 DEF IsMajority

\* Two majorities have a server in common.
LEMMA MajoritiesMeet ==
  ASSUME NEW S, NEW T, S \subseteq Server, T \subseteq Server, IsMajority(S), IsMajority(T)
  PROVE  \E v \in Server : v \in S /\ v \in T
<1>1. IsFiniteSet(Server) /\ IsFiniteSet(S) /\ IsFiniteSet(T)
  BY ServerAssumption, FS_Subset
<1>2. Cardinality(S) \in Nat /\ Cardinality(T) \in Nat /\ Cardinality(Server) \in Nat
  BY <1>1, FS_CardinalityType
<1>3. Cardinality(S) + Cardinality(T) > Cardinality(Server)
  BY <1>2 DEF IsMajority
<1>4. S \cap T # {}
  BY <1>1, <1>3, FS_MajoritiesIntersect
<1> QED BY <1>4

-----------------------------------------------------------------------------
(* The parts of the invariant.                                             *)

\* The types of the requests in flight, answered or not.
LEMMA VoteFlightTypes ==
  ASSUME TypeOK, NEW m \in VotesInFlight
  PROVE  /\ m \in RequestVoteArgs /\ m.round \in Nat /\ m.term \in Nat
         /\ m.server \in Server /\ m.candidateid \in Server
<1>1. m \in RequestVoteArgs
  BY DEF VotesInFlight, TypeOK, RequestVoteReply
<1> QED BY <1>1 DEF RequestVoteArgs

\* Nothing is counted and nothing sent: the rounds stay as they are.
LEMMA RoundsKept ==
  ASSUME RoundsCountVotes, votedNum' = votedNum, granted \subseteq granted',
         VotesInFlight' \subseteq VotesInFlight
  PROVE  RoundsCountVotes'
BY DEF RoundsCountVotes

\* No vote is given: what is remembered stays, unless it is forgotten.
LEMMA RememberedKept ==
  ASSUME IndInv, TypeOK', VotesRemembered, OneVoteUnlessForgot,
         granted' = granted, forgot \subseteq forgot', VotesKept
  PROVE  VotesRemembered' /\ OneVoteUnlessForgot'
<1>1. OneVoteUnlessForgot'
  BY DEF OneVoteUnlessForgot
<1>2. ASSUME NEW t \in Nat, NEW v \in Server, NEW c \in Server,
             <<t, v, c>> \in granted', v \notin forgot'
      PROVE  t <= m_currentTerm'[v] /\ (t = m_currentTerm'[v] => m_votedFor'[v] = c)
  <2>1. t <= m_currentTerm[v] /\ (t = m_currentTerm[v] => m_votedFor[v] = c)
    BY <1>2 DEF VotesRemembered
  <2>2. m_currentTerm[v] \in Nat /\ m_currentTerm'[v] \in Nat
    BY DEF IndInv, TypeOK
  <2>3. CASE m_currentTerm'[v] > m_currentTerm[v]
    BY <2>1, <2>2, <2>3
  <2>4. CASE m_currentTerm'[v] = m_currentTerm[v] /\ m_votedFor'[v] = m_votedFor[v]
    BY <2>1, <2>4
  <2> QED BY <1>2, <2>3, <2>4 DEF VotesKept
<1> QED BY <1>1, <1>2 DEF VotesRemembered

\* A leader keeps the votes it was elected with.
LEMMA QuorumKept ==
  ASSUME ElectedByQuorum, elected' = elected, granted \subseteq granted'
  PROVE  ElectedByQuorum'
<1> SUFFICES ASSUME NEW e \in elected
             PROVE  IsMajority({v \in Server : <<e[1], v, e[2]>> \in granted'})
  BY DEF ElectedByQuorum, IsMajority
<1>1. IsMajority({v \in Server : <<e[1], v, e[2]>> \in granted})
  BY DEF ElectedByQuorum
<1> QED BY <1>1, LargerMajority

-----------------------------------------------------------------------------
(* Steps in which nobody votes.                                            *)

\* A step that leaves the voting alone, and no vote behind, keeps the invariant.
LEMMA NoVotingKeeps ==
  ASSUME IndInv, TypeOK', VoteInv, UNCHANGED <<votedNum, granted, elected>>,
         rvCalls' \subseteq rvCalls, rvReplies' \subseteq rvReplies,
         forgot \subseteq forgot', VotesKept
  PROVE  VoteInv'
<1>1. VotesInFlight' \subseteq VotesInFlight
  BY DEF VotesInFlight
<1>2. RoundsCountVotes' /\ ElectedByQuorum'
  BY <1>1, RoundsKept, QuorumKept DEF VoteInv
<1>3. RepliesGranted'
  BY DEF VoteInv, RepliesGranted
<1>4. VotesRemembered' /\ OneVoteUnlessForgot'
  BY RememberedKept DEF VoteInv
<1> QED BY <1>2, <1>3, <1>4 DEF VoteInv

\* A term that is not lower is adopted without loss: the vote goes with a lower one only.
LEMMA FollowTermKeepsVotes ==
  ASSUME TypeOK, NEW i \in Server, NEW term \in Nat, term >= m_currentTerm[i],
         FollowTerm(i, term)
  PROVE  VotesKept
<1>1. \A v \in Server : m_currentTerm[v] \in Nat
  BY DEF TypeOK
<1>2. /\ m_currentTerm'[i] = term
      /\ m_votedFor'[i] = IF term > m_currentTerm[i] THEN Nil ELSE m_votedFor[i]
      /\ \A v \in Server : v # i => /\ m_currentTerm'[v] = m_currentTerm[v]
                                    /\ m_votedFor'[v] = m_votedFor[v]
  BY DEF FollowTerm, TypeOK
<1> QED BY <1>1, <1>2 DEF VotesKept

\* Log replication: only the step of sendAppendEntries that takes its own old term loses a
\* vote, and it is noted.
LEMMA AppendStepVotes ==
  ASSUME IndInv, AppendStep
  PROVE  UNCHANGED <<rvVars, granted, elected>> /\ forgot \subseteq forgot' /\ VotesKept
<1>1. TypeOK
  BY DEF IndInv
<1>2. CASE UNCHANGED <<m_currentTerm, m_votedFor, rvVars, granted, elected, forgot>>
  BY <1>2 DEF VotesKept
<1>3. ASSUME NEW i \in Server, DoHeartBeat(i) \/ DoHeartBeatExits(i) \/ Start(i)
      PROVE  UNCHANGED <<m_currentTerm, m_votedFor, rvVars, granted, elected, forgot>>
  <2>1. CASE DoHeartBeat(i)
    BY <2>1 DEF DoHeartBeat, SpawnAppends, termVars, historyVars
  <2>2. CASE DoHeartBeatExits(i)
    BY <2>2 DEF DoHeartBeatExits, SpawnAppends, termVars, historyVars
  <2>3. CASE Start(i)
    BY <2>3 DEF Start, termVars, historyVars
  <2> QED BY <1>3, <2>1, <2>2, <2>3
<1>4. ASSUME NEW m \in aeCalls,
             \/ AppendEntriesStale(m) \/ AppendEntriesAhead(m)
             \/ AppendEntriesBeforeSnapshot(m) \/ AppendEntriesMismatch(m)
             \/ AppendEntriesMatch(m) \/ AppendEntriesWild(m) \/ AppendEntriesDiffers(m)
      PROVE  UNCHANGED <<rvVars, granted, elected, forgot>> /\ VotesKept
  <2>1. UNCHANGED <<rvVars, granted, elected, forgot>>
    BY <1>4 DEF AppendEntriesStale, AppendEntriesAhead, AppendEntriesBeforeSnapshot,
       AppendEntriesMismatch, AppendEntriesMatch, AppendEntriesWild, AppendEntriesDiffers,
       AnswerAppend, DieInAppend, historyVars
  <2>2. CASE AppendEntriesStale(m)
    BY <2>1, <2>2 DEF AppendEntriesStale, termVars, VotesKept
  <2>3. CASE HearLeader(m)
    <3>1. m.server \in Server /\ m.term \in Nat
      BY <1>1, AppendCallTypes DEF AppendsInFlight
    <3>2. m.term >= m_currentTerm[m.server] /\ FollowTerm(m.server, m.term)
      BY <2>3 DEF HearLeader
    <3> QED BY <2>1, <3>1, <3>2, <1>1, FollowTermKeepsVotes
  <2>4. AppendEntriesStale(m) \/ HearLeader(m)
    BY <1>4 DEF AppendEntriesAhead, AppendEntriesBeforeSnapshot, AppendEntriesMismatch,
       AppendEntriesMatch, AppendEntriesWild, AppendEntriesDiffers, Matches
  <2> QED BY <2>1, <2>2, <2>3, <2>4
<1>5. ASSUME NEW r \in aeReplies,
             \/ SendAppendEntriesHigherTerm(r) \/ SendAppendEntriesIgnored(r)
             \/ SendAppendEntriesRefused(r) \/ SendAppendEntriesAccepted(r)
      PROVE  UNCHANGED <<rvVars, granted, elected>> /\ forgot \subseteq forgot' /\ VotesKept
  <2>1. UNCHANGED <<rvVars, granted, elected>>
    BY <1>5 DEF SendAppendEntriesHigherTerm, SendAppendEntriesIgnored, SendAppendEntriesRefused,
       SendAppendEntriesAccepted, LeaderTakes, TakeAppendReply
  <2>2. CASE SendAppendEntriesHigherTerm(r)
    <3>1. /\ forgot' = forgot \cup {r.args.leaderid}
          /\ \A v \in Server : v # r.args.leaderid =>
               m_currentTerm'[v] = m_currentTerm[v] /\ m_votedFor'[v] = m_votedFor[v]
      BY <2>2, <1>1 DEF SendAppendEntriesHigherTerm, TypeOK
    <3> QED BY <3>1, <2>1 DEF VotesKept
  <2>3. CASE UNCHANGED <<termVars, forgot>>
    BY <2>1, <2>3 DEF termVars, VotesKept
  <2> QED BY <1>5, <2>2, <2>3 DEF SendAppendEntriesIgnored, SendAppendEntriesRefused,
                                  SendAppendEntriesAccepted, LeaderTakes
<1> QED BY <1>2, <1>3, <1>4, <1>5 DEF AppendStep

\* Applying and snapshots lose no vote.
LEMMA SnapshotStepVotes ==
  ASSUME IndInv, ApplyStep \/ SnapshotStep
  PROVE  UNCHANGED <<rvVars, granted, elected, forgot>> /\ VotesKept
<1>1. TypeOK
  BY DEF IndInv
<1>2. CASE ApplyStep
  BY <1>2 DEF ApplyStep, GetApplyLogs, PushApplyMsg, termVars, historyVars, VotesKept
<1>3. ASSUME NEW i \in Server, SnapshotOfExecuted(i)
      PROVE  UNCHANGED <<rvVars, granted, elected, forgot>> /\ VotesKept
  BY <1>3 DEF SnapshotOfExecuted, Snapshot, termVars, historyVars, VotesKept
<1>4. ASSUME NEW t \in isThreads, LeaderSendSnapShot(t)
      PROVE  UNCHANGED <<rvVars, granted, elected, forgot>> /\ VotesKept
  BY <1>4 DEF LeaderSendSnapShot, termVars, historyVars, VotesKept
<1>5. ASSUME NEW m \in isCalls \cup isWaits,
             \/ InstallSnapshotStale(m) \/ InstallSnapshotOld(m)
             \/ InstallSnapshot(m) \/ InstallSnapshotPeerGone(m)
      PROVE  UNCHANGED <<rvVars, granted, elected, forgot>> /\ VotesKept
  <2>1. UNCHANGED <<rvVars, granted, elected, forgot>>
    BY <1>5 DEF InstallSnapshotStale, InstallSnapshotOld, InstallSnapshot,
       InstallSnapshotPeerGone, AnswerInstall, historyVars
  <2>2. CASE UNCHANGED termVars
    BY <2>2, <2>1 DEF termVars, VotesKept
  <2>3. CASE HearLeader(m)
    BY <2>1, <2>3, <1>1, InstallCallTypes, FollowTermKeepsVotes DEF HearLeader
  <2> QED BY <1>5, <2>2, <2>3 DEF InstallSnapshotStale, InstallSnapshotOld, InstallSnapshot,
                                  InstallSnapshotPeerGone
<1>6. ASSUME NEW r \in isReplies,
             \/ LeaderSendSnapShotIgnored(r) \/ LeaderSendSnapShotHigherTerm(r)
             \/ LeaderSendSnapShotDone(r)
      PROVE  UNCHANGED <<rvVars, granted, elected, forgot>> /\ VotesKept
  <2>1. UNCHANGED <<rvVars, granted, elected, forgot>>
    BY <1>6 DEF LeaderSendSnapShotIgnored, LeaderSendSnapShotHigherTerm, LeaderSendSnapShotDone,
       TakeInstallReply, historyVars
  <2>2. CASE UNCHANGED termVars
    BY <2>2, <2>1 DEF termVars, VotesKept
  <2>3. CASE LeaderSendSnapShotHigherTerm(r)
    <3>1. /\ r.args.leaderid \in Server /\ r.term \in Nat
          /\ m_currentTerm[r.args.leaderid] \in Nat
      BY <1>1, InstallCallTypes DEF TypeOK
    <3>2. /\ r.term >= m_currentTerm[r.args.leaderid]
          /\ FollowTerm(r.args.leaderid, r.term)
      BY <2>3, <3>1 DEF LeaderSendSnapShotHigherTerm
    <3> QED BY <2>1, <3>1, <3>2, <1>1, FollowTermKeepsVotes
  <2> QED BY <1>6, <2>2, <2>3 DEF LeaderSendSnapShotIgnored, LeaderSendSnapShotDone
<1> QED BY <1>2, <1>3, <1>4, <1>5, <1>6 DEF SnapshotStep

\* A restarted server has lost its votes, and it is noted.
LEMMA ProcessStepKeepsVotes ==
  ASSUME IndInv, TypeOK', VoteInv, ProcessStep
  PROVE  VoteInv'
<1>1. ASSUME NEW i \in Server, Kill(i) PROVE VoteInv'
  <2>1. UNCHANGED <<termVars, rvVars, historyVars>>
    BY <1>1 DEF Kill
  <2> QED BY <2>1, NoVotingKeeps DEF termVars, rvVars, historyVars, VotesKept
<1>2. ASSUME NEW i \in Server, Restart(i) PROVE VoteInv'
  <2>1. /\ rvCalls' \subseteq rvCalls /\ rvReplies' \subseteq rvReplies
        /\ UNCHANGED <<votedNum, granted, elected>> /\ forgot' = forgot \cup {i}
    BY <1>2 DEF Restart
  <2>2. \A v \in Server : v # i =>
          m_currentTerm'[v] = m_currentTerm[v] /\ m_votedFor'[v] = m_votedFor[v]
    BY <1>2 DEF Restart, IndInv, TypeOK
  <2>3. VotesKept
    BY <2>1, <2>2 DEF VotesKept
  <2> QED BY <2>1, <2>3, NoVotingKeeps
<1> QED BY <1>1, <1>2 DEF ProcessStep

-----------------------------------------------------------------------------
(* Steps of an election.                                                   *)

\* A candidate votes for itself in a term above every one it has voted in, and its requests
\* belong to a round of their own.
LEMMA DoElectionKeepsVotes ==
  ASSUME IndInv, VoteInv, NEW i \in Server, DoElection(i)
  PROVE  VoteInv'
<1> DEFINE term == m_currentTerm[i] + 1
           round == Len(votedNum) + 1
           Request(j) == VoteRequest(i, j)
<1>1. TypeOK /\ \A v \in Server : m_currentTerm[v] \in Nat
  BY DEF IndInv, TypeOK
<1>2. /\ m_currentTerm' = [m_currentTerm EXCEPT ![i] = term]
      /\ m_votedFor' = [m_votedFor EXCEPT ![i] = i]
      /\ votedNum' = Append(votedNum, {i})
      /\ rvCalls' = rvCalls \cup {Request(j) : j \in Peers(i)}
      /\ granted' = granted \cup {<<term, i, i>>}
      /\ rvReplies' = rvReplies /\ elected' = elected /\ forgot' = forgot
  BY DEF DoElection
<1>3. term \in Nat /\ term > m_currentTerm[i]
  BY <1>1
<1>4. /\ m_currentTerm'[i] = term /\ m_votedFor'[i] = i
      /\ \A v \in Server : v # i => /\ m_currentTerm'[v] = m_currentTerm[v]
                                    /\ m_votedFor'[v] = m_votedFor[v]
  BY <1>1, <1>2 DEF TypeOK
<1>5. /\ DOMAIN votedNum' = 1 .. round /\ votedNum'[round] = {i}
      /\ \A n \in DOMAIN votedNum : n \in 1 .. round /\ n # round /\ votedNum'[n] = votedNum[n]
  <2>1. votedNum \in Seq(SUBSET Server) /\ {i} \in SUBSET Server /\ Len(votedNum) \in Nat
    BY <1>1 DEF TypeOK
  <2> QED BY <2>1, <1>2
<1>6. \A m \in VotesInFlight' :
        \/ m \in VotesInFlight
        \/ m.round = round /\ m.term = term /\ m.candidateid = i
  BY <1>2 DEF VotesInFlight, VoteRequest
<1> HIDE DEF term, round, Request
<1>7. RoundsCountVotes'
  <2>1. \A m \in VotesInFlight :
          /\ m.round \in DOMAIN votedNum
          /\ \A v \in votedNum[m.round] : <<m.term, v, m.candidateid>> \in granted
    BY DEF VoteInv, RoundsCountVotes
  <2>2. ASSUME NEW m \in VotesInFlight'
        PROVE  /\ m.round \in DOMAIN votedNum'
               /\ \A v \in votedNum'[m.round] : <<m.term, v, m.candidateid>> \in granted'
    <3>1. CASE m \in VotesInFlight
      BY <3>1, <2>1, <1>2, <1>5
    <3>2. CASE m.round = round /\ m.term = term /\ m.candidateid = i
      <4>1. round \in 1 .. round
        BY <1>1 DEF round, TypeOK
      <4> QED BY <3>2, <4>1, <1>2, <1>5
    <3> QED BY <3>1, <3>2, <1>6
  <2>3. ASSUME NEW m \in VotesInFlight', NEW n \in VotesInFlight', m.round = n.round
        PROVE  m.term = n.term /\ m.candidateid = n.candidateid
    <3>1. m \in VotesInFlight /\ n \in VotesInFlight =>
            m.term = n.term /\ m.candidateid = n.candidateid
      BY <2>3 DEF VoteInv, RoundsCountVotes
    <3> QED BY <3>1, <2>1, <2>3, <1>5, <1>6
  <2> QED BY <2>2, <2>3 DEF RoundsCountVotes
<1>8. RepliesGranted' /\ ElectedByQuorum'
  BY <1>2, QuorumKept DEF VoteInv, RepliesGranted
<1>9. ASSUME NEW t \in Nat, NEW v \in Server, NEW c \in Server,
             <<t, v, c>> \in granted', v \notin forgot'
      PROVE  /\ t <= m_currentTerm'[v] /\ (t = m_currentTerm'[v] => m_votedFor'[v] = c)
             /\ t = term /\ v = i => c = i
  <2>1. <<t, v, c>> \in granted =>
          t <= m_currentTerm[v] /\ (t = m_currentTerm[v] => m_votedFor[v] = c)
    BY <1>2, <1>9 DEF VoteInv, VotesRemembered
  <2>2. <<t, v, c>> \in granted \/ (t = term /\ v = i /\ c = i)
    BY <1>2, <1>9
  <2> QED BY <2>1, <2>2, <1>1, <1>3, <1>4
<1>10. VotesRemembered'
  BY <1>9 DEF VotesRemembered
<1>11. OneVoteUnlessForgot'
  <2>1. ASSUME NEW t \in Nat, NEW v \in Server, NEW c \in Server, NEW d \in Server,
               <<t, v, c>> \in granted', <<t, v, d>> \in granted', v \notin forgot'
        PROVE  c = d
    <3>1. CASE t = term /\ v = i
      BY <2>1, <3>1, <1>9
    <3>2. CASE ~(t = term /\ v = i)
      <4>1. <<t, v, c>> \in granted /\ <<t, v, d>> \in granted
        BY <2>1, <3>2, <1>2
      <4> QED BY <2>1, <4>1, <1>2 DEF VoteInv, OneVoteUnlessForgot
    <3> QED BY <3>1, <3>2
  <2> QED BY <2>1 DEF OneVoteUnlessForgot
<1> QED BY <1>7, <1>8, <1>10, <1>11 DEF VoteInv

\* An answer takes its request from the calls to the replies: the same ones are in flight.
LEMMA AnswerVoteInFlight ==
  ASSUME NEW m \in rvCalls, NEW term, NEW vote, AnswerVote(m, term, vote)
  PROVE  /\ VotesInFlight' = VotesInFlight
         /\ votedNum' = votedNum /\ elected' = elected /\ forgot' = forgot
         /\ \A r \in rvReplies' : \/ r \in rvReplies
                                  \/ r = [args |-> m, term |-> term, votegranted |-> vote,
                                       received |-> FALSE]
<1> DEFINE answer == [args |-> m, term |-> term, votegranted |-> vote, received |-> FALSE]
<1>1. /\ rvCalls' = rvCalls \ {m} /\ rvReplies' = rvReplies \cup {answer}
      /\ votedNum' = votedNum /\ elected' = elected /\ forgot' = forgot
  BY DEF AnswerVote
<1>2. answer.args = m
  OBVIOUS
<1> HIDE DEF answer
<1>3. VotesInFlight' = VotesInFlight
  <2>1. {r.args : r \in rvReplies \cup {answer}} = {r.args : r \in rvReplies} \cup {m}
    BY <1>2
  <2> QED BY <2>1, <1>1 DEF VotesInFlight
<1> QED BY <1>1, <1>3 DEF answer

\* A refusal for an expired term gives no vote.
LEMMA RequestVoteExpiredKeepsVotes ==
  ASSUME IndInv, TypeOK', VoteInv, NEW m \in rvCalls, RequestVoteExpired(m)
  PROVE  VoteInv'
<1>1. /\ AnswerVote(m, m_currentTerm[m.server], FALSE)
      /\ granted' = granted
      /\ m_currentTerm' = m_currentTerm /\ m_votedFor' = m_votedFor
  BY DEF RequestVoteExpired, termVars
<1>2. /\ VotesInFlight' = VotesInFlight
      /\ votedNum' = votedNum /\ elected' = elected /\ forgot' = forgot
      /\ \A r \in rvReplies' :
           \/ r \in rvReplies
           \/ r = [args |-> m, term |-> m_currentTerm[m.server], votegranted |-> FALSE,
                   received |-> FALSE]
  BY <1>1, AnswerVoteInFlight
<1>3. RoundsCountVotes' /\ ElectedByQuorum'
  BY <1>1, <1>2, RoundsKept, QuorumKept DEF VoteInv
<1>4. RepliesGranted'
  BY <1>1, <1>2 DEF VoteInv, RepliesGranted
<1>5. VotesRemembered' /\ OneVoteUnlessForgot'
  BY <1>1, <1>2, RememberedKept DEF VoteInv, VotesKept
<1> QED BY <1>3, <1>4, <1>5 DEF VoteInv

\* A server votes only if it remembers no other vote in the term of the request.
LEMMA RequestVoteKeepsVotes ==
  ASSUME IndInv, VoteInv, NEW m \in rvCalls, RequestVote(m)
  PROVE  VoteInv'
<1> DEFINE j == m.server
           cand == m.candidateid
<1>1. TypeOK /\ \A v \in Server : m_currentTerm[v] \in Nat
  BY DEF IndInv, TypeOK
<1>2. j \in Server /\ cand \in Server /\ m.term \in Nat
  BY <1>1, VoteFlightTypes DEF VotesInFlight
<1>3. /\ m.term >= m_currentTerm[j]
      /\ m_currentTerm' = [m_currentTerm EXCEPT ![j] = m.term]
      /\ m_votedFor' = [m_votedFor EXCEPT ![j] = IF MayVote(m) THEN cand ELSE VoteInTerm(m)]
      /\ granted' = IF MayVote(m) THEN granted \cup {<<m.term, j, cand>>} ELSE granted
      /\ AnswerVote(m, m.term, MayVote(m))
  BY DEF RequestVote
<1>4. /\ m_currentTerm'[j] = m.term
      /\ m_votedFor'[j] = IF MayVote(m) THEN cand ELSE VoteInTerm(m)
      /\ \A v \in Server : v # j => /\ m_currentTerm'[v] = m_currentTerm[v]
                                    /\ m_votedFor'[v] = m_votedFor[v]
  BY <1>1, <1>2, <1>3 DEF TypeOK
<1>5. MayVote(m) => VoteInTerm(m) = Nil \/ VoteInTerm(m) = cand
  BY DEF MayVote
<1>6. m.term = m_currentTerm[j] => VoteInTerm(m) = m_votedFor[j]
  BY <1>1, <1>2 DEF VoteInTerm
<1>7. /\ VotesInFlight' = VotesInFlight
      /\ votedNum' = votedNum /\ elected' = elected /\ forgot' = forgot
      /\ \A r \in rvReplies' : \/ r \in rvReplies
                               \/ r = [args |-> m, term |-> m.term, votegranted |-> MayVote(m),
                                       received |-> FALSE]
  BY <1>3, AnswerVoteInFlight
<1>8. /\ granted \subseteq granted'
      /\ MayVote(m) => <<m.term, j, cand>> \in granted'
      /\ \A g \in granted' : g \in granted \/ (g = <<m.term, j, cand>> /\ MayVote(m))
  BY <1>3
<1>9. RoundsCountVotes' /\ ElectedByQuorum'
  BY <1>7, <1>8, RoundsKept, QuorumKept DEF VoteInv
<1>10. RepliesGranted'
  <2>1. ASSUME NEW r \in rvReplies', r.votegranted
        PROVE  /\ r.term = r.args.term
               /\ <<r.args.term, r.args.server, r.args.candidateid>> \in granted'
    <3>1. CASE r \in rvReplies
      BY <2>1, <3>1, <1>8 DEF VoteInv, RepliesGranted
    <3>2. CASE r = [args |-> m, term |-> m.term, votegranted |-> MayVote(m), received |-> FALSE]
      BY <2>1, <3>2, <1>8
    <3> QED BY <3>1, <3>2, <1>7
  <2> QED BY <2>1 DEF RepliesGranted
<1> HIDE DEF j, cand
<1>11. ASSUME NEW t \in Nat, NEW v \in Server, NEW c \in Server,
              <<t, v, c>> \in granted', v \notin forgot'
       PROVE  t <= m_currentTerm'[v] /\ (t = m_currentTerm'[v] => m_votedFor'[v] = c)
  <2>1. <<t, v, c>> \in granted =>
          t <= m_currentTerm[v] /\ (t = m_currentTerm[v] => m_votedFor[v] = c)
    BY <1>7, <1>11 DEF VoteInv, VotesRemembered
  <2>2. <<t, v, c>> \in granted \/ (t = m.term /\ v = j /\ c = cand /\ MayVote(m))
    BY <1>8, <1>11
  <2>3. CASE v # j
    BY <2>1, <2>2, <2>3, <1>4
  <2>4. CASE v = j /\ <<t, v, c>> \in granted
    <3>1. t <= m_currentTerm[j] /\ t <= m.term
      BY <2>1, <2>4, <1>1, <1>2, <1>3
    <3>2. ASSUME t = m.term PROVE m_votedFor'[j] = c
      <4>1. VoteInTerm(m) = c
        BY <2>1, <2>4, <3>1, <3>2, <1>1, <1>2, <1>3, <1>6
      <4> QED BY <4>1, <1>4, <1>5, ServerAssumption
    <3> QED BY <2>4, <3>1, <3>2, <1>4
  <2>5. CASE v = j /\ t = m.term /\ c = cand /\ MayVote(m)
    BY <2>5, <1>2, <1>4
  <2> QED BY <2>2, <2>3, <2>4, <2>5
<1>12. VotesRemembered'
  BY <1>11 DEF VotesRemembered
<1>13. OneVoteUnlessForgot'
  <2>1. ASSUME NEW t \in Nat, NEW v \in Server, NEW c \in Server, NEW d \in Server,
               <<t, v, c>> \in granted', <<t, v, d>> \in granted', v \notin forgot'
        PROVE  c = d
    <3>1. CASE t = m.term /\ v = j
      BY <2>1, <3>1, <1>4, <1>11
    <3>2. CASE ~(t = m.term /\ v = j)
      <4>1. <<t, v, c>> \in granted /\ <<t, v, d>> \in granted
        BY <2>1, <3>2, <1>8
      <4> QED BY <2>1, <4>1, <1>7 DEF VoteInv, OneVoteUnlessForgot
    <3> QED BY <3>1, <3>2
  <2> QED BY <2>1 DEF OneVoteUnlessForgot
<1> QED BY <1>9, <1>10, <1>12, <1>13 DEF VoteInv

\* A vote that counts was given to the candidate of the round in the term it is counted in,
\* and so were those counted before.
LEMMA CountedVotesGranted ==
  ASSUME TypeOK, VoteInv, NEW r \in rvReplies, VoteCounts(r)
  PROVE  /\ r.args.term = m_currentTerm[r.args.candidateid]
         /\ r.args.round \in DOMAIN votedNum /\ VotesWith(r) \subseteq Server
         /\ \A v \in VotesWith(r) : <<r.args.term, v, r.args.candidateid>> \in granted
<1>1. r.args \in VotesInFlight
  BY DEF VotesInFlight
<1>2. /\ r.args.round \in DOMAIN votedNum
      /\ \A v \in votedNum[r.args.round] : <<r.args.term, v, r.args.candidateid>> \in granted
  BY <1>1 DEF VoteInv, RoundsCountVotes
<1>3. /\ r.term = r.args.term
      /\ <<r.args.term, r.args.server, r.args.candidateid>> \in granted
  BY DEF VoteInv, RepliesGranted, VoteCounts
<1>4. r.args.server \in Server /\ votedNum[r.args.round] \subseteq Server
  <2>1. votedNum \in Seq(SUBSET Server)
    BY DEF TypeOK
  <2> QED BY <1>2, <2>1, VoteReplyTypes
<1> QED BY <1>2, <1>3, <1>4 DEF VoteCounts, VotesWith

\* Counting a vote, or setting the counter back to 0, leaves only votes of the round in it.
LEMMA VoteCountsKeepsVotes ==
  ASSUME IndInv, TypeOK', VoteInv, NEW r \in rvReplies,
         SendRequestVoteCounted(r) \/ SendRequestVoteWon(r)
  PROVE  VoteInv'
<1> DEFINE i == r.args.candidateid
           round == r.args.round
           won == {v \in Server : <<r.args.term, v, i>> \in granted}
<1>1. TypeOK
  BY DEF IndInv
<1>2. /\ VoteCounts(r)
      /\ rvReplies' = rvReplies \ {r} /\ rvCalls' = rvCalls
      /\ granted' = granted /\ forgot' = forgot
      /\ m_currentTerm' = m_currentTerm /\ m_votedFor' = m_votedFor
  BY DEF SendRequestVoteCounted, SendRequestVoteWon, VoteCounts, TakeVoteReply, termVars
<1>3. /\ r.args.term = m_currentTerm[i]
      /\ round \in DOMAIN votedNum /\ VotesWith(r) \subseteq Server
      /\ \A v \in VotesWith(r) : <<r.args.term, v, i>> \in granted
  BY <1>1, <1>2, CountedVotesGranted
<1>4. PICK count \in {VotesWith(r), {}} : votedNum' = [votedNum EXCEPT ![round] = count]
  BY DEF SendRequestVoteCounted, SendRequestVoteWon
<1>5. /\ DOMAIN votedNum' = DOMAIN votedNum /\ votedNum'[round] = count
      /\ \A n \in DOMAIN votedNum : n # round => votedNum'[n] = votedNum[n]
  BY <1>3, <1>4
<1>6. VotesInFlight' \subseteq VotesInFlight /\ r.args \in VotesInFlight
  BY <1>2 DEF VotesInFlight
<1>7. RoundsCountVotes'
  <2>1. ASSUME NEW m \in VotesInFlight'
        PROVE  /\ m.round \in DOMAIN votedNum'
               /\ \A v \in votedNum'[m.round] : <<m.term, v, m.candidateid>> \in granted'
    <3>1. /\ m.round \in DOMAIN votedNum
          /\ \A v \in votedNum[m.round] : <<m.term, v, m.candidateid>> \in granted
          /\ m.round = round => m.term = r.args.term /\ m.candidateid = i
      BY <2>1, <1>6 DEF VoteInv, RoundsCountVotes
    <3>2. CASE m.round = round
      BY <3>1, <3>2, <1>2, <1>3, <1>5
    <3>3. CASE m.round # round
      BY <3>1, <3>3, <1>2, <1>5
    <3> QED BY <3>2, <3>3
  <2> QED BY <2>1, <1>6 DEF VoteInv, RoundsCountVotes
<1>8. RepliesGranted'
  BY <1>2 DEF VoteInv, RepliesGranted
<1>9. VotesRemembered' /\ OneVoteUnlessForgot'
  <2>1. VotesKept
    BY <1>2 DEF VotesKept
  <2> QED BY <2>1, <1>2, RememberedKept DEF VoteInv
<1>10. ElectedByQuorum'
  <2>1. CASE SendRequestVoteCounted(r)
    BY <2>1, <1>2, QuorumKept DEF SendRequestVoteCounted, VoteInv
  <2>2. CASE SendRequestVoteWon(r)
    <3>1. IsMajority(VotesWith(r)) /\ elected' = elected \cup {<<r.args.term, i>>}
      BY <2>2, <1>3 DEF SendRequestVoteWon
    <3>2. VotesWith(r) \subseteq won /\ won \subseteq Server
      BY <1>3
    <3>3. IsMajority(won)
      <4> HIDE DEF won
      <4> QED BY <3>1, <3>2, LargerMajority
    <3>4. \A e \in elected' : e \in elected \/ (e[1] = r.args.term /\ e[2] = i)
      BY <3>1
    <3>5. ASSUME NEW e \in elected'
          PROVE  IsMajority({v \in Server : <<e[1], v, e[2]>> \in granted})
      <4>1. CASE e \in elected
        BY <4>1 DEF VoteInv, ElectedByQuorum
      <4>2. CASE e[1] = r.args.term /\ e[2] = i
        BY <4>2, <3>3
      <4> QED BY <4>1, <4>2, <3>4
    <3> QED BY <3>5, <1>2 DEF ElectedByQuorum, IsMajority
  <2> QED BY <2>1, <2>2
<1> QED BY <1>7, <1>8, <1>9, <1>10 DEF VoteInv

\* Every step of an election keeps the invariant.
LEMMA ElectionStepKeepsVotes ==
  ASSUME IndInv, TypeOK', VoteInv, ElectionStep
  PROVE  VoteInv'
<1>1. ASSUME NEW r \in rvReplies, SendRequestVoteHigherTerm(r) \/ SendRequestVoteIgnored(r)
      PROVE  VoteInv'
  <2>1. /\ rvReplies' \subseteq rvReplies /\ rvCalls' = rvCalls
        /\ UNCHANGED <<votedNum, granted, elected, forgot>>
    BY <1>1 DEF SendRequestVoteHigherTerm, SendRequestVoteIgnored, TakeVoteReply
  <2>2. CASE SendRequestVoteHigherTerm(r)
    <3>1. TypeOK /\ r.args.candidateid \in Server /\ r.term \in Nat
      BY VoteReplyTypes DEF IndInv
    <3>2. m_currentTerm[r.args.candidateid] \in Nat
      BY <3>1 DEF TypeOK
    <3>3. /\ r.term >= m_currentTerm[r.args.candidateid]
          /\ FollowTerm(r.args.candidateid, r.term)
      BY <2>2, <3>1, <3>2 DEF SendRequestVoteHigherTerm
    <3>4. VotesKept
      BY <3>1, <3>3, FollowTermKeepsVotes
    <3> QED BY <2>1, <3>4, NoVotingKeeps
  <2>3. CASE SendRequestVoteIgnored(r)
    <3>1. VotesKept
      BY <2>3 DEF SendRequestVoteIgnored, termVars, VotesKept
    <3> QED BY <2>1, <3>1, NoVotingKeeps
  <2> QED BY <1>1, <2>2, <2>3
<1> QED BY <1>1, DoElectionKeepsVotes, RequestVoteExpiredKeepsVotes, RequestVoteKeepsVotes,
           VoteCountsKeepsVotes DEF ElectionStep

-----------------------------------------------------------------------------
(* The theorems.                                                           *)

\* Nobody has voted when the cluster starts.
LEMMA InitVoteInv == Init => VoteInv
<1> SUFFICES ASSUME Init PROVE VoteInv
  OBVIOUS
<1>1. granted = {} /\ elected = {} /\ rvCalls = {} /\ rvReplies = {}
  BY DEF Init
<1>2. VotesInFlight = {}
  BY <1>1 DEF VotesInFlight
<1> QED BY <1>1, <1>2 DEF VoteInv, RoundsCountVotes, RepliesGranted, VotesRemembered,
           OneVoteUnlessForgot, ElectedByQuorum

\* While no thread of sendRequestVote is given a reply to another call, votes are lost on the
\* wire at most; and that none was ever given one was so before, too.
LEMMA VotesNotAstray ==
  ASSUME IndInv, [Next]_vars, astray'["RequestVote"] = 0
  PROVE  /\ astray["RequestVote"] = 0
         /\ AstrayStep => /\ UNCHANGED <<process, termVars, votedNum, rvCalls, granted, elected, forgot>>
                          /\ rvReplies' \subseteq rvReplies
<1>1. astray \in [Method -> Nat] /\ Method = {"RequestVote", "AppendEntries", "InstallSnapShot"}
  BY DEF IndInv, TypeOK, Method
<1>2. CASE astray' = astray /\ ~AstrayStep
  BY <1>2
<1>3. ASSUME NEW method \in Method, NEW i, NEW call, NEW replies,
             ReceiveOthers(method, i, call, replies)
      PROVE  /\ method # "RequestVote" /\ astray["RequestVote"] = 0
             /\ UNCHANGED <<process, termVars, votedNum, rvCalls, granted, elected, forgot>>
  <2>1. astray' = [astray EXCEPT ![method] = @ + 1]
    BY <1>3 DEF ReceiveOthers
  <2>2. method # "RequestVote" /\ astray["RequestVote"] = 0
    BY <1>1, <2>1
  <2> QED BY <2>2, <1>3 DEF ReceiveOthers
<1>4. CASE AstrayStep
  <2>1. ASSUME NEW m \in rvWaits, NEW replies \in SUBSET OnWire(m.candidateid, m.server),
               RequestVoteAstray(m, replies)
        PROVE  FALSE
    BY <2>1, <1>1, <1>3 DEF RequestVoteAstray
  <2>2. ASSUME NEW m \in aeWaits \cup isWaits, NEW replies,
               AppendEntriesAstray(m, replies) \/ InstallSnapshotAstray(m, replies)
        PROVE  /\ astray["RequestVote"] = 0 /\ rvReplies' \subseteq rvReplies
               /\ UNCHANGED <<process, termVars, votedNum, rvCalls, granted, elected, forgot>>
    <3>1. rvReplies' = rvReplies \ replies
      BY <2>2 DEF AppendEntriesAstray, InstallSnapshotAstray
    <3> QED BY <2>2, <3>1, <1>1, <1>3 DEF AppendEntriesAstray, InstallSnapshotAstray
  <2> QED BY <1>4, <2>1, <2>2 DEF AstrayStep
<1>5. CASE ~AstrayStep
  <2>1. astray' = astray
    BY <1>5, AstrayKept
  <2> QED BY <1>5, <1>2, <2>1
<1> QED BY <1>4, <1>5

\* No step, and no stuttering step, leaves the invariant.
LEMMA NextKeepsVoteInv ==
  ASSUME IndInv, VoteInv, [Next]_vars, astray'["RequestVote"] = 0
  PROVE  VoteInv'
<1>1. TypeOK'
  BY NextKeepsIndInv DEF IndInv
<1>2. ASSUME UNCHANGED <<rvVars, granted, elected>>, forgot \subseteq forgot', VotesKept
      PROVE  VoteInv'
  BY <1>1, <1>2, NoVotingKeeps DEF rvVars
<1>3. CASE UNCHANGED vars
  BY <1>2, <1>3 DEF vars, termVars, historyVars, VotesKept
<1>4. CASE AppendStep
  BY <1>2, <1>4, AppendStepVotes
<1>5. CASE ApplyStep \/ SnapshotStep
  BY <1>2, <1>5, SnapshotStepVotes
<1>6. CASE AstrayStep
  BY <1>1, <1>6, VotesNotAstray, NoVotingKeeps DEF termVars, VotesKept
<1> QED BY <1>1, <1>3, <1>4, <1>5, <1>6, ElectionStepKeepsVotes, ProcessStepKeepsVotes DEF Next

\* The invariant of the votes holds in every state before which no thread of sendRequestVote
\* was given a reply to another call.
THEOREM VoteInvHolds == Spec => [](astray["RequestVote"] = 0 => VoteInv)
<1> DEFINE Inv == astray["RequestVote"] = 0 => VoteInv
<1>1. Init => IndInv /\ Inv
  BY InitIndInv, InitVoteInv
<1>2. IndInv /\ Inv /\ [Next]_vars => IndInv' /\ Inv'
  BY NextKeepsIndInv, NextKeepsVoteInv, VotesNotAstray
<1> QED BY <1>1, <1>2, PTL DEF Spec

\* Whoever sendRequestVote makes a leader was given a majority of the votes of that very
\* term, whatever replies of other rounds and terms came in between, if each came to the
\* thread that asked for it, as the channel that the threads share does not ensure.
THEOREM LeadersHaveQuorum == Spec => []LeaderQuorum
<1>1. (astray["RequestVote"] = 0 => VoteInv) => LeaderQuorum
  BY DEF VoteInv, ElectedByQuorum, LeaderQuorum
<1> QED BY <1>1, VoteInvHolds, PTL

\* A term has two leaders only if a server that voted for both lost the first vote, by a
\* restart or in the step of sendAppendEntries that resets m_votedFor - or if a reply
\* reached a thread of sendRequestVote but its own.
THEOREM TwoLeadersNeedForgotten == Spec => []ElectionSafetyUnlessForgot
<1>1. IndInv /\ (astray["RequestVote"] = 0 => VoteInv) => ElectionSafetyUnlessForgot
  <2> SUFFICES ASSUME IndInv, VoteInv, NEW d \in elected, NEW e \in elected,
                      d[1] = e[1], d[2] # e[2]
               PROVE  \E v \in forgot : {<<d[1], v, d[2]>>, <<d[1], v, e[2]>>} \subseteq granted
    BY DEF ElectionSafetyUnlessForgot
  <2> DEFINE Voters(c) == {v \in Server : <<d[1], v, c>> \in granted}
  <2>1. d[1] \in Nat /\ d[2] \in Server /\ e[2] \in Server
    BY DEF IndInv, TypeOK
  <2>2. IsMajority(Voters(d[2])) /\ IsMajority(Voters(e[2]))
    BY DEF VoteInv, ElectedByQuorum
  <2>3. Voters(d[2]) \subseteq Server /\ Voters(e[2]) \subseteq Server
    OBVIOUS
  <2>4. PICK v \in Server : v \in Voters(d[2]) /\ v \in Voters(e[2])
    <3> HIDE DEF Voters
    <3> QED BY <2>2, <2>3, MajoritiesMeet
  <2>5. v \in forgot
    BY <2>1, <2>4 DEF VoteInv, OneVoteUnlessForgot
  <2> QED BY <2>4, <2>5
<1> QED BY <1>1, IndInvHolds, VoteInvHolds, PTL

-----------------------------------------------------------------------------
(* A round is won once.                                                    *)

\* The servers whose answer to the requests of round n is still to come.
Outstanding(n) == {m.server : m \in {v \in VotesInFlight : v.round = n}}

\* Each peer is asked once in a round: it is waiting, or has answered, or is counted.
AskedOnce ==
  /\ \A m, n \in rvCalls : m.round = n.round /\ m.server = n.server => m = n
  /\ \A r, q \in rvReplies :
       r.args.round = q.args.round /\ r.args.server = q.args.server => r = q
  /\ \A m \in rvCalls : \A r \in rvReplies :
       m.round = r.args.round => m.server # r.args.server
  /\ \A m \in VotesInFlight : m.server \notin votedNum[m.round]

\* A server that took no lower term is not behind its own requests, and has held one round
\* in each term.
RoundsAdvance ==
  /\ \A m \in VotesInFlight :
       m.candidateid \notin forgot => m.term <= m_currentTerm[m.candidateid]
  /\ \A m, n \in VotesInFlight :
       m.candidateid = n.candidateid /\ m.term = n.term /\ m.candidateid \notin forgot =>
         m.round = n.round

\* The votes that a leader's round has not used are no majority.
NoSecondMajority ==
  \A m \in VotesInFlight :
    LET i == m.candidateid IN
    i \notin forgot /\ m_status[i] = "Leader" /\ m.term = m_currentTerm[i] =>
      ~IsMajority(votedNum[m.round] \cup Outstanding(m.round))

\* The assert of sendRequestVote has failed only where a vote was lost.
WonOnceUnlessForgot ==
  \A i \in Server : process[i] = "electedTwice" => i \in forgot

RoundInv == AskedOnce /\ RoundsAdvance /\ NoSecondMajority /\ WonOnceUnlessForgot

\* Nobody becomes a leader, no leader changes its term, and no term gets lower unnoticed.
NobodyElected ==
  /\ forgot \subseteq forgot'
  /\ \A i \in Server : process'[i] = "electedTwice" => process[i] = "electedTwice"
  /\ \A i \in Server \ forgot' :
       /\ m_currentTerm'[i] >= m_currentTerm[i]
       /\ m_status'[i] = "Leader" =>
            m_status[i] = "Leader" /\ m_currentTerm'[i] = m_currentTerm[i]

\* The servers still to answer, and those counted, are servers.
LEMMA VotersAreServers ==
  ASSUME TypeOK, RoundsCountVotes, NEW m \in VotesInFlight
  PROVE  /\ m.round \in DOMAIN votedNum
         /\ votedNum[m.round] \subseteq Server /\ Outstanding(m.round) \subseteq Server
         /\ m.server \in Outstanding(m.round)
<1>1. m.round \in DOMAIN votedNum
  BY DEF RoundsCountVotes
<1>2. votedNum[m.round] \subseteq Server
  <2>1. votedNum \in Seq(SUBSET Server)
    BY DEF TypeOK
  <2> QED BY <2>1, <1>1
<1>3. \A n \in VotesInFlight : n.server \in Server
  BY VoteFlightTypes
<1> QED BY <1>1, <1>2, <1>3 DEF Outstanding

\* Fewer requests in flight and the same or fewer voters counted: still no second majority.
LEMMA NoMajorityLeft ==
  ASSUME NEW S, NEW T, S \subseteq T, T \subseteq Server, ~IsMajority(T)
  PROVE  ~IsMajority(S)
BY LargerMajority

\* A step that asks nobody and elects nobody keeps the invariant.
LEMMA NobodyElectedKeeps ==
  ASSUME TypeOK, TypeOK', RoundsCountVotes, RoundInv, NobodyElected, votedNum' = votedNum,
         AskedOnce', VotesInFlight' \subseteq VotesInFlight
  PROVE  RoundInv'
<1>0. forgot \subseteq forgot'
  BY DEF NobodyElected
<1>1. ASSUME NEW m \in VotesInFlight', m.candidateid \notin forgot'
      PROVE  /\ m \in VotesInFlight /\ m.candidateid \in Server
             /\ m.term \in Nat /\ m.candidateid \notin forgot
             /\ m.term <= m_currentTerm[m.candidateid]
             /\ m_currentTerm[m.candidateid] \in Nat /\ m_currentTerm'[m.candidateid] \in Nat
             /\ m_currentTerm'[m.candidateid] >= m_currentTerm[m.candidateid]
  <2>1. m \in VotesInFlight /\ m.candidateid \notin forgot
    BY <1>0, <1>1
  <2>2. m.candidateid \in Server /\ m.term \in Nat
    BY <2>1, VoteFlightTypes
  <2>3. m_currentTerm[m.candidateid] \in Nat /\ m_currentTerm'[m.candidateid] \in Nat
    BY <2>2 DEF TypeOK
  <2> QED BY <1>1, <2>1, <2>2, <2>3 DEF NobodyElected, RoundInv, RoundsAdvance
<1>2. RoundsAdvance'
  <2>1. ASSUME NEW m \in VotesInFlight', m.candidateid \notin forgot'
        PROVE  m.term <= m_currentTerm'[m.candidateid]
    BY <2>1, <1>1
  <2>2. ASSUME NEW m \in VotesInFlight', NEW n \in VotesInFlight',
               m.candidateid = n.candidateid, m.term = n.term, m.candidateid \notin forgot'
        PROVE  m.round = n.round
    <3>1. m \in VotesInFlight /\ n \in VotesInFlight /\ m.candidateid \notin forgot
      BY <2>2, <1>0
    <3> QED BY <2>2, <3>1 DEF RoundInv, RoundsAdvance
  <2> QED BY <2>1, <2>2 DEF RoundsAdvance
<1>3. NoSecondMajority'
  <2> SUFFICES ASSUME NEW m \in VotesInFlight', m.candidateid \notin forgot',
                      m_status'[m.candidateid] = "Leader",
                      m.term = m_currentTerm'[m.candidateid],
                      IsMajority(votedNum'[m.round] \cup Outstanding(m.round)')
               PROVE  FALSE
    BY DEF NoSecondMajority, IsMajority
  <2>1. /\ m \in VotesInFlight /\ m.candidateid \in Server /\ m.candidateid \notin forgot
        /\ m_status[m.candidateid] = "Leader" /\ m.term = m_currentTerm[m.candidateid]
    BY <1>1 DEF NobodyElected
  <2>2. ~IsMajority(votedNum[m.round] \cup Outstanding(m.round))
    BY <2>1 DEF RoundInv, NoSecondMajority
  <2>3. Outstanding(m.round)' \subseteq Outstanding(m.round)
    BY DEF Outstanding
  <2>4. votedNum[m.round] \cup Outstanding(m.round) \subseteq Server
    BY <2>1, VotersAreServers
  <2> QED BY <2>2, <2>3, <2>4, NoMajorityLeft
<1>4. WonOnceUnlessForgot'
  BY <1>0 DEF NobodyElected, RoundInv, WonOnceUnlessForgot
<1> QED BY <1>2, <1>3, <1>4 DEF RoundInv

\* Requests and replies that get lost leave each peer asked once.
LEMMA AskedOnceKept ==
  ASSUME AskedOnce, votedNum' = votedNum, rvCalls' \subseteq rvCalls,
         rvReplies' \subseteq rvReplies
  PROVE  AskedOnce' /\ VotesInFlight' \subseteq VotesInFlight
<1>1. VotesInFlight' \subseteq VotesInFlight
  BY DEF VotesInFlight
<1> QED BY <1>1 DEF AskedOnce

\* An answer is the same request, from the same server.
LEMMA AnswerVoteAskedOnce ==
  ASSUME AskedOnce, NEW m \in rvCalls, NEW term, NEW vote, AnswerVote(m, term, vote)
  PROVE  AskedOnce'
<1> DEFINE answer == [args |-> m, term |-> term, votegranted |-> vote, received |-> FALSE]
<1>1. /\ rvCalls' = rvCalls \ {m} /\ rvReplies' = rvReplies \cup {answer}
      /\ votedNum' = votedNum
  BY DEF AnswerVote
<1>2. answer.args = m
  OBVIOUS
<1> HIDE DEF answer
<1>3. VotesInFlight' = VotesInFlight
  BY AnswerVoteInFlight
<1>4. \A n \in rvCalls' : n \in rvCalls /\ n # m
  BY <1>1
<1>5. \A r \in rvReplies' : r \in rvReplies \/ r = answer
  BY <1>1
<1>6. \A n, l \in rvCalls' : n.round = l.round /\ n.server = l.server => n = l
  BY <1>4 DEF AskedOnce
<1>7. \A r, q \in rvReplies' :
        r.args.round = q.args.round /\ r.args.server = q.args.server => r = q
  BY <1>2, <1>5 DEF AskedOnce
<1>8. \A n \in rvCalls' : \A r \in rvReplies' :
        n.round = r.args.round => n.server # r.args.server
  BY <1>2, <1>4, <1>5 DEF AskedOnce
<1>9. \A n \in VotesInFlight' : n.server \notin votedNum'[n.round]
  BY <1>1, <1>3 DEF AskedOnce
<1> QED BY <1>6, <1>7, <1>8, <1>9 DEF AskedOnce

\* A term that is not lower, adopted as a follower.
LEMMA FollowTermElectsNobody ==
  ASSUME TypeOK, NEW i \in Server, NEW term \in Nat, term >= m_currentTerm[i],
         FollowTerm(i, term), forgot \subseteq forgot',
         \A j \in Server : process'[j] = "electedTwice" => process[j] = "electedTwice"
  PROVE  NobodyElected
<1>1. \A v \in Server : m_currentTerm[v] \in Nat
  BY DEF TypeOK
<1>2. /\ m_currentTerm'[i] = term /\ m_status'[i] = "Follower"
      /\ \A v \in Server : v # i => /\ m_currentTerm'[v] = m_currentTerm[v]
                                    /\ m_status'[v] = m_status[v]
  BY DEF FollowTerm, TypeOK
<1> QED BY <1>1, <1>2 DEF NobodyElected

\* What does not touch terms and status elects nobody.
LEMMA TermsKeptElectNobody ==
  ASSUME TypeOK, UNCHANGED termVars, forgot \subseteq forgot',
         \A j \in Server : process'[j] = "electedTwice" => process[j] = "electedTwice"
  PROVE  NobodyElected
<1>1. \A v \in Server : m_currentTerm[v] \in Nat
  BY DEF TypeOK
<1> QED BY <1>1 DEF NobodyElected, termVars

\* Log replication elects nobody: one that takes its own old term is noted in forgot.
LEMMA AppendStepElectsNobody ==
  ASSUME IndInv, AppendStep
  PROVE  NobodyElected
<1>1. TypeOK /\ \A v \in Server : m_currentTerm[v] \in Nat
  BY DEF IndInv, TypeOK
<1>2. ASSUME NEW i \in Server, DoHeartBeat(i) \/ DoHeartBeatExits(i) \/ Start(i)
      PROVE  NobodyElected
  <2>1. UNCHANGED <<termVars, forgot>>
    BY <1>2 DEF DoHeartBeat, DoHeartBeatExits, SpawnAppends, Start, historyVars
  <2>2. CASE UNCHANGED process
    BY <2>1, <2>2, <1>1, TermsKeptElectNobody
  <2>3. CASE ExitProcess(i, "nextIndexBeyondLog")
    <3>1. \A j \in Server : process'[j] = "electedTwice" => process[j] = "electedTwice"
      BY <2>3, <1>1 DEF ExitProcess, TypeOK
    <3> QED BY <2>1, <3>1, <1>1, TermsKeptElectNobody
  <2> QED BY <1>2, <2>2, <2>3 DEF DoHeartBeat, DoHeartBeatExits, Start
<1>3. ASSUME NEW m \in aeCalls,
             \/ AppendEntriesStale(m) \/ AppendEntriesAhead(m)
             \/ AppendEntriesBeforeSnapshot(m) \/ AppendEntriesMismatch(m)
             \/ AppendEntriesMatch(m) \/ AppendEntriesWild(m) \/ AppendEntriesDiffers(m)
      PROVE  NobodyElected
  <2>1. forgot' = forgot
    BY <1>3 DEF AppendEntriesStale, AppendEntriesAhead, AppendEntriesBeforeSnapshot,
       AppendEntriesMismatch, AppendEntriesMatch, AppendEntriesWild, AppendEntriesDiffers,
       AnswerAppend, DieInAppend, historyVars
  <2>2. \A j \in Server : process'[j] = "electedTwice" => process[j] = "electedTwice"
    <3>1. \/ process' = process
          \/ process' = [process EXCEPT ![m.server] = "wildSlot"]
          \/ process' = [process EXCEPT ![m.server] = "commandDiffers"]
      BY <1>3 DEF AppendEntriesStale, AppendEntriesAhead, AppendEntriesBeforeSnapshot,
         AppendEntriesMismatch, AppendEntriesMatch, AppendEntriesWild, AppendEntriesDiffers,
         AnswerAppend, DieInAppend, ExitProcess
    <3> QED BY <3>1, <1>1 DEF TypeOK
  <2>3. CASE AppendEntriesStale(m)
    BY <2>1, <2>2, <2>3, <1>1, TermsKeptElectNobody DEF AppendEntriesStale
  <2>4. CASE HearLeader(m)
    <3>1. m.server \in Server /\ m.term \in Nat
      BY <1>1, AppendCallTypes DEF AppendsInFlight
    <3>2. m.term >= m_currentTerm[m.server] /\ FollowTerm(m.server, m.term)
      BY <2>4 DEF HearLeader
    <3> QED BY <2>1, <2>2, <3>1, <3>2, <1>1, FollowTermElectsNobody
  <2>5. AppendEntriesStale(m) \/ HearLeader(m)
    BY <1>3 DEF AppendEntriesAhead, AppendEntriesBeforeSnapshot, AppendEntriesMismatch,
       AppendEntriesMatch, AppendEntriesWild, AppendEntriesDiffers, Matches
  <2> QED BY <2>3, <2>4, <2>5
<1>4. ASSUME NEW r \in aeReplies,
             \/ SendAppendEntriesHigherTerm(r) \/ SendAppendEntriesIgnored(r)
             \/ SendAppendEntriesRefused(r) \/ SendAppendEntriesAccepted(r)
      PROVE  NobodyElected
  <2>1. process' = process
    BY <1>4 DEF SendAppendEntriesHigherTerm, SendAppendEntriesIgnored, SendAppendEntriesRefused,
       SendAppendEntriesAccepted, LeaderTakes, TakeAppendReply
  <2>2. CASE SendAppendEntriesHigherTerm(r)
    <3>1. /\ forgot' = forgot \cup {r.args.leaderid}
          /\ \A v \in Server : v # r.args.leaderid =>
               m_currentTerm'[v] = m_currentTerm[v] /\ m_status'[v] = m_status[v]
      BY <2>2, <1>1 DEF SendAppendEntriesHigherTerm, TypeOK
    <3> QED BY <3>1, <2>1, <1>1 DEF NobodyElected
  <2>3. CASE UNCHANGED <<termVars, forgot>>
    BY <2>1, <2>3, <1>1, TermsKeptElectNobody
  <2> QED BY <1>4, <2>2, <2>3 DEF SendAppendEntriesIgnored, SendAppendEntriesRefused,
                                  SendAppendEntriesAccepted, LeaderTakes
<1> QED BY <1>2, <1>3, <1>4 DEF AppendStep

\* Neither does applying, nor a snapshot.
LEMMA SnapshotStepElectsNobody ==
  ASSUME IndInv, ApplyStep \/ SnapshotStep
  PROVE  NobodyElected
<1>1. TypeOK /\ \A v \in Server : m_currentTerm[v] \in Nat
  BY DEF IndInv, TypeOK
<1>2. CASE UNCHANGED <<process, termVars, forgot>>
  BY <1>1, <1>2, TermsKeptElectNobody
<1>3. CASE ApplyStep
  BY <1>2, <1>3 DEF ApplyStep, GetApplyLogs, PushApplyMsg, historyVars
<1>4. ASSUME NEW i \in Server, SnapshotOfExecuted(i) PROVE NobodyElected
  BY <1>2, <1>4 DEF SnapshotOfExecuted, Snapshot, historyVars
<1>5. ASSUME NEW t \in isThreads, LeaderSendSnapShot(t) PROVE NobodyElected
  BY <1>2, <1>5 DEF LeaderSendSnapShot, historyVars
<1>6. ASSUME NEW m \in isCalls \cup isWaits,
             \/ InstallSnapshotStale(m) \/ InstallSnapshotOld(m)
             \/ InstallSnapshot(m) \/ InstallSnapshotPeerGone(m)
      PROVE  NobodyElected
  <2>1. UNCHANGED <<process, forgot>>
    BY <1>6 DEF InstallSnapshotStale, InstallSnapshotOld, InstallSnapshot,
       InstallSnapshotPeerGone, AnswerInstall, historyVars
  <2>2. CASE UNCHANGED termVars
    BY <1>2, <2>1, <2>2
  <2>3. CASE HearLeader(m)
    BY <2>1, <2>3, <1>1, InstallCallTypes, FollowTermElectsNobody DEF HearLeader
  <2> QED BY <1>6, <2>2, <2>3 DEF InstallSnapshotStale, InstallSnapshotOld, InstallSnapshot,
                                  InstallSnapshotPeerGone
<1>7. ASSUME NEW r \in isReplies,
             \/ LeaderSendSnapShotIgnored(r) \/ LeaderSendSnapShotHigherTerm(r)
             \/ LeaderSendSnapShotDone(r)
      PROVE  NobodyElected
  <2>1. UNCHANGED <<process, forgot>>
    BY <1>7 DEF LeaderSendSnapShotIgnored, LeaderSendSnapShotHigherTerm, LeaderSendSnapShotDone,
       TakeInstallReply, historyVars
  <2>2. CASE UNCHANGED termVars
    BY <1>2, <2>1, <2>2
  <2>3. CASE LeaderSendSnapShotHigherTerm(r)
    <3>1. r.args.leaderid \in Server /\ r.term \in Nat
      BY <1>1, InstallCallTypes
    <3>2. /\ r.term >= m_currentTerm[r.args.leaderid]
          /\ FollowTerm(r.args.leaderid, r.term)
      BY <2>3, <3>1, <1>1 DEF LeaderSendSnapShotHigherTerm
    <3> QED BY <2>1, <3>1, <3>2, <1>1, FollowTermElectsNobody
  <2> QED BY <1>7, <2>2, <2>3 DEF LeaderSendSnapShotIgnored, LeaderSendSnapShotDone
<1> QED BY <1>3, <1>4, <1>5, <1>6, <1>7 DEF SnapshotStep

\* Nor does a process that dies or begins anew.
LEMMA ProcessStepElectsNobody ==
  ASSUME IndInv, ProcessStep
  PROVE  NobodyElected /\ votedNum' = votedNum /\ rvCalls' \subseteq rvCalls
         /\ rvReplies' \subseteq rvReplies
<1>1. TypeOK /\ \A v \in Server : m_currentTerm[v] \in Nat
  BY DEF IndInv, TypeOK
<1>2. ASSUME NEW i \in Server, Kill(i)
      PROVE  NobodyElected /\ votedNum' = votedNum /\ rvCalls' = rvCalls
             /\ rvReplies' = rvReplies
  <2>1. UNCHANGED <<termVars, votedNum, rvCalls, rvReplies, forgot>>
    BY <1>2 DEF Kill, rvVars, historyVars
  <2>2. \A j \in Server : process'[j] = "electedTwice" => process[j] = "electedTwice"
    BY <1>1, <1>2 DEF Kill, ExitProcess, TypeOK
  <2> QED BY <2>1, <2>2, <1>1, TermsKeptElectNobody
<1>3. ASSUME NEW i \in Server, Restart(i)
      PROVE  NobodyElected /\ votedNum' = votedNum /\ rvCalls' \subseteq rvCalls
             /\ rvReplies' \subseteq rvReplies
  <2>1. /\ votedNum' = votedNum /\ rvCalls' \subseteq rvCalls /\ rvReplies' \subseteq rvReplies
        /\ forgot' = forgot \cup {i} /\ process' = [process EXCEPT ![i] = "up"]
    BY <1>3 DEF Restart
  <2>2. \A v \in Server : v # i =>
          m_currentTerm'[v] = m_currentTerm[v] /\ m_status'[v] = m_status[v]
    BY <1>1, <1>3 DEF Restart, TypeOK
  <2>3. \A j \in Server : process'[j] = "electedTwice" => process[j] = "electedTwice"
    BY <2>1, <1>1 DEF TypeOK
  <2>4. NobodyElected
    BY <2>1, <2>2, <2>3, <1>1 DEF NobodyElected
  <2> QED BY <2>1, <2>4
<1> QED BY <1>2, <1>3 DEF ProcessStep

\* A new round asks each peer once, in a term above those of the candidate's other rounds.
LEMMA DoElectionKeepsRounds ==
  ASSUME IndInv, TypeOK', RoundsCountVotes, RoundInv, NEW i \in Server, DoElection(i)
  PROVE  RoundInv'
<1> DEFINE term == m_currentTerm[i] + 1
           round == Len(votedNum) + 1
           Request(j) == VoteRequest(i, j)
<1>1. TypeOK /\ \A v \in Server : m_currentTerm[v] \in Nat
  BY DEF IndInv, TypeOK
<1>2. /\ m_currentTerm' = [m_currentTerm EXCEPT ![i] = term]
      /\ m_status' = [m_status EXCEPT ![i] = "Candidate"]
      /\ votedNum' = Append(votedNum, {i})
      /\ rvCalls' = rvCalls \cup {Request(j) : j \in Peers(i)}
      /\ rvReplies' = rvReplies /\ forgot' = forgot /\ process' = process
  BY DEF DoElection
<1>3. /\ m_currentTerm'[i] = term /\ m_status'[i] # "Leader"
      /\ \A v \in Server : v # i => /\ m_currentTerm'[v] = m_currentTerm[v]
                                    /\ m_status'[v] = m_status[v]
  BY <1>1, <1>2 DEF TypeOK
<1>4. /\ votedNum'[round] = {i}
      /\ \A n \in DOMAIN votedNum : n # round /\ votedNum'[n] = votedNum[n]
  <2>1. votedNum \in Seq(SUBSET Server) /\ {i} \in SUBSET Server /\ Len(votedNum) \in Nat
    BY <1>1 DEF TypeOK
  <2> QED BY <2>1, <1>2
<1>5. \A m \in VotesInFlight :
        /\ m.round \in DOMAIN votedNum /\ m.round # round
        /\ m.term \in Nat /\ m.candidateid \in Server
  BY <1>1, <1>4, VoteFlightTypes DEF RoundsCountVotes
<1>6. \A m \in rvCalls' :
        \/ m \in rvCalls /\ m \in VotesInFlight
        \/ \E j \in Peers(i) : m = Request(j)
  BY <1>2 DEF VotesInFlight
<1>7. \A m \in VotesInFlight' : m \in VotesInFlight \/ \E j \in Peers(i) : m = Request(j)
  BY <1>2 DEF VotesInFlight
<1>8. \A j \in Peers(i) : /\ Request(j).round = round /\ Request(j).server = j /\ j # i
                          /\ Request(j).term = term /\ Request(j).candidateid = i
  BY DEF Peers, VoteRequest
<1>9. \A r \in rvReplies' : r \in rvReplies /\ r.args \in VotesInFlight
  BY <1>2 DEF VotesInFlight
<1> HIDE DEF term, round, Request
<1>10. AskedOnce'
  <2>1. ASSUME NEW m \in rvCalls', NEW n \in rvCalls', m.round = n.round, m.server = n.server
        PROVE  m = n
    <3>1. CASE m \in rvCalls /\ n \in rvCalls
      BY <2>1, <3>1 DEF RoundInv, AskedOnce
    <3>2. CASE ~(m \in rvCalls /\ n \in rvCalls)
      <4>1. m.round = round /\ n.round = round
        BY <2>1, <3>2, <1>5, <1>6, <1>8
      <4> QED BY <2>1, <4>1, <1>5, <1>6, <1>8
    <3> QED BY <3>1, <3>2
  <2>2. \A r, q \in rvReplies' :
          r.args.round = q.args.round /\ r.args.server = q.args.server => r = q
    BY <1>9 DEF RoundInv, AskedOnce
  <2>3. ASSUME NEW m \in rvCalls', NEW r \in rvReplies', m.round = r.args.round
        PROVE  m.server # r.args.server
    <3>1. m \in rvCalls
      BY <2>3, <1>5, <1>6, <1>8, <1>9
    <3> QED BY <2>3, <3>1, <1>9 DEF RoundInv, AskedOnce
  <2>4. ASSUME NEW m \in VotesInFlight' PROVE m.server \notin votedNum'[m.round]
    <3>1. CASE m \in VotesInFlight
      BY <3>1, <1>4, <1>5 DEF RoundInv, AskedOnce
    <3>2. CASE \E j \in Peers(i) : m = Request(j)
      BY <3>2, <1>4, <1>8
    <3> QED BY <3>1, <3>2, <1>7
  <2> QED BY <2>1, <2>2, <2>3, <2>4 DEF AskedOnce
<1>11. \A m \in VotesInFlight : m.candidateid \notin forgot =>
         /\ m.term <= m_currentTerm'[m.candidateid]
         /\ m.candidateid = i => m.term # term
  <2>1. \A m \in VotesInFlight : m.candidateid \notin forgot =>
          m.term <= m_currentTerm[m.candidateid]
    BY DEF RoundInv, RoundsAdvance
  <2>2. m_currentTerm[i] \in Nat /\ term = m_currentTerm[i] + 1
    BY <1>1 DEF term
  <2> QED BY <2>1, <2>2, <1>1, <1>3, <1>5
<1>12. RoundsAdvance'
  <2>1. ASSUME NEW m \in VotesInFlight', m.candidateid \notin forgot'
        PROVE  m.term <= m_currentTerm'[m.candidateid]
    <3>1. term <= term
      BY <1>1 DEF term
    <3> QED BY <2>1, <3>1, <1>2, <1>3, <1>7, <1>8, <1>11
  <2>2. ASSUME NEW m \in VotesInFlight', NEW n \in VotesInFlight',
               m.candidateid = n.candidateid, m.term = n.term, m.candidateid \notin forgot'
        PROVE  m.round = n.round
    <3>1. CASE m \in VotesInFlight /\ n \in VotesInFlight
      BY <2>2, <3>1, <1>2 DEF RoundInv, RoundsAdvance
    <3>2. CASE ~(m \in VotesInFlight /\ n \in VotesInFlight)
      BY <2>2, <3>2, <1>2, <1>7, <1>8, <1>11
    <3> QED BY <3>1, <3>2
  <2> QED BY <2>1, <2>2 DEF RoundsAdvance
<1>13. NoSecondMajority'
  <2> SUFFICES ASSUME NEW m \in VotesInFlight', m.candidateid \notin forgot',
                      m_status'[m.candidateid] = "Leader",
                      m.term = m_currentTerm'[m.candidateid],
                      IsMajority(votedNum'[m.round] \cup Outstanding(m.round)')
               PROVE  FALSE
    BY DEF NoSecondMajority, IsMajority
  <2>1. m \in VotesInFlight /\ m.candidateid # i
    BY <1>3, <1>7, <1>8
  <2>2. /\ m_status[m.candidateid] = "Leader" /\ m.term = m_currentTerm[m.candidateid]
        /\ m.candidateid \notin forgot
    BY <2>1, <1>2, <1>3, <1>5
  <2>3. ~IsMajority(votedNum[m.round] \cup Outstanding(m.round))
    BY <2>1, <2>2 DEF RoundInv, NoSecondMajority
  <2>4. Outstanding(m.round)' \subseteq Outstanding(m.round)
    <3>1. ASSUME NEW n \in VotesInFlight', n.round = m.round PROVE n \in VotesInFlight
      BY <2>1, <3>1, <1>5, <1>7, <1>8
    <3> QED BY <3>1 DEF Outstanding
  <2>5. votedNum[m.round] \cup Outstanding(m.round) \subseteq Server
    BY <2>1, <1>1, VotersAreServers
  <2>6. votedNum'[m.round] = votedNum[m.round]
    BY <2>1, <1>4, <1>5
  <2> QED BY <2>3, <2>4, <2>5, <2>6, NoMajorityLeft
<1>14. WonOnceUnlessForgot'
  BY <1>2 DEF RoundInv, WonOnceUnlessForgot
<1> QED BY <1>10, <1>12, <1>13, <1>14 DEF RoundInv

\* An answer to a request for votes elects nobody.
LEMMA RequestVoteKeepsRounds ==
  ASSUME IndInv, TypeOK', RoundsCountVotes, RoundInv, NEW m \in rvCalls,
         RequestVoteExpired(m) \/ RequestVote(m)
  PROVE  RoundInv'
<1>1. TypeOK /\ \A v \in Server : m_currentTerm[v] \in Nat
  BY DEF IndInv, TypeOK
<1>2. m.server \in Server /\ m.term \in Nat
  BY <1>1, VoteCallTypes
<1>3. PICK term, vote : AnswerVote(m, term, vote)
  BY DEF RequestVoteExpired, RequestVote
<1>4. AskedOnce' /\ VotesInFlight' = VotesInFlight
  BY <1>3, AnswerVoteAskedOnce, AnswerVoteInFlight DEF RoundInv
<1>5. process' = process /\ forgot' = forgot /\ votedNum' = votedNum
  BY <1>3 DEF AnswerVote
<1>6. NobodyElected
  <2>1. CASE RequestVoteExpired(m)
    BY <2>1, <1>1, <1>5, TermsKeptElectNobody DEF RequestVoteExpired
  <2>2. CASE RequestVote(m)
    <3>1. /\ m.term >= m_currentTerm[m.server]
          /\ m_currentTerm' = [m_currentTerm EXCEPT ![m.server] = m.term]
          /\ m_status' = [m_status EXCEPT ![m.server] =
                            IF m.term > m_currentTerm[m.server] THEN "Follower" ELSE @]
      BY <2>2 DEF RequestVote
    <3>2. /\ m_currentTerm'[m.server] = m.term
          /\ m_status'[m.server] = IF m.term > m_currentTerm[m.server] THEN "Follower"
                                                                     ELSE m_status[m.server]
          /\ \A v \in Server : v # m.server => /\ m_currentTerm'[v] = m_currentTerm[v]
                                               /\ m_status'[v] = m_status[v]
      BY <3>1, <1>1, <1>2 DEF TypeOK
    <3> QED BY <3>1, <3>2, <1>1, <1>2, <1>5 DEF NobodyElected
  <2> QED BY <2>1, <2>2
<1> QED BY <1>1, <1>4, <1>5, <1>6, NobodyElectedKeeps

\* A vote that is counted leaves those that are to come, and adds its voter to those counted.
LEMMA VoteLeavesOutstanding ==
  ASSUME TypeOK, RoundsCountVotes, AskedOnce, NEW r \in rvReplies,
         rvReplies' = rvReplies \ {r}, rvCalls' = rvCalls
  PROVE  /\ VotesInFlight' \subseteq VotesInFlight /\ r.args \in VotesInFlight
         /\ \A m \in VotesInFlight' : m.round = r.args.round => m.server # r.args.server
         /\ \A n : Outstanding(n)' \subseteq Outstanding(n)
         /\ \A s \in Outstanding(r.args.round)' : s \notin VotesWith(r)
<1>1. VotesInFlight' \subseteq VotesInFlight /\ r.args \in VotesInFlight
  BY DEF VotesInFlight
<1>2. ASSUME NEW m \in VotesInFlight', m.round = r.args.round
      PROVE  m.server # r.args.server
  <2>1. CASE m \in rvCalls
    BY <1>2, <2>1 DEF AskedOnce
  <2>2. ASSUME NEW q \in rvReplies', m = q.args PROVE m.server # r.args.server
    BY <1>2, <2>2 DEF AskedOnce
  <2> QED BY <2>1, <2>2 DEF VotesInFlight
<1>3. \A n : Outstanding(n)' \subseteq Outstanding(n)
  BY <1>1 DEF Outstanding
<1>4. ASSUME NEW s \in Outstanding(r.args.round)' PROVE s \notin VotesWith(r)
  <2>1. PICK m \in VotesInFlight' : m.round = r.args.round /\ s = m.server
    BY <1>4 DEF Outstanding
  <2>2. m.server \notin votedNum[m.round]
    BY <2>1, <1>1 DEF AskedOnce
  <2> QED BY <2>1, <2>2, <1>2 DEF VotesWith
<1> QED BY <1>1, <1>2, <1>3, <1>4

\* Counting a vote keeps a round won once; and one that has won cannot win again.
LEMMA VoteCountsKeepsRounds ==
  ASSUME IndInv, TypeOK', VoteInv, RoundInv, NEW r \in rvReplies,
         SendRequestVoteCounted(r) \/ SendRequestVoteWon(r)
  PROVE  RoundInv'
<1> DEFINE i == r.args.candidateid
           round == r.args.round
<1>1. TypeOK /\ \A v \in Server : m_currentTerm[v] \in Nat
  BY DEF IndInv, TypeOK
<1>2. /\ VoteCounts(r)
      /\ rvReplies' = rvReplies \ {r} /\ rvCalls' = rvCalls
      /\ forgot' = forgot /\ m_currentTerm' = m_currentTerm
  BY DEF SendRequestVoteCounted, SendRequestVoteWon, VoteCounts, TakeVoteReply, termVars
<1>3. RoundsCountVotes /\ AskedOnce
  BY DEF VoteInv, RoundInv
<1>4. /\ r.args.term = m_currentTerm[i] /\ i \in Server
      /\ round \in DOMAIN votedNum /\ VotesWith(r) \subseteq Server
  BY <1>1, <1>2, CountedVotesGranted, VoteReplyTypes
<1>5. /\ VotesInFlight' \subseteq VotesInFlight /\ r.args \in VotesInFlight
      /\ \A m \in VotesInFlight' : m.round = round => m.server # r.args.server
      /\ \A n : Outstanding(n)' \subseteq Outstanding(n)
      /\ \A s \in Outstanding(round)' : s \notin VotesWith(r)
  BY <1>1, <1>2, <1>3, VoteLeavesOutstanding
<1>6. PICK count \in {VotesWith(r), {}} :
        /\ votedNum' = [votedNum EXCEPT ![round] = count]
        /\ SendRequestVoteWon(r) => count = {}
  BY DEF SendRequestVoteCounted, SendRequestVoteWon
<1>7. /\ votedNum'[round] = count
      /\ \A n \in DOMAIN votedNum : n # round => votedNum'[n] = votedNum[n]
      /\ \A n \in DOMAIN votedNum : votedNum'[n] \subseteq votedNum[n] \cup Outstanding(n)
  <2>1. r.args.server \in Outstanding(round)
    BY <1>5 DEF Outstanding
  <2>2. VotesWith(r) \subseteq votedNum[round] \cup Outstanding(round)
    BY <2>1 DEF VotesWith
  <2> QED BY <2>2, <1>4, <1>6
<1>8. AskedOnce'
  <2>1. ASSUME NEW m \in VotesInFlight' PROVE m.server \notin votedNum'[m.round]
    <3>1. m \in VotesInFlight /\ m.round \in DOMAIN votedNum /\ m.server \notin votedNum[m.round]
      BY <1>3, <1>5 DEF RoundsCountVotes, AskedOnce
    <3>2. CASE m.round = round
      BY <3>1, <3>2, <1>5, <1>6, <1>7 DEF VotesWith
    <3>3. CASE m.round # round
      BY <3>1, <3>3, <1>7
    <3> QED BY <3>2, <3>3
  <2> QED BY <2>1, <1>2, <1>3 DEF AskedOnce
<1>9. RoundsAdvance'
  BY <1>2, <1>5 DEF RoundInv, RoundsAdvance
<1>10. ASSUME NEW m \in VotesInFlight', m.candidateid \notin forgot,
              m_status[m.candidateid] = "Leader", m.term = m_currentTerm[m.candidateid]
       PROVE  ~IsMajority(votedNum'[m.round] \cup Outstanding(m.round)')
  <2>1. m \in VotesInFlight /\ m.round \in DOMAIN votedNum
    BY <1>3, <1>5 DEF RoundsCountVotes
  <2>2. ~IsMajority(votedNum[m.round] \cup Outstanding(m.round))
    BY <2>1, <1>10 DEF RoundInv, NoSecondMajority
  <2>3. votedNum[m.round] \cup Outstanding(m.round) \subseteq Server
    BY <2>1, <1>1, <1>3, VotersAreServers
  <2>4. votedNum'[m.round] \cup Outstanding(m.round)'
          \subseteq votedNum[m.round] \cup Outstanding(m.round)
    BY <2>1, <1>5, <1>7
  <2> QED BY <2>2, <2>3, <2>4, NoMajorityLeft
<1>11. CASE SendRequestVoteCounted(r)
  <2>1. m_status' = m_status /\ process' = process
    BY <1>11 DEF SendRequestVoteCounted, termVars
  <2>2. NoSecondMajority'
    BY <2>1, <1>2, <1>10 DEF NoSecondMajority, IsMajority
  <2>3. WonOnceUnlessForgot'
    BY <2>1, <1>2 DEF RoundInv, WonOnceUnlessForgot
  <2> QED BY <2>2, <2>3, <1>8, <1>9 DEF RoundInv
<1>12. CASE SendRequestVoteWon(r)
  <2>1. /\ IsMajority(VotesWith(r)) /\ count = {}
        /\ m_status' = [m_status EXCEPT ![i] = "Leader"]
        /\ process' = [process EXCEPT ![i] = IF m_status[i] = "Leader" THEN "electedTwice"
                                                                       ELSE @]
    BY <1>6, <1>12 DEF SendRequestVoteWon
  <2>2. \A v \in Server : v # i => m_status'[v] = m_status[v] /\ process'[v] = process[v]
    BY <2>1, <1>1 DEF TypeOK
  <2>3. ASSUME NEW m \in VotesInFlight', m.candidateid = i, i \notin forgot,
               m.term = m_currentTerm[i], IsMajority(votedNum'[m.round] \cup Outstanding(m.round)')
        PROVE  FALSE
    <3>1. m.round = round
      BY <2>3, <1>4, <1>5 DEF RoundInv, RoundsAdvance
    <3>2. IsMajority(Outstanding(round)')
      <4>1. votedNum'[m.round] \cup Outstanding(m.round)' = Outstanding(round)'
        BY <3>1, <2>1, <1>7
      <4> QED BY <4>1, <2>3
    <3>3. Outstanding(round)' \subseteq Server
      BY <1>1, <1>3, <1>5, VotersAreServers
    <3>4. \E v \in Server : v \in Outstanding(round)' /\ v \in VotesWith(r)
      BY <3>2, <3>3, <2>1, <1>4, MajoritiesMeet
    <3> QED BY <3>4, <1>5
  <2>4. NoSecondMajority'
    <3> SUFFICES ASSUME NEW m \in VotesInFlight', m.candidateid \notin forgot,
                        m_status'[m.candidateid] = "Leader",
                        m.term = m_currentTerm[m.candidateid],
                        IsMajority(votedNum'[m.round] \cup Outstanding(m.round)')
                 PROVE  FALSE
      BY <1>2 DEF NoSecondMajority, IsMajority
    <3>1. CASE m.candidateid = i
      BY <3>1, <2>3
    <3>2. CASE m.candidateid # i
      <4>1. m.candidateid \in Server
        BY <1>1, <1>5, VoteFlightTypes
      <4> QED BY <3>2, <4>1, <2>2, <1>10
    <3> QED BY <3>1, <3>2
  <2>5. WonOnceUnlessForgot'
    <3>1. i \notin forgot => m_status[i] # "Leader"
      <4> SUFFICES ASSUME i \notin forgot, m_status[i] = "Leader" PROVE FALSE
        OBVIOUS
      <4>1. ~IsMajority(votedNum[round] \cup Outstanding(round))
        BY <1>4, <1>5 DEF RoundInv, NoSecondMajority
      <4>2. votedNum[round] \cup Outstanding(round) \subseteq Server
        BY <1>1, <1>3, <1>5, VotersAreServers
      <4>3. VotesWith(r) \subseteq votedNum[round] \cup Outstanding(round)
        BY <1>5 DEF VotesWith, Outstanding
      <4> QED BY <4>1, <4>2, <4>3, <2>1, NoMajorityLeft
    <3>2. process'[i] = "electedTwice" => process[i] = "electedTwice" \/ m_status[i] = "Leader"
      BY <2>1, <1>1, <1>4 DEF TypeOK
    <3>3. \A v \in Server : process[v] = "electedTwice" => v \in forgot
      BY DEF RoundInv, WonOnceUnlessForgot
    <3> QED BY <3>1, <3>2, <3>3, <2>2, <1>2 DEF WonOnceUnlessForgot
  <2> QED BY <2>4, <2>5, <1>8, <1>9 DEF RoundInv
<1> QED BY <1>11, <1>12

\* Every step of an election keeps the invariant.
LEMMA ElectionStepKeepsRounds ==
  ASSUME IndInv, TypeOK', VoteInv, RoundInv, ElectionStep
  PROVE  RoundInv'
<1>1. TypeOK /\ RoundsCountVotes /\ AskedOnce
  BY DEF IndInv, VoteInv, RoundInv
<1>2. ASSUME NEW r \in rvReplies, SendRequestVoteHigherTerm(r) \/ SendRequestVoteIgnored(r)
      PROVE  RoundInv'
  <2>1. /\ rvReplies' \subseteq rvReplies /\ rvCalls' = rvCalls
        /\ UNCHANGED <<process, votedNum, forgot>>
    BY <1>2 DEF SendRequestVoteHigherTerm, SendRequestVoteIgnored, TakeVoteReply
  <2>2. AskedOnce' /\ VotesInFlight' \subseteq VotesInFlight
    BY <2>1, <1>1, AskedOnceKept
  <2>3. CASE SendRequestVoteHigherTerm(r)
    <3>1. /\ r.args.candidateid \in Server /\ r.term \in Nat
          /\ m_currentTerm[r.args.candidateid] \in Nat
      BY <1>1, VoteReplyTypes DEF TypeOK
    <3>2. /\ r.term >= m_currentTerm[r.args.candidateid]
          /\ FollowTerm(r.args.candidateid, r.term)
      BY <2>3, <3>1 DEF SendRequestVoteHigherTerm
    <3>3. NobodyElected
      BY <3>1, <3>2, <2>1, <1>1, FollowTermElectsNobody
    <3> QED BY <3>3, <2>1, <2>2, <1>1, NobodyElectedKeeps
  <2>4. CASE SendRequestVoteIgnored(r)
    <3>1. NobodyElected
      BY <2>1, <2>4, <1>1, TermsKeptElectNobody DEF SendRequestVoteIgnored
    <3> QED BY <3>1, <2>1, <2>2, <1>1, NobodyElectedKeeps
  <2> QED BY <1>2, <2>3, <2>4
<1> QED BY <1>1, <1>2, DoElectionKeepsRounds, RequestVoteKeepsRounds, VoteCountsKeepsRounds
        DEF ElectionStep

\* Nobody has been asked when the cluster starts.
LEMMA InitRoundInv == Init => RoundInv
<1> SUFFICES ASSUME Init PROVE RoundInv
  OBVIOUS
<1>1. rvCalls = {} /\ rvReplies = {} /\ process = [i \in Server |-> "up"]
  BY DEF Init
<1>2. VotesInFlight = {}
  BY <1>1 DEF VotesInFlight
<1> QED BY <1>1, <1>2 DEF RoundInv, AskedOnce, RoundsAdvance, NoSecondMajority,
           WonOnceUnlessForgot

\* No step, and no stuttering step, leaves the invariant.
LEMMA NextKeepsRoundInv ==
  ASSUME IndInv, VoteInv, RoundInv, [Next]_vars, astray'["RequestVote"] = 0
  PROVE  RoundInv'
<1>1. TypeOK /\ TypeOK' /\ RoundsCountVotes /\ AskedOnce
  BY NextKeepsIndInv DEF IndInv, VoteInv, RoundInv
<1>2. ASSUME votedNum' = votedNum, rvCalls' \subseteq rvCalls, rvReplies' \subseteq rvReplies,
             NobodyElected
      PROVE  RoundInv'
  BY <1>1, <1>2, AskedOnceKept, NobodyElectedKeeps
<1>3. CASE UNCHANGED vars
  <2>1. UNCHANGED <<process, termVars, votedNum, rvCalls, rvReplies, forgot>>
    BY <1>3 DEF vars, rvVars, historyVars
  <2> QED BY <2>1, <1>1, <1>2, TermsKeptElectNobody
<1>4. CASE AppendStep
  BY <1>2, <1>4, AppendStepVotes, AppendStepElectsNobody DEF rvVars
<1>5. CASE ApplyStep \/ SnapshotStep
  BY <1>2, <1>5, SnapshotStepVotes, SnapshotStepElectsNobody DEF rvVars
<1>6. CASE ProcessStep
  BY <1>2, <1>6, ProcessStepElectsNobody
<1>7. CASE AstrayStep
  <2>1. /\ UNCHANGED <<process, termVars, votedNum, rvCalls, forgot>>
        /\ rvReplies' \subseteq rvReplies
    BY <1>7, VotesNotAstray
  <2> QED BY <2>1, <1>1, <1>2, TermsKeptElectNobody
<1> QED BY <1>1, <1>3, <1>4, <1>5, <1>6, <1>7, ElectionStepKeepsRounds DEF Next

\* The assert of sendRequestVote, "同一个term当两次领导", fails only in the process of a server
\* that took a lower term before, or after a reply reached a thread of sendRequestVote but
\* its own: elsewhere a round that has won has no votes left for another majority, and no
\* other round of the server is in its term.
THEOREM ElectedOncePerTerm == Spec => []ElectedTwiceOnlyIfForgot
<1> DEFINE Inv == astray["RequestVote"] = 0 => VoteInv /\ RoundInv
<1>1. Init => IndInv /\ Inv
  BY InitIndInv, InitVoteInv, InitRoundInv
<1>2. IndInv /\ Inv /\ [Next]_vars => IndInv' /\ Inv'
  BY NextKeepsIndInv, NextKeepsVoteInv, NextKeepsRoundInv, VotesNotAstray
<1>3. IndInv /\ Inv => ElectedTwiceOnlyIfForgot
  <2> SUFFICES ASSUME IndInv, Inv, NEW i \in Server, process[i] = "electedTwice"
               PROVE  i \in forgot \/ astray["RequestVote"] > 0
    BY DEF ElectedTwiceOnlyIfForgot
  <2>1. astray["RequestVote"] \in Nat
    BY DEF IndInv, TypeOK, Method
  <2>2. CASE astray["RequestVote"] = 0
    BY <2>2 DEF RoundInv, WonOnceUnlessForgot
  <2> QED BY <2>1, <2>2
<1> QED BY <1>1, <1>2, <1>3, PTL DEF Spec

====
