---- MODULE MCRaft ----
(***************************************************************************)
(* Raft on small instances.  The cfg files give the servers as model       *)
(* values and the bounds.  Each of the two large runs explores several     *)
(* cases, a case being a state constraint: the bounds that one question    *)
(* needs (the README tells why they are enough).  The servers are          *)
(* interchangeable: a peer's number only orders loops whose order no       *)
(* property sees.                                                          *)
(***************************************************************************)
EXTENDS Raft, TLC

SymmetricServers == Permutations(Server)

elections == Len(votedNum)
heartBeats == Len(appendNums)

\* One reply to the wrong thread, within these bounds; when there is a snapshot, to a thread
\* that sends it.
Astray ==
  /\ astray["RequestVote"] + astray["AppendEntries"] + astray["InstallSnapShot"] <= 1
  /\ commands <= 1 /\ elections <= 2 /\ heartBeats <= 2
  /\ Cardinality(Server) = 3 =>
       /\ elections + heartBeats <= 3
       /\ snapshots = 0 \/ (astray["RequestVote"] = 0 /\ astray["AppendEntries"] = 0)

NothingAstray == \A method \in Method : astray[method] = 0

-----------------------------------------------------------------------------
(* Three servers                                                           *)

VoteMessages == rvCalls \cup {r.args : r \in rvReplies}
VotesAreIn(round) == \A m \in VoteMessages : m.round # round

\* Two elections at once, with replies as late as they like, and a heartbeat; then a third
\* election, the votes of the first being in.
Elections ==
  /\ commands = 0 /\ heartBeats <= 1
  /\ elections = 3 => heartBeats = 1 /\ VotesAreIn(1)

\* A third election, for the follower that disagrees in the middle of its log: held when the
\* votes of the first two are in and their heartbeats answered, with two commands at most.
ThirdElectionInTurn ==
  elections = 3 =>
    /\ commands <= 2
    /\ VotesAreIn(1) /\ VotesAreIn(2)
    /\ \A m \in AppendsInFlight : m.term = 3

\* Leaders of two terms with up to four commands: more than two only once the second election
\* has begun and the votes of the first are in.
Divergence ==
  /\ heartBeats <= 1 /\ snapshots = 0
  /\ commands > 2 => elections > 1 /\ VotesAreIn(1)
  /\ ThirdElectionInTurn

\* A third round of heartbeats, for a second snapshot to one follower: only when there is a
\* snapshot to send, and with the one command it replaces.
ThirdRoundSendsSnapshot == heartBeats = 3 => commands = 1 /\ snapshots = 1

\* Heartbeats begin when the votes of the one election are in: late ones are in the other cases.
Snapshots ==
  /\ elections <= 1 /\ commands <= 2
  /\ heartBeats > 0 => VotesAreIn(1)
  /\ ThirdRoundSendsSnapshot

ThreeServerCases == Astray \/ (NothingAstray /\ (Elections \/ Divergence \/ Snapshots))

-----------------------------------------------------------------------------
(* Two servers                                                             *)

Restarts == elections <= 2

\* A term well above the length of the log: the first three elections are held by one server,
\* and the requests of the first two get lost.  More follow once both commands are in the log.
OneCandidateTwiceUnheard ==
  /\ \A g \in granted : g[1] > 2 \/ g[2] = g[3]
  /\ \A r \in rvReplies : r.args.round > 2
  /\ elections <= 3 => \E i \in Server : m_currentTerm[i] >= elections
  /\ heartBeats <= elections - 2
  /\ elections > 3 => commands = 2 /\ \A m \in rvCalls : m.round # 3

LongTerms ==
  /\ snapshots = 0 /\ restarts = 0 /\ \A i \in Server : process[i] # "killed"
  /\ OneCandidateTwiceUnheard

TwoServerCases == Astray \/ (NothingAstray /\ (Restarts \/ LongTerms))

====
