---- MODULE MCRpc ----
(***************************************************************************)
(* The RPC layer on small instances: a request and a reply of every type,  *)
(* with values that differ where the fields of two types have one number,  *)
(* and with defaults among them.                                           *)
(***************************************************************************)
EXTENDS Rpc, TLC

Entry == [command |-> "op", logterm |-> 1, logindex |-> 2]

EachRequest ==
  {[service |-> "raftRpc", method |-> "AppendEntries",
    request |-> [term |-> 1, leaderid |-> 0, prevlogindex |-> 0, prevlogterm |-> 0,
                 entries |-> <<Entry, [Entry EXCEPT !.logterm = 0]>>, leadercommit |-> 0]],
   [service |-> "raftRpc", method |-> "InstallSnapShot",
    request |-> [leaderid |-> 0, term |-> 1, lastsnapshotincludeindex |-> 2,
                 lastsnapshotincludeterm |-> 1, data |-> "archive"]],
   [service |-> "raftRpc", method |-> "RequestVote",
    request |-> [term |-> 2, candidateid |-> 1, lastlogindex |-> 0, lastlogterm |-> 0]],
   [service |-> "KvServerRpc", method |-> "PutAppend",
    request |-> [key |-> "k", value |-> "", op |-> "Put", clientid |-> "c", requestid |-> 1]],
   [service |-> "KvServerRpc", method |-> "Get",
    request |-> [key |-> "k", clientid |-> "c", requestid |-> 1]]}

\* To keep the instance small: of the five methods, two are called one after or beside the other,
\* and the third connection is not needed once a message was cut.
FewCombinations ==
  /\ Len(callLog) = 2 => \A n \in 1 .. 2 : callLog[n].call.method \in {"AppendEntries", "RequestVote"}
  /\ cut => Len(connections) <= 2

SymmetricThreads == Permutations(Thread)

EachResponse(service, method) ==
  CASE method = "AppendEntries" ->
         {[term |-> 1, success |-> TRUE, updatenextindex |-> -100, appstate |-> 1],
          [term |-> 2, success |-> FALSE, updatenextindex |-> -100, appstate |-> 1]}
    [] method = "InstallSnapShot" -> {[term |-> 0], [term |-> 1]}
    [] method = "RequestVote" -> {[term |-> 2, votegranted |-> FALSE, votestate |-> 1]}
    [] method = "PutAppend" -> {[err |-> "OK"]}
    [] method = "Get" -> {[err |-> "OK", value |-> "v"]}

====
