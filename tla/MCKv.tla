---- MODULE MCKv ----
(***************************************************************************)
(* The store on small instances: which clerk ids there are.                *)
(***************************************************************************)
EXTENDS Clerk, TLC

\* Clerks of one process draw different ids from rand().
OneProcess == [c \in Client |-> c]

\* Nothing calls srand: the first clerks of all processes draw the same id.
ProcessEach == [c \in Client |-> NoValue]

\* maxraftstate of a server that takes no snapshots.
NoSnapshots == -1

\* To keep the instance small: three calls in all, and one less for each of a snapshot, a Get, and
\* a process killed or begun anew; and two clerks only with one request each and none of these.
FewCalls ==
  LET allCalls == MapThenSumSet(LAMBDA c : attempts[c], Client)
      snapshots == \E i \in Server : m_lastSnapshotIncludeIndex[i] > 0
      gets == \/ \E i \in Server : process[i] = "nullChannel"
              \/ \E c \in Client : request[c] # NoOp /\ request[c].operation = "Get"
      rare == Cardinality({x \in {1, 2, 3} : <<restarts > 0, snapshots, gets>>[x]})
      busy == {c \in Client : m_requestId[c] > 0}
      logged == MapThenSumSet(LAMBDA i : Cardinality(DOMAIN known[i]), Server)
  IN /\ allCalls <= 3 - rare
     /\ logged <= 4 - rare
     /\ Cardinality(busy) > 1 =>
          /\ rare = 0 /\ \A c \in busy : m_requestId[c] = 1

SymmetricClients == Permutations(Client)

====
