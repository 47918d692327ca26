---- MODULE ReplicaMap ----
(***************************************************************************)
(* What one replica of the store is to its clients: a map, and for every   *)
(* client the last request that was executed.  A request takes effect in   *)
(* one step and not again, and is acknowledged only when it has.  Of other *)
(* replicas nothing is said: the code does not keep them equal.            *)
(***************************************************************************)
EXTENDS Naturals, Sequences

CONSTANTS Server, Id, Key, Value, NoValue, MaxRequests

VARIABLES
  map,     \* map[i]: the keys and values of replica i
  last,    \* last[i][d]: the last executed request of client id d
  done,    \* done[i]: the requests <<d, n>> that replica i ever executed, in order
  acked    \* acked[i]: those that its clients were told OK for

mapVars == <<map, last, done, acked>>

Init ==
  /\ map = [i \in Server |-> [k \in Key |-> NoValue]]
  /\ last = [i \in Server |-> [d \in Id |-> 0]]
  /\ done = [i \in Server |-> <<>>]
  /\ acked = [i \in Server |-> {}]

Execute(i) == \E d \in Id, n \in 1 .. MaxRequests, k \in Key, v \in Value :
  /\ n > last[i][d]
  /\ map' = [map EXCEPT ![i][k] = v]
  /\ last' = [last EXCEPT ![i][d] = n]
  /\ done' = [done EXCEPT ![i] = Append(@, <<d, n>>)]
  /\ UNCHANGED acked

Acknowledge(i) == \E n \in DOMAIN done[i] :
  /\ acked' = [acked EXCEPT ![i] = @ \cup {done[i][n]}]
  /\ UNCHANGED <<map, last, done>>

\* A replica that begins anew has nothing, although it may have acknowledged requests.
Restart(i) ==
  /\ map' = [map EXCEPT ![i] = [k \in Key |-> NoValue]]
  /\ last' = [last EXCEPT ![i] = [d \in Id |-> 0]]
  /\ UNCHANGED <<done, acked>>

Next == \E i \in Server : Execute(i) \/ Acknowledge(i) \/ Restart(i)

Spec == Init /\ [][Next]_mapVars

====
