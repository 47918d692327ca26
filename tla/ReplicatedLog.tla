---- MODULE ReplicatedLog ----
(***************************************************************************)
(* What a KvServer may count on from its Raft node, and all that it may:   *)
(* the contract of Raft::Start and of applyChan.  Nothing is said of other *)
(* servers, because the code does not make logs agree.  Raft is proved to  *)
(* keep this contract, KvServer is checked under it.                       *)
(***************************************************************************)
EXTENDS Integers, Sequences

CONSTANT Server

VARIABLES
  started,  \* the commands Start accepted, anywhere
  known,    \* known[i][x]: the command at index x that server i may still report
  end,      \* the last index of i's log
  fed       \* what was pushed to i's applyChan since its process began

promiseVars == <<started, known, end, fed>>

Init ==
  /\ started = {}
  /\ known = [i \in Server |-> <<>>]
  /\ end = [i \in Server |-> 0]
  /\ fed = [i \in Server |-> <<>>]

\* The log only grows at its end; what is at an index stays there, or is dropped for good.
LogGrows(i) ==
  /\ end'[i] >= end[i]
  /\ \A x \in DOMAIN known'[i] :
       IF x \in DOMAIN known[i] THEN known'[i][x] = known[i][x]
                                ELSE x > end[i] /\ known'[i][x] \in started'

\* Commands are reported once and in order of their index, each as it is in the log, and so
\* are snapshots; but a snapshot may come between commands of lower index.
Reports(i, msg) ==
  /\ fed'[i] = Append(fed[i], msg)
  /\ \A k \in DOMAIN fed[i] : fed[i][k].snapshot = msg.snapshot => fed[i][k].index < msg.index
  /\ ~msg.snapshot => msg.index \in DOMAIN known[i] /\ msg.command = known[i][msg.index]

Step(i) ==
  /\ LogGrows(i)
  /\ \/ fed'[i] = fed[i]
     \/ /\ Len(fed'[i]) = Len(fed[i]) + 1
        /\ Reports(i, fed'[i][Len(fed'[i])])

\* The process begins anew, and knows nothing.
Restart(i) == known'[i] = <<>> /\ end'[i] = 0 /\ fed'[i] = <<>>

Next == started \subseteq started' /\ \A i \in Server : Step(i) \/ Restart(i)

Spec == Init /\ [][Next]_promiseVars

====
