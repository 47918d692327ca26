---- MODULE MCHook ----
(***************************************************************************)
(* The fibers of an IOManager on small instances.                          *)
(***************************************************************************)
EXTENDS Hook, TLC

CONSTANT fd1

On(op, event, timed) == [op |-> op, fd |-> fd1, event |-> event, timed |-> timed]

\* Every kind of call, on one descriptor.
EachCall ==
  {On("io", READ, TRUE), On("io", READ, FALSE), On("io", WRITE, TRUE), On("connect", WRITE, TRUE),
   On("sleep", READ, FALSE), On("close", READ, FALSE), On("socket", READ, FALSE)}

\* The second call follows a closed descriptor, a new one, or a call that is out of time.
CallInTurn(n) == IF n = 1 THEN EachCall ELSE {On("io", READ, TRUE), On("socket", READ, FALSE)}

====
