---- MODULE MCTimer ----
(***************************************************************************)
(* Timers on small instances: a second of four ticks, and a start shortly  *)
(* before the machine's clock goes through its first full hour.            *)
(***************************************************************************)
EXTENDS Timer, TLC

Symmetry == Permutations(TimerId) \union Permutations(Worker)

====
