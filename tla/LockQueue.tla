---- MODULE LockQueue ----
(***************************************************************************)
(* LockQueue of src/src/common/include/util.h: a queue behind a mutex and  *)
(* a condition variable, as operators on the sequence q of its elements.   *)
(***************************************************************************)
EXTENDS Sequences

NewLockQueue == <<>>

Push(q, data) == Append(q, data)

\* pop and timeoutPop take an element only when there is one, and then the oldest.
CanPop(q) == q # <<>>
Popped(q) == Head(q)
AfterPop(q) == Tail(q)

====
