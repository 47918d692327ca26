---- MODULE TimerProofs ----
(***************************************************************************)
(* Proofs about Timer, for every number of threads and timers, every       *)
(* resolution of the clock and every duration.                             *)
(*                                                                         *)
(* IInv is the types, who holds which timer (the set, or one thread that   *)
(* is about to insert it), that a cancelled timer is in neither place and  *)
(* among no worker's callbacks, and that m_tickle is only set while some   *)
(* thread still has to look at the timers.                                 *)
(***************************************************************************)
EXTENDS Timer, WellFoundedInduction, NaturalsInduction, TLAPS

-----------------------------------------------------------------------------
(* Numbers                                                                 *)

\* Every non-empty set of naturals has a least element.
LEMMA LeastNatural ==
  ASSUME NEW S, S \subseteq Nat, S # {}
  PROVE  \E n \in S : \A m \in S : n <= m
<1>1. PICK n \in S : \A m \in S : <<m, n>> \notin OpToRel(<, Nat)
  BY NatLessThanWellFounded, WFMin, Zenon
<1>2. ASSUME NEW m \in S PROVE n <= m
  <2>1. ~(m < n)
    BY <1>1 DEF OpToRel
  <2> QED BY <2>1
<1> QED BY <1>1, <1>2

\* Min is what it is called, for naturals.
LEMMA MinOfNaturals ==
  ASSUME NEW S, S \subseteq Nat, S # {}
  PROVE  Min(S) \in S /\ \A m \in S : Min(S) <= m
BY LeastNatural DEF Min

\* The clock of the code, wrong as it is, is a natural once a second has passed.
LEMMA ElapsedIsNatural ==
  ASSUME NEW t \in Nat, t >= TicksPerSecond
  PROVE  Elapsed(t) \in Nat
<1> DEFINE T == TicksPerSecond  q == t \div T  r == t % T
<1>1. T \in Nat /\ T > 0
  BY TimerAssumption
<1>2. q \in Int /\ r \in Int /\ 0 <= r /\ r < T /\ t = T * q + r
  BY <1>1
<1> HIDE DEF T, q, r
<1>3. q >= 1
  <2>1. SUFFICES ASSUME q <= 0 PROVE FALSE
    BY <1>2
  <2>2. T * q <= 0
    BY <1>1, <1>2, <2>1
  <2> QED BY <1>1, <1>2, <2>2 DEF T
<1>4. q * T >= T /\ q * T \in Int
  BY <1>1, <1>2, <1>3
<1>5. q * T - r \in Nat
  BY <1>1, <1>2, <1>4
<1> QED BY <1>5 DEF Elapsed, T, q, r

\* It is behind the machine's by twice the part of a second that has passed.
LEMMA ElapsedIsBehind ==
  ASSUME NEW t \in Nat
  PROVE  Elapsed(t) \in Int /\ ClockError \in Nat /\ Elapsed(t) <= t /\ t <= Elapsed(t) + ClockError
<1> DEFINE T == TicksPerSecond  q == t \div T  r == t % T
<1>1. T \in Nat /\ T > 0
  BY TimerAssumption
<1>2. q \in Int /\ r \in Int /\ 0 <= r /\ r <= T - 1 /\ t = T * q + r
  BY <1>1
<1>3. Elapsed(t) = q * T - r /\ ClockError = 2 * (T - 1)
  BY DEF Elapsed, ClockError
<1> HIDE DEF T, q, r
<1>4. q * T \in Int /\ q * T = t - r
  BY <1>1, <1>2
<1> QED BY <1>1, <1>2, <1>3, <1>4

-----------------------------------------------------------------------------
(* Types                                                                   *)

TimerState ==
  [m_next: Nat, m_ms: Nat, m_recurring: BOOLEAN, m_cb: BOOLEAN, born: Nat]

WorkerState ==
  [at: {"next", "asleep", "list", "busy"}, until: Nat, now_ms: Nat,
   cbs: SUBSET TimerId]

CallerState == [at: {"ready", "insert", "tickle"}, timer: SUBSET TimerId]

\* m_next - m_ms, which reset computes, does not wrap.
Typed ==
  /\ clock \in StartTime .. StartTime + MaxTime
  /\ timers \in [TimerId -> TimerState]
  /\ \A t \in TimerId : timers[t].m_ms \in Periods \union {0} /\ timers[t].m_next >= timers[t].m_ms
  /\ m_timers \subseteq TimerId
  /\ m_tickle \in BOOLEAN /\ pipe \in BOOLEAN /\ moved \in BOOLEAN
  /\ m_previousTime \in Nat
  /\ workers \in [Worker -> WorkerState]
  /\ callers \in [Caller -> CallerState]

LEMMA ClockIsNatural ==
  ASSUME Typed
  PROVE  clock \in Nat /\ clock > 0 /\ Elapsed(clock) \in Nat
<1>1. clock \in Nat /\ clock >= TicksPerSecond /\ clock > 0
  BY TimerAssumption DEF Typed
<1> QED BY <1>1, ElapsedIsNatural

\* The sleep of a worker has a length.
LEMMA WaitIsNatural ==
  ASSUME Typed, NEW next \in Nat \union {Never}
  PROVE  Wait(next) \in Nat
<1>1. Elapsed(clock) \in Nat /\ MAX_TIMEOUT \in Nat
  BY ClockIsNatural, TimerAssumption
<1>2. CASE next # Never /\ Elapsed(clock) < next
  <2>1. next - Elapsed(clock) \in Nat
    BY <1>1, <1>2 DEF Never
  <2>2. Min({next - Elapsed(clock), MAX_TIMEOUT}) \in Nat
    BY <1>1, <2>1, MinOfNaturals
  <2> QED BY <1>1, <1>2, <2>2 DEF Wait, Never
<1>3. CASE next = Never \/ Elapsed(clock) >= next
  BY <1>1, <1>3 DEF Wait, Never
<1> QED BY <1>1, <1>2, <1>3 DEF Never

\* The first of some timers is one of them, and none is before it.
LEMMA FirstNextIsFirst ==
  ASSUME Typed, m_timers # {}
  PROVE  FirstNext \in Nat /\ \A t \in m_timers : FirstNext <= timers[t].m_next
<1>1. {timers[t].m_next : t \in m_timers} \subseteq Nat
  BY DEF Typed, TimerState
<1>2. {timers[t].m_next : t \in m_timers} # {}
  OBVIOUS
<1> QED BY <1>1, <1>2, MinOfNaturals DEF FirstNext

LEMMA TypedInit == Init => Typed
<1> SUFFICES ASSUME Init PROVE Typed
  OBVIOUS
<1>1. clock \in Nat /\ clock >= TicksPerSecond
  BY TimerAssumption DEF Init
<1>2. Elapsed(clock) \in Nat
  BY <1>1, ElapsedIsNatural
<1>3. timers \in [TimerId -> TimerState]
  BY DEF Init, NoTimer, TimerState
<1>4. workers \in [Worker -> WorkerState]
  BY DEF Init, WorkerState
<1>5. callers \in [Caller -> CallerState]
  BY DEF Init, Ready, CallerState
<1>6. \A t \in TimerId : timers[t].m_ms \in Periods \union {0} /\ timers[t].m_next >= timers[t].m_ms
  BY DEF Init, NoTimer
<1>7. clock \in StartTime .. StartTime + MaxTime
  BY TimerAssumption DEF Init
<1>8. m_previousTime \in Nat
  BY <1>2 DEF Init
<1>9. /\ m_timers \subseteq TimerId
      /\ m_tickle \in BOOLEAN /\ pipe \in BOOLEAN /\ moved \in BOOLEAN
  BY DEF Init
<1> QED BY <1>3, <1>4, <1>5, <1>6, <1>7, <1>8, <1>9 DEF Typed

LEMMA TypedNext == Typed /\ [Next]_vars => Typed'
<1> SUFFICES ASSUME Typed, [Next]_vars PROVE Typed'
  OBVIOUS
<1>0. clock \in Nat /\ Elapsed(clock) \in Nat /\ Periods \subseteq Nat
  BY ClockIsNatural, TimerAssumption
<1>1. ASSUME NEW c \in Caller, AddTimer(c) PROVE Typed'
  <2>1. PICK t \in callers[c].timer : Insert(c, t, timers)
    BY <1>1 DEF AddTimer
  <2>2. t \in TimerId
    BY DEF Typed, CallerState
  <2>3. callers' \in [Caller -> CallerState]
    BY <2>1 DEF Typed, Insert, CallerState, Ready
  <2>4. m_tickle' \in BOOLEAN /\ timers' = timers /\ m_timers' \subseteq TimerId
    BY <2>1, <2>2 DEF Typed, Insert, IsAtFront
  <2> QED BY <1>1, <2>3, <2>4 DEF Typed, AddTimer, historyVars
<1>2. ASSUME NEW c \in Caller, OnTimerInsertedAtFront(c) PROVE Typed'
  BY <1>2 DEF Typed, OnTimerInsertedAtFront, tickle, CallerState, Ready, managerVars, historyVars
<1>3. ASSUME NEW c \in Caller, NEW t \in TimerId, Create(c, t) PROVE Typed'
  BY <1>0, <1>3 DEF Typed, Create, TimerState, CallerState, historyVars
<1>4. ASSUME NEW c \in Caller, NEW t \in TimerId, Cancel(c, t) PROVE Typed'
  BY <1>4 DEF Typed, Cancel, TimerState
<1>5. ASSUME NEW c \in Caller, NEW t \in TimerId, Refresh(c, t) PROVE Typed'
  <2>1. timers' \in [TimerId -> TimerState] /\ moved' \in BOOLEAN
    <3>1. timers[t].m_ms \in Nat /\ Elapsed(clock) + timers[t].m_ms \in Nat
      BY <1>0 DEF Typed, TimerState
    <3>2. timers' \in [TimerId -> TimerState]
      BY <1>0, <1>5, <3>1 DEF Typed, Refresh, TimerState
    <3>3. moved' \in BOOLEAN
      BY <1>5 DEF Typed, Refresh
    <3> QED BY <3>2, <3>3
  <2>2. \A u \in TimerId : timers'[u].m_ms = timers[u].m_ms
    BY <1>5 DEF Typed, Refresh, TimerState
  <2>3. timers'[t].m_next >= timers[t].m_ms
    BY <1>0, <1>5 DEF Typed, Refresh, TimerState
  <2>4. \A u \in TimerId \ {t} : timers'[u].m_next = timers[u].m_next
    BY <1>5 DEF Typed, Refresh, TimerState
  <2> QED BY <1>5, <2>1, <2>2, <2>3, <2>4 DEF Typed, Refresh
<1>6. ASSUME NEW c \in Caller, NEW t \in TimerId, Reset(c, t) PROVE Typed'
  BY <1>0, <1>6 DEF Typed, Reset, Insert, Ready, TimerState, CallerState, historyVars
<1>7. ASSUME NEW w \in Worker, getNextTimer(w) PROVE Typed'
  <2> DEFINE next == IF m_timers = {} THEN Never ELSE FirstNext
  <2>1. next \in Nat \union {Never}
    <3>1. CASE m_timers = {}
      BY <3>1
    <3>2. CASE m_timers # {}
      BY <3>2, FirstNextIsFirst
    <3> QED BY <3>1, <3>2
  <2> HIDE DEF next
  <2>2. clock + Wait(next) \in Nat
    <3>1. Wait(next) \in Nat
      BY <2>1, WaitIsNatural
    <3> QED BY <1>0, <3>1
  <2>3. workers' = [workers EXCEPT ![w].at = "asleep", ![w].until = clock + Wait(next)]
    BY <1>7, Zenon DEF getNextTimer, next
  <2>4. workers' \in [Worker -> WorkerState]
    <3> DEFINE asleep == [workers[w] EXCEPT !.at = "asleep", !.until = clock + Wait(next)]
    <3>1. asleep \in WorkerState
      BY <2>1, <2>2 DEF Typed, WorkerState
    <3>2. workers' = [workers EXCEPT ![w] = asleep]
      BY <2>3 DEF Typed, WorkerState
    <3> QED BY <3>1, <3>2 DEF Typed
  <2>5. m_tickle' \in BOOLEAN /\ moved' \in BOOLEAN
    BY <1>7 DEF getNextTimer
  <2>6. UNCHANGED <<clock, timers, m_timers, m_previousTime, pipe, callers>>
    BY <1>7 DEF getNextTimer
  <2> QED BY <2>4, <2>5, <2>6 DEF Typed
<1>8. ASSUME NEW w \in Worker, WakeUp(w) PROVE Typed'
  <2> DEFINE awake == [workers[w] EXCEPT !.at = "list", !.until = 0, !.now_ms = Elapsed(clock)]
  <2>1. awake \in WorkerState
    BY <1>0 DEF Typed, WorkerState
  <2>2. workers' = [workers EXCEPT ![w] = awake]
    BY <1>8 DEF Typed, WakeUp, WorkerState
  <2>3. workers' \in [Worker -> WorkerState]
    BY <2>1, <2>2 DEF Typed
  <2> QED BY <1>8, <2>3 DEF Typed, WakeUp, managerVars, historyVars
<1>9. ASSUME NEW w \in Worker, listExpiredCb(w) PROVE Typed'
  <2>1. Expired(workers[w].now_ms) \subseteq m_timers
    BY DEF Expired
  <2>2. workers[w].now_ms \in Nat
    BY DEF Typed, WorkerState
  <2>3. \A t \in m_timers :
          /\ AfterExpiry(t, workers[w].now_ms) \in TimerState
          /\ AfterExpiry(t, workers[w].now_ms).m_ms = timers[t].m_ms
          /\ AfterExpiry(t, workers[w].now_ms).m_next >= timers[t].m_ms
    <3> TAKE t \in m_timers
    <3>1. timers[t] \in TimerState /\ timers[t].m_ms \in Nat /\ timers[t].m_next >= timers[t].m_ms
      BY DEF Typed, TimerState
    <3>2. CASE timers[t].m_recurring
      <4> DEFINE again == workers[w].now_ms + timers[t].m_ms
      <4>1. again \in Nat /\ again >= timers[t].m_ms
        BY <2>2, <3>1
      <4>2. AfterExpiry(t, workers[w].now_ms) = [timers[t] EXCEPT !.m_next = again, !.born = clock]
        BY <3>2 DEF AfterExpiry
      <4> HIDE DEF again
      <4> QED BY <1>0, <3>1, <4>1, <4>2 DEF TimerState
    <3>3. CASE ~timers[t].m_recurring
      BY <3>1, <3>3 DEF AfterExpiry, TimerState
    <3> QED BY <3>2, <3>3
  <2>4. timers' \in [TimerId -> TimerState]
    BY <1>9, <2>1, <2>3 DEF Typed, listExpiredCb
  <2>5. \A t \in TimerId : timers'[t].m_ms \in Periods \union {0} /\ timers'[t].m_next >= timers'[t].m_ms
    BY <1>9, <2>1, <2>3 DEF Typed, listExpiredCb
  <2>6. workers' \in [Worker -> WorkerState]
    <3> DEFINE expired == Expired(workers[w].now_ms)
               busy == [workers[w] EXCEPT !.at = "busy", !.now_ms = 0, !.cbs = expired]
    <3>1. workers \in [Worker -> WorkerState] /\ expired \in SUBSET TimerId
      BY <2>1 DEF Typed
    <3>2. workers' = [workers EXCEPT ![w].at = "busy", ![w].now_ms = 0, ![w].cbs = expired]
      BY <1>9, Zenon DEF listExpiredCb
    <3> HIDE DEF expired
    <3>3. busy \in WorkerState
      BY <3>1 DEF WorkerState
    <3>4. workers' = [workers EXCEPT ![w] = busy]
      BY <3>1, <3>2 DEF WorkerState
    <3> QED BY <3>1, <3>3, <3>4
  <2> QED BY <1>9, <2>1, <2>2, <2>4, <2>5, <2>6 DEF Typed, listExpiredCb
<1>10. ASSUME NEW w \in Worker, RunCallbacks(w) PROVE Typed'
  <2> DEFINE idle == [workers[w] EXCEPT !.at = "next", !.cbs = {}]
  <2>1. workers \in [Worker -> WorkerState]
    BY DEF Typed
  <2>2. idle \in WorkerState
    BY <2>1 DEF WorkerState
  <2>3. workers' = [workers EXCEPT ![w] = idle]
    BY <1>10, <2>1 DEF RunCallbacks, WorkerState
  <2>4. workers' \in [Worker -> WorkerState]
    BY <2>1, <2>2, <2>3
  <2>5. UNCHANGED <<clock, timers, m_timers, m_tickle, m_previousTime, pipe, callers, moved>>
    BY <1>10 DEF RunCallbacks, managerVars
  <2> QED BY <2>4, <2>5 DEF Typed
<1>11. CASE Tick
  BY <1>0, <1>11, TimerAssumption DEF Typed, Tick, managerVars, historyVars
<1>12. CASE UNCHANGED vars
  BY <1>12 DEF Typed, vars, managerVars, historyVars
<1> QED BY <1>1, <1>2, <1>3, <1>4, <1>5, <1>6, <1>7, <1>8, <1>9, <1>10, <1>11, <1>12 DEF Next

-----------------------------------------------------------------------------
(* Who holds a timer                                                       *)

\* A timer with a callback is in the set, or with the one thread that is to insert it.
HeldOnce ==
  /\ \A t \in m_timers : timers[t].m_cb
  /\ \A c \in Caller : \A t \in callers[c].timer : timers[t].m_cb /\ t \notin m_timers
  /\ \A c \in Caller : \A d \in Caller \ {c} : callers[c].timer \intersect callers[d].timer = {}
  /\ \A c \in Caller : callers[c].at # "insert" => callers[c].timer = {}

LEMMA HeldOnceInit == Init => HeldOnce
BY DEF Init, HeldOnce, Ready

LEMMA HeldOnceNext == Typed /\ HeldOnce /\ [Next]_vars => HeldOnce'
<1> SUFFICES ASSUME Typed, HeldOnce, [Next]_vars PROVE HeldOnce'
  OBVIOUS
<1>0. /\ timers \in [TimerId -> TimerState] /\ m_timers \subseteq TimerId
      /\ callers \in [Caller -> CallerState]
      /\ \A c \in Caller : callers[c].timer \subseteq TimerId
  BY DEF Typed, CallerState
<1>1. ASSUME NEW c \in Caller, AddTimer(c) PROVE HeldOnce'
  <2>1. PICK t \in callers[c].timer : Insert(c, t, timers)
    BY <1>1 DEF AddTimer
  <2>2. timers' = timers /\ m_timers' = m_timers \union {t}
    BY <2>1 DEF Insert
  <2>3. callers'[c].timer = {} /\ \A d \in Caller \ {c} : callers'[d] = callers[d]
    BY <1>0, <2>1 DEF Insert, Ready
  <2> QED BY <2>2, <2>3 DEF HeldOnce
<1>2. ASSUME NEW c \in Caller, OnTimerInsertedAtFront(c) PROVE HeldOnce'
  BY <1>0, <1>2 DEF HeldOnce, OnTimerInsertedAtFront, Ready, managerVars
<1>3. ASSUME NEW c \in Caller, NEW t \in TimerId, Create(c, t) PROVE HeldOnce'
  <2>1. ~timers[t].m_cb /\ callers[c].timer = {} /\ m_timers' = m_timers
    BY <1>3 DEF Create, HeldOnce, NoTimer
  <2>2. timers'[t].m_cb /\ \A u \in TimerId \ {t} : timers'[u] = timers[u]
    BY <1>0, <1>3 DEF Create
  <2>3. /\ callers'[c].timer = {t} /\ callers'[c].at = "insert"
        /\ \A d \in Caller \ {c} : callers'[d] = callers[d]
    BY <1>0, <1>3 DEF Create
  <2>4. t \notin m_timers /\ \A d \in Caller : t \notin callers[d].timer
    BY <2>1 DEF HeldOnce
  <2> QED BY <1>0, <2>1, <2>2, <2>3, <2>4 DEF HeldOnce
<1>4. ASSUME NEW c \in Caller, NEW t \in TimerId, Cancel(c, t) PROVE HeldOnce'
  <2>1. \A u \in TimerId \ {t} : timers'[u].m_cb = timers[u].m_cb
    BY <1>0, <1>4 DEF Cancel
  <2> QED BY <1>0, <1>4, <2>1 DEF Cancel, HeldOnce
<1>5. ASSUME NEW c \in Caller, NEW t \in TimerId, Refresh(c, t) PROVE HeldOnce'
  <2>1. \A u \in TimerId : timers'[u].m_cb = timers[u].m_cb
    BY <1>0, <1>5 DEF Refresh, TimerState
  <2> QED BY <1>0, <1>5, <2>1 DEF Refresh, HeldOnce
<1>6. ASSUME NEW c \in Caller, NEW t \in TimerId, Reset(c, t) PROVE HeldOnce'
  <2>1. \A u \in TimerId : timers'[u].m_cb = timers[u].m_cb
    BY <1>0, <1>6 DEF Reset, Insert, TimerState
  <2>2. m_timers' = m_timers
    BY <1>6 DEF Reset, Insert
  <2>3. callers'[c].timer = {} /\ \A d \in Caller \ {c} : callers'[d] = callers[d]
    BY <1>0, <1>6 DEF Reset, Insert, Ready
  <2> QED BY <1>0, <2>1, <2>2, <2>3 DEF HeldOnce
<1>7. ASSUME NEW w \in Worker, getNextTimer(w) \/ WakeUp(w) \/ RunCallbacks(w) PROVE HeldOnce'
  <2>1. UNCHANGED <<timers, m_timers, callers>>
    BY <1>7 DEF getNextTimer, WakeUp, RunCallbacks, managerVars
  <2> QED BY <2>1 DEF HeldOnce
<1>8. ASSUME NEW w \in Worker, listExpiredCb(w) PROVE HeldOnce'
  <2>1. Expired(workers[w].now_ms) \subseteq m_timers
    BY DEF Expired
  <2>2. \A t \in m_timers' : timers'[t].m_cb
    <3> SUFFICES ASSUME NEW t \in m_timers' PROVE timers'[t].m_cb
      OBVIOUS
    <3>1. t \in m_timers /\ timers[t].m_cb /\ (t \notin Expired(workers[w].now_ms) \/ timers[t].m_recurring)
      BY <1>8 DEF listExpiredCb, HeldOnce
    <3> QED BY <1>0, <1>8, <3>1 DEF listExpiredCb, AfterExpiry, TimerState
  <2>3. \A t \in TimerId \ m_timers : timers'[t] = timers[t]
    BY <1>8, <2>1 DEF listExpiredCb
  <2>4. m_timers' \subseteq m_timers /\ callers' = callers
    BY <1>8 DEF listExpiredCb
  <2> QED BY <1>0, <2>2, <2>3, <2>4 DEF HeldOnce
<1>9. CASE Tick \/ UNCHANGED vars
  <2>1. UNCHANGED <<timers, m_timers, callers>>
    BY <1>9 DEF Tick, vars, managerVars
  <2> QED BY <2>1 DEF HeldOnce
<1> QED BY <1>1, <1>2, <1>3, <1>4, <1>5, <1>6, <1>7, <1>8, <1>9 DEF Next

-----------------------------------------------------------------------------
(* Cancelled timers                                                        *)

\* The callback of t was collected: it ran, or is about to.
Collected(t) == t \in ran \/ \E w \in Worker : t \in workers[w].cbs

\* A timer that was cancelled or ran lost its callback, unless it is a recurring one that ran; and
\* its place is not taken by a new one.
CancelledApart ==
  /\ \A t \in TimerId : timers[t].m_cb \/ t \in cancelled \/ Collected(t) => timers[t].born > 0
  /\ \A t \in TimerId : t \in cancelled => ~timers[t].m_cb
  /\ \A t \in TimerId : Collected(t) => ~timers[t].m_cb \/ timers[t].m_recurring
  /\ \A t \in TimerId : t \in cancelled /\ Collected(t) => timers[t].m_recurring
  /\ cancelled \subseteq TimerId

LEMMA CancelledApartInit == Init => CancelledApart
BY DEF Init, CancelledApart, Collected, NoTimer

LEMMA CancelledApartNext == Typed /\ HeldOnce /\ CancelledApart /\ [Next]_vars => CancelledApart'
<1> SUFFICES ASSUME Typed, HeldOnce, CancelledApart, [Next]_vars PROVE CancelledApart'
  OBVIOUS
<1>0. /\ timers \in [TimerId -> TimerState] /\ m_timers \subseteq TimerId
      /\ workers \in [Worker -> WorkerState]
      /\ clock > 0
  BY ClockIsNatural DEF Typed
<1>1. ASSUME NEW c \in Caller, AddTimer(c) \/ OnTimerInsertedAtFront(c) PROVE CancelledApart'
  <2>1. UNCHANGED <<timers, workers, cancelled, ran>>
    BY <1>1 DEF AddTimer, Insert, OnTimerInsertedAtFront, managerVars, historyVars
  <2> QED BY <2>1 DEF CancelledApart, Collected
<1>2. ASSUME NEW c \in Caller, NEW t \in TimerId, Create(c, t) PROVE CancelledApart'
  <2>1. t \notin cancelled /\ ~Collected(t)
    <3>1. timers[t].born = 0
      BY <1>2 DEF Create, NoTimer
    <3> QED BY <3>1 DEF CancelledApart
  <2>2. timers'[t].born = clock /\ \A u \in TimerId \ {t} : timers'[u] = timers[u]
    BY <1>0, <1>2 DEF Create
  <2>3. UNCHANGED <<workers, cancelled, ran>>
    BY <1>2 DEF Create, historyVars
  <2>4. \A u : Collected(u)' <=> Collected(u)
    BY <2>3 DEF Collected
  <2> QED BY <1>0, <2>1, <2>2, <2>3, <2>4 DEF CancelledApart
<1>3. ASSUME NEW c \in Caller, NEW t \in TimerId, Cancel(c, t) PROVE CancelledApart'
  <2>1. /\ timers'[t].m_cb = FALSE /\ timers'[t].born = timers[t].born
        /\ timers'[t].m_recurring = timers[t].m_recurring
        /\ \A u \in TimerId \ {t} : timers'[u] = timers[u]
    BY <1>0, <1>3 DEF Cancel, TimerState
  <2>2. \A u : Collected(u)' <=> Collected(u)
    BY <1>3 DEF Cancel, Collected
  <2>3. timers[t].m_cb /\ cancelled' = cancelled \union {t}
    BY <1>3 DEF Cancel
  <2> QED BY <2>1, <2>2, <2>3 DEF CancelledApart
<1>4. ASSUME NEW c \in Caller, NEW t \in TimerId, Refresh(c, t) \/ Reset(c, t) PROVE CancelledApart'
  <2>1. \A u \in TimerId :
          /\ timers'[u].m_cb = timers[u].m_cb /\ timers'[u].m_recurring = timers[u].m_recurring
          /\ timers'[u].born \in {timers[u].born, clock}
    <3>1. CASE Refresh(c, t)
      BY <1>0, <3>1 DEF Refresh, TimerState
    <3>2. CASE Reset(c, t)
      BY <1>0, <3>2 DEF Reset, Insert, TimerState
    <3> QED BY <1>4, <3>1, <3>2
  <2>2. UNCHANGED <<workers, cancelled, ran>>
    BY <1>4 DEF Refresh, Reset, historyVars
  <2>3. \A u : Collected(u)' <=> Collected(u)
    BY <2>2 DEF Collected
  <2> QED BY <1>0, <2>1, <2>2, <2>3 DEF CancelledApart
<1>5. ASSUME NEW w \in Worker, getNextTimer(w) \/ WakeUp(w) PROVE CancelledApart'
  <2>1. UNCHANGED <<timers, cancelled, ran>>
    BY <1>5 DEF getNextTimer, WakeUp, managerVars, historyVars
  <2>2. \A v \in Worker : workers'[v].cbs = workers[v].cbs
    <3>1. CASE getNextTimer(w)
      BY <1>0, <3>1 DEF getNextTimer, WorkerState
    <3>2. CASE WakeUp(w)
      BY <1>0, <3>2 DEF WakeUp, WorkerState
    <3> QED BY <1>5, <3>1, <3>2
  <2>3. \A u : Collected(u)' <=> Collected(u)
    BY <2>1, <2>2 DEF Collected
  <2> QED BY <2>1, <2>3 DEF CancelledApart
<1>6. ASSUME NEW w \in Worker, RunCallbacks(w) PROVE CancelledApart'
  <2>1. UNCHANGED <<timers, cancelled>> /\ ran' = ran \union workers[w].cbs
    BY <1>6 DEF RunCallbacks, managerVars
  <2>2. \A v \in Worker : workers'[v].cbs \subseteq workers[v].cbs
    BY <1>0, <1>6 DEF RunCallbacks, WorkerState
  <2>3. \A u : Collected(u)' => Collected(u)
    BY <2>1, <2>2 DEF Collected
  <2> QED BY <2>1, <2>3 DEF CancelledApart
<1>7. ASSUME NEW w \in Worker, listExpiredCb(w) PROVE CancelledApart'
  <2> DEFINE expired == Expired(workers[w].now_ms)
  <2>1. expired \subseteq m_timers
    BY DEF Expired
  <2>2. UNCHANGED <<cancelled, ran>> /\ workers'[w].cbs = expired
    BY <1>0, <1>7 DEF listExpiredCb, WorkerState
  <2>3. \A v \in Worker \ {w} : workers'[v] = workers[v]
    BY <1>0, <1>7 DEF listExpiredCb
  <2>4. \A u \in expired :
          /\ timers'[u].m_cb = TRUE => timers[u].m_recurring
          /\ timers'[u].m_recurring = timers[u].m_recurring
          /\ timers'[u].born \in {timers[u].born, clock}
    BY <1>0, <1>7, <2>1 DEF listExpiredCb, AfterExpiry, TimerState
  <2>5. \A u \in TimerId \ expired : timers'[u] = timers[u]
    BY <1>7 DEF listExpiredCb
  <2> HIDE DEF expired
  <2>6. \A u : Collected(u)' => Collected(u) \/ u \in expired
    BY <2>2, <2>3 DEF Collected
  <2>7. \A u \in expired : u \in TimerId /\ timers[u].m_cb /\ u \notin cancelled
    BY <1>0, <2>1 DEF HeldOnce, CancelledApart
  <2>8. timers' \in [TimerId -> TimerState]
    BY TypedNext DEF Typed
  <2> QED BY <1>0, <2>2, <2>4, <2>5, <2>6, <2>7, <2>8 DEF CancelledApart, TimerState
<1>8. CASE Tick \/ UNCHANGED vars
  <2>1. UNCHANGED <<timers, workers, cancelled, ran>>
    BY <1>8 DEF Tick, vars, managerVars, historyVars
  <2> QED BY <2>1 DEF CancelledApart, Collected
<1> QED BY <1>1, <1>2, <1>3, <1>4, <1>5, <1>6, <1>7, <1>8 DEF Next

-----------------------------------------------------------------------------
(* Sleeping workers                                                        *)

\* A thread is about to look at the timers, or to wake one that will.
SomeoneLooks ==
  pipe \/ (\E c \in Caller : callers[c].at = "tickle") \/ \E w \in Worker : workers[w].at # "asleep"

\* m_tickle, while which nobody tickles again, is not left behind by a tickle that woke nobody.
TickleMeansLooking == m_tickle => SomeoneLooks

LookInv == TickleMeansLooking /\ NoTimerIsOverslept

LEMMA LookInvInit == Init => LookInv
BY DEF Init, LookInv, TickleMeansLooking, NoTimerIsOverslept

\* Who looks, looks in time for every timer.
LEMMA LookingIsForAll ==
  ASSUME SomeoneLooks
  PROVE  TickleMeansLooking /\ NoTimerIsOverslept
BY DEF SomeoneLooks, TickleMeansLooking, NoTimerIsOverslept, WillLook

\* A worker that looked at the first timer sleeps past it by no more than the clock is wrong.
LEMMA SleepIsBounded ==
  ASSUME Typed, NEW next \in Nat
  PROVE  clock + Wait(next) <= clock \/ clock + Wait(next) <= next + ClockError
<1>1. /\ clock \in Nat /\ Elapsed(clock) \in Nat /\ ClockError \in Nat
      /\ clock <= Elapsed(clock) + ClockError
  BY ClockIsNatural, ElapsedIsBehind
<1>2. CASE Elapsed(clock) >= next
  BY <1>1, <1>2 DEF Wait, Never
<1>3. CASE Elapsed(clock) < next
  <2> DEFINE gap == next - Elapsed(clock)
  <2>1. gap \in Nat /\ MAX_TIMEOUT \in Nat
    BY <1>1, <1>3, TimerAssumption
  <2>2. Wait(next) = Min({gap, MAX_TIMEOUT})
    BY <1>1, <1>3 DEF Wait, Never
  <2>3. Wait(next) \in Nat /\ Wait(next) <= gap
    BY <2>1, <2>2, MinOfNaturals
  <2> QED BY <1>1, <2>1, <2>3
<1> QED BY <1>1, <1>2, <1>3

\* What is looked at in time for a timer is looked at in time for a later one.
LEMMA WillLookLater ==
  ASSUME Typed, NEW t \in TimerId, NEW u \in TimerId, timers[u].m_next <= timers[t].m_next, WillLook(u)
  PROVE  WillLook(t)
<1>1. timers[t].m_next \in Nat /\ timers[u].m_next \in Nat
  BY DEF Typed, TimerState
<1>2. ClockError \in Nat /\ \A w \in Worker : workers[w].until \in Nat
  BY ElapsedIsBehind DEF Typed, WorkerState
<1> QED BY <1>1, <1>2 DEF WillLook

\* A timer that addTimer puts in front is tickled for, and one that it does not is not the first.
LEMMA LookInvInsert ==
  ASSUME Typed, LookInv, Typed', NEW c \in Caller, NEW t \in TimerId, NEW with,
         callers[c].at # "tickle", Insert(c, t, with),
         \A u \in TimerId \ {t} : with[u].m_next = timers[u].m_next,
         UNCHANGED <<clock, workers, pipe, moved>>
  PROVE  LookInv'
<1>0. callers'[c].at = (IF IsAtFront(t, with) /\ ~m_tickle THEN "tickle" ELSE "ready")
      /\ \A d \in Caller \ {c} : callers'[d] = callers[d]
  BY DEF Insert, Ready, Typed
<1>1. SomeoneLooks => SomeoneLooks'
  BY <1>0 DEF SomeoneLooks
<1>2. CASE IsAtFront(t, with)
  <2>1. SomeoneLooks'
    <3>1. CASE m_tickle
      BY <1>1, <3>1 DEF LookInv, TickleMeansLooking
    <3>2. CASE ~m_tickle
      BY <1>0, <1>2, <3>2 DEF SomeoneLooks
    <3> QED BY <3>1, <3>2
  <2> QED BY <2>1 DEF SomeoneLooks, LookInv, TickleMeansLooking, NoTimerIsOverslept, WillLook
<1>3. CASE ~IsAtFront(t, with)
  <2>1. m_tickle' = m_tickle /\ timers' = with /\ m_timers' = m_timers \union {t}
    BY <1>3 DEF Insert, Typed
  <2>2. TickleMeansLooking'
    BY <1>1, <2>1 DEF LookInv, TickleMeansLooking
  <2>3. ASSUME NEW u \in m_timers \ {t}, WillLook(u) PROVE WillLook(u)'
    <3>1. timers'[u].m_next = timers[u].m_next
      BY <2>1 DEF Typed
    <3>2. CASE SomeoneLooks
      BY <1>1, <3>2 DEF SomeoneLooks, WillLook
    <3>3. CASE ~SomeoneLooks
      BY <2>3, <3>1, <3>3 DEF SomeoneLooks, WillLook
    <3> QED BY <3>2, <3>3
  <2>4. PICK u \in m_timers \ {t} : ~(with[t].m_next <= with[u].m_next)
    BY <1>3 DEF IsAtFront
  <2>5. u \in TimerId /\ with[u].m_next \in Nat /\ with[t].m_next \in Nat
    BY <2>1, <2>4 DEF Typed, TimerState
  <2>6. WillLook(u)' => WillLook(t)'
    <3>1. timers'[u].m_next <= timers'[t].m_next
      BY <2>1, <2>4, <2>5
    <3>2. ClockError \in Nat /\ \A w \in Worker : workers'[w].until \in Nat
      BY ElapsedIsBehind DEF Typed, WorkerState
    <3> QED BY <2>1, <2>5, <3>1, <3>2 DEF WillLook
  <2>7. NoTimerIsOverslept'
    BY <2>1, <2>3, <2>4, <2>6 DEF LookInv, NoTimerIsOverslept
  <2> QED BY <2>2, <2>7 DEF LookInv
<1> QED BY <1>2, <1>3

LEMMA LookInvNext == Typed /\ HeldOnce /\ LookInv /\ [Next]_vars => LookInv'
<1> SUFFICES ASSUME Typed, HeldOnce, LookInv, [Next]_vars PROVE LookInv'
  OBVIOUS
<1>0. Typed'
  BY TypedNext
<1>t. /\ timers \in [TimerId -> TimerState] /\ m_timers \subseteq TimerId
      /\ callers \in [Caller -> CallerState] /\ workers \in [Worker -> WorkerState]
  BY DEF Typed
<1>1. ASSUME NEW c \in Caller, AddTimer(c) PROVE LookInv'
  <2>1. PICK t \in callers[c].timer : Insert(c, t, timers)
    BY <1>1 DEF AddTimer
  <2>2. t \in TimerId /\ callers[c].at # "tickle" /\ UNCHANGED <<clock, workers, pipe, moved>>
    BY <1>1, <1>t DEF AddTimer, CallerState, historyVars
  <2> QED BY <1>0, <2>1, <2>2, LookInvInsert
<1>2. ASSUME NEW c \in Caller, OnTimerInsertedAtFront(c) PROVE LookInv'
  <2>1. pipe' \/ \A w \in Worker : workers'[w].at = "busy"
    BY <1>2 DEF OnTimerInsertedAtFront, tickle
  <2>2. SomeoneLooks'
    BY <2>1, TimerAssumption DEF SomeoneLooks
  <2> QED BY <2>2 DEF SomeoneLooks, LookInv, TickleMeansLooking, NoTimerIsOverslept, WillLook
<1>3. ASSUME NEW c \in Caller, NEW t \in TimerId, Create(c, t) PROVE LookInv'
  <2>1. t \notin m_timers
    BY <1>3 DEF Create, HeldOnce, NoTimer
  <2>2. \A u \in m_timers : timers'[u] = timers[u]
    BY <1>3, <1>t, <2>1 DEF Create
  <2>3. \A d \in Caller : callers[d].at = "tickle" => callers'[d].at = "tickle"
    BY <1>3, <1>t DEF Create
  <2>4. UNCHANGED <<clock, m_timers, m_tickle, pipe, workers, moved>>
    BY <1>3 DEF Create, historyVars
  <2> QED BY <2>2, <2>3, <2>4 DEF LookInv, TickleMeansLooking, SomeoneLooks, NoTimerIsOverslept, WillLook
<1>4. ASSUME NEW c \in Caller, NEW t \in TimerId, Cancel(c, t) PROVE LookInv'
  <2>1. \A u \in TimerId : timers'[u].m_next = timers[u].m_next
    BY <1>4, <1>t DEF Cancel, TimerState
  <2>2. UNCHANGED <<clock, m_tickle, pipe, workers, callers, moved>> /\ m_timers' \subseteq m_timers
    BY <1>4 DEF Cancel
  <2> QED BY <1>t, <2>1, <2>2
       DEF LookInv, TickleMeansLooking, SomeoneLooks, NoTimerIsOverslept, WillLook
<1>5. ASSUME NEW c \in Caller, NEW t \in TimerId, Refresh(c, t) PROVE LookInv'
  <2>1. \A u \in TimerId \ {t} : timers'[u] = timers[u]
    BY <1>5, <1>t DEF Refresh
  <2>2. UNCHANGED <<clock, m_timers, m_tickle, pipe, workers, callers>>
    BY <1>5 DEF Refresh
  <2>3. timers[t].m_next \in Nat /\ timers'[t].m_next \in Nat
    BY <1>0 DEF Typed, TimerState
  <2>4. ~moved' => ~moved /\ timers[t].m_next <= timers'[t].m_next
    <3>1. moved' = (moved \/ timers'[t].m_next < timers[t].m_next)
      BY <1>5, Zenon DEF Refresh
    <3>2. ~moved' => ~moved /\ ~(timers'[t].m_next < timers[t].m_next)
      BY <3>1, Zenon
    <3> QED BY <2>3, <3>2
  <2>5. ClockError \in Nat /\ \A w \in Worker : workers[w].until \in Nat
    BY <1>t, ElapsedIsBehind DEF WorkerState
  <2>6. ASSUME ~moved', NEW u \in m_timers PROVE WillLook(u)'
    <3>1. WillLook(u)
      BY <2>4, <2>6 DEF LookInv, NoTimerIsOverslept
    <3>2. CASE u = t
      BY <2>2, <2>3, <2>4, <2>5, <2>6, <3>1, <3>2 DEF WillLook
    <3>3. CASE u # t
      BY <1>t, <2>1, <2>2, <3>1, <3>3 DEF WillLook
    <3> QED BY <3>2, <3>3
  <2> QED BY <2>2, <2>6 DEF LookInv, TickleMeansLooking, SomeoneLooks, NoTimerIsOverslept
<1>6. ASSUME NEW c \in Caller, NEW t \in TimerId, Reset(c, t) PROVE LookInv'
  <2>1. PICK with :
          /\ Insert(c, t, with)
          /\ \A u \in TimerId \ {t} : with[u] = timers[u]
    <3>1. PICK ms \in Periods, from_now \in BOOLEAN :
            Insert(c, t, [timers EXCEPT
              ![t].m_ms = ms,
              ![t].m_next = (IF from_now THEN Elapsed(clock) ELSE timers[t].m_next - timers[t].m_ms) + ms,
              ![t].born = IF from_now THEN clock ELSE @])
      BY <1>6, Zenon DEF Reset
    <3> DEFINE with == [timers EXCEPT
              ![t].m_ms = ms,
              ![t].m_next = (IF from_now THEN Elapsed(clock) ELSE timers[t].m_next - timers[t].m_ms) + ms,
              ![t].born = IF from_now THEN clock ELSE @]
    <3>2. \A u \in TimerId \ {t} : with[u] = timers[u]
      BY <1>t
    <3> QED BY <3>1, <3>2, Zenon
  <2>2. callers[c].at # "tickle" /\ UNCHANGED <<clock, workers, pipe, moved>>
    BY <1>6 DEF Reset, historyVars
  <2> QED BY <1>0, <2>1, <2>2, LookInvInsert
<1>7. ASSUME NEW w \in Worker, getNextTimer(w) PROVE LookInv'
  <2>1. ~m_tickle' /\ UNCHANGED <<timers, m_timers>>
    BY <1>7 DEF getNextTimer
  <2>2. ASSUME NEW t \in m_timers PROVE WillLook(t)'
    <3>1. workers'[w].until = clock + Wait(FirstNext) /\ clock' = clock /\ clock \in Nat
      BY <1>7, <1>t, <2>2, ClockIsNatural DEF getNextTimer, WorkerState
    <3>2. FirstNext \in Nat /\ FirstNext <= timers[t].m_next /\ timers[t].m_next \in Nat
      BY <1>t, <2>2, FirstNextIsFirst DEF TimerState
    <3>3. Wait(FirstNext) \in Nat /\ ClockError \in Nat
      BY <3>1, <3>2, WaitIsNatural, ElapsedIsBehind
    <3>4. clock + Wait(FirstNext) <= clock \/ clock + Wait(FirstNext) <= FirstNext + ClockError
      BY <3>2, SleepIsBounded
    <3>5. workers'[w].until <= clock' \/ workers'[w].until <= timers'[t].m_next + ClockError
      BY <2>1, <3>1, <3>2, <3>3, <3>4
    <3> QED BY <3>5 DEF WillLook
  <2> QED BY <2>1, <2>2 DEF LookInv, TickleMeansLooking, NoTimerIsOverslept
<1>8. ASSUME NEW w \in Worker, WakeUp(w) \/ listExpiredCb(w) \/ RunCallbacks(w) PROVE LookInv'
  <2>1. workers'[w].at # "asleep"
    BY <1>8, <1>t DEF WakeUp, listExpiredCb, RunCallbacks, WorkerState
  <2> QED BY <2>1 DEF SomeoneLooks, LookInv, TickleMeansLooking, NoTimerIsOverslept, WillLook
<1>9. CASE Tick \/ UNCHANGED vars
  <2>1. UNCHANGED <<timers, m_timers, m_tickle, pipe, workers, callers, moved>>
    BY <1>9 DEF Tick, vars, managerVars, historyVars
  <2>2. clock \in Nat /\ clock' \in Nat /\ clock <= clock'
    BY <1>9, ClockIsNatural DEF Tick, vars
  <2>3. \A w \in Worker : workers[w].until \in Nat
    BY <1>t DEF WorkerState
  <2>4. \A w \in Worker : workers[w].until <= clock => workers'[w].until <= clock'
    BY <2>1, <2>2, <2>3
  <2> QED BY <2>1, <2>4 DEF LookInv, TickleMeansLooking, SomeoneLooks, NoTimerIsOverslept, WillLook
<1> QED BY <1>1, <1>2, <1>3, <1>4, <1>5, <1>6, <1>7, <1>8, <1>9 DEF Next

-----------------------------------------------------------------------------
(* The theorems                                                            *)

IInv == Typed /\ HeldOnce /\ CancelledApart /\ LookInv

\* The inductive invariant holds throughout: the types of timer.hpp's fields, who holds a timer,
\* what cancel() leaves and what m_tickle stands for.
THEOREM IInvHolds == Spec => []IInv
<1>1. Init => IInv
  BY TypedInit, HeldOnceInit, CancelledApartInit, LookInvInit DEF IInv
<1>2. IInv /\ [Next]_vars => IInv'
  BY TypedNext, HeldOnceNext, CancelledApartNext, LookInvNext DEF IInv
<1> QED BY <1>1, <1>2, PTL DEF Spec

\* Every field of the timers, of TimerManager and of the threads that use it has its type, and the
\* set only holds timers that have a callback, which cancel and listExpiredCb take away.
THEOREM TypeCorrect == Spec => []TypeOK
<1>1. IInv => TypeOK
  <2> SUFFICES ASSUME IInv PROVE TypeOK
    OBVIOUS
  <2>1. \A t \in TimerId : timers[t] \in TimerState
    BY DEF IInv, Typed
  <2>2. \A w \in Worker : workers[w] \in WorkerState
    BY DEF IInv, Typed
  <2>3. \A c \in Caller : callers[c] \in CallerState
    BY DEF IInv, Typed
  <2> QED BY <2>1, <2>2, <2>3
       DEF IInv, Typed, HeldOnce, TypeOK, TimerState, WorkerState, CallerState
<1> QED BY <1>1, IInvHolds, PTL

\* The callback of a timer whose cancel() returned true never runs, however cancel, the expiry and
\* the run of what was collected interleave, unless the timer is a recurring one.
THEOREM CancelIsFinal == Spec => []CancelledNeverRuns
<1>1. IInv => CancelledNeverRuns
  BY DEF IInv, CancelledApart, Collected, CancelledNeverRuns
<1> QED BY <1>1, IInvHolds, PTL

\* Some worker looks at the timers at the latest ClockError after the time of any of them, unless
\* refresh moved one ahead: what addTimer and getNextTimer do with m_tickle loses no tickle, and a
\* sleep is too long by no more than GetElapsedMs is behind, whatever the number of threads.
THEOREM NobodyOversleeps == Spec => []NoTimerIsOverslept
<1>1. IInv => NoTimerIsOverslept
  BY DEF IInv, LookInv
<1> QED BY <1>1, IInvHolds, PTL

====
