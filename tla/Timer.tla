---- MODULE Timer ----
(***************************************************************************)
(* src/src/fiber/timer.cpp with the clock of utils.hpp: timers ordered by  *)
(* their time, workers that sleep until the first one, and other threads   *)
(* that add, cancel, refresh and reset timers.  The unit of time is a      *)
(* TicksPerSecond-th of a second instead of a millisecond.                 *)
(***************************************************************************)
EXTENDS Integers, FiniteSets, FiniteSetsExt

CONSTANTS
  Worker, Caller, TimerId,
  TicksPerSecond,  \* 1000 in the code
  Hour,            \* 60 * 60 * 1000 in the code
  MAX_TIMEOUT,     \* 5000 in the code
  Periods,         \* the m_ms of timers
  StartTime,       \* when the program starts, in ticks since the machine did
  MaxTime          \* bound: ticks a behaviour lasts

ASSUME TimerAssumption ==
  /\ TicksPerSecond \in Nat \ {0} /\ Hour \in Nat /\ MAX_TIMEOUT \in Nat
  /\ MaxTime \in Nat /\ Periods \subseteq Nat
  /\ StartTime \in Nat /\ StartTime >= TicksPerSecond
  /\ Worker # {}

VARIABLES
  clock,           \* ticks since the machine started
  timers,          \* timers[t]: m_next, m_ms, m_recurring, m_cb (has one); history: born
  m_timers,        \* those in the set
  m_tickle,
  m_previousTime,
  pipe,            \* a tickle that woke nobody yet
  workers,         \* workers[w]: where w is, when it wakes at the latest, the time it read, its callbacks
  callers,         \* callers[c]: where c is
  cancelled,       \* history: timers whose cancel() returned true
  ran,             \* history: timers whose callback ran
  moved,           \* history: refresh moved a timer ahead since a worker asked for the first one
  early            \* history: timers collected before their time

managerVars == <<timers, m_timers, m_tickle, m_previousTime>>
historyVars == <<cancelled, ran, moved, early>>
vars == <<clock, managerVars, pipe, workers, callers, historyVars>>

\* GetElapsedMs: seconds * 1000 - nanoseconds / 1000000.
Elapsed(t) == (t \div TicksPerSecond) * TicksPerSecond - (t % TicksPerSecond)

Never == -1  \* ~0ull
NoTimer == [m_next |-> 0, m_ms |-> 0, m_recurring |-> FALSE, m_cb |-> FALSE, born |-> 0]
Ready(at) == [at |-> at, timer |-> {}]

Init ==
  /\ clock = StartTime
  /\ timers = [t \in TimerId |-> NoTimer]
  /\ m_timers = {} /\ m_tickle = FALSE
  /\ m_previousTime = Elapsed(clock)
  /\ pipe = FALSE
  /\ workers = [w \in Worker |-> [at |-> "next", until |-> 0, now_ms |-> 0, cbs |-> {}]]
  /\ callers = [c \in Caller |-> Ready("ready")]
  /\ cancelled = {} /\ ran = {} /\ moved = FALSE /\ early = {}

-----------------------------------------------------------------------------

\* m_timers.begin(): the first by m_next; which of equal ones makes no difference.
FirstNext == Min({timers[t].m_next : t \in m_timers})

\* IOManager::tickle, which OnTimerInsertedAtFront calls: only if a worker is in idle().
tickle == pipe' = (pipe \/ \E w \in Worker : workers[w].at # "busy")

\* addTimer(val, lock), for timers that are val in `with'.
IsAtFront(t, with) == \A u \in m_timers \ {t} : with[t].m_next <= with[u].m_next
Insert(c, t, with) ==
  /\ timers' = with
  /\ m_timers' = m_timers \union {t}
  /\ m_tickle' = (m_tickle \/ IsAtFront(t, with))
  /\ callers' = [callers EXCEPT ![c] = Ready(IF IsAtFront(t, with) /\ ~m_tickle THEN "tickle" ELSE "ready")]

\* addTimer(ms, cb, recurring): the time is read before the lock is taken.
Create(c, t) == \E ms \in Periods, recurring \in BOOLEAN :
  /\ callers[c].at = "ready" /\ timers[t] = NoTimer
  /\ timers' = [timers EXCEPT ![t] =
       [m_next |-> Elapsed(clock) + ms, m_ms |-> ms, m_recurring |-> recurring, m_cb |-> TRUE,
        born |-> clock]]
  /\ callers' = [callers EXCEPT ![c] = [at |-> "insert", timer |-> {t}]]
  /\ UNCHANGED <<clock, m_timers, m_tickle, m_previousTime, pipe, workers, historyVars>>

AddTimer(c) == \E t \in callers[c].timer :
  /\ callers[c].at = "insert"
  /\ Insert(c, t, timers)
  /\ UNCHANGED <<clock, m_previousTime, pipe, workers, historyVars>>

OnTimerInsertedAtFront(c) ==
  /\ callers[c].at = "tickle"
  /\ tickle
  /\ callers' = [callers EXCEPT ![c] = Ready("ready")]
  /\ UNCHANGED <<clock, managerVars, workers, historyVars>>

Cancel_Mutant(c, t) ==
  /\ callers[c].at = "ready" /\ timers[t].m_cb
  /\ \A d \in Caller : t \notin callers[d].timer
  /\ timers' = [timers EXCEPT ![t].m_cb = FALSE]
  /\ cancelled' = cancelled \union {t}
  /\ UNCHANGED <<clock, m_timers, m_tickle, m_previousTime, pipe, workers, callers, ran, moved, early>>
Cancel(c, t) ==
  /\ callers[c].at = "ready" /\ timers[t].m_cb
  /\ \A d \in Caller : t \notin callers[d].timer
  /\ timers' = [timers EXCEPT ![t].m_cb = FALSE]
  /\ m_timers' = m_timers \ {t}
  /\ cancelled' = cancelled \union {t}
  /\ UNCHANGED <<clock, m_tickle, m_previousTime, pipe, workers, callers, ran, moved, early>>

\* refresh does not go through addTimer.
Refresh(c, t) ==
  /\ callers[c].at = "ready" /\ timers[t].m_cb /\ t \in m_timers
  /\ timers' = [timers EXCEPT ![t].m_next = Elapsed(clock) + timers[t].m_ms, ![t].born = clock]
  /\ moved' = (moved \/ timers'[t].m_next < timers[t].m_next)
  /\ UNCHANGED <<clock, m_timers, m_tickle, m_previousTime, pipe, workers, callers, cancelled, ran, early>>

Reset(c, t) == \E ms \in Periods, from_now \in BOOLEAN :
  LET start == IF from_now THEN Elapsed(clock) ELSE timers[t].m_next - timers[t].m_ms IN
  /\ callers[c].at = "ready" /\ timers[t].m_cb /\ t \in m_timers
  /\ timers[t].m_ms # ms \/ from_now
  /\ Insert(c, t, [timers EXCEPT ![t].m_ms = ms, ![t].m_next = start + ms,
                                 ![t].born = IF from_now THEN clock ELSE @])
  /\ UNCHANGED <<clock, m_previousTime, pipe, workers, historyVars>>

-----------------------------------------------------------------------------
(* A worker in idle()                                                      *)

Wait(next) ==
  LET now == Elapsed(clock) IN
  IF next = Never THEN MAX_TIMEOUT
  ELSE IF now >= next THEN 0
  ELSE Min({next - now, MAX_TIMEOUT})

getNextTimer_Mutant(w) ==
  LET next == IF m_timers = {} THEN Never ELSE FirstNext IN
  /\ workers[w].at = "next"
  /\ workers' = [workers EXCEPT ![w].at = "asleep", ![w].until = clock + Wait(next)]
  /\ moved' = FALSE
  /\ UNCHANGED <<clock, managerVars, pipe, callers, cancelled, ran, early>>
getNextTimer(w) ==
  LET next == IF m_timers = {} THEN Never ELSE FirstNext IN
  /\ workers[w].at = "next"
  /\ m_tickle' = FALSE
  /\ workers' = [workers EXCEPT ![w].at = "asleep", ![w].until = clock + Wait(next)]
  /\ moved' = FALSE
  /\ UNCHANGED <<clock, timers, m_timers, m_previousTime, pipe, callers, cancelled, ran, early>>

WakeUp(w) ==
  /\ workers[w].at = "asleep" /\ (pipe \/ clock >= workers[w].until)
  /\ pipe' = FALSE
  /\ workers' = [workers EXCEPT ![w].at = "list", ![w].until = 0, ![w].now_ms = Elapsed(clock)]
  /\ UNCHANGED <<clock, managerVars, callers, historyVars>>

\* m_previousTime - Hour is unsigned: below an hour it wraps, and nothing is above it.
detectClockRollover(now_ms) ==
  now_ms < m_previousTime /\ (m_previousTime < Hour \/ now_ms < m_previousTime - Hour)

Expired(now_ms) ==
  IF detectClockRollover(now_ms) THEN m_timers ELSE {t \in m_timers : timers[t].m_next <= now_ms}

AfterExpiry_Mutant(t, now_ms) ==
  IF timers[t].m_recurring THEN [timers[t] EXCEPT !.m_next = now_ms + timers[t].m_ms] ELSE timers[t]
AfterExpiry(t, now_ms) ==
  IF timers[t].m_recurring
  THEN [timers[t] EXCEPT !.m_next = now_ms + timers[t].m_ms, !.born = clock]
  ELSE [timers[t] EXCEPT !.m_cb = FALSE]

\* The time was read before the lock was taken.  With no timer the clock is not looked at.
listExpiredCb(w) ==
  LET now_ms == workers[w].now_ms  expired == Expired(now_ms) IN
  /\ workers[w].at = "list"
  /\ m_previousTime' = IF m_timers = {} THEN m_previousTime ELSE now_ms
  /\ timers' = [t \in TimerId |-> IF t \in expired THEN AfterExpiry(t, now_ms) ELSE timers[t]]
  /\ m_timers' = m_timers \ {t \in expired : ~timers[t].m_recurring}
  /\ early' = early \union {t \in expired : clock < timers[t].born + timers[t].m_ms}
  /\ workers' = [workers EXCEPT ![w].at = "busy", ![w].now_ms = 0, ![w].cbs = expired]
  /\ UNCHANGED <<clock, m_tickle, pipe, callers, cancelled, ran, moved>>

\* The callbacks are tasks; then the worker is idle again.
RunCallbacks(w) ==
  /\ workers[w].at = "busy"
  /\ ran' = ran \union workers[w].cbs
  /\ workers' = [workers EXCEPT ![w].at = "next", ![w].cbs = {}]
  /\ UNCHANGED <<clock, managerVars, pipe, callers, cancelled, moved, early>>

Tick ==
  /\ clock < StartTime + MaxTime
  /\ clock' = clock + 1
  /\ UNCHANGED <<managerVars, pipe, workers, callers, historyVars>>

-----------------------------------------------------------------------------

Next ==
  \/ \E c \in Caller : AddTimer(c) \/ OnTimerInsertedAtFront(c)
                       \/ \E t \in TimerId : Create(c, t) \/ Cancel(c, t) \/ Refresh(c, t) \/ Reset(c, t)
  \/ \E w \in Worker : getNextTimer(w) \/ WakeUp(w) \/ listExpiredCb(w) \/ RunCallbacks(w)
  \/ Tick

Spec == Init /\ [][Next]_vars

-----------------------------------------------------------------------------
(* Properties                                                              *)

\* The values of the variables; a timer of the set has a callback, and a history.
TypeOK ==
  /\ clock \in StartTime .. StartTime + MaxTime
  /\ m_timers \subseteq {t \in TimerId : timers[t].m_cb}
  /\ m_tickle \in BOOLEAN /\ pipe \in BOOLEAN
  /\ m_previousTime \in Int
  /\ \A t \in TimerId :
       /\ timers[t].m_ms \in Periods \union {0} /\ timers[t].m_next \in Int
       /\ timers[t].m_recurring \in BOOLEAN /\ timers[t].m_cb \in BOOLEAN
  /\ \A w \in Worker :
       workers[w].at \in {"next", "asleep", "list", "busy"} /\ workers[w].cbs \subseteq TimerId
  /\ \A c \in Caller : callers[c].at \in {"ready", "insert", "tickle"}

\* What GetElapsedMs is behind the clock at most: it falls within a second and leaps at its end.
ClockError == 2 * (TicksPerSecond - 1)

\* Some thread looks at m_timers, or does so at the latest ClockError after the time of t.
WillLook(t) ==
  \/ pipe \/ \E c \in Caller : callers[c].at = "tickle"
  \/ \E w \in Worker :
       \/ workers[w].at # "asleep" \/ workers[w].until <= clock
       \/ workers[w].until <= timers[t].m_next + ClockError

\* The workers never all sleep past a timer that addTimer or reset inserted by more than ClockError
\* (two seconds), whatever the order of the insertion, m_tickle, the tickle and getNextTimer.  They
\* do sleep past it: a worker that reads the time late in a second takes the timer for further away
\* than it is.  And refresh tickles nobody: once it moved a timer ahead, which a clock that goes
\* back lets it do, nothing is promised until a worker looks.
NoTimerIsOverslept == moved \/ \A t \in m_timers : WillLook(t)

\* cancel() returns true only for a timer (other than a recurring one) whose callback never runs.
CancelledNeverRuns == \A t \in cancelled \intersect ran : timers[t].m_recurring

\* timer.hpp calls m_next the "exact time of execution": no callback is collected before its time.
NotEarly == early = {}

====
