---- MODULE HookProofs ----
(***************************************************************************)
(* Proofs about fibers, their calls and their scheduler (Hook, IOManager,  *)
(* Scheduler), for any fibers, descriptors, calls and bounds: a fiber is   *)
(* resumed by one thing, the counters count what they should, and, with    *)
(* one worker, stop() returns with everything done and no assertion fails  *)
(* but those that sharing a descriptor breaks.                             *)
(***************************************************************************)
EXTENDS Hook, SequenceTheorems, FiniteSetTheorems, TLAPS

-----------------------------------------------------------------------------
(* The inductive invariant: types                                          *)

AllCalls == UNION {Calls(n) : n \in 1 .. MaxCalls}
RealTasks == [kind : {"fiber", "wake", "timeout"}, fiber : Fiber, call : 0 .. MaxCalls]
Callbacks == [kind : {"wake", "timeout"}, fiber : Fiber, call : 0 .. MaxCalls]
Reports == [fd : Fd, events : SUBSET (Event \union {"HUP"})]

WorkerPlaces ==
  {"take", "tickle", "begin", "run", "finish", "empty", "timers", "pending", "stopping", "wait",
   "expire", "events", "leave", "exited"}
WorkerType ==
  [at : WorkerPlaces, task : RealTasks \union {NoTask}, cbs : SUBSET Callbacks,
   events : SUBSET Reports, idleTerm : BOOLEAN]

InCall == {"try", "add", "yield", "woken", "sleep", "close", "socket"}
FiberType ==
  [state : {"READY", "RUNNING", "TERM"}, at : InCall \union {"start", "returned", "end"},
   call : SUBSET AllCalls, calls : 0 .. MaxCalls, cancelled : BOOLEAN]

ContextType == [events : SUBSET Event, waiter : [Event -> Fiber \union {NoFiber}]]
EpollType == [in : BOOLEAN, mask : SUBSET Event, signalled : BOOLEAN]
SocketType == [open : BOOLEAN, ready : SUBSET Event, hup : BOOLEAN]
OwnerPlaces == {"ready", "tickle", "stop", "join", "joined"}

SchedulerTyped ==
  /\ m_tasks \in Seq(RealTasks) /\ m_isStopped \in BOOLEAN /\ m_tickleFds \in BOOLEAN
  /\ workers \in [Worker -> WorkerType]
  /\ fibers \in [Fiber -> FiberType]
  /\ owner \in [at : OwnerPlaces, scheduled : SUBSET Fiber]

IoTyped ==
  /\ m_fdContexts \in [Fd -> ContextType]
  /\ epoll \in [Fd -> EpollType]
  /\ sockets \in [Fd -> SocketType]
  /\ timers \subseteq Callbacks /\ due \subseteq timers

Active(w) == workers[w].at \in {"tickle", "begin", "run", "finish"}
Idle(w) ==
  workers[w].at \in {"timers", "pending", "stopping", "wait", "expire", "events", "leave"}

Counted ==
  /\ m_activeThreadCount = Cardinality({w \in Worker : Active(w)})
  /\ m_idleThreadCount = Cardinality({w \in Worker : Idle(w)})

Typed == SchedulerTyped /\ IoTyped

-----------------------------------------------------------------------------
(* The inductive invariant: who runs and who waits                         *)

IsRunBy(f, w) == workers[w].at = "run" /\ workers[w].task.fiber = f

\* A fiber is RUNNING on one worker, and is in a call or between two where it should be.
RunByOne ==
  /\ \A w \in Worker :
       /\ workers[w].at \in {"tickle", "begin"} => workers[w].task \in RealTasks
       /\ workers[w].at = "run" =>
            /\ workers[w].task \in RealTasks /\ workers[w].task.kind = "fiber"
            /\ fibers[workers[w].task.fiber].state = "RUNNING"
  /\ \A f \in Fiber : \A v, w \in Worker : IsRunBy(f, v) /\ IsRunBy(f, w) => v = w
  /\ \A f \in Fiber :
       /\ fibers[f].state = "RUNNING" => \E w \in Worker : IsRunBy(f, w)
       /\ fibers[f].state = "READY" => fibers[f].at \in {"start", "woken"}
       /\ fibers[f].at \in InCall => fibers[f].call # {}

\* Callbacks are in a worker's hands only while it schedules them.
CollectedOnce ==
  \A w \in Worker :
    /\ workers[w].at # "events" => workers[w].cbs = {}
    /\ \A c, d \in workers[w].cbs : c.kind = "wake" /\ d.kind = "wake" /\ c.fiber = d.fiber => c = d

\* A registered event has a waiter.
Registered ==
  \A fd \in Fd : \A e \in m_fdContexts[fd].events : m_fdContexts[fd].waiter[e] # NoFiber

Pending == IsFiniteSet(Waiters) /\ PendingCountsWaiters

-----------------------------------------------------------------------------
(* The inductive invariant: what will run a fiber                          *)

InQueue(f) == {n \in DOMAIN m_tasks : m_tasks[n].fiber = f /\ m_tasks[n].kind # "timeout"}
AsWaiter(f) == {p \in Waiters : m_fdContexts[p[1]].waiter[p[2]] = f}
Sleeping(f) == {task \in timers : task.fiber = f /\ task.kind = "wake"}
Expired(f) == {w \in Worker : \E task \in workers[w].cbs : task.fiber = f /\ task.kind = "wake"}
Held(f) ==
  {w \in Worker :
     /\ workers[w].task.fiber = f
     /\ \/ workers[w].task.kind = "wake" /\ workers[w].at \in {"tickle", "begin"}
        \/ workers[w].task.kind = "fiber" /\ workers[w].at \in {"tickle", "begin", "run"}
           /\ ~(workers[w].at = "run" /\ fibers[f].at = "yield")}

Single(S) == S # {} /\ \A x, y \in S : x = y

NoneRuns(f) ==
  InQueue(f) = {} /\ AsWaiter(f) = {} /\ Sleeping(f) = {} /\ Expired(f) = {} /\ Held(f) = {}

OneRuns(f) ==
  \/ Single(InQueue(f)) /\ AsWaiter(f) = {} /\ Sleeping(f) = {} /\ Expired(f) = {} /\ Held(f) = {}
  \/ InQueue(f) = {} /\ Single(AsWaiter(f)) /\ Sleeping(f) = {} /\ Expired(f) = {} /\ Held(f) = {}
  \/ InQueue(f) = {} /\ AsWaiter(f) = {} /\ Single(Sleeping(f)) /\ Expired(f) = {} /\ Held(f) = {}
  \/ InQueue(f) = {} /\ AsWaiter(f) = {} /\ Sleeping(f) = {} /\ Single(Expired(f)) /\ Held(f) = {}
  \/ InQueue(f) = {} /\ AsWaiter(f) = {} /\ Sleeping(f) = {} /\ Expired(f) = {} /\ Single(Held(f))

IsLive(f) == f \in owner.scheduled /\ fibers[f].state # "TERM"

Runner(f) ==
  /\ IF IsLive(f) THEN OneRuns(f) ELSE NoneRuns(f)
  /\ fibers[f].state = "TERM" => f \in owner.scheduled

RunnersInv == \A f \in Fiber : Runner(f)

IInv == Typed /\ Counted /\ RunByOne /\ CollectedOnce /\ Registered /\ Pending /\ RunnersInv

-----------------------------------------------------------------------------
(* With one worker                                                         *)

OneWorker == \E w : Worker = {w}

Stopped ==
  /\ m_isStopped <=> owner.at \in {"stop", "join", "joined"}
  /\ m_isStopped => owner.scheduled = Fiber
  /\ owner.at = "joined" => \A w \in Worker : workers[w].at = "exited"

Quiet(w) ==
  /\ workers[w].at \in {"pending", "stopping"} => timers = {}
  /\ workers[w].at = "stopping" => Waiters = {}
  /\ workers[w].idleTerm =>
       /\ m_isStopped /\ m_tasks = <<>> /\ timers = {} /\ Waiters = {}
       /\ workers[w].at \in {"leave", "take", "exited"}
  /\ workers[w].at = "exited" => workers[w].idleTerm

StopInv == Stopped /\ \A w \in Worker : Quiet(w)

\* At most one fiber waits on a descriptor, for the event that is registered and in the mask.
LoneWaiters ==
  \A fd \in Fd :
    /\ \A e \in Event : m_fdContexts[fd].waiter[e] # NoFiber <=> e \in m_fdContexts[fd].events
    /\ \A d, e \in m_fdContexts[fd].events : d = e
    /\ epoll[fd].mask \subseteq m_fdContexts[fd].events

\* What epoll reported is still registered.
ReportsStand ==
  \A w \in Worker :
    /\ \A r \in workers[w].events : r.events \ {"HUP"} \subseteq m_fdContexts[r.fd].events
    /\ \A r, s \in workers[w].events : r.fd = s.fd => r = s
    /\ workers[w].at \notin {"expire", "events"} => workers[w].events = {}

AloneInv == ~shared => ~panic /\ LoneWaiters /\ ReportsStand

-----------------------------------------------------------------------------
(* Types                                                                   *)

LEMMA TaskOfQueue ==
  ASSUME m_tasks \in Seq(RealTasks), m_tasks # <<>>
  PROVE  Head(m_tasks) \in RealTasks /\ Tail(m_tasks) \in Seq(RealTasks)
OBVIOUS

LEMMA TickleTyped ==
  ASSUME m_tickleFds \in BOOLEAN, tickle
  PROVE  m_tickleFds' \in BOOLEAN
BY Zenon DEF tickle

LEMMA NoTaskIs == NoTask.kind = "none" /\ NoTask \notin RealTasks
BY DEF NoTask, Task, RealTasks

LEMMA SchedulerIs ==
  ASSUME SchedulerTyped, NEW task \in RealTasks, scheduler(task)
  PROVE  m_tasks' = Append(m_tasks, task) /\ m_tasks' \in Seq(RealTasks) /\ m_tickleFds' \in BOOLEAN
<1>1. m_tasks' = Append(m_tasks, task) /\ m_tasks' \in Seq(RealTasks)
  BY DEF SchedulerTyped, scheduler
<1>2. m_tickleFds' \in BOOLEAN
  BY TickleTyped DEF SchedulerTyped, scheduler
<1> QED BY <1>1, <1>2

LEMMA FiberTaskIs ==
  ASSUME NEW f \in Fiber
  PROVE  FiberTask(f) \in RealTasks /\ FiberTask(f).kind = "fiber" /\ FiberTask(f).fiber = f
BY HookAssumption DEF FiberTask, Task, RealTasks

LEMMA CallIs ==
  ASSUME SchedulerTyped, NEW f \in Fiber, fibers[f].call # {}
  PROVE  /\ CallOf(f) \in fibers[f].call
         /\ CallOf(f) \in [op : {"io", "connect", "sleep", "close", "socket"}, fd : Fd,
                           event : Event, timed : BOOLEAN]
<1>1. CallOf(f) \in fibers[f].call
  BY DEF CallOf
<1>2. fibers[f].call \subseteq AllCalls
  BY DEF SchedulerTyped, FiberType
<1> QED BY <1>1, <1>2, HookAssumption DEF AllCalls

LEMMA SchedulingTyped ==
  ASSUME Typed, NEW w \in Worker, Scheduling(w), UNCHANGED <<ioVars, timerVars>>
  PROVE  Typed'
<1>1. TickleOthers(w) => m_tickleFds' \in BOOLEAN
  BY TickleTyped DEF TickleOthers, Typed, SchedulerTyped
<1>2. ASSUME NEW at \in WorkerPlaces, MoveTo(w, at), m_tickleFds' \in BOOLEAN,
             UNCHANGED <<m_tasks, m_isStopped, fibers, owner>>
      PROVE  Typed'
  <2>1. workers' \in [Worker -> WorkerType]
    BY <1>2 DEF MoveTo, WorkerType, Typed, SchedulerTyped
  <2> QED BY <1>2, <2>1 DEF Typed, SchedulerTyped, IoTyped, ioVars, timerVars
<1>3. m_tickleFds \in BOOLEAN
  BY DEF Typed, SchedulerTyped
<1>4. CASE TickleOthers(w)
  BY <1>1, <1>2, <1>4 DEF TickleOthers, WorkerPlaces
<1>5. CASE BeIdle(w)
  BY <1>2, <1>3, <1>5 DEF BeIdle, WorkerPlaces, queueVars
<1>6. CASE LeaveIdle(w)
  BY <1>2, <1>3, <1>6 DEF LeaveIdle, WorkerPlaces, queueVars
<1> USE DEF Typed, SchedulerTyped, IoTyped, queueVars, countVars, ioVars, timerVars, At, MoveTo,
            WorkerType, WorkerPlaces, Panic
<1>7. CASE TakeTask(w)
  <2>1. CASE m_tasks' = m_tasks
    BY <1>7, <2>1 DEF TakeTask
  <2> QED BY <1>7, TaskOfQueue DEF TakeTask
<1>8. CASE Resume(w)
  <2> DEFINE f == workers[w].task.fiber
  <2>1. f \in Fiber
    BY <1>8, NoTaskIs DEF Resume, RealTasks
  <2>2. CASE fibers[f].state # "READY"
    BY <1>8, <2>2 DEF Resume
  <2>3. CASE fibers[f].state = "READY"
    <3>1. fibers' = [fibers EXCEPT ![f].state = "RUNNING"] /\ MoveTo(w, "run")
      BY <1>8, <2>3 DEF Resume
    <3>2. fibers' \in [Fiber -> FiberType]
      <4>1. fibers[f] \in FiberType
        BY <2>1
      <4>2. [fibers[f] EXCEPT !.state = "RUNNING"] \in FiberType
        BY <4>1 DEF FiberType
      <4>3. fibers' = [fibers EXCEPT ![f] = [fibers[f] EXCEPT !.state = "RUNNING"]]
        BY <2>1, <3>1
      <4> HIDE DEF f
      <4> QED BY <2>1, <4>2, <4>3
    <3>3. workers' \in [Worker -> WorkerType]
      BY <3>1
    <3> HIDE DEF f
    <3> QED BY <1>8, <2>3, <3>2, <3>3 DEF Resume, f
  <2> QED BY <2>2, <2>3
<1>9. CASE FindNothing(w)
  BY <1>9 DEF FindNothing
<1>10. CASE FinishTask(w)
  BY <1>10 DEF FinishTask
<1> QED BY <1>4, <1>5, <1>6, <1>7, <1>8, <1>9, <1>10 DEF Scheduling

LEMMA CtlTyped ==
  ASSUME IoTyped, NEW fd \in Fd, NEW mask \in SUBSET Event
  PROVE  AfterCtl(fd, mask) \in EpollType
BY DEF IoTyped, AfterCtl, NotInEpoll, EpollType, SocketType

\* What a step of one worker leaves of the workers.
OnlyWorker(w) == \A v \in Worker : v # w => workers'[v] = workers[v]
OnlyFiber(f) == \A g \in Fiber : g # f => fibers'[g] = fibers[g]

LEMMA MoveIs ==
  ASSUME SchedulerTyped, NEW w \in Worker, NEW at \in WorkerPlaces, MoveTo(w, at)
  PROVE  /\ workers' \in [Worker -> WorkerType] /\ OnlyWorker(w)
         /\ workers'[w].at = at /\ workers'[w].task = workers[w].task
         /\ workers'[w].cbs = workers[w].cbs /\ workers'[w].events = workers[w].events
         /\ workers'[w].idleTerm = workers[w].idleTerm
<1>1. workers \in [Worker -> WorkerType] /\ workers' = [workers EXCEPT ![w].at = at]
  BY DEF SchedulerTyped, MoveTo
<1> QED BY <1>1 DEF WorkerType, OnlyWorker

LEMMA FiberIs ==
  ASSUME SchedulerTyped, NEW f \in Fiber, NEW z \in FiberType, fibers' = [fibers EXCEPT ![f] = z]
  PROVE  fibers' \in [Fiber -> FiberType] /\ OnlyFiber(f) /\ fibers'[f] = z
<1>1. fibers \in [Fiber -> FiberType]
  BY DEF SchedulerTyped
<1> QED BY <1>1 DEF OnlyFiber

FiberPlaces == InCall \union {"start", "returned", "end"}

LEMMA GoOnIs ==
  ASSUME SchedulerTyped, NEW f \in Fiber, NEW at \in FiberPlaces, GoOn(f, at)
  PROVE  /\ fibers' \in [Fiber -> FiberType] /\ OnlyFiber(f)
         /\ fibers'[f].at = at /\ fibers'[f].state = fibers[f].state
         /\ fibers'[f].call = fibers[f].call /\ fibers'[f].calls = fibers[f].calls
<1> DEFINE z == [fibers[f] EXCEPT !.at = at]
<1>1. fibers \in [Fiber -> FiberType] /\ fibers[f] \in FiberType
  BY DEF SchedulerTyped
<1>2. z \in FiberType /\ z.at = at /\ z.state = fibers[f].state /\ z.call = fibers[f].call
      /\ z.calls = fibers[f].calls
  BY <1>1 DEF FiberType, FiberPlaces
<1>3. fibers' = [fibers EXCEPT ![f] = z]
  BY <1>1 DEF GoOn
<1> HIDE DEF z
<1> QED BY <1>2, <1>3, FiberIs

LEMMA ReturnIs ==
  ASSUME SchedulerTyped, NEW f \in Fiber, Return(f)
  PROVE  /\ fibers' \in [Fiber -> FiberType] /\ OnlyFiber(f)
         /\ fibers'[f].at = "returned" /\ fibers'[f].state = fibers[f].state
<1> DEFINE z == [fibers[f] EXCEPT !.at = "returned", !.call = {}, !.cancelled = FALSE]
<1>1. fibers \in [Fiber -> FiberType] /\ fibers[f] \in FiberType
  BY DEF SchedulerTyped
<1>2. z \in FiberType /\ z.at = "returned" /\ z.state = fibers[f].state
  BY <1>1 DEF FiberType
<1>3. fibers' = [fibers EXCEPT ![f] = z]
  BY <1>1 DEF Return
<1> HIDE DEF z
<1> QED BY <1>2, <1>3, FiberIs

\* A fiber whose state and place change together.
LEMMA StateIs ==
  ASSUME SchedulerTyped, NEW f \in Fiber, NEW state \in {"READY", "TERM"}, NEW at \in FiberPlaces,
         fibers' = [fibers EXCEPT ![f].state = state, ![f].at = at]
  PROVE  /\ fibers' \in [Fiber -> FiberType] /\ OnlyFiber(f)
         /\ fibers'[f].at = at /\ fibers'[f].state = state /\ fibers'[f].call = fibers[f].call
<1> DEFINE z == [fibers[f] EXCEPT !.state = state, !.at = at]
<1>1. fibers \in [Fiber -> FiberType] /\ fibers[f] \in FiberType
  BY DEF SchedulerTyped
<1>2. z \in FiberType /\ z.at = at /\ z.state = state /\ z.call = fibers[f].call
  BY <1>1 DEF FiberType, FiberPlaces
<1>3. fibers' = [fibers EXCEPT ![f] = z]
  BY <1>1
<1> HIDE DEF z
<1> QED BY <1>2, <1>3, FiberIs

\* triggerEvent and the rest of a cancelled or reported event.
LEMMA TriggerTyped ==
  ASSUME IoTyped, NEW fd \in Fd, NEW e \in Event
  PROVE  /\ triggerEvent(m_fdContexts[fd], e) \in ContextType
         /\ triggerEvent(m_fdContexts[fd], e).events = {}
         /\ triggerEvent(m_fdContexts[fd], e).waiter = [m_fdContexts[fd].waiter EXCEPT ![e] = NoFiber]
<1>1. m_fdContexts[fd] \in ContextType
  BY DEF IoTyped
<1> QED BY <1>1 DEF triggerEvent, ContextType

LEMMA FirstIs ==
  ASSUME NEW events \in SUBSET Event, events # {}
  PROVE  FirstOf(events) \in events /\ FirstOf(events) \in Event
BY DEF FirstOf, Event, READ, WRITE

\* The waiter of a registered event is resumed, and the event and its waiter are gone.
TriggerAt(fd, e) ==
  /\ fd \in Fd /\ e \in Event /\ e \in m_fdContexts[fd].events
  /\ scheduler(TriggerWaiter(m_fdContexts[fd], e))
  /\ m_fdContexts' = [m_fdContexts EXCEPT ![fd] = triggerEvent(m_fdContexts[fd], e)]
  /\ m_pendingEventCount' = m_pendingEventCount - 1

LEMMA WaiterIs ==
  ASSUME IoTyped, Registered, NEW fd \in Fd, NEW e \in m_fdContexts[fd].events
  PROVE  /\ TriggerWaiter(m_fdContexts[fd], e) \in RealTasks
         /\ TriggerWaiter(m_fdContexts[fd], e).kind = "fiber"
         /\ TriggerWaiter(m_fdContexts[fd], e).fiber = m_fdContexts[fd].waiter[e]
         /\ m_fdContexts[fd].waiter[e] \in Fiber
<1>1. m_fdContexts[fd].waiter[e] \in Fiber
  BY DEF IoTyped, ContextType, Registered
<1> QED BY <1>1, FiberTaskIs DEF TriggerWaiter

LEMMA TriggerAtTyped ==
  ASSUME SchedulerTyped, IoTyped, Registered, NEW fd, NEW e, TriggerAt(fd, e)
  PROVE  /\ m_tasks' \in Seq(RealTasks) /\ m_tickleFds' \in BOOLEAN
         /\ m_fdContexts' \in [Fd -> ContextType]
<1>1. TriggerWaiter(m_fdContexts[fd], e) \in RealTasks
  BY WaiterIs DEF TriggerAt
<1>2. m_tasks' \in Seq(RealTasks) /\ m_tickleFds' \in BOOLEAN
  BY <1>1, SchedulerIs DEF TriggerAt
<1>3. m_fdContexts' \in [Fd -> ContextType]
  BY TriggerTyped DEF TriggerAt, IoTyped
<1> QED BY <1>2, <1>3

\* What HandleEvent does with an event that is registered.
Handled(w, r) ==
  /\ m_fdContexts[r.fd].events \intersect RealEvents(r, m_fdContexts[r.fd]) # {}
  /\ Drop(w, r) /\ TriggerAt(r.fd, FirstOf(RealEvents(r, m_fdContexts[r.fd])))
  /\ epoll' = [epoll EXCEPT ![r.fd] =
       AfterCtl(r.fd, m_fdContexts[r.fd].events \ RealEvents(r, m_fdContexts[r.fd]))]
  /\ UNCHANGED <<countVars, m_isStopped, fibers, owner, panic, sockets, shared, timerVars>>

LEMMA RealIs ==
  ASSUME IoTyped, NEW r \in Reports
  PROVE  RealEvents(r, m_fdContexts[r.fd]) \subseteq Event
BY DEF IoTyped, Reports, RealEvents, ContextType

LEMMA HandleIs ==
  ASSUME Typed, NEW w \in Worker, HandleEvent(w)
  PROVE  /\ workers[w].at = "events" /\ workers[w].cbs = {}
         /\ \E r \in workers[w].events :
              \/ Drop(w, r) /\ UNCHANGED <<queueVars, countVars, m_isStopped, fibers, owner, panic,
                                           ioVars, timerVars>>
              \/ TriggersUnregistered(m_fdContexts[r.fd], RealEvents(r, m_fdContexts[r.fd])) /\ Panics
                 /\ m_fdContexts[r.fd].events \intersect RealEvents(r, m_fdContexts[r.fd]) # {}
              \/ Handled(w, r)
<1>1. PICK r \in workers[w].events :
        LET context == m_fdContexts[r.fd]
            real == RealEvents(r, context)
        IN
        /\ At(w, "events") /\ workers[w].cbs = {}
        /\ IF context.events \intersect real = {} \/ ~CtlAccepts(OpFor(context.events \ real), r.fd)
           THEN /\ Drop(w, r)
                /\ UNCHANGED <<queueVars, countVars, m_isStopped, fibers, owner, panic, ioVars,
                               timerVars>>
           ELSE IF TriggersUnregistered(context, real)
           THEN Panics
           ELSE /\ Drop(w, r)
                /\ epoll' = [epoll EXCEPT ![r.fd] = AfterCtl(r.fd, context.events \ real)]
                /\ scheduler(TriggerWaiter(context, FirstOf(real)))
                /\ m_fdContexts' = [m_fdContexts EXCEPT ![r.fd] = triggerEvent(context, FirstOf(real))]
                /\ m_pendingEventCount' = m_pendingEventCount - 1
                /\ UNCHANGED <<countVars, m_isStopped, fibers, owner, panic, sockets, shared,
                               timerVars>>
  BY DEF HandleEvent
<1> DEFINE context == m_fdContexts[r.fd]
           real == RealEvents(r, context)
<1>2. r \in Reports /\ r.fd \in Fd /\ context \in ContextType
  BY DEF Typed, SchedulerTyped, IoTyped, WorkerType, Reports
<1>3. real \subseteq Event
  BY <1>2, RealIs DEF Typed
<1>4. ASSUME context.events \intersect real # {}, ~TriggersUnregistered(context, real)
      PROVE  FirstOf(real) \in context.events /\ FirstOf(real) \in Event
  BY <1>2, <1>3, <1>4 DEF TriggersUnregistered, FirstOf, Event, READ, WRITE, ContextType
<1> HIDE DEF real
<1>5. CASE context.events \intersect real = {} \/ ~CtlAccepts(OpFor(context.events \ real), r.fd)
  BY <1>1, <1>5 DEF At, real
<1>6. CASE ~(context.events \intersect real = {} \/ ~CtlAccepts(OpFor(context.events \ real), r.fd))
           /\ TriggersUnregistered(context, real)
  BY <1>1, <1>6 DEF At, real
<1>7. CASE ~(context.events \intersect real = {} \/ ~CtlAccepts(OpFor(context.events \ real), r.fd))
           /\ ~TriggersUnregistered(context, real)
  <2>1. FirstOf(real) \in context.events /\ FirstOf(real) \in Event
    BY <1>4, <1>7
  <2>2. Handled(w, r)
    BY <1>1, <1>2, <1>7, <2>1 DEF Handled, TriggerAt, real
  <2> QED BY <1>1, <2>2 DEF At
<1> QED BY <1>5, <1>6, <1>7

LEMMA DropIs ==
  ASSUME SchedulerTyped, NEW w \in Worker, NEW r, Drop(w, r)
  PROVE  /\ workers' \in [Worker -> WorkerType] /\ OnlyWorker(w)
         /\ workers'[w].at = workers[w].at /\ workers'[w].task = workers[w].task
         /\ workers'[w].cbs = workers[w].cbs /\ workers'[w].events = workers[w].events \ {r}
         /\ workers'[w].idleTerm = workers[w].idleTerm
<1>1. workers \in [Worker -> WorkerType] /\ workers' = [workers EXCEPT ![w].events = @ \ {r}]
  BY DEF SchedulerTyped, Drop
<1>2. workers' = [workers EXCEPT ![w] = [workers[w] EXCEPT !.events = workers[w].events \ {r}]]
  BY <1>1
<1>3. [workers[w] EXCEPT !.events = workers[w].events \ {r}] \in WorkerType
  BY <1>1 DEF WorkerType
<1> QED BY <1>1, <1>2, <1>3 DEF WorkerType, OnlyWorker

LEMMA EpollWaitIs ==
  ASSUME Typed, NEW w \in Worker, EpollWait(w)
  PROVE  /\ workers' \in [Worker -> WorkerType] /\ OnlyWorker(w)
         /\ workers[w].at = "wait" /\ workers'[w].at = "expire" /\ workers'[w].task = workers[w].task
         /\ workers'[w].cbs = workers[w].cbs /\ workers'[w].idleTerm = workers[w].idleTerm
         /\ workers'[w].events = {[fd |-> fd, events |-> Happening(fd)] : fd \in Reported}
         /\ epoll' \in [Fd -> EpollType] /\ \A fd \in Fd : epoll'[fd].mask = epoll[fd].mask
<1> DEFINE events == {[fd |-> fd, events |-> Happening(fd)] : fd \in Reported}
           z == [workers[w] EXCEPT !.at = "expire", !.events = events]
<1>1. /\ workers \in [Worker -> WorkerType] /\ workers[w] \in WorkerType /\ epoll \in [Fd -> EpollType]
      /\ sockets \in [Fd -> SocketType]
  BY DEF Typed, SchedulerTyped, IoTyped
<1>2. events \in SUBSET Reports
  <2>1. ASSUME NEW fd \in Fd PROVE Happening(fd) \subseteq Event \union {"HUP"}
    BY <1>1 DEF Happening, EpollType, SocketType
  <2> QED BY <2>1 DEF Reported, Reports
<1> HIDE DEF events
<1>3. z \in WorkerType /\ z.at = "expire" /\ z.task = workers[w].task /\ z.cbs = workers[w].cbs
      /\ z.events = events /\ z.idleTerm = workers[w].idleTerm
  BY <1>1, <1>2 DEF WorkerType, WorkerPlaces
<1>4. workers' = [workers EXCEPT ![w] = z] /\ workers[w].at = "wait"
  BY <1>1 DEF EpollWait, At, events
<1>5. epoll' \in [Fd -> EpollType] /\ \A fd \in Fd : epoll'[fd].mask = epoll[fd].mask
  BY <1>1 DEF EpollWait, EpollType
<1> HIDE DEF z
<1>6. workers' \in [Worker -> WorkerType] /\ OnlyWorker(w) /\ workers'[w] = z
  BY <1>1, <1>3, <1>4 DEF OnlyWorker
<1> QED BY <1>3, <1>4, <1>5, <1>6 DEF events

LEMMA CollectIs ==
  ASSUME Typed, NEW w \in Worker, listExpiredCb(w)
  PROVE  /\ workers' \in [Worker -> WorkerType] /\ OnlyWorker(w)
         /\ workers[w].at = "expire" /\ workers'[w].at = "events" /\ workers'[w].task = workers[w].task
         /\ workers'[w].cbs = due /\ workers'[w].idleTerm = workers[w].idleTerm
         /\ workers'[w].events = workers[w].events
<1>1. workers \in [Worker -> WorkerType] /\ workers[w] \in WorkerType /\ due \subseteq Callbacks
  BY DEF Typed, SchedulerTyped, IoTyped
<1>2. workers' = [workers EXCEPT ![w] = [workers[w] EXCEPT !.cbs = due, !.at = "events"]] /\ workers[w].at = "expire"
  BY <1>1 DEF listExpiredCb, At
<1>3. [workers[w] EXCEPT !.cbs = due, !.at = "events"] \in WorkerType
  BY <1>1 DEF WorkerType, WorkerPlaces
<1> QED BY <1>1, <1>2, <1>3 DEF WorkerType, OnlyWorker

\* A callback goes from the worker's hands to the queue.
Passes(w, cb) ==
  /\ workers[w].at = "events" /\ cb \in workers[w].cbs /\ cb \in RealTasks
  /\ scheduler(cb)
  /\ workers' \in [Worker -> WorkerType] /\ OnlyWorker(w)
  /\ workers'[w].at = "events" /\ workers'[w].task = workers[w].task
  /\ workers'[w].cbs = workers[w].cbs \ {cb} /\ workers'[w].idleTerm = workers[w].idleTerm
  /\ workers'[w].events = workers[w].events

LEMMA ScheduleExpiredIs ==
  ASSUME Typed, NEW w \in Worker, ScheduleExpired(w)
  PROVE  \E cb : Passes(w, cb)
<1>1. PICK cb \in workers[w].cbs :
        scheduler(cb) /\ workers' = [workers EXCEPT ![w].cbs = @ \ {cb}]
  BY DEF ScheduleExpired
<1>2. workers \in [Worker -> WorkerType] /\ workers[w] \in WorkerType /\ workers[w].at = "events"
  BY DEF Typed, SchedulerTyped, ScheduleExpired, At
<1>3. cb \in Callbacks /\ cb \in RealTasks
  BY <1>2 DEF WorkerType, Callbacks, RealTasks
<1>4. workers' = [workers EXCEPT ![w] = [workers[w] EXCEPT !.cbs = workers[w].cbs \ {cb}]]
  BY <1>1, <1>2
<1>5. [workers[w] EXCEPT !.cbs = workers[w].cbs \ {cb}] \in WorkerType
  BY <1>2 DEF WorkerType
<1>6. /\ workers' \in [Worker -> WorkerType] /\ OnlyWorker(w)
      /\ workers'[w].at = "events" /\ workers'[w].task = workers[w].task
      /\ workers'[w].cbs = workers[w].cbs \ {cb} /\ workers'[w].idleTerm = workers[w].idleTerm
      /\ workers'[w].events = workers[w].events
  BY <1>2, <1>4, <1>5 DEF WorkerType, OnlyWorker
<1>7. Passes(w, cb)
  BY <1>1, <1>2, <1>3, <1>6 DEF Passes
<1> QED BY <1>7

LEMMA CheckSchedulerIs ==
  ASSUME Typed, NEW w \in Worker, CheckScheduler(w)
  PROVE  /\ workers' \in [Worker -> WorkerType] /\ OnlyWorker(w)
         /\ workers[w].at = "stopping" /\ workers'[w].at = IF SchedulerStopping THEN "leave" ELSE "wait"
         /\ workers'[w].task = workers[w].task /\ workers'[w].cbs = workers[w].cbs
         /\ workers'[w].idleTerm = SchedulerStopping /\ workers'[w].events = workers[w].events
<1> DEFINE at == IF SchedulerStopping THEN "leave" ELSE "wait"
<1>1. workers \in [Worker -> WorkerType] /\ workers[w] \in WorkerType /\ SchedulerStopping \in BOOLEAN
  BY DEF Typed, SchedulerTyped, SchedulerStopping
<1>2. at \in WorkerPlaces
  BY DEF WorkerPlaces
<1>3. workers' = [workers EXCEPT ![w].idleTerm = SchedulerStopping, ![w].at = at] /\ workers[w].at = "stopping"
  BY DEF CheckScheduler, At
<1> HIDE DEF at
<1>4. workers' = [workers EXCEPT ![w] = [workers[w] EXCEPT !.idleTerm = SchedulerStopping, !.at = at]]
  BY <1>1, <1>3
<1>5. [workers[w] EXCEPT !.idleTerm = SchedulerStopping, !.at = at] \in WorkerType
  BY <1>1, <1>2 DEF WorkerType
<1>6. /\ workers' \in [Worker -> WorkerType] /\ OnlyWorker(w) /\ workers'[w].at = at
      /\ workers'[w].task = workers[w].task /\ workers'[w].cbs = workers[w].cbs
      /\ workers'[w].idleTerm = SchedulerStopping /\ workers'[w].events = workers[w].events
  BY <1>1, <1>4, <1>5 DEF WorkerType, OnlyWorker
<1> QED BY <1>3, <1>6 DEF at

LEMMA IdlingTyped ==
  ASSUME Typed, Registered, NEW w \in Worker, Idling(w)
  PROVE  Typed'
<1>1. CASE CheckTimers(w)
  <2>1. PICK at \in WorkerPlaces : MoveTo(w, at)
    BY <1>1 DEF CheckTimers, WorkerPlaces
  <2>2. workers' \in [Worker -> WorkerType]
    BY <2>1, MoveIs DEF Typed
  <2> QED BY <1>1, <2>2 DEF CheckTimers, Typed, SchedulerTyped, IoTyped, queueVars, countVars,
                 ioVars, timerVars
<1>2. CASE CheckPending(w)
  <2>1. PICK at \in WorkerPlaces : MoveTo(w, at)
    BY <1>2 DEF CheckPending, WorkerPlaces
  <2>2. workers' \in [Worker -> WorkerType]
    BY <2>1, MoveIs DEF Typed
  <2> QED BY <1>2, <2>2 DEF CheckPending, Typed, SchedulerTyped, IoTyped, queueVars, countVars,
                 ioVars, timerVars
<1>3. CASE CheckScheduler(w)
  <2>1. workers' \in [Worker -> WorkerType]
    BY <1>3, CheckSchedulerIs
  <2> QED BY <1>3, <2>1 DEF CheckScheduler, Typed, SchedulerTyped, IoTyped, queueVars, countVars,
                 ioVars, timerVars
<1>4. CASE EpollWait(w)
  <2>1. workers' \in [Worker -> WorkerType] /\ epoll' \in [Fd -> EpollType]
    BY <1>4, EpollWaitIs
  <2> QED BY <1>4, <2>1 DEF EpollWait, Typed, SchedulerTyped, IoTyped, queueVars, countVars,
                 ioVars, timerVars
<1>5. CASE listExpiredCb(w)
  <2>1. workers' \in [Worker -> WorkerType]
    BY <1>5, CollectIs
  <2> QED BY <1>5, <2>1 DEF listExpiredCb, Typed, SchedulerTyped, IoTyped, queueVars, countVars,
                 ioVars, timerVars
<1>6. CASE ScheduleExpired(w)
  <2>1. PICK cb : Passes(w, cb)
    BY <1>6, ScheduleExpiredIs
  <2>2. m_tasks' \in Seq(RealTasks) /\ m_tickleFds' \in BOOLEAN
    BY <2>1, SchedulerIs DEF Passes, Typed
  <2> QED BY <1>6, <2>1, <2>2 DEF ScheduleExpired, Passes, Typed, SchedulerTyped, IoTyped,
                 queueVars, countVars, ioVars, timerVars
<1>7. CASE HandleEvent(w)
  <2>1. PICK r \in workers[w].events :
          \/ Drop(w, r) /\ UNCHANGED <<queueVars, countVars, m_isStopped, fibers, owner, panic,
                                       ioVars, timerVars>>
          \/ Panics
          \/ Handled(w, r)
    BY <1>7, HandleIs
  <2>2. CASE Drop(w, r) /\ UNCHANGED <<queueVars, countVars, m_isStopped, fibers, owner, panic,
                                       ioVars, timerVars>>
    <3>1. workers' \in [Worker -> WorkerType]
      BY <2>2, DropIs DEF Typed
    <3> QED BY <2>2, <3>1 DEF Typed, SchedulerTyped, IoTyped, queueVars, countVars, ioVars, timerVars
  <2>3. CASE Panics
    BY <2>3 DEF Panics, Panic, Typed, SchedulerTyped, IoTyped, queueVars, countVars, ioVars, timerVars
  <2>4. CASE Handled(w, r)
    <3>1. workers' \in [Worker -> WorkerType]
      BY <2>4, DropIs DEF Typed, Handled
    <3>2. m_tasks' \in Seq(RealTasks) /\ m_tickleFds' \in BOOLEAN /\ m_fdContexts' \in [Fd -> ContextType]
      BY <2>4, TriggerAtTyped DEF Handled, Typed
    <3>3. epoll' \in [Fd -> EpollType]
      <4>1. m_fdContexts[r.fd].events \ RealEvents(r, m_fdContexts[r.fd]) \in SUBSET Event /\ r.fd \in Fd
        BY <2>4 DEF Handled, TriggerAt, Typed, IoTyped, ContextType
      <4>2. AfterCtl(r.fd, m_fdContexts[r.fd].events \ RealEvents(r, m_fdContexts[r.fd])) \in EpollType
        BY <4>1, CtlTyped DEF Typed
      <4> QED BY <2>4, <4>1, <4>2 DEF Handled, Typed, IoTyped
    <3> QED BY <2>4, <3>1, <3>2, <3>3 DEF Handled, Typed, SchedulerTyped, IoTyped, queueVars,
                   countVars, ioVars, timerVars
  <2> QED BY <2>1, <2>2, <2>3, <2>4
<1>8. CASE YieldIdle(w)
  <2>1. workers' \in [Worker -> WorkerType]
    BY <1>8, MoveIs DEF Typed, YieldIdle, WorkerPlaces
  <2> QED BY <1>8, <2>1 DEF YieldIdle, Typed, SchedulerTyped, IoTyped, queueVars, countVars,
                 ioVars, timerVars
<1> QED BY <1>1, <1>2, <1>3, <1>4, <1>5, <1>6, <1>7, <1>8 DEF Idling

-----------------------------------------------------------------------------
(* The steps of fibers                                                     *)

LEMMA RunsIs ==
  ASSUME Typed, RunByOne, NEW w \in Worker, NEW f \in Fiber, Runs(w, f)
  PROVE  /\ workers[w].at = "run" /\ workers[w].task \in RealTasks
         /\ workers[w].task.kind = "fiber" /\ workers[w].task.fiber = f
         /\ fibers[f].state = "RUNNING" /\ fibers[f] \in FiberType
BY DEF Runs, At, RunByOne, Typed, SchedulerTyped

\* The fiber f, which runs on w, goes on in its call, to the place at.
Steps(w, f, at) ==
  /\ Runs(w, f) /\ UNCHANGED workers
  /\ fibers' \in [Fiber -> FiberType] /\ OnlyFiber(f)
  /\ fibers'[f].at = at /\ fibers'[f].state = fibers[f].state
  /\ at \in InCall => fibers'[f].call # {}

\* The wakes stay, whatever comes or goes of time limits.
WakesStay ==
  /\ timers' \subseteq Callbacks /\ due' \subseteq timers'
  /\ \A task : task.kind = "wake" => (task \in timers' <=> task \in timers)

LEMMA InvokeIs ==
  ASSUME Typed, RunByOne, NEW w \in Worker, NEW f \in Fiber, Invoke(w, f)
  PROVE  /\ fibers[f].at \in {"start", "returned"}
         /\ \E at \in {"try", "sleep", "close", "socket"} : Steps(w, f, at)
         /\ UNCHANGED <<queueVars, countVars, m_isStopped, owner, panic, ioVars, timerVars>>
<1>1. PICK c \in Calls(fibers[f].calls + 1) :
        /\ Runs(w, f) /\ fibers[f].at \in {"start", "returned"} /\ fibers[f].calls < MaxCalls
        /\ fibers' = [fibers EXCEPT ![f].at = FirstStep(c), ![f].call = {c}, ![f].calls = @ + 1]
        /\ UNCHANGED <<queueVars, countVars, m_isStopped, workers, owner, panic, ioVars, timerVars>>
  BY DEF Invoke
<1>2. fibers[f] \in FiberType /\ fibers[f].calls + 1 \in 1 .. MaxCalls
  BY <1>1, HookAssumption DEF Typed, SchedulerTyped, FiberType
<1>3. c \in AllCalls /\ c.op \in {"io", "connect", "sleep", "close", "socket"}
  BY <1>2, HookAssumption DEF AllCalls
<1>4. FirstStep(c) \in {"try", "sleep", "close", "socket"}
  BY <1>3 DEF FirstStep
<1> DEFINE z == [fibers[f] EXCEPT !.at = FirstStep(c), !.call = {c}, !.calls = fibers[f].calls + 1]
<1>5. z \in FiberType /\ z.at = FirstStep(c) /\ z.state = fibers[f].state /\ z.call = {c}
  <2> DEFINE at == FirstStep(c)  calls == fibers[f].calls + 1
  <2>1. at \in InCall \union {"start", "returned", "end"} /\ calls \in 0 .. MaxCalls /\ {c} \in SUBSET AllCalls
    BY <1>2, <1>3, <1>4 DEF InCall
  <2> HIDE DEF at, calls
  <2>2. ASSUME NEW y, y = [fibers[f] EXCEPT !.at = at, !.call = {c}, !.calls = calls]
        PROVE  y \in FiberType /\ y.at = at /\ y.state = fibers[f].state /\ y.call = {c}
    BY <1>2, <2>1, <2>2 DEF FiberType
  <2> QED BY <2>2 DEF at, calls
<1>6. fibers' = [fibers EXCEPT ![f] = z]
  BY <1>1 DEF Typed, SchedulerTyped
<1> HIDE DEF z
<1>7. Steps(w, f, FirstStep(c))
  BY <1>1, <1>5, <1>6, FiberIs DEF Steps, Typed
<1> QED BY <1>1, <1>4, <1>7

LEMMA GoOnSteps ==
  ASSUME Typed, RunByOne, NEW w \in Worker, NEW f \in Fiber, Runs(w, f), NEW at \in FiberPlaces,
         fibers[f].at \in InCall, GoOn(f, at), UNCHANGED workers
  PROVE  Steps(w, f, at)
<1>1. fibers[f].call # {}
  BY DEF RunByOne
<1> QED BY <1>1, GoOnIs DEF Steps, Typed

LEMMA ReturnSteps ==
  ASSUME Typed, NEW w \in Worker, NEW f \in Fiber, Runs(w, f), Return(f), UNCHANGED workers
  PROVE  Steps(w, f, "returned")
<1>1. "returned" \notin InCall
  BY DEF InCall
<1> QED BY <1>1, ReturnIs DEF Steps, Typed

LEMMA LimitIs ==
  ASSUME Typed, NEW f \in Fiber
  PROVE  TimeLimit(f) \in Callbacks /\ TimeLimit(f).kind = "timeout"
BY DEF TimeLimit, Task, Callbacks, Typed, SchedulerTyped, FiberType

LEMMA AddTimerIs ==
  ASSUME Typed, NEW task \in Callbacks, addTimer(task)
  PROVE  /\ timers' = timers \union {task} /\ timers' \subseteq Callbacks
         /\ m_tickleFds' \in BOOLEAN
<1>1. timers' = timers \union {task}
  BY DEF addTimer
<1>2. m_tickleFds' \in BOOLEAN
  BY TickleTyped DEF addTimer, Typed, SchedulerTyped
<1> QED BY <1>1, <1>2 DEF Typed, IoTyped

LEMMA CancelTimerIs ==
  ASSUME Typed, NEW f \in Fiber, cancelTimer(TimeLimit(f))
  PROVE  WakesStay
<1>1. timers' = timers \ {TimeLimit(f)} /\ due' = due \ {TimeLimit(f)}
  BY DEF cancelTimer
<1> QED BY <1>1, LimitIs DEF Typed, IoTyped, WakesStay

LEMMA TryIs ==
  ASSUME Typed, RunByOne, NEW w \in Worker, NEW f \in Fiber, Try(w, f)
  PROVE  /\ fibers[f].at = "try" /\ \E at \in {"add", "returned"} : Steps(w, f, at)
         /\ WakesStay /\ m_tickleFds' \in BOOLEAN /\ sockets' \in [Fd -> SocketType]
         /\ UNCHANGED <<m_tasks, countVars, m_isStopped, workers, owner, panic,
                        m_fdContexts, m_pendingEventCount, epoll, shared>>
<1> DEFINE c == CallOf(f)
<1>1. fibers[f].at = "try" /\ Runs(w, f) /\ UNCHANGED <<m_tasks, countVars, m_isStopped, workers,
                                                        owner, panic,
                 m_fdContexts, m_pendingEventCount, epoll, shared, due>>
  BY DEF Try
<1>2. fibers[f].call # {} /\ fibers[f].at \in InCall
  BY <1>1 DEF RunByOne, InCall
<1>3. c.fd \in Fd
  BY <1>2, CallIs DEF Typed
<1>4. CASE WouldBlock(c)
  <2>1. GoOn(f, "add") /\ UNCHANGED sockets /\ IF c.timed THEN addTimer(TimeLimit(f)) ELSE UNCHANGED <<timers, m_tickleFds>>
    BY <1>4 DEF Try
  <2>2. Steps(w, f, "add")
    BY <1>1, <1>2, <2>1, GoOnSteps DEF FiberPlaces, InCall
  <2>3. WakesStay /\ m_tickleFds' \in BOOLEAN
    <3>1. CASE c.timed
      <4>1. timers' = timers \union {TimeLimit(f)} /\ timers' \subseteq Callbacks /\ m_tickleFds' \in BOOLEAN
        BY <2>1, <3>1, AddTimerIs, LimitIs
      <4> QED BY <1>1, <4>1, LimitIs DEF WakesStay, Typed, IoTyped
    <3>2. CASE ~c.timed
      BY <1>1, <2>1, <3>2 DEF WakesStay, Typed, IoTyped, SchedulerTyped
    <3> QED BY <3>1, <3>2
  <2> QED BY <1>1, <2>1, <2>2, <2>3 DEF Typed, IoTyped
<1>5. CASE ~WouldBlock(c)
  <2>1. Return(f) /\ sockets' = [sockets EXCEPT ![c.fd].ready = @ \ {c.event}] /\ UNCHANGED <<timers, m_tickleFds>>
    BY <1>5 DEF Try
  <2>2. Steps(w, f, "returned")
    BY <1>1, <2>1, ReturnSteps
  <2>3. sockets' \in [Fd -> SocketType]
    BY <1>3, <2>1 DEF Typed, IoTyped, SocketType
  <2> QED BY <1>1, <2>1, <2>2, <2>3 DEF WakesStay, Typed, IoTyped, SchedulerTyped
<1> QED BY <1>4, <1>5


\* f comes to wait for e.
Adds(fd, e, f) ==
  /\ fd \in Fd /\ e \in Event /\ m_fdContexts[fd].waiter[e] = NoFiber
  /\ addEvent(fd, e, f)

LEMMA AddsTyped ==
  ASSUME IoTyped, NEW fd, NEW e, NEW f \in Fiber, Adds(fd, e, f)
  PROVE  /\ m_fdContexts' \in [Fd -> ContextType] /\ epoll' \in [Fd -> EpollType]
         /\ m_fdContexts'[fd].events = m_fdContexts[fd].events \union {e}
         /\ m_fdContexts'[fd].waiter = [m_fdContexts[fd].waiter EXCEPT ![e] = f]
         /\ \A d \in Fd : d # fd => m_fdContexts'[d] = m_fdContexts[d]
<1> DEFINE z == [events |-> m_fdContexts[fd].events \union {e}, waiter |-> [m_fdContexts[fd].waiter EXCEPT ![e] = f]]
<1>1. fd \in Fd /\ e \in Event /\ m_fdContexts[fd] \in ContextType /\ m_fdContexts \in [Fd -> ContextType]
  BY DEF Adds, IoTyped
<1>2. m_fdContexts' = [m_fdContexts EXCEPT ![fd] = z] /\ epoll' = [epoll EXCEPT ![fd] = AfterCtl(fd, z.events)]
  BY DEF Adds, addEvent
<1>3. z \in ContextType /\ z.events \in SUBSET Event
  BY <1>1 DEF ContextType
<1>4. AfterCtl(fd, z.events) \in EpollType
  BY <1>1, <1>3, CtlTyped
<1>5. z.events = m_fdContexts[fd].events \union {e} /\ z.waiter = [m_fdContexts[fd].waiter EXCEPT ![e] = f]
  OBVIOUS
<1> HIDE DEF z
<1> QED BY <1>1, <1>2, <1>3, <1>4, <1>5 DEF IoTyped

LEMMA AddEventIs ==
  ASSUME Typed, RunByOne, Registered, NEW w \in Worker, NEW f \in Fiber, AddEvent(w, f)
  PROVE  /\ fibers[f].at = "add" /\ Runs(w, f)
         /\ \E fd \in Fd, e \in Event :
              /\ shared' = (shared \/ SomeoneWaits(fd))
              /\ \/ Panic /\ UNCHANGED <<m_fdContexts, m_pendingEventCount, epoll, sockets, timerVars>>
                    /\ SomeoneWaits(fd)
                 \/ /\ Adds(fd, e, f) /\ Steps(w, f, "yield")
                    /\ UNCHANGED <<queueVars, countVars, m_isStopped, owner, panic, sockets, timerVars>>
                 \/ /\ Steps(w, f, "returned") /\ WakesStay
                    /\ UNCHANGED <<queueVars, countVars, m_isStopped, owner, panic, m_fdContexts,
                                   m_pendingEventCount, epoll, sockets>>
<1> DEFINE c == CallOf(f)
<1>1. /\ fibers[f].at = "add" /\ Runs(w, f) /\ shared' = (shared \/ SomeoneWaits(c.fd))
      /\ IF AddPanics(c.fd, c.event)
         THEN Panic /\ UNCHANGED <<m_fdContexts, m_pendingEventCount, epoll, sockets, timerVars>>
         ELSE /\ IF CtlAccepts(AddOp(c.fd), c.fd)
                 THEN addEvent(c.fd, c.event, f) /\ GoOn(f, "yield") /\ UNCHANGED timerVars
                 ELSE /\ cancelTimer(TimeLimit(f)) /\ Return(f)
                      /\ UNCHANGED <<m_fdContexts, m_pendingEventCount, epoll>>
              /\ UNCHANGED <<queueVars, countVars, m_isStopped, workers, owner, panic, sockets>>
  BY DEF AddEvent
<1>2. fibers[f].call # {} /\ fibers[f].at \in InCall
  BY <1>1 DEF RunByOne, InCall
<1>3. c.fd \in Fd /\ c.event \in Event
  BY <1>2, CallIs DEF Typed
<1> HIDE DEF c
<1>4. CASE AddPanics(c.fd, c.event)
  <2>1. m_fdContexts[c.fd].waiter[c.event] # NoFiber
    BY <1>3, <1>4 DEF AddPanics, Registered
  <2>2. SomeoneWaits(c.fd)
    BY <1>3, <2>1 DEF SomeoneWaits
  <2> QED BY <1>1, <1>3, <1>4, <2>2
<1>5. CASE ~AddPanics(c.fd, c.event) /\ CtlAccepts(AddOp(c.fd), c.fd)
  <2>1. Adds(c.fd, c.event, f)
    BY <1>1, <1>3, <1>5 DEF AddPanics, Adds
  <2>2. Steps(w, f, "yield")
    BY <1>1, <1>2, <1>5, GoOnSteps DEF FiberPlaces, InCall
  <2> QED BY <1>1, <1>3, <1>5, <2>1, <2>2
<1>6. CASE ~AddPanics(c.fd, c.event) /\ ~CtlAccepts(AddOp(c.fd), c.fd)
  <2>1. WakesStay
    BY <1>1, <1>6, CancelTimerIs
  <2>2. Steps(w, f, "returned")
    BY <1>1, <1>6, ReturnSteps
  <2> QED BY <1>1, <1>3, <1>6, <2>1, <2>2
<1> QED BY <1>4, <1>5, <1>6

\* A fiber leaves the worker, at the end of its run.
Leaves(w, f, state, at) ==
  /\ Runs(w, f)
  /\ fibers' \in [Fiber -> FiberType] /\ OnlyFiber(f)
  /\ fibers'[f].at = at /\ fibers'[f].state = state /\ fibers'[f].call = fibers[f].call
  /\ workers' \in [Worker -> WorkerType] /\ OnlyWorker(w)
  /\ workers'[w].at = "finish" /\ workers'[w].task = workers[w].task
  /\ workers'[w].cbs = workers[w].cbs /\ workers'[w].events = workers[w].events
  /\ workers'[w].idleTerm = workers[w].idleTerm

LEMMA YieldIs ==
  ASSUME Typed, NEW w \in Worker, NEW f \in Fiber, YieldInCall(w, f)
  PROVE  /\ fibers[f].at = "yield" /\ Leaves(w, f, "READY", "woken")
         /\ UNCHANGED <<queueVars, countVars, m_isStopped, owner, panic, ioVars, timerVars>>
<1>1. /\ Runs(w, f) /\ fibers[f].at = "yield" /\ MoveTo(w, "finish")
      /\ fibers' = [fibers EXCEPT ![f].state = "READY", ![f].at = "woken"]
      /\ UNCHANGED <<queueVars, countVars, m_isStopped, owner, panic, ioVars, timerVars>>
  BY DEF YieldInCall, Yield
<1>2. "finish" \in WorkerPlaces /\ "woken" \in FiberPlaces
  BY DEF WorkerPlaces, FiberPlaces, InCall
<1>3. /\ fibers' \in [Fiber -> FiberType] /\ OnlyFiber(f)
      /\ fibers'[f].at = "woken" /\ fibers'[f].state = "READY" /\ fibers'[f].call = fibers[f].call
  BY <1>1, <1>2, StateIs DEF Typed
<1>4. /\ workers' \in [Worker -> WorkerType] /\ OnlyWorker(w)
      /\ workers'[w].at = "finish" /\ workers'[w].task = workers[w].task
      /\ workers'[w].cbs = workers[w].cbs /\ workers'[w].events = workers[w].events
      /\ workers'[w].idleTerm = workers[w].idleTerm
  BY <1>1, <1>2, MoveIs DEF Typed
<1> QED BY <1>1, <1>3, <1>4 DEF Leaves

LEMMA EndIs ==
  ASSUME Typed, NEW w \in Worker, NEW f \in Fiber, End(w, f)
  PROVE  /\ fibers[f].at \in {"start", "returned"} /\ Leaves(w, f, "TERM", "end")
         /\ UNCHANGED <<queueVars, countVars, m_isStopped, owner, panic, ioVars, timerVars>>
<1>1. /\ Runs(w, f) /\ fibers[f].at \in {"start", "returned"} /\ MoveTo(w, "finish")
      /\ fibers' = [fibers EXCEPT ![f].state = "TERM", ![f].at = "end"]
      /\ UNCHANGED <<queueVars, countVars, m_isStopped, owner, panic, ioVars, timerVars>>
  BY DEF End, EndFiber
<1>2. "finish" \in WorkerPlaces /\ "end" \in FiberPlaces
  BY DEF WorkerPlaces, FiberPlaces, InCall
<1>3. /\ fibers' \in [Fiber -> FiberType] /\ OnlyFiber(f)
      /\ fibers'[f].at = "end" /\ fibers'[f].state = "TERM" /\ fibers'[f].call = fibers[f].call
  BY <1>1, <1>2, StateIs DEF Typed
<1>4. /\ workers' \in [Worker -> WorkerType] /\ OnlyWorker(w)
      /\ workers'[w].at = "finish" /\ workers'[w].task = workers[w].task
      /\ workers'[w].cbs = workers[w].cbs /\ workers'[w].events = workers[w].events
      /\ workers'[w].idleTerm = workers[w].idleTerm
  BY <1>1, <1>2, MoveIs DEF Typed
<1> QED BY <1>1, <1>3, <1>4 DEF Leaves

LEMMA WokenIs ==
  ASSUME Typed, RunByOne, NEW w \in Worker, NEW f \in Fiber, Woken(w, f)
  PROVE  /\ fibers[f].at = "woken" /\ \E at \in {"try", "returned"} : Steps(w, f, at)
         /\ WakesStay
         /\ UNCHANGED <<queueVars, countVars, m_isStopped, workers, owner, panic, ioVars>>
<1>1. /\ Runs(w, f) /\ fibers[f].at = "woken" /\ cancelTimer(TimeLimit(f))
      /\ Return(f) \/ GoOn(f, "try")
      /\ UNCHANGED <<queueVars, countVars, m_isStopped, workers, owner, panic, ioVars>>
  BY DEF Woken
<1>2. fibers[f].at \in InCall
  BY <1>1 DEF InCall
<1>3. WakesStay
  BY <1>1, CancelTimerIs
<1>4. \E at \in {"try", "returned"} : Steps(w, f, at)
  <2>1. CASE Return(f)
    BY <1>1, <2>1, ReturnSteps
  <2>2. CASE GoOn(f, "try")
    BY <1>1, <1>2, <2>2, GoOnSteps DEF FiberPlaces, InCall
  <2> QED BY <1>1, <2>1, <2>2
<1> QED BY <1>1, <1>3, <1>4

\* The timer of a sleep is armed.
Sleeps(f) ==
  \E task \in Callbacks :
    task.kind = "wake" /\ task.fiber = f /\ timers' = timers \union {task} /\ UNCHANGED due

LEMMA SleepIs ==
  ASSUME Typed, RunByOne, NEW w \in Worker, NEW f \in Fiber, Sleep(w, f)
  PROVE  /\ fibers[f].at = "sleep" /\ Steps(w, f, "yield") /\ Sleeps(f) /\ m_tickleFds' \in BOOLEAN
         /\ UNCHANGED <<m_tasks, countVars, m_isStopped, workers, owner, panic, ioVars>>
<1> DEFINE task == Task("wake", f, fibers[f].calls)
<1>1. /\ Runs(w, f) /\ fibers[f].at = "sleep" /\ addTimer(task) /\ GoOn(f, "yield")
      /\ UNCHANGED <<m_tasks, countVars, m_isStopped, workers, owner, panic, ioVars, due>>
  BY DEF Sleep
<1>2. task \in Callbacks /\ task.kind = "wake" /\ task.fiber = f
  BY DEF Task, Callbacks, Typed, SchedulerTyped, FiberType
<1> HIDE DEF task
<1>3. Sleeps(f) /\ m_tickleFds' \in BOOLEAN
  BY <1>1, <1>2, AddTimerIs DEF Sleeps
<1>4. Steps(w, f, "yield")
  BY <1>1, GoOnSteps DEF FiberPlaces, InCall
<1> QED BY <1>1, <1>3, <1>4

LEMMA CloseIs ==
  ASSUME Typed, RunByOne, NEW w \in Worker, NEW f \in Fiber, Close(w, f)
  PROVE  /\ fibers[f].at = "close" /\ Steps(w, f, "returned")
         /\ \/ \E fd \in Fd, e \in Event : TriggerAt(fd, e) /\ epoll'[fd].mask = {}
            \/ UNCHANGED <<queueVars, m_fdContexts, m_pendingEventCount>>
         /\ epoll' \in [Fd -> EpollType] /\ sockets' \in [Fd -> SocketType]
         /\ \A d \in Fd : epoll'[d].mask \subseteq epoll[d].mask
         /\ UNCHANGED <<countVars, m_isStopped, workers, owner, panic, shared, timerVars>>
<1> DEFINE fd == CallOf(f).fd  e == FirstOf(m_fdContexts[fd].events)
<1>1. /\ Runs(w, f) /\ fibers[f].at = "close" /\ Return(f)
      /\ IF sockets[fd].open /\ CanCancelAll(fd) THEN cancelAll(fd)
         ELSE UNCHANGED <<queueVars, m_fdContexts, m_pendingEventCount>>
      /\ epoll' = [epoll EXCEPT ![fd] = NotInEpoll]
      /\ sockets' = [sockets EXCEPT ![fd] = [open |-> FALSE, ready |-> {}, hup |-> FALSE]]
      /\ UNCHANGED <<countVars, m_isStopped, workers, owner, panic, shared, timerVars>>
  BY DEF Close
<1>2. fibers[f].call # {}
  BY <1>1 DEF RunByOne, InCall
<1>3. fd \in Fd
  BY <1>2, CallIs DEF Typed
<1> HIDE DEF fd
<1>4. Steps(w, f, "returned")
  BY <1>1, ReturnSteps
<1>5. /\ epoll' \in [Fd -> EpollType] /\ sockets' \in [Fd -> SocketType] /\ epoll'[fd].mask = {}
      /\ \A d \in Fd : epoll'[d].mask \subseteq epoll[d].mask
  <2>1. NotInEpoll \in EpollType /\ NotInEpoll.mask = {}
    BY DEF NotInEpoll, EpollType
  <2>2. [open |-> FALSE, ready |-> {}, hup |-> FALSE] \in SocketType
    BY DEF SocketType
  <2>3. epoll \in [Fd -> EpollType] /\ sockets \in [Fd -> SocketType]
    BY DEF Typed, IoTyped
  <2>4. epoll' \in [Fd -> EpollType] /\ sockets' \in [Fd -> SocketType]
    BY <1>1, <1>3, <2>1, <2>2, <2>3
  <2>5. epoll'[fd] = NotInEpoll /\ \A d \in Fd : d # fd => epoll'[d] = epoll[d]
    BY <1>1, <1>3, <2>3
  <2> QED BY <2>1, <2>4, <2>5
<1>6. CASE sockets[fd].open /\ CanCancelAll(fd)
  <2>1. m_fdContexts[fd].events # {} /\ m_fdContexts[fd].events \in SUBSET Event
    BY <1>3, <1>6 DEF CanCancelAll, Typed, IoTyped, ContextType
  <2>2. e \in m_fdContexts[fd].events /\ e \in Event
    BY <2>1, FirstIs
  <2>3. TriggerAt(fd, e)
    BY <1>1, <1>3, <1>6, <2>2 DEF TriggerAt, cancelAll
  <2> QED BY <1>1, <1>3, <1>4, <1>5, <2>2, <2>3
<1>7. CASE ~(sockets[fd].open /\ CanCancelAll(fd))
  BY <1>1, <1>3, <1>4, <1>5, <1>7
<1> QED BY <1>6, <1>7

LEMMA SocketIs ==
  ASSUME Typed, RunByOne, NEW w \in Worker, NEW f \in Fiber, Socket(w, f)
  PROVE  /\ fibers[f].at = "socket" /\ Steps(w, f, "returned")
         /\ sockets' \in [Fd -> SocketType]
         /\ UNCHANGED <<queueVars, countVars, m_isStopped, workers, owner, panic,
                        m_fdContexts, m_pendingEventCount, epoll, shared, timerVars>>
<1> DEFINE fd == CallOf(f).fd
<1>1. /\ Runs(w, f) /\ fibers[f].at = "socket" /\ Return(f)
      /\ sockets' = IF sockets[fd].open THEN sockets ELSE [sockets EXCEPT ![fd] = NewSocket]
      /\ UNCHANGED <<queueVars, countVars, m_isStopped, workers, owner, panic,
                     m_fdContexts, m_pendingEventCount, epoll, shared, timerVars>>
  BY DEF Socket
<1>2. NewSocket \in SocketType
  BY DEF NewSocket, SocketType
<1>3. sockets' \in [Fd -> SocketType]
  <2> HIDE DEF fd
  <2> QED BY <1>1, <1>2 DEF Typed, IoTyped
<1>4. Steps(w, f, "returned")
  BY <1>1, ReturnSteps
<1> QED BY <1>1, <1>3, <1>4

\* A worker goes on to another place, its task and the rest stay.
Goes(w, at) ==
  /\ workers' \in [Worker -> WorkerType] /\ OnlyWorker(w)
  /\ workers'[w].at = at /\ workers'[w].task = workers[w].task
  /\ workers'[w].cbs = workers[w].cbs /\ workers'[w].events = workers[w].events
  /\ workers'[w].idleTerm = workers[w].idleTerm

LEMMA MoveGoes ==
  ASSUME Typed, NEW w \in Worker, NEW at \in WorkerPlaces, MoveTo(w, at)
  PROVE  Goes(w, at)
BY MoveIs DEF Goes, Typed

LEMMA RunWakeIs ==
  ASSUME Typed, RunByOne, NEW w \in Worker, RunWake(w)
  PROVE  /\ workers[w].at = "begin" /\ workers[w].task \in RealTasks /\ workers[w].task.kind = "wake"
         /\ scheduler(FiberTask(workers[w].task.fiber)) /\ Goes(w, "finish")
         /\ UNCHANGED <<countVars, m_isStopped, fibers, owner, panic, ioVars, timerVars>>
<1>1. /\ workers[w].at = "begin" /\ workers[w].task.kind = "wake"
      /\ scheduler(FiberTask(workers[w].task.fiber)) /\ MoveTo(w, "finish")
      /\ UNCHANGED <<countVars, m_isStopped, fibers, owner, panic, ioVars, timerVars>>
  BY DEF RunWake, At
<1>2. Goes(w, "finish")
  BY <1>1, MoveGoes DEF WorkerPlaces
<1>3. workers[w].task \in RealTasks
  BY <1>1 DEF RunByOne
<1> QED BY <1>1, <1>2, <1>3

\* The end of a time limit leaves the fibers where they are.
FibersStay ==
  /\ fibers' \in [Fiber -> FiberType]
  /\ \A f \in Fiber : /\ fibers'[f].state = fibers[f].state /\ fibers'[f].at = fibers[f].at
                      /\ fibers'[f].call = fibers[f].call

LEMMA RunTimeoutIs ==
  ASSUME Typed, RunByOne, NEW w \in Worker, RunTimeout(w)
  PROVE  /\ workers[w].at = "begin" /\ workers[w].task \in RealTasks /\ workers[w].task.kind = "timeout"
         /\ FibersStay /\ Goes(w, "finish")
         /\ \/ /\ \E fd \in Fd, e \in Event :
                    TriggerAt(fd, e)
                    /\ epoll' = [epoll EXCEPT ![fd] = AfterCtl(fd, m_fdContexts[fd].events \ {e})]
            \/ UNCHANGED <<queueVars, m_fdContexts, m_pendingEventCount, epoll>>
         /\ UNCHANGED <<countVars, m_isStopped, owner, panic, sockets, shared, timerVars>>
<1> DEFINE task == workers[w].task  c == CallOf(task.fiber)
<1>1. /\ workers[w].at = "begin" /\ task.kind = "timeout" /\ MoveTo(w, "finish")
      /\ IF LimitStands(task)
         THEN fibers' = [fibers EXCEPT ![task.fiber].cancelled = TRUE]
         ELSE UNCHANGED fibers
      /\ IF LimitStands(task) /\ CanCancel(c.fd, c.event)
         THEN cancelEvent(c.fd, c.event)
         ELSE UNCHANGED <<queueVars, m_fdContexts, m_pendingEventCount, epoll>>
      /\ UNCHANGED <<countVars, m_isStopped, owner, panic, sockets, shared, timerVars>>
  BY DEF RunTimeout, At
<1>2. Goes(w, "finish")
  BY <1>1, MoveGoes DEF WorkerPlaces
<1>3. task \in RealTasks /\ task.fiber \in Fiber
  BY <1>1 DEF RunByOne, RealTasks
<1> HIDE DEF task
<1>4. FibersStay
  <2>1. fibers \in [Fiber -> FiberType] /\ fibers[task.fiber] \in FiberType
    BY <1>3 DEF Typed, SchedulerTyped
  <2>2. CASE LimitStands(task)
    <3> DEFINE z == [fibers[task.fiber] EXCEPT !.cancelled = TRUE]
    <3>1. z \in FiberType /\ z.state = fibers[task.fiber].state /\ z.at = fibers[task.fiber].at
          /\ z.call = fibers[task.fiber].call
      BY <2>1 DEF FiberType
    <3>2. fibers' = [fibers EXCEPT ![task.fiber] = z]
      BY <1>1, <2>1, <2>2
    <3> HIDE DEF z
    <3> QED BY <1>3, <2>1, <3>1, <3>2 DEF FibersStay
  <2>3. CASE ~LimitStands(task)
    BY <1>1, <2>1, <2>3 DEF FibersStay
  <2> QED BY <2>2, <2>3
<1>5. ASSUME LimitStands(task), CanCancel(c.fd, c.event)
      PROVE  \E fd \in Fd, e \in Event :
                TriggerAt(fd, e)
                /\ epoll' = [epoll EXCEPT ![fd] = AfterCtl(fd, m_fdContexts[fd].events \ {e})]
  <2>1. fibers[task.fiber].call # {}
    BY <1>5 DEF LimitStands
  <2>2. c.fd \in Fd /\ c.event \in Event
    BY <1>3, <2>1, CallIs DEF Typed
  <2> HIDE DEF c
  <2>3. TriggerAt(c.fd, c.event)
    BY <1>1, <1>5, <2>2 DEF TriggerAt, CanCancel, cancelEvent
  <2>4. epoll' = [epoll EXCEPT ![c.fd] = AfterCtl(c.fd, m_fdContexts[c.fd].events \ {c.event})]
    BY <1>1, <1>5, <2>2 DEF cancelEvent
  <2> QED BY <2>2, <2>3, <2>4
<1> QED BY <1>1, <1>2, <1>3, <1>4, <1>5 DEF task

LEMMA RunningTyped ==
  ASSUME Typed, RunByOne, Registered, NEW w \in Worker, Running(w)
  PROVE  Typed'
<1> USE DEF Typed, SchedulerTyped, IoTyped, queueVars, countVars, ioVars, timerVars
<1>1. CASE RunWake(w)
  <2>1. FiberTask(workers[w].task.fiber) \in RealTasks
    BY <1>1, RunWakeIs, FiberTaskIs DEF RealTasks
  <2>2. m_tasks' \in Seq(RealTasks) /\ m_tickleFds' \in BOOLEAN
    BY <1>1, <2>1, RunWakeIs, SchedulerIs
  <2> QED BY <1>1, <2>2, RunWakeIs DEF Goes
<1>2. CASE RunTimeout(w)
  <2>1. workers' \in [Worker -> WorkerType] /\ fibers' \in [Fiber -> FiberType]
    BY <1>2, RunTimeoutIs DEF Goes, FibersStay
  <2>2. CASE UNCHANGED <<queueVars, m_fdContexts, m_pendingEventCount, epoll>>
    BY <1>2, <2>1, <2>2, RunTimeoutIs
  <2>3. ASSUME NEW fd \in Fd, NEW e \in Event, TriggerAt(fd, e),
               epoll' = [epoll EXCEPT ![fd] = AfterCtl(fd, m_fdContexts[fd].events \ {e})]
        PROVE  Typed'
    <3>1. m_tasks' \in Seq(RealTasks) /\ m_tickleFds' \in BOOLEAN /\ m_fdContexts' \in [Fd -> ContextType]
      BY <2>3, TriggerAtTyped
    <3>2. m_fdContexts[fd].events \ {e} \in SUBSET Event
      BY DEF ContextType
    <3>3. epoll' \in [Fd -> EpollType]
      BY <2>3, <3>2, CtlTyped
    <3> QED BY <1>2, <2>1, <3>1, <3>3, RunTimeoutIs
  <2> QED BY <1>2, <2>2, <2>3, RunTimeoutIs
<1>3. ASSUME NEW f \in Fiber, Invoke(w, f) PROVE Typed'
  BY <1>3, InvokeIs DEF Steps
<1>4. ASSUME NEW f \in Fiber, End(w, f) PROVE Typed'
  BY <1>4, EndIs DEF Leaves
<1>5. ASSUME NEW f \in Fiber, Try(w, f) PROVE Typed'
  BY <1>5, TryIs DEF Steps, WakesStay
<1>6. ASSUME NEW f \in Fiber, AddEvent(w, f) PROVE Typed'
  <2>1. PICK fd \in Fd, e \in Event :
          \/ Panic /\ UNCHANGED <<m_fdContexts, m_pendingEventCount, epoll, sockets, timerVars>>
          \/ /\ Adds(fd, e, f) /\ Steps(w, f, "yield")
             /\ UNCHANGED <<queueVars, countVars, m_isStopped, owner, panic, sockets, timerVars>>
          \/ /\ Steps(w, f, "returned") /\ WakesStay
             /\ UNCHANGED <<queueVars, countVars, m_isStopped, owner, panic, m_fdContexts,
                            m_pendingEventCount, epoll, sockets>>
    BY <1>6, AddEventIs
  <2>2. CASE Panic /\ UNCHANGED <<m_fdContexts, m_pendingEventCount, epoll, sockets, timerVars>>
    BY <2>2 DEF Panic
  <2>3. CASE Adds(fd, e, f) /\ Steps(w, f, "yield")
             /\ UNCHANGED <<queueVars, countVars, m_isStopped, owner, panic, sockets, timerVars>>
    BY <2>3, AddsTyped DEF Steps
  <2>4. CASE Steps(w, f, "returned") /\ WakesStay
             /\ UNCHANGED <<queueVars, countVars, m_isStopped, owner, panic, m_fdContexts,
                            m_pendingEventCount, epoll, sockets>>
    BY <2>4 DEF Steps, WakesStay
  <2> QED BY <2>1, <2>2, <2>3, <2>4
<1>7. ASSUME NEW f \in Fiber, YieldInCall(w, f) PROVE Typed'
  BY <1>7, YieldIs DEF Leaves
<1>8. ASSUME NEW f \in Fiber, Woken(w, f) PROVE Typed'
  BY <1>8, WokenIs DEF Steps, WakesStay
<1>9. ASSUME NEW f \in Fiber, Sleep(w, f) PROVE Typed'
  BY <1>9, SleepIs DEF Steps, Sleeps
<1>10. ASSUME NEW f \in Fiber, Close(w, f) PROVE Typed'
  <2>1. m_tasks' \in Seq(RealTasks) /\ m_tickleFds' \in BOOLEAN /\ m_fdContexts' \in [Fd -> ContextType]
    <3>1. CASE UNCHANGED <<queueVars, m_fdContexts, m_pendingEventCount>>
      BY <3>1
    <3>2. ASSUME NEW fd \in Fd, NEW e \in Event, TriggerAt(fd, e)
          PROVE m_tasks' \in Seq(RealTasks) /\ m_tickleFds' \in BOOLEAN /\ m_fdContexts' \in [Fd -> ContextType]
      BY <3>2, TriggerAtTyped
    <3> QED BY <1>10, <3>1, <3>2, CloseIs
  <2> QED BY <1>10, <2>1, CloseIs DEF Steps
<1>11. ASSUME NEW f \in Fiber, Socket(w, f) PROVE Typed'
  BY <1>11, SocketIs DEF Steps
<1> QED BY <1>1, <1>2, <1>3, <1>4, <1>5, <1>6, <1>7, <1>8, <1>9, <1>10, <1>11 DEF Running

LEMMA OwnerTyped ==
  ASSUME Typed, OwnerStep \/ OwnerDecides, UNCHANGED <<ioVars, timerVars>>
  PROVE  Typed'
<1> USE DEF Typed, SchedulerTyped, IoTyped, queueVars, countVars, ioVars, timerVars, OwnerPlaces
<1>0. ASSUME tickle PROVE m_tickleFds' \in BOOLEAN
  BY <1>0, TickleTyped
<1>1. CASE TickleScheduled
  BY <1>0, <1>1 DEF TickleScheduled
<1>2. CASE TickleAll
  BY <1>0, <1>2 DEF TickleAll
<1>3. CASE Join
  BY <1>3 DEF Join
<1>4. CASE Stop
  BY <1>4 DEF Stop
<1>5. ASSUME NEW f \in Fiber, Schedule(f) PROVE Typed'
  <2>1. m_tasks' = Append(m_tasks, FiberTask(f)) /\ FiberTask(f) \in RealTasks
    BY <1>5, FiberTaskIs DEF Schedule
  <2>2. owner' \in [at : OwnerPlaces, scheduled : SUBSET Fiber]
    BY <1>5 DEF Schedule
  <2> QED BY <1>5, <2>1, <2>2 DEF Schedule
<1> QED BY <1>1, <1>2, <1>3, <1>4, <1>5 DEF OwnerStep, OwnerDecides

LEMMA KernelTyped ==
  ASSUME Typed, Kernel
  PROVE  Typed'
<1>1. sockets \in [Fd -> SocketType] /\ epoll \in [Fd -> EpollType]
  BY DEF Typed, IoTyped
<1>2. ASSUME NEW fd \in Fd, NEW s \in BOOLEAN, epoll' = [epoll EXCEPT ![fd].signalled = s]
      PROVE  epoll' \in [Fd -> EpollType]
  BY <1>1, <1>2 DEF EpollType
<1>3. ASSUME sockets' \in [Fd -> SocketType], epoll' \in [Fd -> EpollType],
             UNCHANGED <<schedulerVars, m_fdContexts, m_pendingEventCount, shared, timerVars>>
      PROVE  Typed'
  BY <1>3 DEF Typed, SchedulerTyped, IoTyped, schedulerVars, queueVars, countVars, timerVars
<1>4. ASSUME NEW fd \in Fd, HangUp(fd) PROVE Typed'
  <2>1. sockets' \in [Fd -> SocketType]
    BY <1>1, <1>4 DEF HangUp, SocketType
  <2>2. (epoll[fd].signalled \/ epoll[fd].in) \in BOOLEAN
    BY Zenon
  <2>3. epoll' \in [Fd -> EpollType]
    BY <1>2, <1>4, <2>2 DEF HangUp
  <2> QED BY <1>3, <1>4, <2>1, <2>3 DEF HangUp
<1>5. ASSUME NEW fd \in Fd, NEW e \in Event, BecomeReady(fd, e) PROVE Typed'
  <2>1. sockets' \in [Fd -> SocketType]
    BY <1>1, <1>5 DEF BecomeReady, SocketType
  <2>2. (epoll[fd].signalled \/ e \in epoll[fd].mask) \in BOOLEAN
    BY Zenon
  <2>3. epoll' \in [Fd -> EpollType]
    BY <1>2, <1>5, <2>2 DEF BecomeReady
  <2> QED BY <1>3, <1>5, <2>1, <2>3 DEF BecomeReady
<1> QED BY <1>4, <1>5 DEF Kernel

LEMMA NextTyped ==
  ASSUME Typed, RunByOne, Registered, [Next]_vars
  PROVE  Typed'
<1>1. ASSUME NEW w \in Worker, WorkerStep(w) PROVE Typed'
  BY <1>1, SchedulingTyped, IdlingTyped, RunningTyped DEF WorkerStep
<1>2. CASE TimePasses
  BY <1>2 DEF TimePasses, Typed, SchedulerTyped, IoTyped, schedulerVars, queueVars, countVars, ioVars
<1>3. CASE UNCHANGED vars
  BY <1>3 DEF vars, Typed, SchedulerTyped, IoTyped, schedulerVars, queueVars, countVars, ioVars,
         timerVars
<1> QED BY <1>1, <1>2, <1>3, OwnerTyped, KernelTyped DEF Next

LEMMA InitTyped ==
  ASSUME Init
  PROVE  Typed
<1> USE DEF Init, IOManagerInit, SchedulerInit
<1>1. NoTask \in RealTasks \union {NoTask}
  OBVIOUS
<1>2. NewWorker \in WorkerType
  BY <1>1 DEF NewWorker, WorkerType, WorkerPlaces
<1>3. NewFiber \in FiberType
  BY HookAssumption DEF NewFiber, FiberType
<1>4. NoContext \in ContextType
  BY DEF NoContext, ContextType
<1>5. NotInEpoll \in EpollType
  BY DEF NotInEpoll, EpollType
<1>6. NewSocket \in SocketType
  BY DEF NewSocket, SocketType
<1>7. SchedulerTyped
  <2>1. <<>> \in Seq(RealTasks)
    BY EmptySeq
  <2>2. m_tasks \in Seq(RealTasks) /\ m_isStopped \in BOOLEAN /\ m_tickleFds \in BOOLEAN
    BY <2>1
  <2>3. workers \in [Worker -> WorkerType]
    BY <1>2
  <2>4. fibers \in [Fiber -> FiberType]
    BY <1>3
  <2>5. owner \in [at : OwnerPlaces, scheduled : SUBSET Fiber]
    BY DEF OwnerPlaces
  <2> QED BY <2>2, <2>3, <2>4, <2>5 DEF SchedulerTyped
<1>8. IoTyped
  BY <1>4, <1>5, <1>6 DEF IoTyped
<1> QED BY <1>7, <1>8 DEF Typed

-----------------------------------------------------------------------------
(* The steps of run()                                                      *)

Takes(w) ==
  /\ workers[w].at = "take" /\ m_tasks # <<>> /\ IsTakable(Head(m_tasks))
  /\ m_tasks' = Tail(m_tasks)
  /\ workers' \in [Worker -> WorkerType] /\ OnlyWorker(w)
  /\ workers'[w].at \in {"tickle", "begin"} /\ workers'[w].task = Head(m_tasks)
  /\ workers'[w].cbs = workers[w].cbs /\ workers'[w].events = workers[w].events
  /\ workers'[w].idleTerm = workers[w].idleTerm
  /\ m_activeThreadCount' = m_activeThreadCount + 1
  /\ UNCHANGED <<m_idleThreadCount, m_isStopped, m_tickleFds, fibers, owner, panic>>

LEMMA TakeIs ==
  ASSUME Typed, NEW w \in Worker, TakeTask(w)
  PROVE  \/ Panic /\ workers[w].at = "take" /\ m_tasks # <<>> /\ ~IsTakable(Head(m_tasks))
         \/ Takes(w)
<1>1. workers[w].at = "take" /\ m_tasks # <<>>
  BY DEF TakeTask, At
<1>2. CASE ~IsTakable(Head(m_tasks))
  BY <1>1, <1>2 DEF TakeTask
<1>3. CASE IsTakable(Head(m_tasks))
  <2> DEFINE at == IF Tail(m_tasks) # <<>> THEN "tickle" ELSE "begin"
             z == [workers[w] EXCEPT !.task = Head(m_tasks), !.at = at]
  <2>1. at \in {"tickle", "begin"} /\ Head(m_tasks) \in RealTasks
    BY <1>1, TaskOfQueue DEF Typed, SchedulerTyped
  <2>2. workers' = [workers EXCEPT ![w].task = Head(m_tasks), ![w].at = at]
    BY <1>3 DEF TakeTask
  <2> HIDE DEF at
  <2>3. workers \in [Worker -> WorkerType] /\ workers[w] \in WorkerType
    BY DEF Typed, SchedulerTyped
  <2>4. /\ z \in WorkerType /\ z.at = at /\ z.task = Head(m_tasks) /\ z.cbs = workers[w].cbs
        /\ z.events = workers[w].events /\ z.idleTerm = workers[w].idleTerm
    BY <2>1, <2>3 DEF WorkerType, WorkerPlaces
  <2>5. workers' = [workers EXCEPT ![w] = z]
    BY <2>2, <2>3
  <2> HIDE DEF z
  <2>6. workers' \in [Worker -> WorkerType] /\ OnlyWorker(w) /\ workers'[w] = z
    BY <2>3, <2>4, <2>5 DEF OnlyWorker
  <2>7. /\ m_tasks' = Tail(m_tasks) /\ m_activeThreadCount' = m_activeThreadCount + 1
        /\ UNCHANGED <<m_idleThreadCount, m_isStopped, m_tickleFds, fibers, owner, panic>>
    BY <1>3 DEF TakeTask
  <2> QED BY <1>1, <1>3, <2>1, <2>4, <2>6, <2>7 DEF Takes
<1> QED BY <1>2, <1>3

\* A fiber that is READY comes to run.
Resumes(w, f) ==
  /\ workers[w].at = "begin" /\ workers[w].task \in RealTasks
  /\ workers[w].task.kind = "fiber" /\ workers[w].task.fiber = f
  /\ fibers[f].state = "READY"
  /\ fibers' \in [Fiber -> FiberType] /\ OnlyFiber(f)
  /\ fibers'[f].state = "RUNNING" /\ fibers'[f].at = fibers[f].at /\ fibers'[f].call = fibers[f].call
  /\ Goes(w, "run")
  /\ UNCHANGED <<queueVars, countVars, m_isStopped, owner, panic>>

LEMMA ResumeIs ==
  ASSUME Typed, RunByOne, NEW w \in Worker, Resume(w)
  PROVE  \E f \in Fiber :
           \/ Panic /\ fibers[f].state # "READY"
              /\ workers[w].at = "begin" /\ workers[w].task.kind = "fiber" /\ workers[w].task.fiber = f
           \/ Resumes(w, f)
<1> DEFINE f == workers[w].task.fiber
<1>1. workers[w].at = "begin" /\ workers[w].task.kind = "fiber"
  BY DEF Resume, At
<1>2. workers[w].task \in RealTasks /\ f \in Fiber
  BY <1>1 DEF RunByOne, RealTasks
<1>3. CASE fibers[f].state # "READY"
  BY <1>1, <1>2, <1>3 DEF Resume
<1>4. CASE fibers[f].state = "READY"
  <2>1. /\ fibers' = [fibers EXCEPT ![f].state = "RUNNING"] /\ MoveTo(w, "run")
        /\ UNCHANGED <<queueVars, countVars, m_isStopped, owner, panic>>
    BY <1>4 DEF Resume
  <2> HIDE DEF f
  <2> DEFINE z == [fibers[f] EXCEPT !.state = "RUNNING"]
  <2>2. fibers \in [Fiber -> FiberType] /\ fibers[f] \in FiberType
    BY <1>2 DEF Typed, SchedulerTyped
  <2>3. z \in FiberType /\ z.state = "RUNNING" /\ z.at = fibers[f].at /\ z.call = fibers[f].call
    BY <2>2 DEF FiberType
  <2>4. fibers' = [fibers EXCEPT ![f] = z]
    BY <2>1, <2>2
  <2> HIDE DEF z
  <2>5. fibers' \in [Fiber -> FiberType] /\ OnlyFiber(f) /\ fibers'[f] = z
    BY <1>2, <2>3, <2>4, FiberIs DEF Typed
  <2>6. Goes(w, "run")
    BY <2>1, MoveGoes DEF WorkerPlaces
  <2> QED BY <1>1, <1>2, <1>4, <2>1, <2>3, <2>5, <2>6 DEF Resumes, f
<1> QED BY <1>3, <1>4

LEMMA FinishIs ==
  ASSUME Typed, NEW w \in Worker, FinishTask(w)
  PROVE  /\ workers[w].at = "finish"
         /\ workers' \in [Worker -> WorkerType] /\ OnlyWorker(w)
         /\ workers'[w].at = "take" /\ workers'[w].cbs = workers[w].cbs
         /\ workers'[w].events = workers[w].events /\ workers'[w].idleTerm = workers[w].idleTerm
<1>1. /\ workers \in [Worker -> WorkerType] /\ workers[w].at = "finish"
      /\ workers' = [workers EXCEPT ![w].task = NoTask, ![w].at = "take"]
  BY DEF FinishTask, At, Typed, SchedulerTyped
<1> QED BY <1>1 DEF WorkerType, WorkerPlaces, OnlyWorker

-----------------------------------------------------------------------------
(* The counters                                                            *)

ActiveWorkers == {w \in Worker : Active(w)}
IdleWorkers == {w \in Worker : Idle(w)}

LEMMA CountEnters ==
  ASSUME NEW S \in SUBSET Worker, NEW w \in Worker, w \notin S
  PROVE  Cardinality(S \union {w}) = Cardinality(S) + 1
BY WorkerAssumption, FS_Subset, FS_AddElement

LEMMA CountLeaves ==
  ASSUME NEW S \in SUBSET Worker, NEW w \in S
  PROVE  Cardinality(S \ {w}) = Cardinality(S) - 1
BY WorkerAssumption, FS_Subset, FS_RemoveElement

LEMMA CountIs ==
  ASSUME NEW w \in Worker, OnlyWorker(w)
  PROVE  /\ (Active(w)' <=> Active(w)) => ActiveWorkers' = ActiveWorkers
         /\ ~Active(w) /\ Active(w)' => Cardinality(ActiveWorkers') = Cardinality(ActiveWorkers) + 1
         /\ Active(w) /\ ~Active(w)' => Cardinality(ActiveWorkers') = Cardinality(ActiveWorkers) - 1
         /\ (Idle(w)' <=> Idle(w)) => IdleWorkers' = IdleWorkers
         /\ ~Idle(w) /\ Idle(w)' => Cardinality(IdleWorkers') = Cardinality(IdleWorkers) + 1
         /\ Idle(w) /\ ~Idle(w)' => Cardinality(IdleWorkers') = Cardinality(IdleWorkers) - 1
<1>1. \A v \in Worker : v # w => (Active(v)' <=> Active(v)) /\ (Idle(v)' <=> Idle(v))
  BY DEF OnlyWorker, Active, Idle
<1>2. ASSUME ~Active(w), Active(w)' PROVE ActiveWorkers' = ActiveWorkers \union {w} /\ w \notin ActiveWorkers
  BY <1>1, <1>2 DEF ActiveWorkers
<1>3. ASSUME Active(w), ~Active(w)' PROVE ActiveWorkers' = ActiveWorkers \ {w} /\ w \in ActiveWorkers
  BY <1>1, <1>3 DEF ActiveWorkers
<1>4. ASSUME ~Idle(w), Idle(w)' PROVE IdleWorkers' = IdleWorkers \union {w} /\ w \notin IdleWorkers
  BY <1>1, <1>4 DEF IdleWorkers
<1>5. ASSUME Idle(w), ~Idle(w)' PROVE IdleWorkers' = IdleWorkers \ {w} /\ w \in IdleWorkers
  BY <1>1, <1>5 DEF IdleWorkers
<1>6. ActiveWorkers \in SUBSET Worker /\ IdleWorkers \in SUBSET Worker
  BY DEF ActiveWorkers, IdleWorkers
<1>7. ASSUME Active(w)' <=> Active(w) PROVE ActiveWorkers' = ActiveWorkers
  BY <1>1, <1>7 DEF ActiveWorkers
<1>8. ASSUME Idle(w)' <=> Idle(w) PROVE IdleWorkers' = IdleWorkers
  BY <1>1, <1>8 DEF IdleWorkers
<1> QED BY <1>2, <1>3, <1>4, <1>5, <1>6, <1>7, <1>8, CountEnters, CountLeaves

\* A step of w after which it is active and idle as before, or that moves no worker.
LEMMA CountStays ==
  ASSUME Counted, UNCHANGED countVars,
         \/ UNCHANGED workers
         \/ \E w \in Worker : OnlyWorker(w) /\ (Active(w)' <=> Active(w)) /\ (Idle(w)' <=> Idle(w))
  PROVE  Counted'
<1>1. ActiveWorkers' = ActiveWorkers /\ IdleWorkers' = IdleWorkers
  <2>1. CASE UNCHANGED workers
    BY <2>1 DEF ActiveWorkers, IdleWorkers, Active, Idle
  <2> QED BY <2>1, CountIs
<1> QED BY <1>1 DEF Counted, ActiveWorkers, IdleWorkers, countVars

LEMMA SchedulingCounted ==
  ASSUME Typed, Counted, RunByOne, NEW w \in Worker, Scheduling(w)
  PROVE  Counted'
<1> USE DEF countVars
<1>1. CASE TakeTask(w)
  <2>1. CASE Panic
    BY <2>1, CountStays DEF Panic
  <2>2. CASE Takes(w)
    <3>1. ~Active(w) /\ Active(w)' /\ ~Idle(w) /\ ~Idle(w)' /\ OnlyWorker(w)
      BY <2>2 DEF Takes, Active, Idle
    <3>2. m_activeThreadCount' = m_activeThreadCount + 1 /\ UNCHANGED m_idleThreadCount
      BY <2>2 DEF Takes
    <3> QED BY <3>1, <3>2, CountIs DEF Counted, ActiveWorkers, IdleWorkers
  <2> QED BY <1>1, <2>1, <2>2, TakeIs
<1>2. CASE TickleOthers(w)
  <2>1. workers[w].at = "tickle" /\ Goes(w, "begin") /\ UNCHANGED countVars
    BY <1>2, MoveGoes DEF TickleOthers, At, WorkerPlaces
  <2> QED BY <2>1, CountStays DEF Goes, Active, Idle
<1>3. CASE Resume(w)
  <2>1. PICK f \in Fiber : Panic \/ Resumes(w, f)
    BY <1>3, ResumeIs
  <2> QED BY <2>1, CountStays DEF Panic, Resumes, Goes, Active, Idle
<1>4. CASE FinishTask(w)
  <2>1. Active(w) /\ ~Active(w)' /\ ~Idle(w) /\ ~Idle(w)' /\ OnlyWorker(w)
    BY <1>4, FinishIs DEF Active, Idle
  <2>2. m_activeThreadCount' = m_activeThreadCount - 1 /\ UNCHANGED m_idleThreadCount
    BY <1>4 DEF FinishTask
  <2> QED BY <2>1, <2>2, CountIs DEF Counted, ActiveWorkers, IdleWorkers
<1>5. CASE FindNothing(w)
  <2>1. workers[w].at = "take" /\ UNCHANGED countVars /\ \E at \in {"exited", "empty"} : MoveTo(w, at)
    BY <1>5 DEF FindNothing, At
  <2>2. \E at \in {"exited", "empty"} : Goes(w, at)
    BY <2>1, MoveGoes DEF WorkerPlaces
  <2> QED BY <2>1, <2>2, CountStays DEF Goes, Active, Idle
<1>6. CASE BeIdle(w)
  <2>1. workers[w].at = "empty" /\ Goes(w, "timers")
    BY <1>6, MoveGoes DEF BeIdle, At, WorkerPlaces
  <2>2. ~Active(w) /\ ~Active(w)' /\ ~Idle(w) /\ Idle(w)' /\ OnlyWorker(w)
    BY <2>1 DEF Goes, Active, Idle
  <2>3. m_idleThreadCount' = m_idleThreadCount + 1 /\ UNCHANGED m_activeThreadCount
    BY <1>6 DEF BeIdle
  <2> QED BY <2>2, <2>3, CountIs DEF Counted, ActiveWorkers, IdleWorkers
<1>7. CASE LeaveIdle(w)
  <2>1. workers[w].at = "leave" /\ Goes(w, "take")
    BY <1>7, MoveGoes DEF LeaveIdle, At, WorkerPlaces
  <2>2. ~Active(w) /\ ~Active(w)' /\ Idle(w) /\ ~Idle(w)' /\ OnlyWorker(w)
    BY <2>1 DEF Goes, Active, Idle
  <2>3. m_idleThreadCount' = m_idleThreadCount - 1 /\ UNCHANGED m_activeThreadCount
    BY <1>7 DEF LeaveIdle
  <2> QED BY <2>2, <2>3, CountIs DEF Counted, ActiveWorkers, IdleWorkers
<1> QED BY <1>1, <1>2, <1>3, <1>4, <1>5, <1>6, <1>7 DEF Scheduling

\* What a step of idle() does to the worker.
LEMMA IdlingIs ==
  ASSUME Typed, NEW w \in Worker, Idling(w)
  PROVE  /\ UNCHANGED countVars
         /\ \/ UNCHANGED workers
            \/ OnlyWorker(w) /\ Idle(w) /\ Idle(w)'
<1> USE DEF countVars
<1>1. CASE CheckTimers(w)
  <2>1. workers[w].at = "timers" /\ \E at \in {"pending", "wait"} : MoveTo(w, at)
    BY <1>1 DEF CheckTimers, At
  <2> QED BY <1>1, <2>1, MoveGoes DEF CheckTimers, Goes, Idle, WorkerPlaces
<1>2. CASE CheckPending(w)
  <2>1. workers[w].at = "pending" /\ \E at \in {"stopping", "wait"} : MoveTo(w, at)
    BY <1>2 DEF CheckPending, At
  <2> QED BY <1>2, <2>1, MoveGoes DEF CheckPending, Goes, Idle, WorkerPlaces
<1>3. CASE CheckScheduler(w)
  BY <1>3, CheckSchedulerIs DEF CheckScheduler, Idle
<1>4. CASE EpollWait(w)
  BY <1>4, EpollWaitIs DEF EpollWait, Idle
<1>5. CASE listExpiredCb(w)
  BY <1>5, CollectIs DEF listExpiredCb, Idle
<1>6. CASE ScheduleExpired(w)
  BY <1>6, ScheduleExpiredIs DEF ScheduleExpired, Passes, Idle
<1>7. CASE HandleEvent(w)
  <2>1. PICK r \in workers[w].events :
          \/ Drop(w, r) /\ UNCHANGED countVars
          \/ Panics
          \/ Handled(w, r)
    BY <1>7, HandleIs
  <2> QED BY <1>7, <2>1, HandleIs, DropIs DEF Handled, Panics, Panic, Idle, Typed
<1>8. CASE YieldIdle(w)
  <2>1. workers[w].at = "events" /\ MoveTo(w, "leave")
    BY <1>8 DEF YieldIdle, At
  <2> QED BY <1>8, <2>1, MoveGoes DEF YieldIdle, Goes, Idle, WorkerPlaces
<1> QED BY <1>1, <1>2, <1>3, <1>4, <1>5, <1>6, <1>7, <1>8 DEF Idling

LEMMA RunningCounted ==
  ASSUME Typed, Counted, RunByOne, Registered, NEW w \in Worker, Running(w)
  PROVE  Counted'
<1>1. CASE RunWake(w)
  BY <1>1, RunWakeIs, CountStays DEF Goes, Active, Idle
<1>2. CASE RunTimeout(w)
  BY <1>2, RunTimeoutIs, CountStays DEF Goes, Active, Idle
<1>3. ASSUME NEW f \in Fiber, Invoke(w, f) PROVE Counted'
  BY <1>3, InvokeIs, CountStays DEF Steps
<1>4. ASSUME NEW f \in Fiber, End(w, f) PROVE Counted'
  BY <1>4, EndIs, CountStays DEF Leaves, Runs, At, Active, Idle
<1>5. ASSUME NEW f \in Fiber, Try(w, f) PROVE Counted'
  BY <1>5, TryIs, CountStays
<1>6. ASSUME NEW f \in Fiber, AddEvent(w, f) PROVE Counted'
  BY <1>6, CountStays DEF AddEvent, Panic, countVars
<1>7. ASSUME NEW f \in Fiber, YieldInCall(w, f) PROVE Counted'
  BY <1>7, YieldIs, CountStays DEF Leaves, Runs, At, Active, Idle
<1>8. ASSUME NEW f \in Fiber, Woken(w, f) PROVE Counted'
  BY <1>8, WokenIs, CountStays
<1>9. ASSUME NEW f \in Fiber, Sleep(w, f) PROVE Counted'
  BY <1>9, SleepIs, CountStays
<1>10. ASSUME NEW f \in Fiber, Close(w, f) PROVE Counted'
  BY <1>10, CloseIs, CountStays
<1>11. ASSUME NEW f \in Fiber, Socket(w, f) PROVE Counted'
  BY <1>11, SocketIs, CountStays
<1> QED BY <1>1, <1>2, <1>3, <1>4, <1>5, <1>6, <1>7, <1>8, <1>9, <1>10, <1>11 DEF Running

\* Who is no worker moves none.
LEMMA OthersAre ==
  ASSUME (OwnerStep \/ OwnerDecides) \/ Kernel \/ TimePasses \/ UNCHANGED vars
  PROVE  UNCHANGED <<workers, fibers, countVars>>
BY DEF OwnerStep, OwnerDecides, Kernel, TimePasses, TickleScheduled, TickleAll, Join, Stop, Schedule,
       HangUp, BecomeReady, vars, schedulerVars

LEMMA NextCounted ==
  ASSUME Typed, Counted, RunByOne, Registered, [Next]_vars
  PROVE  Counted'
<1>1. ASSUME NEW w \in Worker, Scheduling(w) PROVE Counted'
  BY <1>1, SchedulingCounted
<1>2. ASSUME NEW w \in Worker, Idling(w) PROVE Counted'
  BY <1>2, IdlingIs, CountStays DEF Active, Idle
<1>3. ASSUME NEW w \in Worker, Running(w) PROVE Counted'
  BY <1>3, RunningCounted
<1>4. CASE (OwnerStep \/ OwnerDecides) \/ Kernel \/ TimePasses \/ UNCHANGED vars
  BY <1>4, OthersAre, CountStays
<1> QED BY <1>1, <1>2, <1>3, <1>4 DEF Next, WorkerStep

-----------------------------------------------------------------------------
(* What a step does to the tasks, waiters and timers of fibers             *)

\* A worker goes on and takes, drops or runs nothing.
Turns(w) ==
  /\ OnlyWorker(w) /\ workers[w].at # "run" /\ workers'[w].at # "run"
  /\ workers'[w].at \in {"tickle", "begin"} =>
       workers[w].at \in {"tickle", "begin"} /\ workers'[w].task = workers[w].task
  /\ workers[w].at \in {"tickle", "begin"} /\ workers[w].task.kind # "timeout" =>
       workers'[w].at \in {"tickle", "begin"}
  /\ workers'[w].cbs = workers[w].cbs
  /\ workers'[w].at # "events" => workers[w].at # "events" \/ workers[w].cbs = {}

Rests == FibersStay /\ (UNCHANGED workers \/ \E w \in Worker : Turns(w))

\* The due timers are in the worker's hands.
Collects(w) ==
  /\ OnlyWorker(w) /\ workers[w].at = "expire" /\ workers'[w].at = "events"
  /\ workers'[w].task = workers[w].task /\ workers'[w].cbs = due
  /\ timers' = timers \ due

Schedules(f) ==
  /\ f \notin owner.scheduled /\ owner'.scheduled = owner.scheduled \union {f}
  /\ m_tasks' = Append(m_tasks, FiberTask(f))

Wakes(w) ==
  /\ workers[w].at = "begin" /\ workers[w].task \in RealTasks /\ workers[w].task.kind = "wake"
  /\ m_tasks' = Append(m_tasks, FiberTask(workers[w].task.fiber)) /\ Goes(w, "finish")

contextVars == <<m_fdContexts, m_pendingEventCount>>

WorkerEffect(w) ==
  \/ Takes(w) /\ UNCHANGED <<contextVars, timers>>
  \/ Collects(w) /\ UNCHANGED <<m_tasks, contextVars, fibers, owner>>
  \/ \E cb : Passes(w, cb) /\ UNCHANGED <<contextVars, timers, fibers, owner>>
  \/ Wakes(w) /\ UNCHANGED <<contextVars, timers, fibers, owner>>
  \/ \E fd, e : TriggerAt(fd, e) /\ Turns(w) /\ FibersStay /\ UNCHANGED <<timers, owner>>

FiberEffect(w, f) ==
  \/ Resumes(w, f) /\ UNCHANGED <<contextVars, timers>>
  \/ /\ \E at \in {"try", "add", "returned", "sleep", "close", "socket"} : Steps(w, f, at)
     /\ fibers[f].at # "yield" /\ WakesStay /\ UNCHANGED <<m_tasks, contextVars, owner>>
  \/ /\ \E fd, e : TriggerAt(fd, e)
     /\ Steps(w, f, "returned") /\ fibers[f].at # "yield" /\ UNCHANGED <<timers, owner>>
  \/ /\ \E fd, e : Adds(fd, e, f)
     /\ Steps(w, f, "yield") /\ fibers[f].at # "yield" /\ UNCHANGED <<m_tasks, timers, owner>>
  \/ /\ Sleeps(f)
     /\ Steps(w, f, "yield") /\ fibers[f].at # "yield" /\ UNCHANGED <<m_tasks, contextVars, owner>>
  \/ /\ Leaves(w, f, "READY", "woken") /\ fibers[f].at = "yield"
     /\ UNCHANGED <<m_tasks, contextVars, timers, owner>>
  \/ /\ Leaves(w, f, "TERM", "end") /\ fibers[f].at # "yield"
     /\ UNCHANGED <<m_tasks, contextVars, timers, owner>>

NoEffect ==
  Rests /\ owner'.scheduled = owner.scheduled /\ UNCHANGED <<m_tasks, contextVars, timers>>

Effect ==
  \/ NoEffect
  \/ \E w \in Worker : WorkerEffect(w)
  \/ \E w \in Worker, f \in Fiber : FiberEffect(w, f)
  \/ (\E f \in Fiber : Schedules(f)) /\ UNCHANGED <<contextVars, timers, workers, fibers>>

LEMMA SameFibersStay ==
  ASSUME Typed, UNCHANGED fibers
  PROVE  FibersStay
BY DEF Typed, SchedulerTyped, FibersStay

LEMMA NothingHappens ==
  ASSUME Typed, UNCHANGED <<fibers, workers, m_tasks, contextVars, timers>>, owner'.scheduled = owner.scheduled
  PROVE  Effect
BY SameFibersStay DEF Effect, NoEffect, Rests

LEMMA PanicIs ==
  ASSUME Typed, Panic, UNCHANGED <<contextVars, timers>>
  PROVE  Effect
BY NothingHappens DEF Panic, queueVars

\* A worker that goes on.
LEMMA GoesTurns ==
  ASSUME Typed, CollectedOnce, NEW w \in Worker, NEW at, Goes(w, at), at # "run", workers[w].at # "run",
         at \in {"tickle", "begin"} => workers[w].at \in {"tickle", "begin"},
         workers[w].at \in {"tickle", "begin"} => at \in {"tickle", "begin"},
         at = "events" \/ workers[w].at # "events" \/ workers[w].cbs = {}
  PROVE  Turns(w)
BY DEF Goes, Turns

LEMMA TurningHasNoEffect ==
  ASSUME Typed, NEW w \in Worker, Turns(w),
         UNCHANGED <<m_tasks, contextVars, timers, fibers, owner>>
  PROVE  Effect
BY SameFibersStay DEF Effect, NoEffect, Rests

LEMMA SchedulingIs ==
  ASSUME Typed, RunByOne, CollectedOnce, NEW w \in Worker, Scheduling(w), UNCHANGED <<ioVars,
                                                                                      timerVars>>
  PROVE  Effect
<1> USE DEF queueVars, contextVars, ioVars, timerVars
<1>1. CASE TakeTask(w)
  <2>1. CASE Panic
    BY <2>1, PanicIs
  <2>2. CASE Takes(w)
    BY <2>2 DEF Effect, WorkerEffect
  <2> QED BY <1>1, <2>1, <2>2, TakeIs
<1>2. CASE TickleOthers(w)
  <2>1. workers[w].at = "tickle" /\ Goes(w, "begin")
    BY <1>2, MoveGoes DEF TickleOthers, At, WorkerPlaces
  <2>2. Turns(w)
    BY <2>1, GoesTurns
  <2> QED BY <1>2, <2>2, TurningHasNoEffect DEF TickleOthers
<1>3. CASE Resume(w)
  <2>1. PICK f \in Fiber : Panic \/ Resumes(w, f)
    BY <1>3, ResumeIs
  <2>2. CASE Panic
    BY <2>2, PanicIs
  <2>3. CASE Resumes(w, f)
    BY <2>3 DEF Effect, FiberEffect
  <2> QED BY <2>1, <2>2, <2>3
<1>4. CASE FinishTask(w)
  <2>1. Turns(w)
    BY <1>4, FinishIs DEF Turns, CollectedOnce
  <2> QED BY <1>4, <2>1, TurningHasNoEffect DEF FinishTask
<1>5. CASE FindNothing(w)
  <2>1. workers[w].at = "take" /\ \E at \in {"exited", "empty"} : Goes(w, at)
    BY <1>5, MoveGoes DEF FindNothing, At, WorkerPlaces
  <2>2. Turns(w)
    BY <2>1, GoesTurns
  <2> QED BY <1>5, <2>2, TurningHasNoEffect DEF FindNothing
<1>6. CASE BeIdle(w)
  <2>1. workers[w].at = "empty" /\ Goes(w, "timers")
    BY <1>6, MoveGoes DEF BeIdle, At, WorkerPlaces
  <2>2. Turns(w)
    BY <2>1, GoesTurns
  <2> QED BY <1>6, <2>2, TurningHasNoEffect DEF BeIdle
<1>7. CASE LeaveIdle(w)
  <2>1. workers[w].at = "leave" /\ Goes(w, "take")
    BY <1>7, MoveGoes DEF LeaveIdle, At, WorkerPlaces
  <2>2. Turns(w)
    BY <2>1, GoesTurns
  <2> QED BY <1>7, <2>2, TurningHasNoEffect DEF LeaveIdle
<1> QED BY <1>1, <1>2, <1>3, <1>4, <1>5, <1>6, <1>7 DEF Scheduling

LEMMA IdleEffect ==
  ASSUME Typed, RunByOne, CollectedOnce, NEW w \in Worker, Idling(w)
  PROVE  Effect
<1> USE DEF queueVars, contextVars, ioVars, timerVars
<1>1. CASE CheckTimers(w)
  <2>1. workers[w].at = "timers" /\ \E at \in {"pending", "wait"} : Goes(w, at)
    BY <1>1, MoveGoes DEF CheckTimers, At, WorkerPlaces
  <2>2. Turns(w)
    BY <2>1, GoesTurns
  <2> QED BY <1>1, <2>2, TurningHasNoEffect DEF CheckTimers
<1>2. CASE CheckPending(w)
  <2>1. workers[w].at = "pending" /\ \E at \in {"stopping", "wait"} : Goes(w, at)
    BY <1>2, MoveGoes DEF CheckPending, At, WorkerPlaces
  <2>2. Turns(w)
    BY <2>1, GoesTurns
  <2> QED BY <1>2, <2>2, TurningHasNoEffect DEF CheckPending
<1>3. CASE CheckScheduler(w)
  <2>1. Turns(w)
    BY <1>3, CheckSchedulerIs DEF Turns
  <2> QED BY <1>3, <2>1, TurningHasNoEffect DEF CheckScheduler
<1>4. CASE EpollWait(w)
  <2>1. Turns(w)
    BY <1>4, EpollWaitIs DEF Turns
  <2> QED BY <1>4, <2>1, TurningHasNoEffect DEF EpollWait
<1>5. CASE listExpiredCb(w)
  <2>1. Collects(w)
    BY <1>5, CollectIs DEF Collects, listExpiredCb
  <2> QED BY <1>5, <2>1 DEF listExpiredCb, Effect, WorkerEffect
<1>6. CASE ScheduleExpired(w)
  <2>1. PICK cb : Passes(w, cb)
    BY <1>6, ScheduleExpiredIs
  <2> QED BY <1>6, <2>1 DEF ScheduleExpired, Effect, WorkerEffect
<1>7. CASE HandleEvent(w)
  <2>1. PICK r \in workers[w].events :
          \/ Drop(w, r) /\ UNCHANGED <<queueVars, countVars, m_isStopped, fibers, owner, panic,
                                       ioVars, timerVars>>
          \/ Panics
          \/ Handled(w, r)
    BY <1>7, HandleIs
  <2>2. workers[w].at = "events"
    BY <1>7, HandleIs
  <2>3. CASE Drop(w, r) /\ UNCHANGED <<queueVars, countVars, m_isStopped, fibers, owner, panic,
                                       ioVars, timerVars>>
    <3>1. Turns(w)
      BY <2>2, <2>3, DropIs DEF Turns, Typed
    <3> QED BY <2>3, <3>1, TurningHasNoEffect
  <2>4. CASE Panics
    BY <2>4, PanicIs DEF Panics
  <2>5. CASE Handled(w, r)
    <3>1. Turns(w)
      BY <2>2, <2>5, DropIs DEF Turns, Typed, Handled
    <3>2. FibersStay
      BY <2>5, SameFibersStay DEF Handled
    <3> QED BY <2>5, <3>1, <3>2 DEF Handled, Effect, WorkerEffect
  <2> QED BY <2>1, <2>3, <2>4, <2>5
<1>8. CASE YieldIdle(w)
  <2>1. workers[w].at = "events" /\ workers[w].cbs = {} /\ Goes(w, "leave")
    BY <1>8, MoveGoes DEF YieldIdle, At, WorkerPlaces
  <2>2. Turns(w)
    BY <2>1, GoesTurns
  <2> QED BY <1>8, <2>2, TurningHasNoEffect DEF YieldIdle
<1> QED BY <1>1, <1>2, <1>3, <1>4, <1>5, <1>6, <1>7, <1>8 DEF Idling

LEMMA RunningEffect ==
  ASSUME Typed, RunByOne, CollectedOnce, Registered, NEW w \in Worker, Running(w)
  PROVE  Effect
<1> USE DEF queueVars, contextVars, ioVars, timerVars
<1>0. ASSUME NEW f \in Fiber, FiberEffect(w, f) PROVE Effect
  BY <1>0 DEF Effect
<1>12. ASSUME UNCHANGED timerVars PROVE WakesStay
  BY <1>12 DEF WakesStay, Typed, IoTyped
<1>1. CASE RunWake(w)
  <2>1. Wakes(w)
    BY <1>1, RunWakeIs DEF Wakes, scheduler
  <2> QED BY <1>1, <2>1, RunWakeIs DEF Effect, WorkerEffect
<1>2. CASE RunTimeout(w)
  <2>1. Turns(w) /\ FibersStay /\ UNCHANGED <<timers, owner>>
    BY <1>2, RunTimeoutIs DEF Goes, Turns
  <2>2. \/ \E fd, e : TriggerAt(fd, e)
        \/ UNCHANGED <<m_tasks, contextVars>>
    BY <1>2, RunTimeoutIs
  <2> QED BY <2>1, <2>2 DEF Effect, WorkerEffect, NoEffect, Rests
<1>3. ASSUME NEW f \in Fiber, Invoke(w, f) PROVE Effect
  BY <1>0, <1>3, <1>12, InvokeIs DEF FiberEffect
<1>4. ASSUME NEW f \in Fiber, End(w, f) PROVE Effect
  BY <1>0, <1>4, EndIs DEF FiberEffect
<1>5. ASSUME NEW f \in Fiber, Try(w, f) PROVE Effect
  BY <1>0, <1>5, TryIs DEF FiberEffect
<1>6. ASSUME NEW f \in Fiber, AddEvent(w, f) PROVE Effect
  <2>1. PICK fd \in Fd, e \in Event :
          \/ Panic /\ UNCHANGED <<m_fdContexts, m_pendingEventCount, epoll, sockets, timerVars>>
          \/ /\ Adds(fd, e, f) /\ Steps(w, f, "yield")
             /\ UNCHANGED <<queueVars, countVars, m_isStopped, owner, panic, sockets, timerVars>>
          \/ /\ Steps(w, f, "returned") /\ WakesStay
             /\ UNCHANGED <<queueVars, countVars, m_isStopped, owner, panic, m_fdContexts,
                            m_pendingEventCount, epoll, sockets>>
    BY <1>6, AddEventIs
  <2>2. CASE Panic /\ UNCHANGED <<m_fdContexts, m_pendingEventCount, epoll, sockets, timerVars>>
    BY <2>2, PanicIs
  <2>3. CASE Adds(fd, e, f) /\ Steps(w, f, "yield")
             /\ UNCHANGED <<queueVars, countVars, m_isStopped, owner, panic, sockets, timerVars>>
    BY <1>0, <1>6, <2>3, AddEventIs DEF FiberEffect
  <2>4. CASE Steps(w, f, "returned") /\ WakesStay
             /\ UNCHANGED <<queueVars, countVars, m_isStopped, owner, panic, m_fdContexts,
                            m_pendingEventCount, epoll, sockets>>
    BY <1>0, <1>6, <2>4, AddEventIs DEF FiberEffect
  <2> QED BY <2>1, <2>2, <2>3, <2>4
<1>7. ASSUME NEW f \in Fiber, YieldInCall(w, f) PROVE Effect
  BY <1>0, <1>7, YieldIs DEF FiberEffect
<1>8. ASSUME NEW f \in Fiber, Woken(w, f) PROVE Effect
  BY <1>0, <1>8, WokenIs DEF FiberEffect
<1>9. ASSUME NEW f \in Fiber, Sleep(w, f) PROVE Effect
  BY <1>0, <1>9, SleepIs DEF FiberEffect
<1>10. ASSUME NEW f \in Fiber, Close(w, f) PROVE Effect
  <2>1. fibers[f].at # "yield" /\ Steps(w, f, "returned") /\ UNCHANGED <<owner, timerVars>>
    BY <1>10, CloseIs
  <2>2. \/ \E fd, e : TriggerAt(fd, e)
        \/ UNCHANGED <<m_tasks, contextVars>>
    BY <1>10, CloseIs
  <2> QED BY <1>0, <1>12, <2>1, <2>2 DEF FiberEffect
<1>11. ASSUME NEW f \in Fiber, Socket(w, f) PROVE Effect
  BY <1>0, <1>11, <1>12, SocketIs DEF FiberEffect
<1> QED BY <1>1, <1>2, <1>3, <1>4, <1>5, <1>6, <1>7, <1>8, <1>9, <1>10, <1>11 DEF Running

LEMMA NextIs ==
  ASSUME Typed, RunByOne, CollectedOnce, Registered, [Next]_vars
  PROVE  Effect
<1> USE DEF queueVars, contextVars, ioVars, timerVars
<1>1. ASSUME NEW w \in Worker, WorkerStep(w) PROVE Effect
  BY <1>1, SchedulingIs, IdleEffect, RunningEffect DEF WorkerStep
<1>2. CASE OwnerStep /\ UNCHANGED <<ioVars, timerVars>>
  <2>1. UNCHANGED <<fibers, workers, m_tasks>>
    BY <1>2 DEF OwnerStep, TickleScheduled, TickleAll, Join
  <2>2. owner'.scheduled = owner.scheduled
    BY <1>2 DEF OwnerStep, TickleScheduled, TickleAll, Join, Typed, SchedulerTyped
  <2> QED BY <1>2, <2>1, <2>2, NothingHappens
<1>3. CASE Stop /\ UNCHANGED <<ioVars, timerVars>>
  <2>1. UNCHANGED <<fibers, workers, m_tasks>> /\ owner'.scheduled = owner.scheduled
    BY <1>3 DEF Stop, Typed, SchedulerTyped
  <2> QED BY <1>3, <2>1, NothingHappens
<1>4. ASSUME NEW f \in Fiber, Schedule(f), UNCHANGED <<ioVars, timerVars>> PROVE Effect
  <2>1. Schedules(f) /\ UNCHANGED <<workers, fibers>>
    BY <1>4 DEF Schedule, Schedules
  <2> QED BY <1>4, <2>1 DEF Effect
<1>5. CASE Kernel
  <2>1. UNCHANGED <<schedulerVars, m_fdContexts, m_pendingEventCount, timerVars>>
    BY <1>5 DEF Kernel, HangUp, BecomeReady
  <2> QED BY <2>1, NothingHappens DEF schedulerVars
<1>6. CASE TimePasses
  <2>1. UNCHANGED <<schedulerVars, ioVars, timers>>
    BY <1>6 DEF TimePasses
  <2> QED BY <2>1, NothingHappens DEF schedulerVars
<1>7. CASE UNCHANGED vars
  BY <1>7, NothingHappens DEF vars, schedulerVars
<1> QED BY <1>1, <1>2, <1>3, <1>4, <1>5, <1>6, <1>7 DEF Next, OwnerDecides

-----------------------------------------------------------------------------
(* Who runs                                                                *)

LEMMA RunningStays ==
  ASSUME RunByOne, Rests
  PROVE  RunByOne'
<1>1. FibersStay
  BY DEF Rests
<1>2. \A f \in Fiber, w \in Worker : IsRunBy(f, w)' <=> IsRunBy(f, w)
  BY DEF Rests, Turns, OnlyWorker, IsRunBy
<1>3. ASSUME NEW v \in Worker
      PROVE  /\ workers'[v].at \in {"tickle", "begin"} => workers'[v].task \in RealTasks
             /\ workers'[v].at = "run" => workers'[v] = workers[v]
  BY DEF Rests, Turns, OnlyWorker, RunByOne
<1>4. ASSUME NEW v \in Worker, workers'[v].at = "run"
      PROVE  /\ workers'[v].task \in RealTasks /\ workers'[v].task.kind = "fiber"
             /\ fibers'[workers'[v].task.fiber].state = "RUNNING"
  <2>1. /\ workers[v].at = "run" /\ workers'[v].task = workers[v].task
        /\ workers[v].task \in RealTasks /\ workers[v].task.kind = "fiber"
        /\ fibers[workers[v].task.fiber].state = "RUNNING"
    BY <1>3, <1>4 DEF RunByOne
  <2>2. workers[v].task.fiber \in Fiber
    BY <2>1 DEF RealTasks
  <2> QED BY <1>1, <2>1, <2>2 DEF FibersStay
<1>5. ASSUME NEW f \in Fiber
      PROVE  /\ fibers'[f].state = "RUNNING" => \E w \in Worker : IsRunBy(f, w)'
             /\ fibers'[f].state = "READY" => fibers'[f].at \in {"start", "woken"}
             /\ fibers'[f].at \in InCall => fibers'[f].call # {}
             /\ \A v, w \in Worker : IsRunBy(f, v)' /\ IsRunBy(f, w)' => v = w
  BY <1>1, <1>2 DEF FibersStay, RunByOne
<1> QED BY <1>3, <1>4, <1>5 DEF RunByOne

LEMMA WorkerEffectRunning ==
  ASSUME Typed, RunByOne, NEW w \in Worker, WorkerEffect(w)
  PROVE  RunByOne'
<1>1. CASE Takes(w)
  <2>1. Head(m_tasks) \in RealTasks
    BY <1>1, TaskOfQueue DEF Takes, Typed, SchedulerTyped
  <2>2. \A f \in Fiber, v \in Worker : IsRunBy(f, v)' <=> IsRunBy(f, v)
    BY <1>1 DEF Takes, OnlyWorker, IsRunBy
  <2>3. UNCHANGED fibers
    BY <1>1 DEF Takes
  <2>4. ASSUME NEW v \in Worker
        PROVE  /\ workers'[v].at \in {"tickle", "begin"} => workers'[v].task \in RealTasks
               /\ workers'[v].at = "run" => workers'[v] = workers[v]
    BY <1>1, <2>1 DEF Takes, OnlyWorker, RunByOne
  <2> QED BY <2>2, <2>3, <2>4 DEF RunByOne
<1>2. CASE Collects(w) /\ UNCHANGED fibers
  <2>1. \A f \in Fiber, v \in Worker : IsRunBy(f, v)' <=> IsRunBy(f, v)
    BY <1>2 DEF Collects, OnlyWorker, IsRunBy
  <2>2. ASSUME NEW v \in Worker
        PROVE  workers'[v].at \in {"tickle", "begin", "run"} => workers'[v] = workers[v]
    BY <1>2 DEF Collects, OnlyWorker
  <2> QED BY <1>2, <2>1, <2>2 DEF RunByOne
<1>3. ASSUME NEW cb, Passes(w, cb), UNCHANGED fibers PROVE RunByOne'
  <2>1. \A f \in Fiber, v \in Worker : IsRunBy(f, v)' <=> IsRunBy(f, v)
    BY <1>3 DEF Passes, OnlyWorker, IsRunBy
  <2>2. ASSUME NEW v \in Worker
        PROVE  workers'[v].at \in {"tickle", "begin", "run"} => workers'[v] = workers[v]
    BY <1>3 DEF Passes, OnlyWorker
  <2> QED BY <1>3, <2>1, <2>2 DEF RunByOne
<1>4. CASE Wakes(w) /\ UNCHANGED fibers
  <2>1. \A f \in Fiber, v \in Worker : IsRunBy(f, v)' <=> IsRunBy(f, v)
    BY <1>4 DEF Wakes, Goes, OnlyWorker, IsRunBy
  <2>2. ASSUME NEW v \in Worker
        PROVE  workers'[v].at \in {"tickle", "begin", "run"} => workers'[v] = workers[v]
    BY <1>4 DEF Wakes, Goes, OnlyWorker
  <2> QED BY <1>4, <2>1, <2>2 DEF RunByOne
<1>5. CASE Turns(w) /\ FibersStay
  BY <1>5, RunningStays DEF Rests
<1> QED BY <1>1, <1>2, <1>3, <1>4, <1>5 DEF WorkerEffect

LEMMA FiberEffectRunning ==
  ASSUME Typed, RunByOne, NEW w \in Worker, NEW f \in Fiber, FiberEffect(w, f)
  PROVE  RunByOne'
<1>1. CASE Resumes(w, f)
  <2>1. \A v \in Worker : ~IsRunBy(f, v)
    BY <1>1 DEF Resumes, RunByOne, IsRunBy
  <2>2. \A g \in Fiber, v \in Worker : IsRunBy(g, v)' <=> IsRunBy(g, v) \/ (g = f /\ v = w)
    BY <1>1 DEF Resumes, Goes, OnlyWorker, IsRunBy
  <2>3. ASSUME NEW v \in Worker
        PROVE  /\ workers'[v].at \in {"tickle", "begin"} => workers'[v].task \in RealTasks
               /\ workers'[v].at = "run" =>
                    /\ workers'[v].task \in RealTasks /\ workers'[v].task.kind = "fiber"
                    /\ fibers'[workers'[v].task.fiber].state = "RUNNING"
    <3>1. CASE v = w
      BY <1>1, <3>1 DEF Resumes, Goes
    <3>2. CASE v # w
      <4>1. workers'[v] = workers[v]
        BY <1>1, <3>2 DEF Resumes, Goes, OnlyWorker
      <4>2. workers[v].at = "run" => workers[v].task.fiber \in Fiber /\ workers[v].task.fiber # f
        BY <1>1 DEF RunByOne, RealTasks, Resumes
      <4> QED BY <1>1, <4>1, <4>2 DEF RunByOne, Resumes, OnlyFiber
    <3> QED BY <3>1, <3>2
  <2>4. ASSUME NEW g \in Fiber
        PROVE  /\ fibers'[g].state = "RUNNING" => \E v \in Worker : IsRunBy(g, v)'
               /\ fibers'[g].state = "READY" => fibers'[g].at \in {"start", "woken"}
               /\ fibers'[g].at \in InCall => fibers'[g].call # {}
    <3>1. CASE g = f
      BY <1>1, <2>2, <3>1 DEF Resumes, RunByOne
    <3>2. CASE g # f
      BY <1>1, <2>2, <3>2 DEF Resumes, OnlyFiber, RunByOne
    <3> QED BY <3>1, <3>2
  <2>5. \A g \in Fiber : \A u, v \in Worker : IsRunBy(g, u)' /\ IsRunBy(g, v)' => u = v
    BY <2>1, <2>2 DEF RunByOne
  <2> QED BY <2>3, <2>4, <2>5 DEF RunByOne
<1>2. ASSUME NEW at, Steps(w, f, at) PROVE RunByOne'
  <2>1. \A g \in Fiber, v \in Worker : IsRunBy(g, v)' <=> IsRunBy(g, v)
    BY <1>2 DEF Steps, IsRunBy
  <2>2. fibers[f].state = "RUNNING"
    BY <1>2, RunsIs DEF Steps
  <2>3. \A g \in Fiber : fibers'[g].state = fibers[g].state
    BY <1>2 DEF Steps, OnlyFiber
  <2>4. ASSUME NEW v \in Worker
        PROVE  /\ workers'[v].at \in {"tickle", "begin"} => workers'[v].task \in RealTasks
               /\ workers'[v].at = "run" =>
                    /\ workers'[v].task \in RealTasks /\ workers'[v].task.kind = "fiber"
                    /\ fibers'[workers'[v].task.fiber].state = "RUNNING"
    <3>1. workers'[v] = workers[v]
      BY <1>2 DEF Steps
    <3>2. workers[v].at = "run" => workers[v].task.fiber \in Fiber
      BY DEF RunByOne, RealTasks
    <3> QED BY <2>3, <3>1, <3>2 DEF RunByOne
  <2>5. ASSUME NEW g \in Fiber
        PROVE  /\ fibers'[g].state = "RUNNING" => \E v \in Worker : IsRunBy(g, v)'
               /\ fibers'[g].state = "READY" => fibers'[g].at \in {"start", "woken"}
               /\ fibers'[g].at \in InCall => fibers'[g].call # {}
    <3>1. CASE g = f
      BY <1>2, <2>1, <2>2, <2>3, <3>1 DEF Steps, RunByOne
    <3>2. CASE g # f
      BY <1>2, <2>1, <3>2 DEF Steps, OnlyFiber, RunByOne
    <3> QED BY <3>1, <3>2
  <2>6. \A g \in Fiber : \A u, v \in Worker : IsRunBy(g, u)' /\ IsRunBy(g, v)' => u = v
    BY <2>1 DEF RunByOne
  <2> QED BY <2>4, <2>5, <2>6 DEF RunByOne
<1>3. ASSUME NEW state, NEW at, Leaves(w, f, state, at),
             <<state, at>> \in {<<"READY", "woken">>, <<"TERM", "end">>},
             fibers[f].at = "yield" \/ at = "end"
      PROVE  RunByOne'
  <2>1. workers[w].at = "run" /\ workers[w].task.fiber = f /\ fibers[f].state = "RUNNING"
    BY <1>3, RunsIs DEF Leaves
  <2>2. \A g \in Fiber, v \in Worker : IsRunBy(g, v)' <=> IsRunBy(g, v) /\ ~(g = f /\ v = w)
    BY <1>3, <2>1 DEF Leaves, OnlyWorker, IsRunBy
  <2>3. ASSUME NEW v \in Worker
        PROVE  /\ workers'[v].at \in {"tickle", "begin"} => workers'[v].task \in RealTasks
               /\ workers'[v].at = "run" =>
                    /\ workers'[v].task \in RealTasks /\ workers'[v].task.kind = "fiber"
                    /\ fibers'[workers'[v].task.fiber].state = "RUNNING"
    <3>1. CASE v = w
      BY <1>3, <3>1 DEF Leaves
    <3>2. CASE v # w
      <4>1. workers'[v] = workers[v]
        BY <1>3, <3>2 DEF Leaves, OnlyWorker
      <4>2. workers[v].at = "run" => workers[v].task.fiber \in Fiber /\ workers[v].task.fiber # f
        BY <2>1, <3>2 DEF RunByOne, RealTasks, IsRunBy
      <4> QED BY <1>3, <4>1, <4>2 DEF RunByOne, Leaves, OnlyFiber
    <3> QED BY <3>1, <3>2
  <2>4. ASSUME NEW g \in Fiber
        PROVE  /\ fibers'[g].state = "RUNNING" => \E v \in Worker : IsRunBy(g, v)'
               /\ fibers'[g].state = "READY" => fibers'[g].at \in {"start", "woken"}
               /\ fibers'[g].at \in InCall => fibers'[g].call # {}
    <3>1. CASE g = f
      BY <1>3, <3>1 DEF Leaves, RunByOne, InCall
    <3>2. CASE g # f
      BY <1>3, <2>2, <3>2 DEF Leaves, OnlyFiber, RunByOne
    <3> QED BY <3>1, <3>2
  <2>5. \A g \in Fiber : \A u, v \in Worker : IsRunBy(g, u)' /\ IsRunBy(g, v)' => u = v
    BY <2>2 DEF RunByOne
  <2> QED BY <2>3, <2>4, <2>5 DEF RunByOne
<1> QED BY <1>1, <1>2, <1>3 DEF FiberEffect

LEMMA EffectRunning ==
  ASSUME Typed, RunByOne, Effect
  PROVE  RunByOne'
<1>1. CASE NoEffect
  BY <1>1, RunningStays DEF NoEffect
<1>2. ASSUME UNCHANGED <<workers, fibers>> PROVE RunByOne'
  BY <1>2 DEF RunByOne, IsRunBy
<1> QED BY <1>1, <1>2, WorkerEffectRunning, FiberEffectRunning DEF Effect

-----------------------------------------------------------------------------
(* What is in the hands of workers                                         *)

LEMMA CollectedStays ==
  ASSUME CollectedOnce,
         UNCHANGED workers \/
         \E w \in Worker :
           /\ OnlyWorker(w) /\ workers'[w].cbs \subseteq workers[w].cbs
           /\ workers'[w].at # "events" => workers[w].at # "events" \/ workers[w].cbs = {}
  PROVE  CollectedOnce'
<1>1. CASE UNCHANGED workers
  BY <1>1 DEF CollectedOnce
<1>2. ASSUME NEW w \in Worker,
             /\ OnlyWorker(w) /\ workers'[w].cbs \subseteq workers[w].cbs
             /\ workers'[w].at # "events" => workers[w].at # "events" \/ workers[w].cbs = {}
      PROVE  CollectedOnce'
  <2>1. ASSUME NEW v \in Worker
        PROVE  /\ workers'[v].at # "events" => workers'[v].cbs = {}
               /\ \A c, d \in workers'[v].cbs :
                    c.kind = "wake" /\ d.kind = "wake" /\ c.fiber = d.fiber => c = d
    BY <1>2 DEF CollectedOnce, OnlyWorker
  <2> QED BY <2>1 DEF CollectedOnce
<1> QED BY <1>1, <1>2

LEMMA OneSleep ==
  ASSUME Typed, RunnersInv, NEW c \in timers, NEW d \in timers,
         c.kind = "wake", d.kind = "wake", c.fiber = d.fiber
  PROVE  c = d
<1>1. c.fiber \in Fiber
  BY DEF Typed, IoTyped, Callbacks
<1>2. c \in Sleeping(c.fiber) /\ d \in Sleeping(c.fiber)
  BY DEF Sleeping
<1>3. Sleeping(c.fiber) = {} \/ Single(Sleeping(c.fiber))
  BY <1>1 DEF RunnersInv, Runner, NoneRuns, OneRuns
<1> QED BY <1>2, <1>3 DEF Single

LEMMA EffectCollected ==
  ASSUME Typed, CollectedOnce, RunnersInv, Effect
  PROVE  CollectedOnce'
<1>1. CASE NoEffect
  BY <1>1, CollectedStays DEF NoEffect, Rests, Turns
<1>2. ASSUME NEW w \in Worker, WorkerEffect(w) PROVE CollectedOnce'
  <2>1. CASE Takes(w)
    BY <2>1, CollectedStays DEF Takes
  <2>2. CASE Collects(w)
    <3>1. ASSUME NEW v \in Worker
          PROVE  /\ workers'[v].at # "events" => workers'[v].cbs = {}
                 /\ \A c, d \in workers'[v].cbs :
                      c.kind = "wake" /\ d.kind = "wake" /\ c.fiber = d.fiber => c = d
      <4>1. CASE v = w
        <5>1. workers'[v].at = "events" /\ workers'[v].cbs \subseteq timers
          BY <2>2, <4>1 DEF Collects, Typed, IoTyped
        <5> QED BY <5>1, OneSleep
      <4>2. CASE v # w
        BY <2>2, <4>2 DEF Collects, OnlyWorker, CollectedOnce
      <4> QED BY <4>1, <4>2
    <3> QED BY <3>1 DEF CollectedOnce
  <2>3. ASSUME NEW cb, Passes(w, cb) PROVE CollectedOnce'
    BY <2>3, CollectedStays DEF Passes
  <2>4. CASE Wakes(w)
    BY <2>4, CollectedStays DEF Wakes, Goes
  <2>5. CASE Turns(w)
    BY <2>5, CollectedStays DEF Turns
  <2> QED BY <1>2, <2>1, <2>2, <2>3, <2>4, <2>5 DEF WorkerEffect
<1>3. ASSUME NEW w \in Worker, NEW f \in Fiber, FiberEffect(w, f) PROVE CollectedOnce'
  <2>1. CASE Resumes(w, f)
    BY <2>1, CollectedStays DEF Resumes, Goes
  <2>2. ASSUME NEW at, Steps(w, f, at) PROVE CollectedOnce'
    BY <2>2, CollectedStays DEF Steps
  <2>3. ASSUME NEW state, NEW at, Leaves(w, f, state, at) PROVE CollectedOnce'
    BY <2>3, CollectedStays DEF Leaves, Runs, At
  <2> QED BY <1>3, <2>1, <2>2, <2>3 DEF FiberEffect
<1>4. ASSUME UNCHANGED workers PROVE CollectedOnce'
  BY <1>4, CollectedStays
<1> QED BY <1>1, <1>2, <1>3, <1>4 DEF Effect

-----------------------------------------------------------------------------
(* Who waits                                                               *)

\* Of all contexts and events, only that of fd for e may get or lose a waiter.
OnlyContext(fd, e) ==
  /\ \A d \in Fd : d # fd => m_fdContexts'[d] = m_fdContexts[d]
  /\ \A a \in Event : a # e => m_fdContexts'[fd].waiter[a] = m_fdContexts[fd].waiter[a]

LEMMA TriggerWaiters ==
  ASSUME Typed, Registered, NEW fd, NEW e, TriggerAt(fd, e)
  PROVE  /\ fd \in Fd /\ e \in Event /\ <<fd, e>> \in Waiters /\ Waiters' = Waiters \ {<<fd, e>>}
         /\ m_fdContexts'[fd].events = {} /\ m_fdContexts'[fd].waiter[e] = NoFiber
         /\ OnlyContext(fd, e)
<1>1. fd \in Fd /\ e \in Event /\ e \in m_fdContexts[fd].events
  BY DEF TriggerAt
<1>2. m_fdContexts \in [Fd -> ContextType] /\ m_fdContexts[fd].waiter \in [Event -> Fiber \union {NoFiber}]
  BY <1>1 DEF Typed, IoTyped, ContextType
<1>3. /\ m_fdContexts'[fd] = triggerEvent(m_fdContexts[fd], e)
      /\ \A d \in Fd : d # fd => m_fdContexts'[d] = m_fdContexts[d]
  BY <1>1, <1>2 DEF TriggerAt
<1>4. /\ m_fdContexts'[fd].events = {}
      /\ m_fdContexts'[fd].waiter = [m_fdContexts[fd].waiter EXCEPT ![e] = NoFiber]
  BY <1>1, <1>3, TriggerTyped DEF Typed
<1>5. /\ m_fdContexts'[fd].waiter[e] = NoFiber
      /\ \A a \in Event : a # e => m_fdContexts'[fd].waiter[a] = m_fdContexts[fd].waiter[a]
  BY <1>1, <1>2, <1>4
<1>6. m_fdContexts[fd].waiter[e] # NoFiber
  BY <1>1 DEF Registered
<1>7. \A p \in Fd \X Event : p \in Waiters' <=> p \in Waiters /\ p # <<fd, e>>
  BY <1>1, <1>3, <1>5 DEF Waiters
<1> QED BY <1>1, <1>3, <1>4, <1>5, <1>6, <1>7 DEF Waiters, OnlyContext

LEMMA AddsWaiters ==
  ASSUME Typed, NEW f \in Fiber, NEW fd, NEW e, Adds(fd, e, f)
  PROVE  /\ fd \in Fd /\ e \in Event /\ <<fd,
                                          e>> \notin Waiters /\ Waiters' = Waiters \union {<<fd, e>>}
         /\ m_fdContexts'[fd].waiter[e] = f
         /\ OnlyContext(fd, e)
<1>1. fd \in Fd /\ e \in Event /\ m_fdContexts[fd].waiter[e] = NoFiber
  BY DEF Adds
<1>2. m_fdContexts \in [Fd -> ContextType] /\ m_fdContexts[fd].waiter \in [Event -> Fiber \union {NoFiber}]
  BY <1>1 DEF Typed, IoTyped, ContextType
<1>3. /\ m_fdContexts'[fd].waiter = [m_fdContexts[fd].waiter EXCEPT ![e] = f]
      /\ \A d \in Fd : d # fd => m_fdContexts'[d] = m_fdContexts[d]
  BY <1>1, <1>2 DEF Adds, addEvent
<1>4. /\ m_fdContexts'[fd].waiter[e] = f
      /\ \A a \in Event : a # e => m_fdContexts'[fd].waiter[a] = m_fdContexts[fd].waiter[a]
  BY <1>1, <1>2, <1>3
<1>5. f # NoFiber
  BY NoFiberAssumption
<1>6. \A p \in Fd \X Event : p \in Waiters' <=> p \in Waiters \/ p = <<fd, e>>
  <2> TAKE p \in Fd \X Event
  <2>1. p = <<p[1], p[2]>> /\ p[1] \in Fd /\ p[2] \in Event
    OBVIOUS
  <2>2. p \in Waiters <=> m_fdContexts[p[1]].waiter[p[2]] # NoFiber
    BY DEF Waiters
  <2>3. p \in Waiters' <=> m_fdContexts'[p[1]].waiter[p[2]] # NoFiber
    BY DEF Waiters
  <2>4. CASE p[1] = fd /\ p[2] = e
    BY <1>4, <1>5, <2>1, <2>3, <2>4
  <2>5. CASE ~(p[1] = fd /\ p[2] = e)
    <3>1. m_fdContexts'[p[1]].waiter[p[2]] = m_fdContexts[p[1]].waiter[p[2]]
      BY <1>3, <1>4, <2>1, <2>5
    <3>2. p # <<fd, e>>
      BY <2>5
    <3> QED BY <2>2, <2>3, <3>1, <3>2
  <2> QED BY <2>4, <2>5
<1> QED BY <1>1, <1>3, <1>4, <1>6 DEF Waiters, OnlyContext

\* What a step may do to the contexts.
LEMMA ContextEffect ==
  ASSUME Effect
  PROVE  \/ UNCHANGED contextVars
         \/ \E fd, e : TriggerAt(fd, e)
         \/ \E f \in Fiber : \E fd, e : Adds(fd, e, f)
BY DEF Effect, NoEffect, WorkerEffect, FiberEffect

LEMMA EffectPending ==
  ASSUME Typed, Registered, Pending, Effect
  PROVE  Registered' /\ Pending'
<1>1. CASE UNCHANGED contextVars
  BY <1>1 DEF contextVars, Registered, Pending, PendingCountsWaiters, Waiters
<1>2. ASSUME NEW fd, NEW e, TriggerAt(fd, e) PROVE Registered' /\ Pending'
  <2>0. /\ fd \in Fd /\ e \in Event /\ <<fd, e>> \in Waiters /\ Waiters' = Waiters \ {<<fd, e>>}
        /\ m_fdContexts'[fd].events = {}
        /\ OnlyContext(fd, e)
    BY <1>2, TriggerWaiters
  <2>1. Registered'
    BY <2>0 DEF Registered, OnlyContext
  <2>2. m_pendingEventCount' = m_pendingEventCount - 1
    BY <1>2 DEF TriggerAt
  <2>3. IsFiniteSet(Waiters') /\ Cardinality(Waiters') = Cardinality(Waiters) - 1
    BY <2>0, FS_RemoveElement DEF Pending
  <2> QED BY <2>1, <2>2, <2>3 DEF Pending, PendingCountsWaiters
<1>3. ASSUME NEW f \in Fiber, NEW fd, NEW e, Adds(fd, e, f) PROVE Registered' /\ Pending'
  <2>0. /\ fd \in Fd /\ e \in Event /\ <<fd, e>> \notin Waiters /\ Waiters' = Waiters \union {<<fd, e>>}
        /\ m_fdContexts'[fd].waiter[e] = f
        /\ OnlyContext(fd, e)
    BY <1>3, AddsWaiters
  <2>1. Registered'
    <3>1. m_fdContexts'[fd].events = m_fdContexts[fd].events \union {e}
      <4>1. IoTyped
        BY DEF Typed
      <4> QED BY <1>3, <4>1, AddsTyped, Zenon
    <3>2. f # NoFiber /\ m_fdContexts[fd].events \subseteq Event /\ fd \in Fd
      BY <1>3, NoFiberAssumption DEF Adds, Typed, IoTyped, ContextType
    <3> QED BY <2>0, <3>1, <3>2 DEF Registered, OnlyContext
  <2>2. m_pendingEventCount' = m_pendingEventCount + 1
    BY <1>3 DEF Adds, addEvent
  <2>3. IsFiniteSet(Waiters') /\ Cardinality(Waiters') = Cardinality(Waiters) + 1
    BY <2>0, FS_AddElement DEF Pending
  <2> QED BY <2>1, <2>2, <2>3 DEF Pending, PendingCountsWaiters
<1> QED BY <1>1, <1>2, <1>3, ContextEffect

-----------------------------------------------------------------------------
(* What will run a fiber                                                   *)

Like(S, T) == (S = {} => T = {}) /\ (Single(S) => Single(T))

SameLife(f) ==
  /\ fibers'[f].state = "TERM" <=> fibers[f].state = "TERM"
  /\ f \in owner'.scheduled <=> f \in owner.scheduled

LEMMA KeepsRunner ==
  ASSUME NEW f \in Fiber, Runner(f), SameLife(f),
         Like(InQueue(f), InQueue(f)'), Like(AsWaiter(f), AsWaiter(f)'),
         Like(Sleeping(f), Sleeping(f)'), Like(Expired(f), Expired(f)'), Like(Held(f), Held(f)')
  PROVE  Runner(f)'
BY DEF Runner, SameLife, Like, IsLive, OneRuns, NoneRuns

LEMMA SameIsLike ==
  ASSUME NEW S, NEW T, S = T
  PROVE  Like(S, T)
BY DEF Like

LEMMA SingletonIs ==
  ASSUME NEW x
  PROVE  Single({x})
BY DEF Single

LEMMA AppendIs ==
  ASSUME m_tasks \in Seq(RealTasks), NEW task \in RealTasks, m_tasks' = Append(m_tasks, task), NEW f
  PROVE  /\ task.kind = "timeout" \/ task.fiber # f => InQueue(f)' = InQueue(f)
         /\ task.kind # "timeout" /\ task.fiber = f => InQueue(f)' = InQueue(f) \union {Len(m_tasks) + 1}
<1>1. Len(m_tasks) \in Nat /\ DOMAIN m_tasks = 1 .. Len(m_tasks)
  OBVIOUS
<1>2. DOMAIN m_tasks' = 1 .. (Len(m_tasks) + 1)
  OBVIOUS
<1>3. DOMAIN m_tasks' = (DOMAIN m_tasks) \union {Len(m_tasks) + 1} /\ Len(m_tasks) + 1 \notin DOMAIN m_tasks
  BY <1>1, <1>2
<1>4. m_tasks'[Len(m_tasks) + 1] = task /\ \A n \in DOMAIN m_tasks : m_tasks'[n] = m_tasks[n]
  OBVIOUS
<1> QED BY <1>3, <1>4 DEF InQueue

LEMMA TailIs ==
  ASSUME m_tasks \in Seq(RealTasks), m_tasks # <<>>, m_tasks' = Tail(m_tasks), NEW f
  PROVE  /\ 1 \in InQueue(f) <=> Head(m_tasks).kind # "timeout" /\ Head(m_tasks).fiber = f
         /\ 1 \notin InQueue(f) => Like(InQueue(f), InQueue(f)')
         /\ 1 \in InQueue(f) /\ Single(InQueue(f)) => InQueue(f)' = {}
<1>1. Len(m_tasks) \in Nat /\ Len(m_tasks) > 0 /\ DOMAIN m_tasks = 1 .. Len(m_tasks)
  OBVIOUS
<1>2. DOMAIN m_tasks' = 1 .. (Len(m_tasks) - 1) /\ \A n \in 1 .. (Len(m_tasks) - 1) : m_tasks'[n] = m_tasks[n + 1]
  OBVIOUS
<1>3. m_tasks[1] = Head(m_tasks)
  OBVIOUS
<1>4. InQueue(f) \subseteq 1 .. Len(m_tasks) /\ InQueue(f)' \subseteq 1 .. (Len(m_tasks) - 1)
  BY <1>1, <1>2 DEF InQueue
<1>5. \A n \in 1 .. (Len(m_tasks) - 1) : n \in InQueue(f)' <=> n + 1 \in InQueue(f)
  BY <1>1, <1>2 DEF InQueue
<1>6. 1 \in InQueue(f) <=> Head(m_tasks).kind # "timeout" /\ Head(m_tasks).fiber = f
  BY <1>1, <1>3 DEF InQueue
<1>7. ASSUME 1 \notin InQueue(f) PROVE Like(InQueue(f), InQueue(f)')
  <2>1. InQueue(f) = {} => InQueue(f)' = {}
    BY <1>4, <1>5
  <2>2. ASSUME Single(InQueue(f)) PROVE Single(InQueue(f)')
    <3>1. PICK n \in InQueue(f) : TRUE
      BY <2>2 DEF Single
    <3>2. n - 1 \in 1 .. (Len(m_tasks) - 1) /\ (n - 1) + 1 = n
      BY <1>1, <1>4, <1>7, <3>1
    <3>3. n - 1 \in InQueue(f)'
      BY <1>5, <3>1, <3>2
    <3>4. ASSUME NEW x \in InQueue(f)', NEW y \in InQueue(f)' PROVE x = y
      <4>1. x \in 1 .. (Len(m_tasks) - 1) /\ y \in 1 .. (Len(m_tasks) - 1)
        BY <1>4, <3>4
      <4>2. x + 1 \in InQueue(f) /\ y + 1 \in InQueue(f)
        BY <1>5, <3>4, <4>1
      <4>3. x + 1 = y + 1
        BY <2>2, <4>2 DEF Single
      <4> QED BY <1>1, <4>1, <4>3
    <3> QED BY <3>3, <3>4 DEF Single
  <2> QED BY <2>1, <2>2 DEF Like
<1>8. ASSUME 1 \in InQueue(f), Single(InQueue(f)) PROVE InQueue(f)' = {}
  <2>1. SUFFICES ASSUME NEW x \in InQueue(f)' PROVE FALSE
    OBVIOUS
  <2>2. x \in 1 .. (Len(m_tasks) - 1) /\ x + 1 \in InQueue(f)
    BY <1>4, <1>5, <2>1
  <2>3. x + 1 = 1
    BY <1>8, <2>2 DEF Single
  <2> QED BY <1>1, <2>2, <2>3
<1> QED BY <1>6, <1>7, <1>8

LEMMA SameContexts ==
  ASSUME UNCHANGED contextVars, NEW f
  PROVE  AsWaiter(f)' = AsWaiter(f)
BY DEF contextVars, AsWaiter, Waiters

LEMMA SameTimers ==
  ASSUME UNCHANGED timers \/ WakesStay, NEW f
  PROVE  Sleeping(f)' = Sleeping(f)
BY DEF WakesStay, Sleeping

LEMMA SameTasks ==
  ASSUME UNCHANGED m_tasks, NEW f
  PROVE  InQueue(f)' = InQueue(f)
BY DEF InQueue

LEMMA TriggerMoves ==
  ASSUME Typed, Registered, NEW fd, NEW e, TriggerAt(fd, e), NEW f \in Fiber
  PROVE  \/ AsWaiter(f)' = AsWaiter(f) /\ InQueue(f)' = InQueue(f)
         \/ \E n : /\ <<fd, e>> \in AsWaiter(f) /\ AsWaiter(f)' = AsWaiter(f) \ {<<fd, e>>}
                   /\ InQueue(f)' = InQueue(f) \union {n}
<1> DEFINE g == m_fdContexts[fd].waiter[e]
<1>1. /\ fd \in Fd /\ e \in Event /\ <<fd, e>> \in Waiters /\ Waiters' = Waiters \ {<<fd, e>>}
      /\ OnlyContext(fd, e)
  BY TriggerWaiters
<1>2. ASSUME NEW p \in Waiters, p # <<fd, e>>
      PROVE  m_fdContexts'[p[1]].waiter[p[2]] = m_fdContexts[p[1]].waiter[p[2]]
  <2>1. p = <<p[1], p[2]>> /\ p[1] \in Fd /\ p[2] \in Event
    BY <1>2 DEF Waiters
  <2>2. CASE p[1] = fd
    BY <1>1, <1>2, <2>1, <2>2 DEF OnlyContext
  <2>3. CASE p[1] # fd
    BY <1>1, <2>1, <2>3 DEF OnlyContext
  <2> QED BY <2>2, <2>3
<1>3. AsWaiter(f)' = {p \in Waiters' : m_fdContexts'[p[1]].waiter[p[2]] = f}
  BY DEF AsWaiter
<1>4. AsWaiter(f)' = AsWaiter(f) \ {<<fd, e>>}
  BY <1>1, <1>2, <1>3 DEF AsWaiter
<1>5. <<fd, e>> \in AsWaiter(f) <=> g = f
  BY <1>1 DEF AsWaiter
<1>6. /\ m_tasks' = Append(m_tasks, TriggerWaiter(m_fdContexts[fd], e))
      /\ TriggerWaiter(m_fdContexts[fd], e) \in RealTasks
      /\ TriggerWaiter(m_fdContexts[fd], e).kind = "fiber"
      /\ TriggerWaiter(m_fdContexts[fd], e).fiber = g
  BY WaiterIs DEF TriggerAt, scheduler, Typed
<1>7. /\ g # f => InQueue(f)' = InQueue(f)
      /\ g = f => InQueue(f)' = InQueue(f) \union {Len(m_tasks) + 1}
  BY <1>6, AppendIs DEF Typed, SchedulerTyped
<1> HIDE DEF g
<1> QED BY <1>4, <1>5, <1>7

LEMMA AddsMoves ==
  ASSUME Typed, NEW g \in Fiber, NEW fd, NEW e, Adds(fd, e, g), NEW f \in Fiber
  PROVE  /\ f # g => AsWaiter(f)' = AsWaiter(f)
         /\ f = g => AsWaiter(f)' = AsWaiter(f) \union {<<fd, e>>}
<1>1. /\ fd \in Fd /\ e \in Event /\ <<fd, e>> \notin Waiters /\ Waiters' = Waiters \union {<<fd, e>>}
      /\ m_fdContexts'[fd].waiter[e] = g
      /\ OnlyContext(fd, e)
  BY AddsWaiters
<1>2. ASSUME NEW p \in Waiters
      PROVE  m_fdContexts'[p[1]].waiter[p[2]] = m_fdContexts[p[1]].waiter[p[2]]
  <2>1. p = <<p[1], p[2]>> /\ p[1] \in Fd /\ p[2] \in Event /\ p # <<fd, e>>
    BY <1>1, <1>2 DEF Waiters
  <2>2. CASE p[1] = fd
    BY <1>1, <2>1, <2>2 DEF OnlyContext
  <2>3. CASE p[1] # fd
    BY <1>1, <2>1, <2>3 DEF OnlyContext
  <2> QED BY <2>2, <2>3
<1>3. AsWaiter(f)' = {p \in Waiters' : m_fdContexts'[p[1]].waiter[p[2]] = f}
  BY DEF AsWaiter
<1> QED BY <1>1, <1>2, <1>3 DEF AsWaiter

LEMMA SameHeld ==
  ASSUME NEW f \in Fiber, fibers'[f].at = fibers[f].at, UNCHANGED workers
  PROVE  Held(f)' = Held(f) /\ Expired(f)' = Expired(f)
BY DEF Held, Expired

LEMMA TurnsHeld ==
  ASSUME Typed, NEW f \in Fiber, fibers'[f].at = fibers[f].at, NEW w \in Worker, Turns(w)
  PROVE  Held(f)' = Held(f) /\ Expired(f)' = Expired(f)
<1>1. ASSUME NEW v \in Worker, v # w
      PROVE  (v \in Held(f)' <=> v \in Held(f)) /\ (v \in Expired(f)' <=> v \in Expired(f))
  BY <1>1 DEF Turns, OnlyWorker, Held, Expired
<1>2. w \in Held(f)' <=> w \in Held(f)
  BY DEF Turns, Held
<1>3. w \in Expired(f)' <=> w \in Expired(f)
  BY DEF Turns, Expired
<1>4. \A v \in Worker : (v \in Held(f)' <=> v \in Held(f)) /\ (v \in Expired(f)' <=> v \in Expired(f))
  BY <1>1, <1>2, <1>3
<1> QED BY <1>4 DEF Held, Expired

LEMMA RestsHeld ==
  ASSUME Typed, NEW f \in Fiber, Rests
  PROVE  Held(f)' = Held(f) /\ Expired(f)' = Expired(f) /\ fibers'[f].state = fibers[f].state
<1>1. fibers'[f].at = fibers[f].at /\ fibers'[f].state = fibers[f].state
  BY DEF Rests, FibersStay
<1> QED BY <1>1, SameHeld, TurnsHeld DEF Rests

\* Another worker holds what it held.
LEMMA OthersHold ==
  ASSUME NEW f \in Fiber, fibers'[f].at = fibers[f].at, NEW w \in Worker, OnlyWorker(w)
  PROVE  \A v \in Worker \ {w} : (v \in Held(f)' <=> v \in Held(f)) /\ (v \in Expired(f)' <=> v \in Expired(f))
BY DEF OnlyWorker, Held, Expired

LEMMA NoEffectRunner ==
  ASSUME Typed, RunnersInv, NoEffect
  PROVE  RunnersInv'
<1>1. SUFFICES ASSUME NEW f \in Fiber PROVE Runner(f)'
  BY DEF RunnersInv
<1>2. Held(f)' = Held(f) /\ Expired(f)' = Expired(f) /\ fibers'[f].state = fibers[f].state
  BY RestsHeld DEF NoEffect
<1>3. AsWaiter(f)' = AsWaiter(f) /\ InQueue(f)' = InQueue(f) /\ Sleeping(f)' = Sleeping(f)
  BY SameContexts, SameTasks, SameTimers DEF NoEffect
<1>4. SameLife(f)
  BY <1>2 DEF NoEffect, SameLife
<1> QED BY <1>2, <1>3, <1>4, KeepsRunner, SameIsLike DEF RunnersInv

LEMMA TakesRunner ==
  ASSUME Typed, RunnersInv, NEW w \in Worker, Takes(w), UNCHANGED <<contextVars, timers>>
  PROVE  RunnersInv'
<1> DEFINE task == Head(m_tasks)
<1>1. SUFFICES ASSUME NEW f \in Fiber PROVE Runner(f)'
  BY DEF RunnersInv
<1>2. AsWaiter(f)' = AsWaiter(f) /\ Sleeping(f)' = Sleeping(f)
  BY SameContexts, SameTimers
<1>3. /\ 1 \in InQueue(f) <=> task.kind # "timeout" /\ task.fiber = f
      /\ 1 \notin InQueue(f) => Like(InQueue(f), InQueue(f)')
      /\ 1 \in InQueue(f) /\ Single(InQueue(f)) => InQueue(f)' = {}
  BY TailIs DEF Takes, Typed, SchedulerTyped
<1>4. SameLife(f) /\ UNCHANGED fibers
  BY DEF Takes, SameLife
<1>5. \A v \in Worker \ {w} : (v \in Held(f)' <=> v \in Held(f)) /\ (v \in Expired(f)' <=> v \in Expired(f))
  BY <1>4, OthersHold DEF Takes
<1>6. w \in Expired(f)' <=> w \in Expired(f)
  BY DEF Takes, Expired
<1>7. Expired(f)' = Expired(f)
  BY <1>5, <1>6 DEF Expired
<1>8. task \in RealTasks
  BY TaskOfQueue DEF Takes, Typed, SchedulerTyped
<1>9. w \notin Held(f) /\ (w \in Held(f)' <=> task.kind # "timeout" /\ task.fiber = f)
  BY <1>8 DEF Takes, Held, RealTasks
<1> HIDE DEF task
<1>10. CASE 1 \notin InQueue(f)
  <2>1. Held(f)' = Held(f)
    BY <1>3, <1>5, <1>9, <1>10 DEF Held
  <2> QED BY <1>2, <1>3, <1>4, <1>7, <1>10, <2>1, KeepsRunner, SameIsLike DEF RunnersInv
<1>11. CASE 1 \in InQueue(f)
  <2>1. /\ IsLive(f) /\ Single(InQueue(f)) /\ AsWaiter(f) = {} /\ Sleeping(f) = {} /\ Expired(f) = {}
        /\ Held(f) = {}
    BY <1>11 DEF RunnersInv, Runner, OneRuns, NoneRuns
  <2>2. InQueue(f)' = {}
    BY <1>3, <1>11, <2>1
  <2>3. Held(f)' = {w}
    BY <1>3, <1>5, <1>9, <1>11, <2>1 DEF Held
  <2>4. Single(Held(f)')
    BY <2>3, SingletonIs
  <2> QED BY <1>2, <1>4, <1>7, <2>1, <2>2, <2>4 DEF RunnersInv, Runner, SameLife, IsLive, OneRuns
<1> QED BY <1>10, <1>11

LEMMA CollectsRunner ==
  ASSUME Typed, CollectedOnce, RunnersInv, NEW w \in Worker, Collects(w),
         UNCHANGED <<m_tasks, contextVars, fibers, owner>>
  PROVE  RunnersInv'
<1>1. SUFFICES ASSUME NEW f \in Fiber PROVE Runner(f)'
  BY DEF RunnersInv
<1>2. AsWaiter(f)' = AsWaiter(f) /\ InQueue(f)' = InQueue(f)
  BY SameContexts, SameTasks
<1>3. SameLife(f)
  BY DEF SameLife
<1>4. \A v \in Worker \ {w} : (v \in Held(f)' <=> v \in Held(f)) /\ (v \in Expired(f)' <=> v \in Expired(f))
  BY OthersHold DEF Collects
<1>5. w \notin Held(f)' /\ w \notin Held(f)
  BY DEF Collects, Held
<1>6. Held(f)' = Held(f)
  BY <1>4, <1>5 DEF Held
<1>7. w \notin Expired(f) /\ (w \in Expired(f)' <=> \E task \in due : task.fiber = f /\ task.kind = "wake")
  BY DEF Collects, CollectedOnce, Expired
<1>8. Sleeping(f)' = Sleeping(f) \ due /\ due \subseteq timers
  BY DEF Collects, Sleeping, Typed, IoTyped
<1>9. CASE \E task \in due : task.fiber = f /\ task.kind = "wake"
  <2>1. PICK task \in due : task \in Sleeping(f)
    BY <1>8, <1>9 DEF Sleeping
  <2>2. /\ IsLive(f) /\ Single(Sleeping(f)) /\ AsWaiter(f) = {} /\ InQueue(f) = {} /\ Expired(f) = {}
        /\ Held(f) = {}
    BY <2>1 DEF RunnersInv, Runner, OneRuns, NoneRuns
  <2>3. Sleeping(f)' = {}
    BY <1>8, <2>1, <2>2 DEF Single
  <2>4. Expired(f)' = {w}
    BY <1>4, <1>7, <1>9, <2>2 DEF Expired
  <2>5. Single(Expired(f)')
    BY <2>4, SingletonIs
  <2> QED BY <1>2, <1>3, <1>6, <2>2, <2>3, <2>5 DEF RunnersInv, Runner, SameLife, IsLive, OneRuns
<1>10. CASE ~\E task \in due : task.fiber = f /\ task.kind = "wake"
  <2>1. Sleeping(f)' = Sleeping(f)
    BY <1>8, <1>10 DEF Sleeping
  <2>2. Expired(f)' = Expired(f)
    BY <1>4, <1>7, <1>10 DEF Expired
  <2> QED BY <1>2, <1>3, <1>6, <2>1, <2>2, KeepsRunner, SameIsLike DEF RunnersInv
<1> QED BY <1>9, <1>10

LEMMA PassesRunner ==
  ASSUME Typed, CollectedOnce, RunnersInv, NEW w \in Worker, NEW cb, Passes(w, cb),
         UNCHANGED <<contextVars, timers, fibers, owner>>
  PROVE  RunnersInv'
<1>1. SUFFICES ASSUME NEW f \in Fiber PROVE Runner(f)'
  BY DEF RunnersInv
<1>2. AsWaiter(f)' = AsWaiter(f) /\ Sleeping(f)' = Sleeping(f)
  BY SameContexts, SameTimers
<1>3. SameLife(f)
  BY DEF SameLife
<1>4. \A v \in Worker \ {w} : (v \in Held(f)' <=> v \in Held(f)) /\ (v \in Expired(f)' <=> v \in Expired(f))
  BY OthersHold DEF Passes
<1>5. w \notin Held(f)' /\ w \notin Held(f)
  BY DEF Passes, Held
<1>6. Held(f)' = Held(f)
  BY <1>4, <1>5 DEF Held
<1>7. cb \in RealTasks /\ m_tasks' = Append(m_tasks, cb) /\ cb \in Callbacks
  BY DEF Passes, scheduler, Typed, SchedulerTyped, WorkerType
<1>8. /\ cb.kind = "timeout" \/ cb.fiber # f => InQueue(f)' = InQueue(f)
      /\ cb.kind # "timeout" /\ cb.fiber = f => InQueue(f)' = InQueue(f) \union {Len(m_tasks) + 1}
  BY <1>7, AppendIs DEF Typed, SchedulerTyped
<1>9. CASE cb.kind = "wake" /\ cb.fiber = f
  <2>1. w \in Expired(f)
    BY <1>9 DEF Passes, Expired
  <2>2. /\ IsLive(f) /\ Single(Expired(f)) /\ AsWaiter(f) = {} /\ InQueue(f) = {} /\ Sleeping(f) = {}
        /\ Held(f) = {}
    BY <2>1 DEF RunnersInv, Runner, OneRuns, NoneRuns
  <2>3. w \notin Expired(f)'
    BY <1>9 DEF Passes, CollectedOnce, Expired
  <2>4. Expired(f)' = {}
    BY <1>4, <2>1, <2>2, <2>3 DEF Single, Expired
  <2>5. InQueue(f)' = {Len(m_tasks) + 1}
    BY <1>8, <1>9, <2>2
  <2>6. Single(InQueue(f)')
    BY <2>5, SingletonIs
  <2> QED BY <1>2, <1>3, <1>6, <2>2, <2>4, <2>6 DEF RunnersInv, Runner, SameLife, IsLive, OneRuns
<1>10. CASE ~(cb.kind = "wake" /\ cb.fiber = f)
  <2>1. InQueue(f)' = InQueue(f)
    BY <1>7, <1>8, <1>10 DEF Callbacks
  <2>2. w \in Expired(f)' <=> w \in Expired(f)
    BY <1>10 DEF Passes, Expired
  <2>3. Expired(f)' = Expired(f)
    BY <1>4, <2>2 DEF Expired
  <2> QED BY <1>2, <1>3, <1>6, <2>1, <2>3, KeepsRunner, SameIsLike DEF RunnersInv
<1> QED BY <1>9, <1>10

LEMMA WakesRunner ==
  ASSUME Typed, RunnersInv, NEW w \in Worker, Wakes(w), UNCHANGED <<contextVars, timers, fibers, owner>>
  PROVE  RunnersInv'
<1> DEFINE g == workers[w].task.fiber
<1>1. SUFFICES ASSUME NEW f \in Fiber PROVE Runner(f)'
  BY DEF RunnersInv
<1>2. AsWaiter(f)' = AsWaiter(f) /\ Sleeping(f)' = Sleeping(f)
  BY SameContexts, SameTimers
<1>3. SameLife(f)
  BY DEF SameLife
<1>4. \A v \in Worker \ {w} : (v \in Held(f)' <=> v \in Held(f)) /\ (v \in Expired(f)' <=> v \in Expired(f))
  BY OthersHold DEF Wakes, Goes
<1>5. w \notin Held(f)' /\ (w \in Held(f) <=> g = f)
  BY DEF Wakes, Goes, Held
<1>6. w \in Expired(f)' <=> w \in Expired(f)
  BY DEF Wakes, Goes, Expired
<1>7. Expired(f)' = Expired(f)
  BY <1>4, <1>6 DEF Expired
<1>8. /\ g # f => InQueue(f)' = InQueue(f)
      /\ g = f => InQueue(f)' = InQueue(f) \union {Len(m_tasks) + 1}
  <2>1. g \in Fiber
    BY DEF Wakes, RealTasks
  <2>2. FiberTask(g) \in RealTasks /\ FiberTask(g).kind = "fiber" /\ FiberTask(g).fiber = g
    BY <2>1, FiberTaskIs
  <2>3. m_tasks' = Append(m_tasks, FiberTask(g)) /\ m_tasks \in Seq(RealTasks)
    BY DEF Wakes, Typed, SchedulerTyped
  <2> QED BY <2>2, <2>3, AppendIs
<1> HIDE DEF g
<1>9. CASE g = f
  <2>1. /\ IsLive(f) /\ Single(Held(f)) /\ AsWaiter(f) = {} /\ InQueue(f) = {} /\ Sleeping(f) = {}
        /\ Expired(f) = {}
    BY <1>5, <1>9 DEF RunnersInv, Runner, OneRuns, NoneRuns
  <2>2. Held(f)' = {}
    BY <1>4, <1>5, <1>9, <2>1 DEF Single, Held
  <2>3. InQueue(f)' = {Len(m_tasks) + 1}
    BY <1>8, <1>9, <2>1
  <2>4. Single(InQueue(f)')
    BY <2>3, SingletonIs
  <2> QED BY <1>2, <1>3, <1>7, <2>1, <2>2, <2>4 DEF RunnersInv, Runner, SameLife, IsLive, OneRuns
<1>10. CASE g # f
  <2>1. Held(f)' = Held(f)
    BY <1>4, <1>5, <1>10 DEF Held
  <2> QED BY <1>2, <1>3, <1>7, <1>8, <1>10, <2>1, KeepsRunner, SameIsLike DEF RunnersInv
<1> QED BY <1>9, <1>10

\* A registered event is triggered, and nothing else moves.
LEMMA TriggerRunner ==
  ASSUME Typed, Registered, RunnersInv, NEW fd, NEW e, TriggerAt(fd, e), NEW f \in Fiber,
         SameLife(f), UNCHANGED timers, Held(f)' = Held(f), Expired(f)' = Expired(f)
  PROVE  Runner(f)'
<1>1. Sleeping(f)' = Sleeping(f)
  BY SameTimers
<1>2. CASE AsWaiter(f)' = AsWaiter(f) /\ InQueue(f)' = InQueue(f)
  BY <1>1, <1>2, KeepsRunner, SameIsLike DEF RunnersInv
<1>3. ASSUME NEW n, <<fd, e>> \in AsWaiter(f), AsWaiter(f)' = AsWaiter(f) \ {<<fd, e>>},
             InQueue(f)' = InQueue(f) \union {n}
      PROVE  Runner(f)'
  <2>1. /\ IsLive(f) /\ Single(AsWaiter(f)) /\ Held(f) = {} /\ InQueue(f) = {} /\ Sleeping(f) = {}
        /\ Expired(f) = {}
    BY <1>3 DEF RunnersInv, Runner, OneRuns, NoneRuns
  <2>2. AsWaiter(f)' = {}
    BY <1>3, <2>1 DEF Single
  <2>3. InQueue(f)' = {n}
    BY <1>3, <2>1
  <2>4. Single(InQueue(f)')
    BY <2>3, SingletonIs
  <2> QED BY <1>1, <2>1, <2>2, <2>4 DEF RunnersInv, Runner, SameLife, IsLive, OneRuns
<1> QED BY <1>2, <1>3, TriggerMoves

LEMMA WorkerEffectRunner ==
  ASSUME Typed, Registered, CollectedOnce, RunnersInv, NEW w \in Worker, WorkerEffect(w)
  PROVE  RunnersInv'
<1>1. ASSUME NEW fd, NEW e, TriggerAt(fd, e), Turns(w), FibersStay, UNCHANGED <<timers, owner>>
      PROVE  RunnersInv'
  <2>1. SUFFICES ASSUME NEW f \in Fiber PROVE Runner(f)'
    BY DEF RunnersInv
  <2>2. fibers'[f].at = fibers[f].at /\ fibers'[f].state = fibers[f].state
    BY <1>1 DEF FibersStay
  <2>3. Held(f)' = Held(f) /\ Expired(f)' = Expired(f)
    BY <1>1, <2>2, TurnsHeld
  <2>4. SameLife(f)
    BY <1>1, <2>2 DEF SameLife
  <2> QED BY <1>1, <2>3, <2>4, TriggerRunner
<1> QED BY <1>1, TakesRunner, CollectsRunner, PassesRunner, WakesRunner DEF WorkerEffect

\* A fiber that a worker runs, and that is not about to yield, is held by it alone.
LEMMA RunnerHeld ==
  ASSUME Typed, RunByOne, RunnersInv, NEW w \in Worker, NEW f \in Fiber, Runs(w, f), fibers[f].at # "yield"
  PROVE  /\ IsLive(f) /\ Held(f) = {w} /\ AsWaiter(f) = {} /\ InQueue(f) = {} /\ Sleeping(f) = {}
         /\ Expired(f) = {}
<1>1. w \in Held(f)
  BY RunsIs DEF Held
<1>2. /\ IsLive(f) /\ Single(Held(f)) /\ AsWaiter(f) = {} /\ InQueue(f) = {} /\ Sleeping(f) = {}
      /\ Expired(f) = {}
  BY <1>1 DEF RunnersInv, Runner, OneRuns, NoneRuns
<1>3. Held(f) = {w}
  BY <1>1, <1>2 DEF Single
<1> QED BY <1>2, <1>3

LEMMA StepsLife ==
  ASSUME Typed, RunByOne, NEW w \in Worker, NEW f \in Fiber, NEW at, Steps(w, f, at), UNCHANGED owner,
         NEW g \in Fiber
  PROVE  /\ SameLife(g) /\ Expired(g)' = Expired(g)
         /\ g # f => Held(g)' = Held(g)
         /\ g = f /\ at # "yield" /\ fibers[f].at # "yield" => Held(g)' = Held(g)
         /\ g = f /\ at = "yield" => w \notin Held(g)' /\ Held(g)' \subseteq Held(g)
<1>1. workers[w].at = "run" /\ workers[w].task.kind = "fiber" /\ workers[w].task.fiber = f
  BY RunsIs DEF Steps
<1>2. fibers'[g].state = fibers[g].state
  BY DEF Steps, OnlyFiber
<1>3. SameLife(g)
  BY <1>2 DEF SameLife
<1>4. Expired(g)' = Expired(g)
  BY DEF Steps, Expired
<1>5. g # f => Held(g)' = Held(g)
  BY SameHeld DEF Steps, OnlyFiber
<1>6. g = f /\ at # "yield" /\ fibers[f].at # "yield" => Held(g)' = Held(g)
  BY DEF Steps, Held
<1>7. g = f /\ at = "yield" => w \notin Held(g)' /\ Held(g)' \subseteq Held(g)
  BY <1>1 DEF Steps, Held
<1> QED BY <1>3, <1>4, <1>5, <1>6, <1>7

LEMMA ResumesRunner ==
  ASSUME Typed, RunByOne, RunnersInv, NEW w \in Worker, NEW f \in Fiber, Resumes(w, f),
         UNCHANGED <<contextVars, timers>>
  PROVE  RunnersInv'
<1>1. SUFFICES ASSUME NEW g \in Fiber PROVE Runner(g)'
  BY DEF RunnersInv
<1>2. fibers'[g].at = fibers[g].at /\ (fibers'[g].state = "TERM" <=> fibers[g].state = "TERM")
  BY DEF Resumes, OnlyFiber
<1>3. SameLife(g)
  BY <1>2 DEF Resumes, SameLife
<1>4. \A v \in Worker \ {w} : (v \in Held(g)' <=> v \in Held(g)) /\ (v \in Expired(g)' <=> v \in Expired(g))
  BY <1>2, OthersHold DEF Resumes, Goes
<1>5. fibers[f].at # "yield"
  BY DEF Resumes, RunByOne
<1>6. w \in Held(g)' <=> w \in Held(g)
  BY <1>2, <1>5 DEF Resumes, Goes, Held
<1>7. w \in Expired(g)' <=> w \in Expired(g)
  BY DEF Resumes, Goes, Expired
<1>8. Held(g)' = Held(g)
  BY <1>4, <1>6 DEF Held
<1>9. Expired(g)' = Expired(g)
  BY <1>4, <1>7 DEF Expired
<1>10. InQueue(g)' = InQueue(g) /\ AsWaiter(g)' = AsWaiter(g) /\ Sleeping(g)' = Sleeping(g)
  BY SameContexts, SameTimers, SameTasks DEF Resumes, queueVars
<1> QED BY <1>3, <1>8, <1>9, <1>10, KeepsRunner, SameIsLike DEF RunnersInv

\* f goes on in its call, and arranges nothing.
LEMMA StepsRunner ==
  ASSUME Typed, RunByOne, RunnersInv, NEW w \in Worker, NEW f \in Fiber,
         NEW at \in {"try", "add", "returned", "sleep", "close", "socket"}, Steps(w, f, at),
         fibers[f].at # "yield", WakesStay, UNCHANGED <<m_tasks, contextVars, owner>>
  PROVE  RunnersInv'
<1>1. SUFFICES ASSUME NEW g \in Fiber PROVE Runner(g)'
  BY DEF RunnersInv
<1>2. at # "yield"
  OBVIOUS
<1>3. SameLife(g) /\ Expired(g)' = Expired(g) /\ Held(g)' = Held(g)
  BY <1>2, StepsLife
<1>4. InQueue(g)' = InQueue(g) /\ AsWaiter(g)' = AsWaiter(g) /\ Sleeping(g)' = Sleeping(g)
  BY SameContexts, SameTimers, SameTasks
<1> QED BY <1>3, <1>4, KeepsRunner, SameIsLike DEF RunnersInv

\* f comes to wait for an event.
LEMMA AddsRunner ==
  ASSUME Typed, RunByOne, RunnersInv, NEW w \in Worker, NEW f \in Fiber, NEW fd, NEW e, Adds(fd, e, f),
         Steps(w, f, "yield"), fibers[f].at # "yield", UNCHANGED <<m_tasks, timers, owner>>
  PROVE  RunnersInv'
<1>1. SUFFICES ASSUME NEW g \in Fiber PROVE Runner(g)'
  BY DEF RunnersInv
<1>2. /\ SameLife(g) /\ Expired(g)' = Expired(g)
      /\ g # f => Held(g)' = Held(g)
      /\ g = f => w \notin Held(g)' /\ Held(g)' \subseteq Held(g)
  BY StepsLife
<1>3. InQueue(g)' = InQueue(g) /\ Sleeping(g)' = Sleeping(g)
  BY SameTimers, SameTasks
<1>4. /\ g # f => AsWaiter(g)' = AsWaiter(g)
      /\ g = f => AsWaiter(g)' = AsWaiter(g) \union {<<fd, e>>}
  BY AddsMoves
<1>5. CASE g # f
  BY <1>2, <1>3, <1>4, <1>5, KeepsRunner, SameIsLike DEF RunnersInv
<1>6. CASE g = f
  <2>1. /\ IsLive(g) /\ Held(g) = {w} /\ AsWaiter(g) = {} /\ InQueue(g) = {} /\ Sleeping(g) = {}
        /\ Expired(g) = {}
    BY <1>6, RunnerHeld DEF Steps
  <2>2. Held(g)' = {}
    BY <1>2, <1>6, <2>1
  <2>3. AsWaiter(g)' = {<<fd, e>>}
    BY <1>4, <1>6, <2>1
  <2>4. Single(AsWaiter(g)')
    BY <2>3, SingletonIs
  <2> QED BY <1>2, <1>3, <2>1, <2>2, <2>4 DEF RunnersInv, Runner, SameLife, IsLive, OneRuns
<1> QED BY <1>5, <1>6

LEMMA SleepsRunner ==
  ASSUME Typed, RunByOne, RunnersInv, NEW w \in Worker, NEW f \in Fiber, Sleeps(f),
         Steps(w, f, "yield"), fibers[f].at # "yield", UNCHANGED <<m_tasks, contextVars, owner>>
  PROVE  RunnersInv'
<1>1. SUFFICES ASSUME NEW g \in Fiber PROVE Runner(g)'
  BY DEF RunnersInv
<1>2. /\ SameLife(g) /\ Expired(g)' = Expired(g)
      /\ g # f => Held(g)' = Held(g)
      /\ g = f => w \notin Held(g)' /\ Held(g)' \subseteq Held(g)
  BY StepsLife
<1>3. InQueue(g)' = InQueue(g) /\ AsWaiter(g)' = AsWaiter(g)
  BY SameContexts, SameTasks
<1>4. PICK task : task.kind = "wake" /\ task.fiber = f /\ timers' = timers \union {task}
  BY DEF Sleeps
<1>5. CASE g # f
  <2>1. Sleeping(g)' = Sleeping(g)
    BY <1>4, <1>5 DEF Sleeping
  <2> QED BY <1>2, <1>3, <1>5, <2>1, KeepsRunner, SameIsLike DEF RunnersInv
<1>6. CASE g = f
  <2>1. /\ IsLive(g) /\ Held(g) = {w} /\ AsWaiter(g) = {} /\ InQueue(g) = {} /\ Sleeping(g) = {}
        /\ Expired(g) = {}
    BY <1>6, RunnerHeld DEF Steps
  <2>2. Held(g)' = {}
    BY <1>2, <1>6, <2>1
  <2>3. Sleeping(g)' = {task}
    BY <1>4, <1>6, <2>1 DEF Sleeping
  <2>4. Single(Sleeping(g)')
    BY <2>3, SingletonIs
  <2> QED BY <1>2, <1>3, <2>1, <2>2, <2>4 DEF RunnersInv, Runner, SameLife, IsLive, OneRuns
<1> QED BY <1>5, <1>6

\* A fiber leaves its worker: what will run it was arranged before, or it has ended.
LEMMA LeavesRunner ==
  ASSUME Typed, RunByOne, RunnersInv, NEW w \in Worker, NEW f \in Fiber, NEW state, NEW at,
         Leaves(w, f, state, at), UNCHANGED <<m_tasks, contextVars, timers, owner>>,
         \/ state = "READY" /\ at = "woken" /\ fibers[f].at = "yield"
         \/ state = "TERM" /\ at = "end" /\ fibers[f].at # "yield"
  PROVE  RunnersInv'
<1>1. SUFFICES ASSUME NEW g \in Fiber PROVE Runner(g)'
  BY DEF RunnersInv
<1>2. /\ workers[w].at = "run" /\ workers[w].task.kind = "fiber" /\ workers[w].task.fiber = f
      /\ fibers[f].state = "RUNNING"
  BY RunsIs DEF Leaves
<1>3. InQueue(g)' = InQueue(g) /\ AsWaiter(g)' = AsWaiter(g) /\ Sleeping(g)' = Sleeping(g)
  BY SameContexts, SameTimers, SameTasks
<1>4. Expired(g)' = Expired(g)
  <2>1. \A v \in Worker : workers'[v].cbs = workers[v].cbs
    BY DEF Leaves, OnlyWorker
  <2> QED BY <2>1 DEF Expired
<1>5. w \notin Held(g)'
  BY DEF Leaves, Held
<1>6. \A v \in Worker \ {w} : v \in Held(g)' <=> v \in Held(g)
  <2> TAKE v \in Worker \ {w}
  <2>1. workers'[v] = workers[v]
    BY DEF Leaves, OnlyWorker
  <2>2. CASE g = f
    <3>1. workers[v].at = "run" => workers[v].task.fiber # f
      BY <1>2 DEF RunByOne, IsRunBy
    <3> QED BY <2>1, <2>2, <3>1 DEF Held
  <2>3. CASE g # f
    <3>1. fibers'[g] = fibers[g]
      BY <2>3 DEF Leaves, OnlyFiber
    <3> QED BY <2>1, <3>1 DEF Held
  <2> QED BY <2>2, <2>3
<1>7. CASE g # f
  <2>1. w \notin Held(g) /\ fibers'[g] = fibers[g]
    BY <1>2, <1>7 DEF Leaves, OnlyFiber, Held
  <2>2. Held(g)' = Held(g)
    BY <1>5, <1>6, <2>1 DEF Held
  <2>3. SameLife(g)
    BY <2>1 DEF SameLife
  <2> QED BY <1>3, <1>4, <2>2, <2>3, KeepsRunner, SameIsLike DEF RunnersInv
<1>8. CASE g = f /\ state = "READY"
  <2>1. fibers[f].at = "yield"
    BY <1>8
  <2>2. w \notin Held(g)
    BY <1>2, <1>8, <2>1 DEF Held
  <2>3. Held(g)' = Held(g)
    BY <1>5, <1>6, <2>2 DEF Held
  <2>4. SameLife(g)
    BY <1>2, <1>8 DEF Leaves, SameLife
  <2> QED BY <1>3, <1>4, <2>3, <2>4, KeepsRunner, SameIsLike DEF RunnersInv
<1>9. CASE g = f /\ state = "TERM"
  <2>1. /\ IsLive(g) /\ Held(g) = {w} /\ AsWaiter(g) = {} /\ InQueue(g) = {} /\ Sleeping(g) = {}
        /\ Expired(g) = {}
    BY <1>9, RunnerHeld DEF Leaves
  <2>2. Held(g)' = {}
    BY <1>5, <1>6, <2>1 DEF Held
  <2>3. fibers'[g].state = "TERM" /\ g \in owner'.scheduled
    BY <1>9, <2>1 DEF Leaves, IsLive
  <2> QED BY <1>3, <1>4, <2>1, <2>2, <2>3 DEF Runner, IsLive, NoneRuns
<1> QED BY <1>7, <1>8, <1>9

LEMMA FiberEffectRunner ==
  ASSUME Typed, Registered, RunByOne, RunnersInv, NEW w \in Worker, NEW f \in Fiber, FiberEffect(w, f)
  PROVE  RunnersInv'
<1>1. ASSUME NEW fd, NEW e, TriggerAt(fd, e),
             Steps(w, f, "returned"), fibers[f].at # "yield", UNCHANGED <<timers, owner>>
      PROVE  RunnersInv'
  <2>1. SUFFICES ASSUME NEW g \in Fiber PROVE Runner(g)'
    BY DEF RunnersInv
  <2>2. SameLife(g) /\ Expired(g)' = Expired(g) /\ Held(g)' = Held(g)
    BY <1>1, StepsLife
  <2> QED BY <1>1, <2>2, TriggerRunner
<1> QED BY <1>1, ResumesRunner, StepsRunner, AddsRunner, SleepsRunner, LeavesRunner DEF FiberEffect

\* The owner gives a fiber to the scheduler.
LEMMA SchedulesRunner ==
  ASSUME Typed, RunnersInv, NEW f \in Fiber, Schedules(f), UNCHANGED <<contextVars, timers,
                                                                       workers, fibers>>
  PROVE  RunnersInv'
<1>1. SUFFICES ASSUME NEW g \in Fiber PROVE Runner(g)'
  BY DEF RunnersInv
<1>2. Held(g)' = Held(g) /\ Expired(g)' = Expired(g)
  BY SameHeld
<1>3. AsWaiter(g)' = AsWaiter(g) /\ Sleeping(g)' = Sleeping(g)
  BY SameContexts, SameTimers
<1>4. /\ f # g => InQueue(g)' = InQueue(g)
      /\ f = g => InQueue(g)' = InQueue(g) \union {Len(m_tasks) + 1}
  <2>1. FiberTask(f) \in RealTasks /\ FiberTask(f).kind = "fiber" /\ FiberTask(f).fiber = f
    BY FiberTaskIs
  <2>2. m_tasks' = Append(m_tasks, FiberTask(f)) /\ m_tasks \in Seq(RealTasks)
    BY DEF Schedules, Typed, SchedulerTyped
  <2> QED BY <2>1, <2>2, AppendIs
<1>5. CASE g # f
  <2>1. SameLife(g)
    BY <1>5 DEF Schedules, SameLife
  <2> QED BY <1>2, <1>3, <1>4, <1>5, <2>1, KeepsRunner, SameIsLike DEF RunnersInv
<1>6. CASE g = f
  <2>1. ~IsLive(g) /\ fibers[g].state # "TERM"
    BY <1>6 DEF Schedules, IsLive, RunnersInv, Runner
  <2>2. NoneRuns(g)
    BY <2>1 DEF RunnersInv, Runner
  <2>3. InQueue(g)' = {Len(m_tasks) + 1}
    BY <1>4, <1>6, <2>2 DEF NoneRuns
  <2>4. Single(InQueue(g)')
    BY <2>3, SingletonIs
  <2>5. IsLive(g)'
    BY <1>6, <2>1 DEF Schedules, IsLive
  <2> QED BY <1>2, <1>3, <2>2, <2>4, <2>5 DEF Runner, IsLive, OneRuns, NoneRuns
<1> QED BY <1>5, <1>6

LEMMA EffectRunner ==
  ASSUME Typed, Registered, RunByOne, CollectedOnce, RunnersInv, Effect
  PROVE  RunnersInv'
BY NoEffectRunner, WorkerEffectRunner, FiberEffectRunner, SchedulesRunner DEF Effect

-----------------------------------------------------------------------------
(* The invariant holds                                                     *)

LEMMA InitIInv ==
  ASSUME Init
  PROVE  IInv
<1> USE DEF Init, IOManagerInit, SchedulerInit
<1>1. Typed
  BY InitTyped
<1>2. /\ \A w \in Worker : workers[w].at = "take" /\ workers[w].cbs = {}
      /\ \A f \in Fiber : fibers[f].state = "READY" /\ fibers[f].at = "start"
      /\ \A fd \in Fd : m_fdContexts[fd].events = {} /\ \A e \in Event : m_fdContexts[fd].waiter[e] = NoFiber
  BY DEF NewWorker, NewFiber, NoContext
<1>3. Counted
  <2>1. {w \in Worker : Active(w)} = {} /\ {w \in Worker : Idle(w)} = {}
    BY <1>2 DEF Active, Idle
  <2> QED BY <2>1, FS_EmptySet DEF Counted
<1>4. RunByOne
  BY <1>2 DEF RunByOne, IsRunBy, InCall
<1>5. CollectedOnce
  BY <1>2 DEF CollectedOnce
<1>6. Registered
  BY <1>2 DEF Registered
<1>7. Waiters = {}
  BY <1>2 DEF Waiters
<1>8. Pending
  BY <1>7, FS_EmptySet DEF Pending, PendingCountsWaiters
<1>9. RunnersInv
  <2>1. SUFFICES ASSUME NEW f \in Fiber PROVE Runner(f)
    BY DEF RunnersInv
  <2>2. InQueue(f) = {} /\ AsWaiter(f) = {} /\ Sleeping(f) = {}
    BY <1>7 DEF InQueue, AsWaiter, Sleeping
  <2>3. Expired(f) = {} /\ Held(f) = {}
    BY <1>2 DEF Expired, Held
  <2>4. owner.scheduled = {} /\ fibers[f].state = "READY"
    BY <1>2
  <2> QED BY <2>2, <2>3, <2>4 DEF Runner, IsLive, NoneRuns
<1> QED BY <1>1, <1>3, <1>4, <1>5, <1>6, <1>8, <1>9 DEF IInv

LEMMA NextIInv ==
  ASSUME IInv, [Next]_vars
  PROVE  IInv'
<1>1. Typed' /\ Counted'
  BY NextTyped, NextCounted DEF IInv
<1>2. Effect
  BY NextIs DEF IInv
<1>3. RunByOne' /\ CollectedOnce' /\ Registered' /\ Pending' /\ RunnersInv'
  BY <1>2, EffectRunning, EffectCollected, EffectPending, EffectRunner DEF IInv
<1> QED BY <1>1, <1>3 DEF IInv

\* The inductive invariant holds in every reachable state.
THEOREM Invariant == Spec => []IInv
<1>1. Init => IInv
  BY InitIInv
<1>2. IInv /\ [Next]_vars => IInv'
  BY NextIInv
<1> QED BY <1>1, <1>2, PTL DEF Spec

\* The values of all variables, and that the two counters count the workers that run a task and
\* those that run the idle fiber.
THEOREM TypeCorrect == Spec => []TypeOK
<1>1. IInv => TypeOK
  <2>1. SUFFICES ASSUME IInv PROVE TypeOK
    OBVIOUS
  <2>2. Typed /\ Counted
    BY <2>1 DEF IInv
  <2>3. RealTasks \subseteq Tasks /\ Callbacks \subseteq Tasks
    BY DEF RealTasks, Callbacks, Tasks
  <2>4. m_tasks \in Seq(Tasks)
    <3>1. m_tasks \in Seq(RealTasks)
      BY <2>2 DEF Typed, SchedulerTyped
    <3> QED BY <2>3, <3>1
  <2>5. m_isStopped \in BOOLEAN /\ m_tickleFds \in BOOLEAN
    BY <2>2 DEF Typed, SchedulerTyped
  <2>6. /\ m_activeThreadCount =
             Cardinality({w \in Worker : workers[w].at \in {"tickle", "begin", "run", "finish"}})
        /\ m_idleThreadCount =
             Cardinality({w \in Worker : workers[w].at \in
               {"timers", "pending", "stopping", "wait", "expire", "events", "leave"}})
    BY <2>2 DEF Counted, Active, Idle
  <2>7. \A w \in Worker : workers[w].cbs \subseteq Tasks
    BY <2>2, <2>3 DEF Typed, SchedulerTyped, WorkerType
  <2>8. \A f \in Fiber :
          /\ fibers[f].state \in {"READY", "RUNNING", "TERM"} /\ fibers[f].calls \in 0 .. MaxCalls
          /\ fibers[f].call \subseteq UNION {Calls(n) : n \in 1 .. MaxCalls}
    BY <2>2 DEF Typed, SchedulerTyped, FiberType, AllCalls
  <2>9. \A fd \in Fd :
          /\ m_fdContexts[fd].events \subseteq Event
          /\ m_fdContexts[fd].waiter \in [Event -> Fiber \union {NoFiber}]
          /\ epoll[fd].mask \subseteq Event /\ sockets[fd].ready \subseteq Event
    BY <2>2 DEF Typed, IoTyped, ContextType, EpollType, SocketType
  <2>10. m_pendingEventCount \in Nat
    BY <2>1, FS_CardinalityType DEF IInv, Pending, PendingCountsWaiters
  <2>11. due \subseteq timers /\ timers \subseteq Tasks
    BY <2>2, <2>3 DEF Typed, IoTyped
  <2> QED BY <2>4, <2>5, <2>6, <2>7, <2>8, <2>9, <2>10, <2>11 DEF TypeOK
<1> QED BY <1>1, Invariant, PTL

LEMMA SingleCounts ==
  ASSUME NEW S, Single(S)
  PROVE  Cardinality(S) = 1
<1>1. PICK x : S = {x}
  BY DEF Single
<1> QED BY <1>1, FS_Singleton

\* Exactly one thing can resume a fiber that has not ended, and nothing one that has ended, whatever
\* comes together of events, time limits, sleeps and closes: no fiber is resumed twice, and none is
\* lost but those whose registration triggerEvent erases together with another's.
THEOREM FibersResumedOnce == Spec => []ResumedOnce
<1>1. IInv => ResumedOnce
  <2>1. SUFFICES ASSUME IInv, NEW f \in owner.scheduled
                 PROVE  WillRun(f) = (IF fibers[f].state = "TERM" \/ Forgotten(f) THEN 0 ELSE 1)
    BY DEF ResumedOnce
  <2>2. f \in Fiber /\ Runner(f)
    BY <2>1 DEF IInv, Typed, SchedulerTyped, RunnersInv
  <2> DEFINE Standing == {p \in Waiters : m_fdContexts[p[1]].waiter[p[2]] = f /\ IsRegistered(p)}
  <2>3. WillRun(f) = Cardinality(InQueue(f)) + Cardinality(Standing) + Cardinality(Sleeping(f))
                       + Cardinality(Expired(f)) + Cardinality(Held(f))
    BY DEF WillRun, InQueue, Sleeping, Expired, Held
  <2>4. Standing = {p \in AsWaiter(f) : IsRegistered(p)}
        /\ (Forgotten(f) <=> \E p \in AsWaiter(f) : ~IsRegistered(p))
    BY DEF AsWaiter, Forgotten
  <2> HIDE DEF Standing
  <2>5. CASE fibers[f].state = "TERM"
    <3>1. NoneRuns(f)
      BY <2>2, <2>5 DEF Runner, IsLive
    <3>2. Standing = {}
      BY <2>4, <3>1 DEF NoneRuns
    <3> QED BY <2>3, <2>5, <3>1, <3>2, FS_EmptySet DEF NoneRuns
  <2>6. CASE fibers[f].state # "TERM" /\ Forgotten(f)
    <3>1. OneRuns(f)
      BY <2>1, <2>2, <2>6 DEF Runner, IsLive
    <3>2. PICK p \in AsWaiter(f) : ~IsRegistered(p)
      BY <2>4, <2>6
    <3>3. Single(AsWaiter(f)) /\ InQueue(f) = {} /\ Sleeping(f) = {} /\ Expired(f) = {} /\ Held(f) = {}
      BY <3>1, <3>2 DEF OneRuns
    <3>4. Standing = {}
      BY <2>4, <3>2, <3>3 DEF Single
    <3> QED BY <2>3, <2>6, <3>3, <3>4, FS_EmptySet
  <2>7. CASE fibers[f].state # "TERM" /\ ~Forgotten(f)
    <3>1. OneRuns(f)
      BY <2>1, <2>2, <2>7 DEF Runner, IsLive
    <3>2. Standing = AsWaiter(f)
      BY <2>4, <2>7
    <3> QED BY <2>3, <2>7, <3>1, <3>2, FS_EmptySet, SingleCounts DEF OneRuns
  <2> QED BY <2>5, <2>6, <2>7
<1> QED BY <1>1, Invariant, PTL

\* m_pendingEventCount, which stopping() reads, is the number of fibers that wait for an event, those
\* included whose registration triggerEvent forgot.
THEOREM PendingIsCounted == Spec => []PendingCountsWaiters
<1>1. IInv => PendingCountsWaiters
  BY DEF IInv, Pending
<1> QED BY <1>1, Invariant, PTL

-----------------------------------------------------------------------------
(* With one worker: stop()                                                 *)

LEMMA OnlyOne ==
  ASSUME OneWorker, NEW w \in Worker
  PROVE  \A v \in Worker : v = w
BY DEF OneWorker

\* The steps of a worker leave the owner, and are none of a thread that exited.
LEMMA WorkerIs ==
  ASSUME Typed, RunByOne, Registered, NEW w \in Worker, WorkerStep(w)
  PROVE  UNCHANGED <<owner, m_isStopped>> /\ workers[w].at # "exited"
<1>1. CASE Scheduling(w)
  BY <1>1 DEF Scheduling, TakeTask, TickleOthers, Resume, FinishTask, FindNothing, BeIdle,
         LeaveIdle, At, Panic
<1>2. CASE Idling(w)
  <2>1. CASE HandleEvent(w)
    <3>1. workers[w].at = "events"
      BY <2>1, HandleIs
    <3>2. PICK r \in workers[w].events :
            \/ UNCHANGED <<queueVars, countVars, m_isStopped, fibers, owner, panic, ioVars, timerVars>>
            \/ Panics
            \/ Handled(w, r)
      BY <2>1, HandleIs
    <3> QED BY <3>1, <3>2 DEF Handled, Panics, Panic
  <2>2. CASE ~HandleEvent(w)
    BY <1>2, <2>2 DEF Idling, CheckTimers, CheckPending, CheckScheduler, EpollWait, listExpiredCb,
                      ScheduleExpired, YieldIdle, At
  <2> QED BY <2>1, <2>2
<1>3. CASE Running(w)
  <2>1. CASE RunWake(w) \/ RunTimeout(w)
    BY <2>1 DEF RunWake, RunTimeout, At
  <2>2. ASSUME NEW f \in Fiber, Invoke(w, f) \/ End(w, f) \/ Try(w, f) \/ YieldInCall(w, f)
      \/ Woken(w, f) \/ Sleep(w, f) \/ Close(w, f) \/ Socket(w, f)
        PROVE  UNCHANGED <<owner, m_isStopped>> /\ workers[w].at # "exited"
    BY <2>2 DEF Runs, At, Invoke, End, Try, YieldInCall, Woken, Sleep, Close, Socket
  <2>3. ASSUME NEW f \in Fiber, AddEvent(w, f)
        PROVE  UNCHANGED <<owner, m_isStopped>> /\ workers[w].at # "exited"
    BY <2>3 DEF Runs, At, AddEvent, Panic
  <2> QED BY <1>3, <2>1, <2>2, <2>3 DEF Running
<1> QED BY <1>1, <1>2, <1>3 DEF WorkerStep

LEMMA NextStopped ==
  ASSUME Typed, RunByOne, Registered, Stopped, [Next]_vars
  PROVE  Stopped'
<1>1. ASSUME NEW w \in Worker, WorkerStep(w) PROVE Stopped'
  <2>1. UNCHANGED <<owner, m_isStopped>> /\ workers[w].at # "exited"
    BY <1>1, WorkerIs
  <2> QED BY <2>1 DEF Stopped
<1>2. ASSUME UNCHANGED <<owner, m_isStopped, workers>> PROVE Stopped'
  BY <1>2 DEF Stopped
<1>3. CASE TickleScheduled
  BY <1>3 DEF TickleScheduled, OwnerAt, Stopped, Typed, SchedulerTyped
<1>4. CASE TickleAll
  BY <1>4 DEF TickleAll, OwnerAt, Stopped, Typed, SchedulerTyped
<1>5. CASE Join
  BY <1>5 DEF Join, OwnerAt, At, Stopped, Typed, SchedulerTyped
<1>6. CASE Stop
  BY <1>6 DEF Stop, OwnerAt, Stopped, Typed, SchedulerTyped
<1>7. ASSUME NEW f \in Fiber, Schedule(f) PROVE Stopped'
  BY <1>7 DEF Schedule, OwnerAt, Stopped, Typed, SchedulerTyped
<1>8. CASE Kernel \/ TimePasses \/ UNCHANGED vars
  <2>1. UNCHANGED <<owner, m_isStopped, workers>>
    BY <1>8 DEF Kernel, HangUp, BecomeReady, TimePasses, vars, schedulerVars
  <2> QED BY <1>2, <2>1
<1> QED BY <1>1, <1>3, <1>4, <1>5, <1>6, <1>7, <1>8 DEF Next, OwnerStep, OwnerDecides

\* A worker that is to go on comes to no place where something is to be empty.
LEMMA QuietIs ==
  ASSUME NEW w \in Worker, Quiet(w), workers[w].at \notin {"leave", "take", "exited"},
         workers'[w].idleTerm = workers[w].idleTerm,
         workers'[w].at \notin {"pending", "stopping", "exited"}
  PROVE  Quiet(w)'
BY DEF Quiet

\* Nothing of what is to be empty changes.
LEMMA QuietStays ==
  ASSUME NEW w \in Worker, Quiet(w), workers'[w].at = workers[w].at,
         workers'[w].idleTerm = workers[w].idleTerm,
         UNCHANGED <<m_isStopped, m_tasks, timers, m_fdContexts>>
  PROVE  Quiet(w)'
BY DEF Quiet, Waiters

LEMMA SchedulingQuiet ==
  ASSUME Typed, RunByOne, NEW w \in Worker, Quiet(w), Scheduling(w), UNCHANGED <<ioVars, timerVars>>
  PROVE  Quiet(w)'
<1> USE DEF queueVars, ioVars, timerVars
<1>1. CASE TakeTask(w)
  <2>1. CASE Panic
    BY <2>1, QuietStays DEF Panic
  <2>2. CASE Takes(w)
    BY <2>2 DEF Takes, Quiet
  <2> QED BY <1>1, <2>1, <2>2, TakeIs
<1>2. CASE TickleOthers(w)
  <2>1. workers[w].at = "tickle" /\ Goes(w, "begin")
    BY <1>2, MoveGoes DEF TickleOthers, At, WorkerPlaces
  <2> QED BY <2>1, QuietIs DEF Goes
<1>3. CASE Resume(w)
  <2>1. PICK f \in Fiber : Panic \/ Resumes(w, f)
    BY <1>3, ResumeIs
  <2>2. CASE Panic
    BY <2>2, QuietStays DEF Panic
  <2>3. CASE Resumes(w, f)
    BY <2>3, QuietIs DEF Resumes, Goes
  <2> QED BY <2>1, <2>2, <2>3
<1>4. CASE FinishTask(w)
  BY <1>4, FinishIs, QuietIs
<1>5. CASE FindNothing(w)
  <2>1. workers[w].at = "take" /\ MoveTo(w, IF workers[w].idleTerm THEN "exited" ELSE "empty")
        /\ UNCHANGED <<m_isStopped, m_tasks>>
    BY <1>5 DEF FindNothing, At
  <2>2. CASE workers[w].idleTerm
    <3>1. Goes(w, "exited")
      BY <2>1, <2>2, MoveGoes DEF WorkerPlaces
    <3> QED BY <2>1, <2>2, <3>1 DEF Goes, Quiet, Waiters
  <2>3. CASE ~workers[w].idleTerm
    <3>1. Goes(w, "empty")
      BY <2>1, <2>3, MoveGoes DEF WorkerPlaces
    <3> QED BY <2>3, <3>1 DEF Goes, Quiet
  <2> QED BY <2>2, <2>3
<1>6. CASE BeIdle(w)
  <2>1. workers[w].at = "empty" /\ Goes(w, "timers")
    BY <1>6, MoveGoes DEF BeIdle, At, WorkerPlaces
  <2> QED BY <2>1, QuietIs DEF Goes
<1>7. CASE LeaveIdle(w)
  <2>1. workers[w].at = "leave" /\ Goes(w, "take") /\ UNCHANGED <<m_isStopped, m_tasks>>
    BY <1>7, MoveGoes DEF LeaveIdle, At, WorkerPlaces
  <2> QED BY <2>1 DEF Goes, Quiet, Waiters
<1> QED BY <1>1, <1>2, <1>3, <1>4, <1>5, <1>6, <1>7 DEF Scheduling

LEMMA IdlingQuiet ==
  ASSUME Typed, Pending, NEW w \in Worker, Quiet(w), Idling(w)
  PROVE  Quiet(w)'
<1> USE DEF queueVars, ioVars, timerVars
<1>1. CASE CheckTimers(w)
  <2>1. workers[w].at = "timers" /\ MoveTo(w, IF timers = {} THEN "pending" ELSE "wait") /\ UNCHANGED timers
    BY <1>1 DEF CheckTimers, At
  <2>2. ~workers[w].idleTerm
    BY <2>1 DEF Quiet
  <2>3. CASE timers = {}
    <3>1. Goes(w, "pending")
      BY <2>1, <2>3, MoveGoes DEF WorkerPlaces
    <3> QED BY <2>1, <2>2, <2>3, <3>1 DEF Goes, Quiet
  <2>4. CASE timers # {}
    <3>1. Goes(w, "wait")
      BY <2>1, <2>4, MoveGoes DEF WorkerPlaces
    <3> QED BY <2>2, <3>1 DEF Goes, Quiet
  <2> QED BY <2>3, <2>4
<1>2. CASE CheckPending(w)
  <2>1. /\ workers[w].at = "pending" /\ MoveTo(w, IF m_pendingEventCount = 0 THEN "stopping" ELSE "wait")
        /\ UNCHANGED <<timers, m_fdContexts>>
    BY <1>2 DEF CheckPending, At
  <2>2. ~workers[w].idleTerm /\ timers = {}
    BY <2>1 DEF Quiet
  <2>3. CASE m_pendingEventCount = 0
    <3>1. Goes(w, "stopping")
      BY <2>1, <2>3, MoveGoes DEF WorkerPlaces
    <3>2. Waiters = {}
      BY <2>3, FS_EmptySet DEF Pending, PendingCountsWaiters
    <3>3. Waiters' = {}
      BY <2>1, <3>2 DEF Waiters
    <3> QED BY <2>1, <2>2, <3>1, <3>3 DEF Goes, Quiet
  <2>4. CASE m_pendingEventCount # 0
    <3>1. Goes(w, "wait")
      BY <2>1, <2>4, MoveGoes DEF WorkerPlaces
    <3> QED BY <2>2, <3>1 DEF Goes, Quiet
  <2> QED BY <2>3, <2>4
<1>3. CASE CheckScheduler(w)
  <2>1. /\ workers[w].at = "stopping" /\ workers'[w].at = IF SchedulerStopping THEN "leave" ELSE "wait"
        /\ workers'[w].idleTerm = SchedulerStopping
    BY <1>3, CheckSchedulerIs
  <2>2. timers = {} /\ Waiters = {}
    BY <2>1 DEF Quiet
  <2>3. timers' = {} /\ Waiters' = {} /\ UNCHANGED <<m_isStopped, m_tasks>>
    BY <1>3, <2>2 DEF CheckScheduler, Waiters
  <2>4. CASE SchedulerStopping
    BY <2>1, <2>3, <2>4 DEF Quiet, SchedulerStopping
  <2>5. CASE ~SchedulerStopping
    BY <2>1, <2>5 DEF Quiet
  <2> QED BY <2>4, <2>5
<1>4. CASE EpollWait(w)
  BY <1>4, EpollWaitIs, QuietIs
<1>5. CASE listExpiredCb(w)
  BY <1>5, CollectIs, QuietIs
<1>6. CASE ScheduleExpired(w)
  <2>1. PICK cb : Passes(w, cb)
    BY <1>6, ScheduleExpiredIs
  <2> QED BY <2>1, QuietIs DEF Passes
<1>7. CASE HandleEvent(w)
  <2>1. PICK r \in workers[w].events :
          \/ Drop(w, r) /\ UNCHANGED <<queueVars, countVars, m_isStopped, fibers, owner, panic,
                                       ioVars, timerVars>>
          \/ Panics
          \/ Handled(w, r)
    BY <1>7, HandleIs
  <2>2. workers[w].at = "events"
    BY <1>7, HandleIs
  <2>3. CASE Drop(w, r)
    BY <2>2, <2>3, DropIs, QuietIs DEF Typed
  <2>4. CASE Panics
    BY <2>4, QuietStays DEF Panics, Panic
  <2> QED BY <2>1, <2>3, <2>4 DEF Handled
<1>8. CASE YieldIdle(w)
  <2>1. workers[w].at = "events" /\ Goes(w, "leave")
    BY <1>8, MoveGoes DEF YieldIdle, At, WorkerPlaces
  <2> QED BY <2>1, QuietIs DEF Goes
<1> QED BY <1>1, <1>2, <1>3, <1>4, <1>5, <1>6, <1>7, <1>8 DEF Idling

\* A worker that runs a task runs it on or finishes it, and has no report of epoll to handle.
LEMMA RunningMoves ==
  ASSUME Typed, RunByOne, Registered, NEW w \in Worker, Running(w)
  PROVE  /\ workers[w].at \in {"begin", "run"} /\ workers'[w].at \in {"begin", "run", "finish"}
         /\ workers'[w].idleTerm = workers[w].idleTerm /\ workers'[w].events = workers[w].events
         /\ OnlyWorker(w)
<1>1. CASE RunWake(w)
  BY <1>1, RunWakeIs DEF Goes
<1>2. CASE RunTimeout(w)
  BY <1>2, RunTimeoutIs DEF Goes
<1>3. ASSUME NEW f \in Fiber, Runs(w, f), UNCHANGED workers
      PROVE  /\ workers[w].at \in {"begin", "run"} /\ workers'[w].at \in {"begin", "run", "finish"}
             /\ workers'[w].idleTerm = workers[w].idleTerm /\ workers'[w].events = workers[w].events
             /\ OnlyWorker(w)
  BY <1>3 DEF Runs, At, OnlyWorker
<1>4. ASSUME NEW f \in Fiber, NEW state, NEW at, Leaves(w, f, state, at)
      PROVE  /\ workers[w].at \in {"begin", "run"} /\ workers'[w].at \in {"begin", "run", "finish"}
             /\ workers'[w].idleTerm = workers[w].idleTerm /\ workers'[w].events = workers[w].events
             /\ OnlyWorker(w)
  BY <1>4 DEF Leaves, Runs, At
<1>5. ASSUME NEW f \in Fiber, End(w, f) \/ YieldInCall(w, f)
      PROVE  \E state, at : Leaves(w, f, state, at)
  BY <1>5, EndIs, YieldIs
<1>6. ASSUME NEW f \in Fiber, Invoke(w, f) \/ Try(w, f) \/ Woken(w, f) \/ Sleep(w, f) \/ Close(w, f) \/ Socket(w, f)
      PROVE  Runs(w, f) /\ UNCHANGED workers
  BY <1>6 DEF Invoke, Try, Woken, Sleep, Close, Socket
<1>7. ASSUME NEW f \in Fiber, AddEvent(w, f) PROVE Runs(w, f) /\ UNCHANGED workers
  BY <1>7 DEF AddEvent, Panic
<1> QED BY <1>1, <1>2, <1>3, <1>4, <1>5, <1>6, <1>7 DEF Running

LEMMA NextQuiet ==
  ASSUME OneWorker, IInv, StopInv, [Next]_vars
  PROVE  StopInv'
<1>1. Typed /\ RunByOne /\ Registered /\ Pending
  BY DEF IInv
<1>2. Stopped'
  BY <1>1, NextStopped DEF StopInv
<1>3. SUFFICES ASSUME NEW w \in Worker PROVE Quiet(w)'
  BY <1>2 DEF StopInv
<1>4. Quiet(w) /\ Stopped
  BY DEF StopInv
<1>5. CASE \E v \in Worker : WorkerStep(v)
  <2>1. WorkerStep(w)
    BY <1>5, OnlyOne
  <2>2. CASE Running(w)
    BY <1>1, <1>4, <2>2, RunningMoves, QuietIs
  <2> QED BY <1>1, <1>4, <2>1, <2>2, SchedulingQuiet, IdlingQuiet DEF WorkerStep
<1>6. CASE (OwnerStep \/ Stop) /\ UNCHANGED <<ioVars, timerVars>>
  <2>1. UNCHANGED <<m_tasks, timers, m_fdContexts, workers>> /\ (m_isStopped => m_isStopped')
    BY <1>6 DEF OwnerStep, TickleScheduled, TickleAll, Join, Stop, ioVars, timerVars, queueVars
  <2> QED BY <1>4, <2>1 DEF Quiet, Waiters
<1>7. ASSUME NEW f \in Fiber, Schedule(f), UNCHANGED <<ioVars, timerVars>> PROVE Quiet(w)'
  <2>1. ~m_isStopped
    BY <1>4, <1>7 DEF Schedule, OwnerAt, Stopped
  <2>2. UNCHANGED <<timers, m_fdContexts, workers>>
    BY <1>7 DEF Schedule, ioVars, timerVars
  <2> QED BY <1>4, <2>1, <2>2 DEF Quiet, Waiters
<1>8. CASE Kernel \/ TimePasses \/ UNCHANGED vars
  <2>1. UNCHANGED <<m_tasks, timers, m_fdContexts, workers, m_isStopped>>
    BY <1>8 DEF Kernel, HangUp, BecomeReady, TimePasses, vars, schedulerVars, queueVars, ioVars,
           timerVars
  <2> QED BY <1>4, <2>1, QuietStays
<1> QED BY <1>5, <1>6, <1>7, <1>8 DEF Next, OwnerDecides

LEMMA InitQuiet ==
  ASSUME Init
  PROVE  StopInv
BY DEF Init, IOManagerInit, SchedulerInit, NewWorker, StopInv, Stopped, Quiet

LEMMA StoppedIsDone ==
  ASSUME OneWorker, IInv, StopInv
  PROVE  JoinedMeansDone
<1>1. SUFFICES ASSUME owner.at = "joined"
               PROVE  /\ m_tasks = <<>> /\ timers = {} /\ Waiters = {}
                      /\ \A f \in Fiber : fibers[f].state = "TERM"
  BY DEF JoinedMeansDone
<1>2. PICK w : Worker = {w}
  BY DEF OneWorker
<1>3. /\ workers[w].at = "exited" /\ workers[w].idleTerm /\ owner.scheduled = Fiber
      /\ m_tasks = <<>> /\ timers = {} /\ Waiters = {}
  BY <1>1, <1>2 DEF StopInv, Stopped, Quiet
<1>4. ASSUME NEW f \in Fiber, fibers[f].state # "TERM" PROVE FALSE
  <2>1. OneRuns(f)
    BY <1>3, <1>4 DEF IInv, RunnersInv, Runner, IsLive
  <2>2. InQueue(f) = {} /\ AsWaiter(f) = {} /\ Sleeping(f) = {}
    BY <1>3 DEF InQueue, AsWaiter, Sleeping
  <2>3. Expired(f) = {} /\ Held(f) = {}
    BY <1>2, <1>3 DEF IInv, CollectedOnce, Expired, Held
  <2> QED BY <2>1, <2>2, <2>3 DEF OneRuns, Single
<1> QED BY <1>3, <1>4

\* With one worker, which is what FIBER_THREAD_NUM asks for, stop() returns only when every fiber has
\* come to its end: no task, timer or waiter is left behind in stopping(), idle() and run().
THEOREM JoinedIsDone == OneWorker /\ Spec => []JoinedMeansDone
<1> SUFFICES ASSUME OneWorker PROVE Spec => []JoinedMeansDone
  OBVIOUS
<1>1. Init => StopInv
  BY InitQuiet
<1>2. IInv /\ StopInv /\ [Next]_vars => StopInv'
  BY NextQuiet
<1>3. IInv /\ StopInv => JoinedMeansDone
  BY StoppedIsDone
<1> QED BY <1>1, <1>2, <1>3, Invariant, PTL DEF Spec

-----------------------------------------------------------------------------
(* With one worker: no panic, as long as no descriptor is shared           *)

LEMMA AfterCtlMask ==
  ASSUME NEW fd, NEW mask
  PROVE  AfterCtl(fd, mask).mask = mask
BY DEF AfterCtl, NotInEpoll

\* A fiber that is in the queue, or in the hands of the worker that is to resume it, is READY.
LEMMA TaskIsReady ==
  ASSUME OneWorker, IInv, NEW w \in Worker, workers[w].at # "run", NEW f \in Fiber,
         InQueue(f) # {} \/ Held(f) # {}
  PROVE  fibers[f].state = "READY"
<1>1. IsLive(f)
  BY DEF IInv, RunnersInv, Runner, NoneRuns
<1>2. fibers[f].state # "RUNNING"
  BY OnlyOne DEF IInv, RunByOne, IsRunBy
<1> QED BY <1>1, <1>2 DEF IsLive, IInv, Typed, SchedulerTyped, FiberType

LEMMA TakesNoRunner ==
  ASSUME OneWorker, IInv, NEW w \in Worker, workers[w].at = "take", m_tasks # <<>>
  PROVE  IsTakable(Head(m_tasks))
<1> DEFINE task == Head(m_tasks)
<1>1. task \in RealTasks /\ m_tasks \in Seq(RealTasks)
  BY TaskOfQueue DEF IInv, Typed, SchedulerTyped
<1>2. SUFFICES ASSUME task.kind = "fiber" PROVE fibers[task.fiber].state = "READY"
  BY DEF IsTakable
<1>3. 1 \in DOMAIN m_tasks /\ m_tasks[1] = task
  BY <1>1
<1>4. task.fiber \in Fiber
  BY <1>1 DEF RealTasks
<1>5. 1 \in InQueue(task.fiber)
  BY <1>2, <1>3 DEF InQueue
<1> QED BY <1>4, <1>5, TaskIsReady

LEMMA ResumesNoRunner ==
  ASSUME OneWorker, IInv, NEW w \in Worker, workers[w].at = "begin", workers[w].task.kind = "fiber",
         NEW f \in Fiber, workers[w].task.fiber = f
  PROVE  fibers[f].state = "READY"
<1>1. w \in Held(f)
  BY DEF Held
<1> QED BY <1>1, TaskIsReady

\* What a report of epoll makes real events is registered.
LEMMA ReportsRegistered ==
  ASSUME Typed, LoneWaiters, ReportsStand, NEW w \in Worker, NEW r \in workers[w].events
  PROVE  ~TriggersUnregistered(m_fdContexts[r.fd], RealEvents(r, m_fdContexts[r.fd]))
<1> DEFINE events == m_fdContexts[r.fd].events  real == RealEvents(r, m_fdContexts[r.fd])
<1>1. r.fd \in Fd
  BY DEF Typed, SchedulerTyped, WorkerType, Reports
<1>2. real \subseteq events
  BY DEF ReportsStand, RealEvents
<1>3. READ \in real => WRITE \notin real
  BY <1>1, <1>2 DEF LoneWaiters, READ, WRITE
<1> QED BY <1>2, <1>3 DEF TriggersUnregistered

\* A trigger leaves nothing of a context.
LEMMA TriggerLone ==
  ASSUME Typed, Registered, LoneWaiters, NEW fd, NEW e, TriggerAt(fd, e),
         epoll'[fd].mask = {}, \A d \in Fd : d # fd => epoll'[d].mask \subseteq epoll[d].mask
  PROVE  LoneWaiters'
<1>1. /\ fd \in Fd /\ e \in Event /\ m_fdContexts'[fd].events = {} /\ m_fdContexts'[fd].waiter[e] = NoFiber
      /\ OnlyContext(fd, e)
  BY TriggerWaiters
<1>2. e \in m_fdContexts[fd].events
  BY DEF TriggerAt
<1>3. \A a \in Event : m_fdContexts'[fd].waiter[a] = NoFiber
  <2> TAKE a \in Event
  <2>1. CASE a = e
    BY <1>1, <2>1
  <2>2. CASE a # e
    BY <1>1, <1>2, <2>2 DEF LoneWaiters, OnlyContext
  <2> QED BY <2>1, <2>2
<1>4. ASSUME NEW d \in Fd
      PROVE  /\ \A a \in Event : m_fdContexts'[d].waiter[a] # NoFiber <=> a \in m_fdContexts'[d].events
             /\ \A a, b \in m_fdContexts'[d].events : a = b
             /\ epoll'[d].mask \subseteq m_fdContexts'[d].events
  <2>1. CASE d = fd
    BY <1>1, <1>3, <2>1
  <2>2. CASE d # fd
    BY <1>1, <2>2 DEF LoneWaiters, OnlyContext
  <2> QED BY <2>1, <2>2
<1> QED BY <1>4 DEF LoneWaiters

LEMMA AddsLone ==
  ASSUME Typed, LoneWaiters, NEW f \in Fiber, NEW fd, NEW e, Adds(fd, e, f), ~SomeoneWaits(fd)
  PROVE  LoneWaiters'
<1>1. /\ fd \in Fd /\ e \in Event /\ m_fdContexts'[fd].waiter[e] = f
      /\ OnlyContext(fd, e)
  BY AddsWaiters
<1>2. \A a \in Event : m_fdContexts[fd].waiter[a] = NoFiber
  BY DEF SomeoneWaits
<1>3. m_fdContexts[fd].events = {}
  BY <1>1, <1>2 DEF LoneWaiters, Typed, IoTyped, ContextType
<1>4. m_fdContexts'[fd].events = {e}
  <2>1. m_fdContexts \in [Fd -> ContextType]
    BY DEF Typed, IoTyped
  <2> QED BY <1>1, <1>3, <2>1 DEF Adds, addEvent
<1>5. epoll' = [epoll EXCEPT ![fd] = AfterCtl(fd, {e})]
  BY <1>3 DEF Adds, addEvent
<1>6. AfterCtl(fd, {e}).mask = {e}
  BY AfterCtlMask
<1>7. epoll'[fd].mask = {e} /\ \A d \in Fd : d # fd => epoll'[d] = epoll[d]
  BY <1>1, <1>5, <1>6 DEF Typed, IoTyped
<1>8. f # NoFiber
  BY NoFiberAssumption
<1>9. ASSUME NEW d \in Fd
      PROVE  /\ \A a \in Event : m_fdContexts'[d].waiter[a] # NoFiber <=> a \in m_fdContexts'[d].events
             /\ \A a, b \in m_fdContexts'[d].events : a = b
             /\ epoll'[d].mask \subseteq m_fdContexts'[d].events
  <2>1. CASE d = fd
    BY <1>1, <1>2, <1>4, <1>7, <1>8, <2>1 DEF OnlyContext
  <2>2. CASE d # fd
    BY <1>1, <1>7, <2>2 DEF LoneWaiters, OnlyContext
  <2> QED BY <2>1, <2>2
<1> QED BY <1>9 DEF LoneWaiters

LEMMA SameLone ==
  ASSUME LoneWaiters, UNCHANGED m_fdContexts, \A d \in Fd : epoll'[d].mask \subseteq epoll[d].mask
  PROVE  LoneWaiters'
BY DEF LoneWaiters

\* No report is left to handle.
LEMMA NoReports ==
  ASSUME OneWorker, NEW w \in Worker, workers'[w].events = {}
  PROVE  ReportsStand'
<1>1. \A v \in Worker : workers'[v].events = {}
  BY OnlyOne
<1> QED BY <1>1 DEF ReportsStand

\* Fewer reports, on the same contexts.
LEMMA FewerReports ==
  ASSUME OneWorker, ReportsStand, NEW w \in Worker, UNCHANGED m_fdContexts,
         workers'[w].events \subseteq workers[w].events,
         workers'[w].at \in {"expire", "events"} \/ workers'[w].events = {}
  PROVE  ReportsStand'
<1>1. ASSUME NEW v \in Worker
      PROVE  /\ \A r \in workers'[v].events : r.events \ {"HUP"} \subseteq m_fdContexts'[r.fd].events
             /\ \A r, s \in workers'[v].events : r.fd = s.fd => r = s
             /\ workers'[v].at \notin {"expire", "events"} => workers'[v].events = {}
  <2>1. v = w
    BY OnlyOne
  <2> QED BY <2>1 DEF ReportsStand
<1> QED BY <1>1 DEF ReportsStand

\* A worker that is not at its reports has none.
LEMMA ReportsElsewhere ==
  ASSUME ReportsStand, NEW w \in Worker, workers[w].at \notin {"expire", "events"}
  PROVE  workers[w].events = {}
BY DEF ReportsStand

Alone == ~panic /\ LoneWaiters /\ ReportsStand

LEMMA SchedulingAlone ==
  ASSUME OneWorker, IInv, Alone, NEW w \in Worker, Scheduling(w), UNCHANGED <<ioVars, timerVars>>
  PROVE  Alone'
<1>1. Typed /\ RunByOne /\ UNCHANGED m_fdContexts
  BY DEF IInv, ioVars
<1>2. LoneWaiters'
  BY <1>1, SameLone DEF Alone, ioVars
<1>3. ASSUME UNCHANGED panic, workers'[w].events = workers[w].events,
             workers[w].at \notin {"expire", "events"}
      PROVE  Alone'
  <2>1. workers'[w].events = {}
    BY <1>3, ReportsElsewhere DEF Alone
  <2> QED BY <1>2, <1>3, <2>1, NoReports DEF Alone
<1>4. CASE TakeTask(w)
  <2>1. Takes(w)
    BY <1>1, <1>4, TakeIs, TakesNoRunner
  <2> QED BY <1>3, <2>1 DEF Takes
<1>5. CASE Resume(w)
  <2>1. PICK f \in Fiber : Resumes(w, f)
    BY <1>1, <1>5, ResumeIs, ResumesNoRunner
  <2> QED BY <1>3, <2>1 DEF Resumes, Goes
<1>6. CASE FinishTask(w)
  <2>1. UNCHANGED panic
    BY <1>6 DEF FinishTask
  <2> QED BY <1>1, <1>3, <1>6, <2>1, FinishIs
<1>7. CASE TickleOthers(w) \/ FindNothing(w) \/ BeIdle(w) \/ LeaveIdle(w)
  <2>1. /\ UNCHANGED panic /\ workers[w].at \notin {"expire", "events"}
        /\ \E at \in WorkerPlaces : MoveTo(w, at)
    BY <1>7 DEF TickleOthers, FindNothing, BeIdle, LeaveIdle, At, WorkerPlaces
  <2> QED BY <1>1, <1>3, <2>1, MoveGoes DEF Goes
<1> QED BY <1>4, <1>5, <1>6, <1>7 DEF Scheduling

LEMMA EpollWaitAlone ==
  ASSUME OneWorker, Typed, Alone, NEW w \in Worker, EpollWait(w)
  PROVE  Alone'
<1>1. UNCHANGED <<panic, m_fdContexts>>
  BY DEF EpollWait
<1>2. /\ workers'[w].at = "expire" /\ \A fd \in Fd : epoll'[fd].mask = epoll[fd].mask
      /\ workers'[w].events = {[fd |-> fd, events |-> Happening(fd)] : fd \in Reported}
  BY EpollWaitIs
<1>3. LoneWaiters'
  BY <1>1, <1>2, SameLone DEF Alone
<1>4. ASSUME NEW v \in Worker
      PROVE  /\ \A r \in workers'[v].events : r.events \ {"HUP"} \subseteq m_fdContexts'[r.fd].events
             /\ \A r, s \in workers'[v].events : r.fd = s.fd => r = s
             /\ workers'[v].at \notin {"expire", "events"} => workers'[v].events = {}
  <2>1. v = w
    BY OnlyOne
  <2>2. ASSUME NEW r \in workers'[v].events
        PROVE  r.fd \in Fd /\ r = [fd |-> r.fd, events |-> Happening(r.fd)]
    BY <1>2, <2>1, <2>2 DEF Reported
  <2>3. ASSUME NEW r \in workers'[v].events
        PROVE  r.events \ {"HUP"} \subseteq m_fdContexts'[r.fd].events
    <3>1. r.fd \in Fd /\ r.events = Happening(r.fd)
      BY <2>2, <2>3
    <3>2. Happening(r.fd) \ {"HUP"} \subseteq epoll[r.fd].mask
      BY DEF Happening
    <3>3. epoll[r.fd].mask \subseteq m_fdContexts[r.fd].events
      BY <3>1 DEF Alone, LoneWaiters
    <3> QED BY <1>1, <3>1, <3>2, <3>3
  <2>4. ASSUME NEW r \in workers'[v].events, NEW s \in workers'[v].events, r.fd = s.fd PROVE r = s
    BY <2>2, <2>4
  <2> QED BY <1>2, <2>1, <2>3, <2>4
<1> QED BY <1>1, <1>3, <1>4 DEF Alone, ReportsStand

LEMMA HandledAlone ==
  ASSUME OneWorker, Typed, Registered, Alone, NEW w \in Worker, NEW r \in workers[w].events,
         workers[w].at = "events", Handled(w, r)
  PROVE  Alone'
<1> DEFINE fd == r.fd  context == m_fdContexts[fd]  real == RealEvents(r, context)  e == FirstOf(real)
<1>1. TriggerAt(fd, e) /\ context.events \intersect real # {} /\ UNCHANGED panic
      /\ epoll' = [epoll EXCEPT ![fd] = AfterCtl(fd, context.events \ real)] /\ Drop(w, r)
  BY DEF Handled
<1>2. fd \in Fd /\ e \in context.events
  BY <1>1 DEF TriggerAt
<1>3. context.events \ real = {}
  BY <1>1, <1>2 DEF Alone, LoneWaiters
<1>4. AfterCtl(fd, context.events \ real).mask = {}
  BY <1>3, AfterCtlMask
<1> HIDE DEF real
<1>5. epoll'[fd].mask = {} /\ \A d \in Fd : d # fd => epoll'[d].mask \subseteq epoll[d].mask
  BY <1>1, <1>2, <1>4 DEF Typed, IoTyped
<1> HIDE DEF e, fd
<1>6. LoneWaiters'
  BY <1>1, <1>5, TriggerLone DEF Alone
<1>7. OnlyContext(fd, e)
  BY <1>1, TriggerWaiters
<1>8. workers'[w].at = "events" /\ workers'[w].events = workers[w].events \ {r}
  BY <1>1, DropIs DEF Typed
<1>9. ASSUME NEW v \in Worker
      PROVE  /\ \A s \in workers'[v].events : s.events \ {"HUP"} \subseteq m_fdContexts'[s.fd].events
             /\ \A s, t \in workers'[v].events : s.fd = t.fd => s = t
             /\ workers'[v].at \notin {"expire", "events"} => workers'[v].events = {}
  <2>1. v = w
    BY OnlyOne
  <2>2. ASSUME NEW s \in workers'[v].events
        PROVE  s.events \ {"HUP"} \subseteq m_fdContexts'[s.fd].events
    <3>1. s \in workers[w].events /\ s # r
      BY <1>8, <2>1, <2>2
    <3>2. s.fd # fd /\ s.fd \in Fd
      BY <3>1 DEF Alone, ReportsStand, fd, Typed, SchedulerTyped, WorkerType, Reports
    <3> QED BY <1>7, <3>1, <3>2 DEF Alone, ReportsStand, OnlyContext
  <2>3. \A s, t \in workers'[v].events : s.fd = t.fd => s = t
    BY <1>8, <2>1 DEF Alone, ReportsStand
  <2> QED BY <1>8, <2>1, <2>2, <2>3
<1> QED BY <1>1, <1>6, <1>9 DEF Alone, ReportsStand

LEMMA IdlingAlone ==
  ASSUME OneWorker, IInv, Alone, NEW w \in Worker, Idling(w)
  PROVE  Alone'
<1>1. Typed /\ Registered
  BY DEF IInv
<1> USE DEF queueVars, ioVars, timerVars
\* The steps that leave the contexts and epoll, and handle no report.
<1>2. ASSUME UNCHANGED <<panic, m_fdContexts, epoll>>, workers'[w].events \subseteq workers[w].events,
             workers'[w].at \in {"expire", "events"} \/ workers'[w].events = {}
      PROVE  Alone'
  <2>1. LoneWaiters'
    BY <1>2, SameLone DEF Alone
  <2>2. ReportsStand'
    BY <1>2, FewerReports DEF Alone
  <2> QED BY <1>2, <2>1, <2>2 DEF Alone
<1>3. CASE CheckTimers(w) \/ CheckPending(w)
  <2>1. /\ UNCHANGED <<panic, m_fdContexts, epoll>> /\ workers[w].at \in {"timers", "pending"}
        /\ \E at \in WorkerPlaces : MoveTo(w, at)
    BY <1>3 DEF CheckTimers, CheckPending, At, WorkerPlaces
  <2>2. workers'[w].events = workers[w].events
    BY <1>1, <2>1, MoveGoes DEF Goes
  <2>3. workers[w].events = {}
    BY <2>1, ReportsElsewhere DEF Alone
  <2> QED BY <1>2, <2>1, <2>2, <2>3
<1>4. CASE CheckScheduler(w)
  <2>1. UNCHANGED <<panic, m_fdContexts, epoll>>
    BY <1>4 DEF CheckScheduler
  <2>2. workers[w].at = "stopping" /\ workers'[w].events = workers[w].events
    BY <1>1, <1>4, CheckSchedulerIs
  <2>3. workers[w].events = {}
    BY <2>2, ReportsElsewhere DEF Alone
  <2> QED BY <1>2, <2>1, <2>2, <2>3
<1>5. CASE EpollWait(w)
  BY <1>1, <1>5, EpollWaitAlone
<1>6. CASE listExpiredCb(w)
  <2>1. UNCHANGED <<panic, m_fdContexts, epoll>>
    BY <1>6 DEF listExpiredCb
  <2> QED BY <1>1, <1>2, <1>6, <2>1, CollectIs
<1>7. CASE ScheduleExpired(w)
  <2>1. UNCHANGED <<panic, m_fdContexts, epoll>>
    BY <1>7 DEF ScheduleExpired
  <2>2. PICK cb : Passes(w, cb)
    BY <1>1, <1>7, ScheduleExpiredIs
  <2> QED BY <1>2, <2>1, <2>2 DEF Passes
<1>8. CASE HandleEvent(w)
  <2>1. PICK r \in workers[w].events :
          \/ Drop(w, r) /\ UNCHANGED <<queueVars, countVars, m_isStopped, fibers, owner, panic,
                                       ioVars, timerVars>>
          \/ TriggersUnregistered(m_fdContexts[r.fd], RealEvents(r, m_fdContexts[r.fd]))
          \/ Handled(w, r)
    BY <1>1, <1>8, HandleIs
  <2>2. workers[w].at = "events"
    BY <1>1, <1>8, HandleIs
  <2>3. CASE Drop(w, r) /\ UNCHANGED <<queueVars, countVars, m_isStopped, fibers, owner, panic,
                                       ioVars, timerVars>>
    <3>1. workers'[w].at = "events" /\ workers'[w].events \subseteq workers[w].events
      BY <1>1, <2>2, <2>3, DropIs DEF Typed
    <3> QED BY <1>2, <2>3, <3>1
  <2>4. ~TriggersUnregistered(m_fdContexts[r.fd], RealEvents(r, m_fdContexts[r.fd]))
    BY <1>1, ReportsRegistered DEF Alone
  <2>5. CASE Handled(w, r)
    BY <1>1, <2>2, <2>5, HandledAlone
  <2> QED BY <2>1, <2>3, <2>4, <2>5
<1>9. CASE YieldIdle(w)
  <2>1. UNCHANGED <<panic, m_fdContexts, epoll>> /\ workers[w].events = {} /\ MoveTo(w, "leave")
    BY <1>9 DEF YieldIdle
  <2>2. Goes(w, "leave")
    BY <1>1, <2>1, MoveGoes DEF WorkerPlaces
  <2> QED BY <1>2, <2>1, <2>2 DEF Goes
<1> QED BY <1>3, <1>4, <1>5, <1>6, <1>7, <1>8, <1>9 DEF Idling

\* A worker that runs a task has no report to handle, so that the contexts may change.
LEMMA RunningReports ==
  ASSUME OneWorker, IInv, Alone, NEW w \in Worker, Running(w)
  PROVE  ReportsStand'
<1>1. workers[w].at \in {"begin", "run"} /\ workers'[w].events = workers[w].events
  BY RunningMoves DEF IInv
<1>2. workers[w].events = {}
  BY <1>1, ReportsElsewhere DEF Alone
<1> QED BY <1>1, <1>2, NoReports

LEMMA RunningAlone ==
  ASSUME OneWorker, IInv, Alone, ~shared', NEW w \in Worker, Running(w)
  PROVE  Alone'
<1>1. Typed /\ RunByOne /\ Registered /\ ReportsStand'
  BY RunningReports DEF IInv
<1>2. ASSUME UNCHANGED <<panic, m_fdContexts>>, \A d \in Fd : epoll'[d].mask \subseteq epoll[d].mask
      PROVE  Alone'
  BY <1>1, <1>2, SameLone DEF Alone
<1>3. CASE RunWake(w)
  <2>1. UNCHANGED <<panic, m_fdContexts, epoll>>
    BY <1>3 DEF RunWake, ioVars
  <2> QED BY <1>2, <2>1
<1>4. CASE RunTimeout(w)
  <2>1. UNCHANGED panic
    BY <1>4 DEF RunTimeout
  <2>2. CASE UNCHANGED <<queueVars, m_fdContexts, m_pendingEventCount, epoll>>
    BY <1>2, <2>1, <2>2
  <2>3. ASSUME NEW fd \in Fd, NEW e \in Event, TriggerAt(fd, e),
               epoll' = [epoll EXCEPT ![fd] = AfterCtl(fd, m_fdContexts[fd].events \ {e})]
        PROVE  Alone'
    <3>1. m_fdContexts[fd].events \ {e} = {}
      BY <2>3 DEF TriggerAt, Alone, LoneWaiters
    <3>2. AfterCtl(fd, m_fdContexts[fd].events \ {e}).mask = {}
      BY <3>1, AfterCtlMask
    <3>3. epoll'[fd].mask = {} /\ \A d \in Fd : d # fd => epoll'[d].mask \subseteq epoll[d].mask
      BY <1>1, <2>3, <3>2 DEF Typed, IoTyped
    <3>4. LoneWaiters'
      BY <1>1, <2>3, <3>3, TriggerLone DEF Alone
    <3> QED BY <1>1, <2>1, <3>4 DEF Alone
  <2> QED BY <1>1, <1>4, <2>2, <2>3, RunTimeoutIs
<1>5. ASSUME NEW f \in Fiber,
             Invoke(w, f) \/ End(w, f) \/ Try(w, f) \/ YieldInCall(w, f) \/ Woken(w, f) \/ Sleep(w, f)
             \/ Socket(w, f)
      PROVE  Alone'
  <2>1. UNCHANGED <<panic, m_fdContexts, epoll>>
    BY <1>5 DEF Invoke, End, Try, YieldInCall, Woken, Sleep, Socket, ioVars
  <2> QED BY <1>2, <2>1
<1>6. ASSUME NEW f \in Fiber, AddEvent(w, f) PROVE Alone'
  <2>1. PICK fd \in Fd, e \in Event :
          /\ shared' = (shared \/ SomeoneWaits(fd))
          /\ \/ Panic /\ SomeoneWaits(fd)
             \/ /\ Adds(fd, e, f) /\ Steps(w, f, "yield") /\ UNCHANGED panic
             \/ UNCHANGED <<panic, m_fdContexts, epoll>>
    BY <1>1, <1>6, AddEventIs, Zenon
  <2>2. ~SomeoneWaits(fd)
    BY <2>1
  <2>3. CASE Adds(fd, e, f) /\ UNCHANGED panic
    BY <1>1, <2>2, <2>3, AddsLone DEF Alone
  <2>4. CASE UNCHANGED <<panic, m_fdContexts, epoll>>
    BY <1>2, <2>4
  <2> QED BY <2>1, <2>2, <2>3, <2>4
<1>7. ASSUME NEW f \in Fiber, Close(w, f) PROVE Alone'
  <2>1. /\ UNCHANGED panic /\ \A d \in Fd : epoll'[d].mask \subseteq epoll[d].mask
        /\ \/ \E fd \in Fd, e \in Event : TriggerAt(fd, e) /\ epoll'[fd].mask = {}
           \/ UNCHANGED m_fdContexts
    BY <1>1, <1>7, CloseIs
  <2>2. ASSUME NEW fd \in Fd, NEW e \in Event, TriggerAt(fd, e), epoll'[fd].mask = {}
        PROVE  LoneWaiters'
    BY <1>1, <2>1, <2>2, TriggerLone DEF Alone
  <2> QED BY <1>1, <1>2, <2>1, <2>2 DEF Alone
<1> QED BY <1>3, <1>4, <1>5, <1>6, <1>7 DEF Running

\* Once a descriptor was shared, it stays so.
LEMMA SharedStays ==
  ASSUME Typed, RunByOne, Registered, [Next]_vars, shared
  PROVE  shared'
<1>1. ASSUME NEW w \in Worker, NEW f \in Fiber, AddEvent(w, f) PROVE shared'
  BY <1>1 DEF AddEvent
<1>2. ASSUME UNCHANGED shared PROVE shared'
  BY <1>2
<1>3. ASSUME NEW w \in Worker, Idling(w) PROVE UNCHANGED shared
  <2>1. CASE HandleEvent(w)
    BY <2>1, HandleIs DEF Handled, Panics, ioVars
  <2>2. CASE ~HandleEvent(w)
    BY <1>3, <2>2 DEF Idling, CheckTimers, CheckPending, CheckScheduler, EpollWait, listExpiredCb,
                      ScheduleExpired, YieldIdle, ioVars
  <2> QED BY <2>1, <2>2
<1>4. ASSUME NEW w \in Worker, Running(w), \A f \in Fiber : ~AddEvent(w, f) PROVE UNCHANGED shared
  BY <1>4 DEF Running, RunWake, RunTimeout, Invoke, End, Try, YieldInCall, Woken, Sleep, Close,
         Socket, ioVars
<1>5. ASSUME NEW w \in Worker, WorkerStep(w) PROVE shared'
  BY <1>1, <1>2, <1>3, <1>4, <1>5 DEF WorkerStep, ioVars
<1>6. CASE (OwnerStep \/ OwnerDecides) /\ UNCHANGED <<ioVars, timerVars>>
  BY <1>6 DEF ioVars
<1>7. CASE Kernel \/ TimePasses \/ UNCHANGED vars
  BY <1>7 DEF Kernel, HangUp, BecomeReady, TimePasses, vars, ioVars
<1> QED BY <1>5, <1>6, <1>7 DEF Next

LEMMA NextAlone ==
  ASSUME OneWorker, IInv, AloneInv, [Next]_vars
  PROVE  AloneInv'
<1>1. SUFFICES ASSUME ~shared' PROVE Alone'
  BY DEF AloneInv, Alone
<1>2. Typed /\ RunByOne /\ Registered
  BY DEF IInv
<1>3. Alone
  BY <1>1, <1>2, SharedStays DEF AloneInv, Alone
<1>4. ASSUME NEW w \in Worker, WorkerStep(w) PROVE Alone'
  BY <1>1, <1>3, <1>4, SchedulingAlone, IdlingAlone, RunningAlone DEF WorkerStep
<1>5. ASSUME UNCHANGED <<panic, m_fdContexts, workers>>, \A d \in Fd : epoll'[d].mask = epoll[d].mask
      PROVE  Alone'
  <2>1. LoneWaiters'
    BY <1>3, <1>5, SameLone DEF Alone
  <2>2. ReportsStand'
    BY <1>3, <1>5 DEF Alone, ReportsStand
  <2> QED BY <1>3, <1>5, <2>1, <2>2 DEF Alone
<1>6. CASE (OwnerStep \/ OwnerDecides) /\ UNCHANGED <<ioVars, timerVars>>
  <2>1. UNCHANGED <<panic, workers>>
    BY <1>6 DEF OwnerStep, OwnerDecides, TickleScheduled, TickleAll, Join, Stop, Schedule
  <2> QED BY <1>5, <1>6, <2>1 DEF ioVars
<1>7. CASE Kernel
  <2>1. UNCHANGED <<schedulerVars, m_fdContexts>>
    BY <1>7 DEF Kernel, HangUp, BecomeReady
  <2>2. ASSUME NEW fd \in Fd, HangUp(fd) \/ \E e \in Event : BecomeReady(fd, e)
        PROVE  \A d \in Fd : epoll'[d].mask = epoll[d].mask
    <3>1. epoll \in [Fd -> EpollType]
      BY <1>2 DEF Typed, IoTyped
    <3>2. PICK x : epoll' = [epoll EXCEPT ![fd].signalled = x]
      BY <2>2 DEF HangUp, BecomeReady
    <3> QED BY <3>1, <3>2 DEF EpollType
  <2>3. \A d \in Fd : epoll'[d].mask = epoll[d].mask
    BY <1>7, <2>2 DEF Kernel
  <2> QED BY <1>5, <2>1, <2>3 DEF schedulerVars
<1>8. CASE TimePasses \/ UNCHANGED vars
  <2>1. UNCHANGED <<panic, m_fdContexts, workers, epoll>>
    BY <1>8 DEF TimePasses, vars, schedulerVars, ioVars
  <2> QED BY <1>5, <2>1
<1> QED BY <1>4, <1>6, <1>7, <1>8 DEF Next

LEMMA InitAlone ==
  ASSUME Init
  PROVE  AloneInv
<1> USE DEF Init, IOManagerInit, SchedulerInit
<1>1. LoneWaiters
  BY DEF LoneWaiters, NoContext, NotInEpoll
<1>2. ReportsStand
  BY DEF ReportsStand, NewWorker
<1> QED BY <1>1, <1>2 DEF AloneInv

\* With one worker, no CondPanic of addEvent, triggerEvent, run() or resume() fails and no registration
\* is forgotten by triggerEvent, as long as no fiber was to wait on a descriptor another one waited on.
THEOREM OnlySharing == OneWorker /\ Spec => []OnlySharingBreaks
<1> SUFFICES ASSUME OneWorker PROVE Spec => []OnlySharingBreaks
  OBVIOUS
<1>1. Init => AloneInv
  BY InitAlone
<1>2. IInv /\ AloneInv /\ [Next]_vars => AloneInv'
  BY NextAlone
<1>3. AloneInv => OnlySharingBreaks
  BY DEF AloneInv, OnlySharingBreaks, LoneWaiters, Waiters, IsRegistered
<1> QED BY <1>1, <1>2, <1>3, Invariant, PTL DEF Spec
====
