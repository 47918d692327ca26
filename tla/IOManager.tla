---- MODULE IOManager ----
(***************************************************************************)
(* src/src/fiber/iomanager.cpp on top of the Scheduler: contexts of the    *)
(* descriptors that fibers wait on, epoll, timers, and the idle fiber that *)
(* turns what happened into tasks.  A timer may expire early or late: the  *)
(* module Timer has the clock, which is not monotonic.                     *)
(***************************************************************************)
EXTENDS Scheduler

CONSTANTS Fd

READ == "READ"
WRITE == "WRITE"
Event == {READ, WRITE}

VARIABLES
  m_fdContexts,         \* m_fdContexts[fd]: registered events, and the fiber that waits for each
  m_pendingEventCount,
  epoll,                \* epoll[fd]: whether fd is in the interest list, its mask, its edge
  sockets,              \* sockets[fd]: open (then it has an FdCtx), ready events, hung up
  timers,               \* the callbacks of the armed timers
  due,                  \* those whose time has come
  shared                \* history: a fiber was to wait on a descriptor another one waits on

ioVars == <<m_fdContexts, m_pendingEventCount, epoll, sockets, shared>>
timerVars == <<timers, due>>

NoFiber == "no fiber"

ASSUME NoFiberAssumption == NoFiber \notin Fiber

NoContext == [events |-> {}, waiter |-> [e \in Event |-> NoFiber]]
NotInEpoll == [in |-> FALSE, mask |-> {}, signalled |-> FALSE]
NewSocket == [open |-> TRUE, ready |-> {}, hup |-> FALSE]

IOManagerInit ==
  /\ SchedulerInit
  /\ m_fdContexts = [fd \in Fd |-> NoContext]
  /\ m_pendingEventCount = 0
  /\ epoll = [fd \in Fd |-> NotInEpoll]
  /\ sockets = [fd \in Fd |-> NewSocket]
  /\ timers = {} /\ due = {}
  /\ shared = FALSE

Panics == Panic /\ UNCHANGED <<ioVars, timerVars>>

-----------------------------------------------------------------------------
(* epoll_ctl(2), epoll_wait(2)                                             *)

Happening(fd) == (sockets[fd].ready \intersect epoll[fd].mask)
                   \union (IF sockets[fd].hup THEN {"HUP"} ELSE {})

\* What ADD, MOD or DEL (an empty mask) leave; ADD fails when fd is there, the others when it is not.
CtlAccepts(op, fd) == sockets[fd].open /\ (op = "ADD" <=> ~epoll[fd].in)
AfterCtl(fd, mask) ==
  IF mask = {} THEN NotInEpoll
  ELSE [in |-> TRUE, mask |-> mask,
        signalled |-> sockets[fd].hup \/ sockets[fd].ready \intersect mask # {}]

OpFor(events) == IF events = {} THEN "DEL" ELSE "MOD"

-----------------------------------------------------------------------------
(* FdContext, and the operations of fibers                                 *)

\* triggerEvent: events = event & ~event, which is NONE.
triggerEvent_Mutant(context, e) == [context EXCEPT !.events = {}]
triggerEvent(context, e) ==
  [events |-> {}, waiter |-> [context.waiter EXCEPT ![e] = NoFiber]]

\* Who is resumed by it; the event must be registered.
TriggerWaiter(context, e) == FiberTask(context.waiter[e])

\* The fiber f, running on w, waits for e: the epoll part fails, or f is in the context.
addEvent(fd, e, f) ==
  LET context == m_fdContexts[fd] IN
  /\ m_fdContexts' = [m_fdContexts EXCEPT ![fd] =
       [events |-> context.events \union {e}, waiter |-> [context.waiter EXCEPT ![e] = f]]]
  /\ m_pendingEventCount' = m_pendingEventCount + 1
  /\ epoll' = [epoll EXCEPT ![fd] = AfterCtl(fd, context.events \union {e})]

AddOp(fd) == IF m_fdContexts[fd].events = {} THEN "ADD" ELSE "MOD"
AddPanics(fd, e) ==
  \/ e \in m_fdContexts[fd].events
  \/ CtlAccepts(AddOp(fd), fd) /\ m_fdContexts[fd].waiter[e] # NoFiber

\* cancelEvent, cancelAll: when they do something at all, and then what.
CanCancel(fd, e) ==
  /\ e \in m_fdContexts[fd].events
  /\ CtlAccepts(OpFor(m_fdContexts[fd].events \ {e}), fd)

cancelEvent(fd, e) ==
  LET context == m_fdContexts[fd] IN
  /\ epoll' = [epoll EXCEPT ![fd] = AfterCtl(fd, context.events \ {e})]
  /\ scheduler(TriggerWaiter(context, e))
  /\ m_fdContexts' = [m_fdContexts EXCEPT ![fd] = triggerEvent(context, e)]
  /\ m_pendingEventCount' = m_pendingEventCount - 1

\* READ first; WRITE only if it is still registered, which after READ it is not.
CanCancelAll(fd) == m_fdContexts[fd].events # {} /\ CtlAccepts("DEL", fd)
FirstOf(events) == IF READ \in events THEN READ ELSE WRITE

cancelAll_Mutant(fd) ==
  LET context == m_fdContexts[fd]  e == FirstOf(context.events) IN
  /\ scheduler(TriggerWaiter(context, e))
  /\ m_fdContexts' = [m_fdContexts EXCEPT ![fd] = triggerEvent(context, e)]
  /\ UNCHANGED m_pendingEventCount
cancelAll(fd) ==
  LET context == m_fdContexts[fd]  e == FirstOf(context.events) IN
  /\ scheduler(TriggerWaiter(context, e))
  /\ m_fdContexts' = [m_fdContexts EXCEPT ![fd] = triggerEvent(context, e)]
  /\ m_pendingEventCount' = m_pendingEventCount - 1

\* addTimer: tickles when the timer is the first to expire.
addTimer(task) ==
  /\ timers' = timers \union {task}
  /\ \E at_front \in BOOLEAN : IF at_front THEN tickle ELSE UNCHANGED m_tickleFds

\* Timer::cancel: of no use once the callback was collected.
cancelTimer(task) == timers' = timers \ {task} /\ due' = due \ {task}

-----------------------------------------------------------------------------
(* idle()                                                                  *)

\* stopping(next_timeout): timers, then pending events, then the scheduler.
CheckTimers_Mutant(w) ==
  /\ At(w, "timers")
  /\ MoveTo(w, "pending")
  /\ UNCHANGED <<queueVars, countVars, m_isStopped, fibers, owner, panic, ioVars, timerVars>>
CheckTimers(w) ==
  /\ At(w, "timers")
  /\ MoveTo(w, IF timers = {} THEN "pending" ELSE "wait")
  /\ UNCHANGED <<queueVars, countVars, m_isStopped, fibers, owner, panic, ioVars, timerVars>>

CheckPending(w) ==
  /\ At(w, "pending")
  /\ MoveTo(w, IF m_pendingEventCount = 0 THEN "stopping" ELSE "wait")
  /\ UNCHANGED <<queueVars, countVars, m_isStopped, fibers, owner, panic, ioVars, timerVars>>

CheckScheduler(w) ==
  /\ At(w, "stopping")
  /\ workers' = [workers EXCEPT ![w].idleTerm = SchedulerStopping,
                                ![w].at = IF SchedulerStopping THEN "leave" ELSE "wait"]
  /\ UNCHANGED <<queueVars, countVars, m_isStopped, fibers, owner, panic, ioVars, timerVars>>

Reported == {fd \in Fd : epoll[fd].signalled /\ Happening(fd) # {}}

\* It also returns with nothing: its time limit is MAX_TIMEOUT if no timer comes first.
EpollWait(w) ==
  /\ At(w, "wait")
  /\ workers' = [workers EXCEPT ![w].at = "expire",
       ![w].events = {[fd |-> fd, events |-> Happening(fd)] : fd \in Reported}]
  /\ epoll' = [fd \in Fd |-> [epoll[fd] EXCEPT !.signalled = FALSE]]
  /\ m_tickleFds' = FALSE
  /\ UNCHANGED <<m_tasks, countVars, m_isStopped, fibers, owner, panic,
                 m_fdContexts, m_pendingEventCount, sockets, shared, timerVars>>

listExpiredCb(w) ==
  /\ At(w, "expire")
  /\ workers' = [workers EXCEPT ![w].cbs = due, ![w].at = "events"]
  /\ timers' = timers \ due /\ due' = {}
  /\ UNCHANGED <<queueVars, countVars, m_isStopped, fibers, owner, panic, ioVars>>

ScheduleExpired(w) ==
  /\ At(w, "events")
  /\ \E cb \in workers[w].cbs :
       /\ scheduler(cb)
       /\ workers' = [workers EXCEPT ![w].cbs = @ \ {cb}]
  /\ UNCHANGED <<countVars, m_isStopped, fibers, owner, panic, ioVars, timerVars>>

\* An error counts as every registered event.
RealEvents_Mutant(reported, context) == IF "HUP" \in reported.events THEN Event ELSE reported.events
RealEvents(reported, context) ==
  (reported.events \ {"HUP"}) \union (IF "HUP" \in reported.events THEN context.events ELSE {})

\* triggerEvent for each real event panics on one that is not registered (any more).
TriggersUnregistered(context, real) ==
  \/ READ \in real /\ READ \notin context.events
  \/ WRITE \in real
     /\ WRITE \notin (IF READ \in real THEN triggerEvent(context, READ) ELSE context).events

Drop(w, reported) == workers' = [workers EXCEPT ![w].events = @ \ {reported}]

HandleEvent(w) == \E reported \in workers[w].events :
  LET fd == reported.fd
      context == m_fdContexts[fd]
      real == RealEvents(reported, context)
      left == context.events \ real
  IN
  /\ At(w, "events") /\ workers[w].cbs = {}
  /\ IF context.events \intersect real = {} \/ ~CtlAccepts(OpFor(left), fd)
     THEN /\ Drop(w, reported)
          /\ UNCHANGED <<queueVars, countVars, m_isStopped, fibers, owner, panic, ioVars, timerVars>>
     ELSE IF TriggersUnregistered(context, real)
     THEN Panics
     ELSE /\ Drop(w, reported)
          /\ epoll' = [epoll EXCEPT ![fd] = AfterCtl(fd, left)]
          /\ scheduler(TriggerWaiter(context, FirstOf(real)))
          /\ m_fdContexts' = [m_fdContexts EXCEPT ![fd] = triggerEvent(context, FirstOf(real))]
          /\ m_pendingEventCount' = m_pendingEventCount - 1
          /\ UNCHANGED <<countVars, m_isStopped, fibers, owner, panic, sockets, shared, timerVars>>

YieldIdle(w) ==
  /\ At(w, "events") /\ workers[w].cbs = {} /\ workers[w].events = {}
  /\ MoveTo(w, "leave")
  /\ UNCHANGED <<queueVars, countVars, m_isStopped, fibers, owner, panic, ioVars, timerVars>>

====
