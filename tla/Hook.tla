---- MODULE Hook ----
(***************************************************************************)
(* src/src/fiber/hook.cpp, fd_manager.cpp: the system calls of fibers.  On *)
(* a worker a call that would block makes its fiber wait for an event of   *)
(* the IOManager, or for a timer, and yield.  A fiber makes up to MaxCalls  *)
(* calls, any of Calls.  All descriptors are sockets of workers, which *)
(* the user left blocking: other calls go straight to the kernel.          *)
(***************************************************************************)
EXTENDS IOManager

CONSTANTS
  Calls(_), \* what the n-th call of a fiber may be, [op, fd, event, timed];
            \* op: io (do_io), connect, sleep, close, socket
  MaxCalls  \* bound: calls of a fiber

ASSUME HookAssumption ==
  /\ MaxCalls \in Nat
  /\ \A n \in 1 .. MaxCalls :
       Calls(n) \subseteq [op : {"io", "connect", "sleep", "close", "socket"}, fd : Fd,
                          event : Event, timed : BOOLEAN]

vars == <<schedulerVars, ioVars, timerVars>>

Init == IOManagerInit

-----------------------------------------------------------------------------

Runs(w, f) == At(w, "run") /\ workers[w].task.fiber = f
CallOf(f) == CHOOSE c \in fibers[f].call : TRUE

\* tinfo lives as long as the call; the condition of its timer is that it still does.
TimeLimit(f) == Task("timeout", f, fibers[f].calls)
LimitStands_Mutant(task) ==
  /\ fibers[task.fiber].calls = task.call /\ fibers[task.fiber].call # {}
  /\ fibers[task.fiber].cancelled
LimitStands(task) ==
  /\ fibers[task.fiber].calls = task.call /\ fibers[task.fiber].call # {}
  /\ ~fibers[task.fiber].cancelled

GoOn(f, at) == fibers' = [fibers EXCEPT ![f].at = at]
Return(f) == fibers' = [fibers EXCEPT ![f].at = "returned", ![f].call = {}, ![f].cancelled = FALSE]

FirstStep(c) == IF c.op \in {"io", "connect"} THEN "try" ELSE c.op

Invoke(w, f) == \E c \in Calls(fibers[f].calls + 1) :
  /\ Runs(w, f) /\ fibers[f].at \in {"start", "returned"} /\ fibers[f].calls < MaxCalls
  /\ fibers' = [fibers EXCEPT ![f].at = FirstStep(c), ![f].call = {c}, ![f].calls = @ + 1]
  /\ UNCHANGED <<queueVars, countVars, m_isStopped, workers, owner, panic, ioVars, timerVars>>

End(w, f) ==
  /\ Runs(w, f) /\ fibers[f].at \in {"start", "returned"}
  /\ EndFiber(w, f)
  /\ UNCHANGED <<queueVars, countVars, m_isStopped, owner, panic, ioVars, timerVars>>

\* The call itself: what is not ready is to be waited for, at most as long as the socket's limit.
WouldBlock(c) == sockets[c.fd].open /\ c.event \notin sockets[c.fd].ready /\ ~sockets[c.fd].hup

Try(w, f) == LET c == CallOf(f) IN
  /\ Runs(w, f) /\ fibers[f].at = "try"
  /\ IF WouldBlock(c)
     THEN /\ GoOn(f, "add")
          /\ IF c.timed THEN addTimer(TimeLimit(f)) ELSE UNCHANGED <<timers, m_tickleFds>>
          /\ UNCHANGED sockets
     ELSE /\ Return(f)
          /\ sockets' = [sockets EXCEPT ![c.fd].ready = @ \ {c.event}]
          /\ UNCHANGED <<timers, m_tickleFds>>
  /\ UNCHANGED <<m_tasks, countVars, m_isStopped, workers, owner, panic,
                 m_fdContexts, m_pendingEventCount, epoll, shared, due>>

SomeoneWaits(fd) == \E e \in Event : m_fdContexts[fd].waiter[e] # NoFiber

AddEvent(w, f) == LET c == CallOf(f) IN
  /\ Runs(w, f) /\ fibers[f].at = "add"
  /\ shared' = (shared \/ SomeoneWaits(c.fd))
  /\ IF AddPanics(c.fd, c.event)
     THEN Panic /\ UNCHANGED <<m_fdContexts, m_pendingEventCount, epoll, sockets, timerVars>>
     ELSE /\ IF CtlAccepts(AddOp(c.fd), c.fd)
             THEN addEvent(c.fd, c.event, f) /\ GoOn(f, "yield") /\ UNCHANGED timerVars
             ELSE /\ cancelTimer(TimeLimit(f)) /\ Return(f)
                  /\ UNCHANGED <<m_fdContexts, m_pendingEventCount, epoll>>
          /\ UNCHANGED <<queueVars, countVars, m_isStopped, workers, owner, panic, sockets>>

YieldInCall(w, f) ==
  /\ Runs(w, f) /\ fibers[f].at = "yield"
  /\ Yield(w, f, "woken")
  /\ UNCHANGED <<queueVars, countVars, m_isStopped, owner, panic, ioVars, timerVars>>

\* Resumed: no time limit any more.  Out of time, and after connect, the call is over; else retry.
Woken(w, f) ==
  /\ Runs(w, f) /\ fibers[f].at = "woken"
  /\ cancelTimer(TimeLimit(f))
  /\ IF fibers[f].cancelled \/ CallOf(f).op # "io" THEN Return(f) ELSE GoOn(f, "try")
  /\ UNCHANGED <<queueVars, countVars, m_isStopped, workers, owner, panic, ioVars>>

\* sleep, usleep, nanosleep
Sleep(w, f) ==
  /\ Runs(w, f) /\ fibers[f].at = "sleep"
  /\ addTimer(Task("wake", f, fibers[f].calls))
  /\ GoOn(f, "yield")
  /\ UNCHANGED <<m_tasks, countVars, m_isStopped, workers, owner, panic, ioVars, due>>

\* close: who waits is resumed, then the FdCtx and the descriptor go.
Close(w, f) == LET fd == CallOf(f).fd IN
  /\ Runs(w, f) /\ fibers[f].at = "close"
  /\ IF sockets[fd].open /\ CanCancelAll(fd)
     THEN cancelAll(fd)
     ELSE UNCHANGED <<queueVars, m_fdContexts, m_pendingEventCount>>
  /\ epoll' = [epoll EXCEPT ![fd] = NotInEpoll]
  /\ sockets' = [sockets EXCEPT ![fd] = [open |-> FALSE, ready |-> {}, hup |-> FALSE]]
  /\ Return(f)
  /\ UNCHANGED <<countVars, m_isStopped, workers, owner, panic, shared, timerVars>>

\* socket, accept: a new socket under a descriptor that is free.
Socket(w, f) == LET fd == CallOf(f).fd IN
  /\ Runs(w, f) /\ fibers[f].at = "socket"
  /\ sockets' = IF sockets[fd].open THEN sockets ELSE [sockets EXCEPT ![fd] = NewSocket]
  /\ Return(f)
  /\ UNCHANGED <<queueVars, countVars, m_isStopped, workers, owner, panic,
                 m_fdContexts, m_pendingEventCount, epoll, shared, timerVars>>

-----------------------------------------------------------------------------
(* Callbacks of timers                                                     *)

\* Scheduler::scheduler, bound to the sleeping fiber.
RunWake(w) ==
  /\ At(w, "begin") /\ workers[w].task.kind = "wake"
  /\ scheduler(FiberTask(workers[w].task.fiber))
  /\ MoveTo(w, "finish")
  /\ UNCHANGED <<countVars, m_isStopped, fibers, owner, panic, ioVars, timerVars>>

\* The flag and cancelEvent are one step: a fiber that ran in between would be out of time as well.
RunTimeout(w) == LET task == workers[w].task  c == CallOf(task.fiber) IN
  /\ At(w, "begin") /\ task.kind = "timeout"
  /\ IF LimitStands(task)
     THEN fibers' = [fibers EXCEPT ![task.fiber].cancelled = TRUE]
     ELSE UNCHANGED fibers
  /\ IF LimitStands(task) /\ CanCancel(c.fd, c.event)
     THEN cancelEvent(c.fd, c.event)
     ELSE UNCHANGED <<queueVars, m_fdContexts, m_pendingEventCount, epoll>>
  /\ MoveTo(w, "finish")
  /\ UNCHANGED <<countVars, m_isStopped, owner, panic, sockets, shared, timerVars>>

-----------------------------------------------------------------------------
(* The kernel and the clock                                                *)

Ended == panic \/ owner.at = "joined"

BecomeReady(fd, e) ==
  /\ ~Ended /\ sockets[fd].open /\ e \notin sockets[fd].ready
  /\ sockets' = [sockets EXCEPT ![fd].ready = @ \union {e}]
  /\ epoll' = [epoll EXCEPT ![fd].signalled = @ \/ e \in epoll[fd].mask]
  /\ UNCHANGED <<schedulerVars, m_fdContexts, m_pendingEventCount, shared, timerVars>>

HangUp(fd) ==
  /\ ~Ended /\ sockets[fd].open /\ ~sockets[fd].hup
  /\ sockets' = [sockets EXCEPT ![fd].hup = TRUE]
  /\ epoll' = [epoll EXCEPT ![fd].signalled = @ \/ epoll[fd].in]
  /\ UNCHANGED <<schedulerVars, m_fdContexts, m_pendingEventCount, shared, timerVars>>

TimePasses == \E task \in timers \ due :
  /\ ~Ended
  /\ due' = due \union {task}
  /\ UNCHANGED <<schedulerVars, ioVars, timers>>

-----------------------------------------------------------------------------

Scheduling(w) ==
  \/ TakeTask(w) \/ TickleOthers(w) \/ Resume(w) \/ FinishTask(w)
  \/ FindNothing(w) \/ BeIdle(w) \/ LeaveIdle(w)

Idling(w) ==
  \/ CheckTimers(w) \/ CheckPending(w) \/ CheckScheduler(w)
  \/ EpollWait(w) \/ listExpiredCb(w) \/ ScheduleExpired(w) \/ HandleEvent(w) \/ YieldIdle(w)

Running(w) ==
  \/ RunWake(w) \/ RunTimeout(w)
  \/ \E f \in Fiber :
       \/ Invoke(w, f) \/ End(w, f) \/ Try(w, f) \/ AddEvent(w, f) \/ YieldInCall(w, f)
       \/ Woken(w, f) \/ Sleep(w, f) \/ Close(w, f) \/ Socket(w, f)

WorkerStep(w) == (Scheduling(w) /\ UNCHANGED <<ioVars, timerVars>>) \/ Idling(w) \/ Running(w)

OwnerStep == TickleScheduled \/ TickleAll \/ Join

\* What nothing makes happen: the owner may schedule no more, and never stop.
OwnerDecides == Stop \/ \E f \in Fiber : Schedule(f)

Kernel == \E fd \in Fd : HangUp(fd) \/ \E e \in Event : BecomeReady(fd, e)

Next ==
  \/ \E w \in Worker : WorkerStep(w)
  \/ OwnerStep /\ UNCHANGED <<ioVars, timerVars>>
  \/ OwnerDecides /\ UNCHANGED <<ioVars, timerVars>>
  \/ Kernel
  \/ TimePasses
  \/ Ended /\ UNCHANGED vars

\* The threads run, and time passes.
Spec ==
  /\ Init /\ [][Next]_vars
  /\ \A w \in Worker : WF_vars(WorkerStep(w))
  /\ WF_vars(OwnerStep /\ UNCHANGED <<ioVars, timerVars>>)
  /\ WF_vars(TimePasses)

-----------------------------------------------------------------------------
(* Properties                                                              *)

Tasks == [kind : {"fiber", "wake", "timeout", "none"}, fiber : Fiber, call : 0 .. MaxCalls]

\* The values of the variables; the counters count the workers where they should.
TypeOK ==
  /\ m_tasks \in Seq(Tasks) /\ m_isStopped \in BOOLEAN /\ m_tickleFds \in BOOLEAN
  /\ m_activeThreadCount =
       Cardinality({w \in Worker : workers[w].at \in {"tickle", "begin", "run", "finish"}})
  /\ m_idleThreadCount =
       Cardinality({w \in Worker : workers[w].at \in
         {"timers", "pending", "stopping", "wait", "expire", "events", "leave"}})
  /\ \A w \in Worker : workers[w].cbs \subseteq Tasks
  /\ \A f \in Fiber :
       /\ fibers[f].state \in {"READY", "RUNNING", "TERM"} /\ fibers[f].calls \in 0 .. MaxCalls
       /\ fibers[f].call \subseteq UNION {Calls(n) : n \in 1 .. MaxCalls}
  /\ \A fd \in Fd :
       /\ m_fdContexts[fd].events \subseteq Event
       /\ m_fdContexts[fd].waiter \in [Event -> Fiber \union {NoFiber}]
       /\ epoll[fd].mask \subseteq Event /\ sockets[fd].ready \subseteq Event
  /\ m_pendingEventCount \in Nat
  /\ due \subseteq timers /\ timers \subseteq Tasks

Waiters == {p \in Fd \X Event : m_fdContexts[p[1]].waiter[p[2]] # NoFiber}
IsRegistered(p) == p[2] \in m_fdContexts[p[1]].events

\* triggerEvent erased the registration of f together with another's, and nothing looks at f again.
Forgotten(f) == \E p \in Waiters : m_fdContexts[p[1]].waiter[p[2]] = f /\ ~IsRegistered(p)

\* What can resume f, or runs it until it has arranged for who will.
WillRun(f) ==
  Cardinality({n \in DOMAIN m_tasks : m_tasks[n].fiber = f /\ m_tasks[n].kind # "timeout"})
    + Cardinality({p \in Waiters : m_fdContexts[p[1]].waiter[p[2]] = f /\ IsRegistered(p)})
    + Cardinality({task \in timers : task.fiber = f /\ task.kind = "wake"})
    + Cardinality({w \in Worker : \E task \in workers[w].cbs : task.fiber = f /\ task.kind = "wake"})
    + Cardinality({w \in Worker :
        /\ workers[w].task.fiber = f
        /\ \/ workers[w].task.kind = "wake" /\ workers[w].at \in {"tickle", "begin"}
           \/ workers[w].task.kind = "fiber" /\ workers[w].at \in {"tickle", "begin", "run"}
              /\ ~(workers[w].at = "run" /\ fibers[f].at = "yield")})

\* Exactly one thing can resume a fiber that has not ended, never two (it would be resumed while it
\* runs, or after its end) and not none, except for the waiters that triggerEvent forgot: those nobody
\* resumes.  A sleep, a time limit, an event and a close that come together still leave one.  By
\* OnlySharingBreaks no waiter is forgotten unless two fibers wait on a descriptor.
ResumedOnce ==
  \A f \in owner.scheduled :
    WillRun(f) = (IF fibers[f].state = "TERM" \/ Forgotten(f) THEN 0 ELSE 1)

\* The counter that stop() waits for counts the fibers that wait for an event, those included whose
\* registration triggerEvent forgot.
PendingCountsWaiters == m_pendingEventCount = Cardinality(Waiters)

\* When stop() has joined the threads, every fiber came to its end: no task, timer or waiter is left.
JoinedMeansDone ==
  owner.at = "joined" =>
    /\ m_tasks = <<>> /\ timers = {} /\ Waiters = {}
    /\ \A f \in Fiber : fibers[f].state = "TERM"

\* No CondPanic fails and no registration is forgotten, as long as no fiber waits on a descriptor
\* another one waits on.
OnlySharingBreaks ==
  panic \/ (\E p \in Waiters : ~IsRegistered(p)) => shared

\* Whether f is in a call that has a time limit, or in one that is none of I/O.
InTimedCall(f) == \E c \in fibers[f].call : c.timed \/ c.op \notin {"io", "connect"}

\* stop() returns, unless a fiber waits without a time limit.
StopReturns ==
  (owner.at = "stop") ~>
    (\/ owner.at = "joined" \/ shared
     \/ \E f \in Fiber : \E c \in fibers[f].call : ~InTimedCall(f))

====
