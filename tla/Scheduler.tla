---- MODULE Scheduler ----
(***************************************************************************)
(* src/src/fiber/scheduler.cpp, fiber.cpp: worker threads take tasks, which *)
(* are fibers or callbacks, from one queue and run their idle fiber when it *)
(* is empty.  An owner, which is not a worker (use_caller is FALSE, as in   *)
(* config.h), schedules the fibers and may stop the scheduler.  tickle is   *)
(* the one that IOManager overrides.                                        *)
(* No caller gives a task a thread, so m_thread is left out.  A worker's    *)
(* own scheduler() and the tickle in it are one step; the owner's are two.  *)
(***************************************************************************)
EXTENDS Integers, Sequences, FiniteSets

CONSTANTS Worker, Fiber

ASSUME WorkerAssumption == IsFiniteSet(Worker)

VARIABLES
  m_tasks,              \* the queue
  m_activeThreadCount,
  m_idleThreadCount,
  m_isStopped,
  m_tickleFds,          \* the pipe holds a byte
  workers,              \* workers[w]: where w is in run() or idle(), its task, what it has to handle
  fibers,               \* fibers[f]: its state, and where it is in which system call
  owner,                \* where the owner is
  panic                 \* a CondPanic failed: the program is gone

queueVars == <<m_tasks, m_tickleFds>>
countVars == <<m_activeThreadCount, m_idleThreadCount>>
schedulerVars == <<queueVars, countVars, m_isStopped, workers, fibers, owner, panic>>

\* A task resumes a fiber, is the callback of a sleep ("wake") or of a time limit ("timeout").
Task(kind, f, call) == [kind |-> kind, fiber |-> f, call |-> call]
FiberTask(f) == Task("fiber", f, 0)
NoTask == Task("none", CHOOSE f \in Fiber : TRUE, 0)

NewWorker == [at |-> "take", task |-> NoTask, cbs |-> {}, events |-> {}, idleTerm |-> FALSE]
NewFiber == [state |-> "READY", at |-> "start", call |-> {}, calls |-> 0, cancelled |-> FALSE]

SchedulerInit ==
  /\ m_tasks = <<>> /\ m_tickleFds = FALSE
  /\ m_activeThreadCount = 0 /\ m_idleThreadCount = 0
  /\ m_isStopped = FALSE
  /\ workers = [w \in Worker |-> NewWorker]
  /\ fibers = [f \in Fiber |-> NewFiber]
  /\ owner = [at |-> "ready", scheduled |-> {}]
  /\ panic = FALSE

At(w, at) == ~panic /\ workers[w].at = at
OwnerAt(at) == ~panic /\ owner.at = at
MoveTo(w, at) == workers' = [workers EXCEPT ![w].at = at]

\* CondPanic: nothing that comes after it matters.
Panic == panic' = TRUE /\ UNCHANGED <<queueVars, countVars, m_isStopped, workers, fibers, owner>>

-----------------------------------------------------------------------------

isHasIdleThreads == m_idleThreadCount > 0

tickle == m_tickleFds' = (m_tickleFds \/ isHasIdleThreads)

scheduler(task) ==
  /\ m_tasks' = Append(m_tasks, task)
  /\ IF m_tasks = <<>> THEN tickle ELSE UNCHANGED m_tickleFds

\* Scheduler::stopping
SchedulerStopping == m_isStopped /\ m_tasks = <<>> /\ m_activeThreadCount = 0

-----------------------------------------------------------------------------
(* run()                                                                   *)

\* A fiber that runs may already be in the queue: another thread put it there.
IsTakable(task) == task.kind = "fiber" => fibers[task.fiber].state = "READY"

TakeTask(w) ==
  /\ At(w, "take") /\ m_tasks # <<>>
  /\ IF ~IsTakable(Head(m_tasks))
     THEN Panic
     ELSE /\ m_tasks' = Tail(m_tasks)
          /\ m_activeThreadCount' = m_activeThreadCount + 1
          /\ workers' = [workers EXCEPT ![w].task = Head(m_tasks),
               ![w].at = IF Tail(m_tasks) # <<>> THEN "tickle" ELSE "begin"]
          /\ UNCHANGED <<m_idleThreadCount, m_isStopped, m_tickleFds, fibers, owner, panic>>

TickleOthers(w) ==
  /\ At(w, "tickle")
  /\ tickle
  /\ MoveTo(w, "begin")
  /\ UNCHANGED <<m_tasks, countVars, m_isStopped, fibers, owner, panic>>

\* Fiber::resume
Resume(w) ==
  /\ At(w, "begin") /\ workers[w].task.kind = "fiber"
  /\ LET f == workers[w].task.fiber IN
     IF fibers[f].state # "READY"
     THEN Panic
     ELSE /\ fibers' = [fibers EXCEPT ![f].state = "RUNNING"]
          /\ MoveTo(w, "run")
          /\ UNCHANGED <<queueVars, countVars, m_isStopped, owner, panic>>

\* The task yielded or ended.
FinishTask(w) ==
  /\ At(w, "finish")
  /\ m_activeThreadCount' = m_activeThreadCount - 1
  /\ workers' = [workers EXCEPT ![w].task = NoTask, ![w].at = "take"]
  /\ UNCHANGED <<queueVars, m_idleThreadCount, m_isStopped, fibers, owner, panic>>

\* Nothing to take, as far as the lock tells; a task may come before the thread counts as idle.
FindNothing(w) ==
  /\ At(w, "take") /\ m_tasks = <<>>
  /\ MoveTo(w, IF workers[w].idleTerm THEN "exited" ELSE "empty")
  /\ UNCHANGED <<queueVars, countVars, m_isStopped, fibers, owner, panic>>

\* Then the idle fiber is resumed.
BeIdle(w) ==
  /\ At(w, "empty")
  /\ m_idleThreadCount' = m_idleThreadCount + 1
  /\ MoveTo(w, "timers")
  /\ UNCHANGED <<queueVars, m_activeThreadCount, m_isStopped, fibers, owner, panic>>

LeaveIdle_Mutant(w) ==
  /\ At(w, "leave")
  /\ MoveTo(w, "take")
  /\ UNCHANGED <<queueVars, countVars, m_isStopped, fibers, owner, panic>>
LeaveIdle(w) ==
  /\ At(w, "leave")
  /\ m_idleThreadCount' = m_idleThreadCount - 1
  /\ MoveTo(w, "take")
  /\ UNCHANGED <<queueVars, m_activeThreadCount, m_isStopped, fibers, owner, panic>>

-----------------------------------------------------------------------------
(* Fiber::yield, and the end of Fiber::MainFunc.                           *)

Yield(w, f, at) ==
  /\ fibers' = [fibers EXCEPT ![f].state = "READY", ![f].at = at]
  /\ MoveTo(w, "finish")

EndFiber(w, f) ==
  /\ fibers' = [fibers EXCEPT ![f].state = "TERM", ![f].at = "end"]
  /\ MoveTo(w, "finish")

-----------------------------------------------------------------------------
(* The owner                                                               *)

\* scheduler(): the queue under its lock, the tickle after it.
Schedule(f) ==
  /\ OwnerAt("ready") /\ f \notin owner.scheduled
  /\ m_tasks' = Append(m_tasks, FiberTask(f))
  /\ owner' = [at |-> IF m_tasks = <<>> THEN "tickle" ELSE "ready",
               scheduled |-> owner.scheduled \union {f}]
  /\ UNCHANGED <<m_tickleFds, countVars, m_isStopped, workers, fibers, panic>>

TickleScheduled ==
  /\ OwnerAt("tickle")
  /\ tickle
  /\ owner' = [owner EXCEPT !.at = "ready"]
  /\ UNCHANGED <<m_tasks, countVars, m_isStopped, workers, fibers, panic>>

\* stop(): the flag, a tickle for every thread, a join.
Stop ==
  /\ OwnerAt("ready") /\ owner.scheduled = Fiber
  /\ m_isStopped' = TRUE
  /\ owner' = [owner EXCEPT !.at = "stop"]
  /\ UNCHANGED <<queueVars, countVars, workers, fibers, panic>>

TickleAll ==
  /\ OwnerAt("stop")
  /\ tickle
  /\ owner' = [owner EXCEPT !.at = "join"]
  /\ UNCHANGED <<m_tasks, countVars, m_isStopped, workers, fibers, panic>>

Join ==
  /\ OwnerAt("join") /\ \A w \in Worker : At(w, "exited")
  /\ owner' = [owner EXCEPT !.at = "joined"]
  /\ UNCHANGED <<queueVars, countVars, m_isStopped, workers, fibers, panic>>

====
