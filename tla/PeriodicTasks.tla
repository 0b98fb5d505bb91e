--------------------------- MODULE PeriodicTasks ---------------------------
(***************************************************************************)
(* PeriodicTask and PeriodicTaskList (periodic_task.h, periodic_task.cpp): *)
(* externs make tasks that register themselves, and one thread runs the    *)
(* functions of the tasks when they are due.  queue_mutex is free between  *)
(* the steps, except while a task's function runs: the loop holds it then. *)
(* The queue is ordered by next, which never changes while a task is in    *)
(* it.  Functions do not make or destroy tasks (the mutex is not           *)
(* recursive).                                                             *)
(***************************************************************************)
EXTENDS Integers, FiniteSets

CONSTANTS
  Tasks,          \* PeriodicTask objects
  Interval,       \* each task's interval, in ticks
  TaskMaxTime,    \* bound on the clock
  TaskMaxStarts   \* bound on the calls of start

ASSUME TaskAssumption == Interval \in [Tasks -> Nat] /\ TaskMaxTime \in Nat

VARIABLES
  taskNow,        \* the system's clock, which may be set back
  taskLife,       \* each task: "none", "made", "alive", "dying" or "gone"
  taskNext,       \* next of each task
  taskQueue,      \* task_queue
  taskRunning,    \* running
  taskLoop,       \* the thread: "none", "test", "wait", "until", "execute", "done"
  taskTop,        \* the task whose next the loop waits for, or whose fn it runs
  taskWoken,      \* cv was notified since the loop began to wait
  taskJoining,    \* a thread is in join
  taskStarts,
  taskShifted,    \* the task the loop waited for went away (history)
  taskEarly       \* fn was run before next (history)

taskVars == <<taskNow, taskLife, taskNext, taskQueue, taskRunning, taskLoop, taskTop,
              taskWoken, taskJoining, taskStarts, taskShifted, taskEarly>>

NoTask == "no task"

TaskInit ==
  /\ taskNow = 0 /\ taskQueue = {} /\ taskRunning = FALSE
  /\ taskLife = [t \in Tasks |-> "none"] /\ taskNext = [t \in Tasks |-> 0]
  /\ taskLoop = "none" /\ taskTop = NoTask /\ taskWoken = FALSE
  /\ taskJoining = FALSE /\ taskStarts = 0
  /\ taskShifted = FALSE /\ taskEarly = FALSE

QueueFree == taskLoop # "execute"

-----------------------------------------------------------------------------
\* The constructor: next is set before register_task has the mutex.
MakeTask(t) ==
  /\ taskLife[t] = "none"
  /\ taskLife' = [taskLife EXCEPT ![t] = "made"]
  /\ taskNext' = [taskNext EXCEPT ![t] = taskNow + Interval[t]]
  /\ UNCHANGED <<taskNow, taskQueue, taskRunning, taskLoop, taskTop, taskWoken,
                 taskJoining, taskStarts, taskShifted, taskEarly>>

\* A mutation of RegisterTask: nobody is notified.
RegisterTaskQuietly(t) ==
  /\ QueueFree /\ taskLife[t] = "made"
  /\ taskLife' = [taskLife EXCEPT ![t] = "alive"]
  /\ taskQueue' = taskQueue \cup {t}
  /\ UNCHANGED <<taskNow, taskNext, taskRunning, taskLoop, taskTop, taskWoken,
                 taskJoining, taskStarts, taskShifted, taskEarly>>

RegisterTask(t) ==
  /\ QueueFree /\ taskLife[t] = "made"
  /\ taskLife' = [taskLife EXCEPT ![t] = "alive"]
  /\ taskQueue' = taskQueue \cup {t}
  /\ taskWoken' = TRUE
  /\ UNCHANGED <<taskNow, taskNext, taskRunning, taskLoop, taskTop,
                 taskJoining, taskStarts, taskShifted, taskEarly>>

\* The destructor calls cancel, which waits for the mutex.
DestroyTask(t) ==
  /\ taskLife[t] = "alive"
  /\ taskLife' = [taskLife EXCEPT ![t] = "dying"]
  /\ UNCHANGED <<taskNow, taskNext, taskQueue, taskRunning, taskLoop, taskTop, taskWoken,
                 taskJoining, taskStarts, taskShifted, taskEarly>>

UnregisterTask(t) ==
  /\ QueueFree /\ taskLife[t] = "dying"
  /\ taskLife' = [taskLife EXCEPT ![t] = "gone"]
  /\ taskQueue' = taskQueue \ {t}
  /\ taskWoken' = TRUE
  /\ taskShifted' = (taskShifted \/ (taskLoop = "until" /\ taskTop = t))
  /\ UNCHANGED <<taskNow, taskNext, taskRunning, taskLoop, taskTop, taskJoining,
                 taskStarts, taskEarly>>

StartTasks ==
  /\ QueueFree /\ ~taskRunning /\ ~taskJoining
  /\ taskStarts < TaskMaxStarts /\ taskStarts' = taskStarts + 1
  /\ taskRunning' = TRUE /\ taskLoop' = "test"
  /\ UNCHANGED <<taskNow, taskLife, taskNext, taskQueue, taskTop, taskWoken, taskJoining,
                 taskShifted, taskEarly>>

JoinTasks ==
  /\ QueueFree /\ taskRunning
  /\ taskRunning' = FALSE /\ taskJoining' = TRUE /\ taskWoken' = TRUE
  /\ UNCHANGED <<taskNow, taskLife, taskNext, taskQueue, taskLoop, taskTop, taskStarts,
                 taskShifted, taskEarly>>

TasksJoined ==
  /\ taskJoining /\ taskLoop = "done"
  /\ taskJoining' = FALSE /\ taskLoop' = "none"
  /\ UNCHANGED <<taskNow, taskLife, taskNext, taskQueue, taskRunning, taskTop, taskWoken,
                 taskStarts, taskShifted, taskEarly>>

-----------------------------------------------------------------------------
(* The loop *)

\* task_queue.top(): PeriodCompare does not order tasks that are due together.
IsTop(t) == t \in taskQueue /\ \A u \in taskQueue : taskNext[t] <= taskNext[u]

LoopTest ==
  /\ taskLoop = "test"
  /\ \/ ~taskRunning /\ taskLoop' = "done" /\ UNCHANGED taskTop
     \/ taskRunning /\ taskQueue = {} /\ taskLoop' = "wait" /\ UNCHANGED taskTop
     \/ taskRunning /\ taskLoop' = "until" /\ \E t \in Tasks : IsTop(t) /\ taskTop' = t
  /\ taskWoken' = FALSE
  /\ UNCHANGED <<taskNow, taskLife, taskNext, taskQueue, taskRunning, taskJoining,
                 taskStarts, taskShifted, taskEarly>>

\* cv.wait returns, notified or not.
LoopWoken ==
  /\ taskLoop = "wait" /\ taskLoop' = "test"
  /\ UNCHANGED <<taskNow, taskLife, taskNext, taskQueue, taskRunning, taskTop, taskWoken,
                 taskJoining, taskStarts, taskShifted, taskEarly>>

\* cv.wait_until compares the clock with next once it is awake: of a task that
\* is gone it reads anything.
TimedOut == taskLife[taskTop] # "gone" => taskNow >= taskNext[taskTop]
NotTimedOut == taskLife[taskTop] # "gone" => taskNow < taskNext[taskTop]

LoopAgain ==
  /\ taskLoop = "until"
  /\ NotTimedOut \/ taskQueue = {}
  /\ taskLoop' = "test"
  /\ UNCHANGED <<taskNow, taskLife, taskNext, taskQueue, taskRunning, taskTop, taskWoken,
                 taskJoining, taskStarts, taskShifted, taskEarly>>

\* After a timeout the loop runs the task that is now at the top.
LoopTake ==
  /\ taskLoop = "until" /\ TimedOut
  /\ \E t \in Tasks :
       /\ IsTop(t)
       /\ taskTop' = t /\ taskQueue' = taskQueue \ {t}
       /\ taskEarly' = (taskEarly \/ taskNow < taskNext[t])
  /\ taskLoop' = "execute"
  /\ UNCHANGED <<taskNow, taskLife, taskNext, taskRunning, taskWoken, taskJoining,
                 taskStarts, taskShifted>>

\* fn has returned: reset_next, and the task is queued again.
LoopExecuted ==
  /\ taskLoop = "execute"
  /\ taskNext' = [taskNext EXCEPT ![taskTop] = taskNow + Interval[taskTop]]
  /\ taskQueue' = taskQueue \cup {taskTop}
  /\ taskLoop' = "test"
  /\ UNCHANGED <<taskNow, taskLife, taskRunning, taskTop, taskWoken, taskJoining,
                 taskStarts, taskShifted, taskEarly>>

TaskClock ==
  /\ taskNow' \in 0..TaskMaxTime \cap {taskNow - 1, taskNow + 1}
  /\ UNCHANGED <<taskLife, taskNext, taskQueue, taskRunning, taskLoop, taskTop, taskWoken,
                 taskJoining, taskStarts, taskShifted, taskEarly>>

TaskNext ==
  \/ \E t \in Tasks : MakeTask(t) \/ RegisterTask(t) \/ DestroyTask(t) \/ UnregisterTask(t)
  \/ StartTasks \/ JoinTasks \/ TasksJoined
  \/ LoopTest \/ LoopWoken \/ LoopAgain \/ LoopTake \/ LoopExecuted
  \/ TaskClock

TaskSpec == TaskInit /\ [][TaskNext]_taskVars

-----------------------------------------------------------------------------
TaskTypeOK ==
  /\ taskQueue \subseteq Tasks /\ taskTop \in Tasks \cup {NoTask}
  /\ taskNow \in 0..TaskMaxTime /\ taskNext \in [Tasks -> Nat]
  /\ taskLoop \in {"none", "test", "wait", "until", "execute", "done"}

\* "Task will execute during the lifetime of the object" (periodic_task.h): fn
\* runs for a task whose destructor has not returned, every task that is alive is
\* queued or being run, and none is run before its time unless the one the loop
\* was waiting for has gone away meanwhile.
RunDuringLifetime ==
  LET run == IF taskLoop = "execute" THEN {taskTop} ELSE {}
  IN /\ taskQueue \cap run = {}
     /\ taskQueue \cup run = {t \in Tasks : taskLife[t] \in {"alive", "dying"}}
     /\ taskEarly => taskShifted

\* The loop does not sleep through a call: when it waits for ever, or for a task
\* that is not the first one any more, it has been notified, and likewise when
\* somebody is waiting in join.
LoopNeverOversleeps ==
  ~taskWoken =>
    /\ taskLoop = "wait" => taskQueue = {} /\ taskRunning
    /\ taskLoop = "until" => IsTop(taskTop) /\ taskRunning
\* Periodic functions run while their task lives, when they are due, and nobody
\* waits in vain for the loop (periodic_task.cpp).
TasksSound == TaskTypeOK /\ RunDuringLifetime /\ LoopNeverOversleeps

\* The inductive invariant behind TasksSound: the task that the loop waits for is
\* still queued, or its removal was noted.
TaskInv ==
  /\ TasksSound
  /\ taskLife \in [Tasks -> {"none", "made", "alive", "dying", "gone"}]
  /\ taskShifted \in BOOLEAN /\ taskEarly \in BOOLEAN
  /\ taskLoop \in {"until", "execute"} => taskTop \in Tasks
  /\ taskLoop = "until" => taskTop \in taskQueue \/ taskShifted
=============================================================================
