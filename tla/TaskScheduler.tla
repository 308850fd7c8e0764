---------------------------- MODULE TaskScheduler ----------------------------
(***************************************************************************)
(* The class cil::TaskScheduler (src/CIL/task_scheduler.{h,cpp}): a FIFO    *)
(* queue of callables drained by one worker thread.  The module holds the  *)
(* object's state, one operator per public method and one per step of the  *)
(* worker; the modules that own a scheduler (TaskSchedulerClient, the      *)
(* stages) build their processes from these operators.                     *)
(*                                                                         *)
(* The worker reads tasks_canceled_ and pops the queue under queue_mutex_, *)
(* so the pair is one step; CancelTasks sets the flag without the mutex    *)
(* and can fall between that step and the call of the popped task, hence   *)
(* the state "taken" between the two.                                      *)
(***************************************************************************)
EXTENDS Naturals, Sequences

CONSTANTS
  Task,     (* the callables that may be scheduled *)
  NoTask    (* current when the worker holds no task *)

ASSUME TaskAssumption == NoTask \notin Task

VARIABLES
  queue,      (* tasks_: the callables not yet popped                        *)
  completed,  (* tasks_completed_                                            *)
  canceled,   (* tasks_canceled_                                             *)
  worker,     (* where task_thread_ is in ExecuteTasks                       *)
  current,    (* the popped task                                             *)
  started,    (* history: the tasks called so far, in the order of the calls *)
  allowed     (* history: how many calls the last CancelTasks cannot prevent *)

schedulerVars == <<queue, completed, canceled, worker, current, started, allowed>>

(* "none": no thread yet; "loop": at the head of the while loop; "taken": a *)
(* task is popped but not called; "running": inside task.second();          *)
(* "exited": ExecuteTasks has returned.                                     *)
WorkerState == {"none", "loop", "taken", "running", "exited"}

WorkerActive == worker \in {"loop", "taken", "running"}

SchedulerTypeOK ==
  /\ queue \in Seq(Task)
  /\ completed \in BOOLEAN
  /\ canceled \in BOOLEAN
  /\ worker \in WorkerState
  /\ current \in Task \cup {NoTask}
  /\ current = NoTask <=> worker \notin {"taken", "running"}
  /\ started \in Seq(Task)
  /\ allowed \in Nat

(* A scheduler just constructed and then given the tasks of q, none of them *)
(* executing yet.                                                           *)
SchedulerHolds(q) ==
  /\ queue = q
  /\ completed = (q = <<>>)
  /\ canceled = FALSE
  /\ worker = "none"
  /\ current = NoTask
  /\ started = <<>>
  /\ allowed = 0

(* The destructor, which joins, followed by the construction of the next    *)
(* scheduler and its ScheduleTask calls.                                    *)
NewScheduler(q) ==
  /\ ~WorkerActive
  /\ queue' = q
  /\ completed' = (q = <<>>)
  /\ canceled' = FALSE
  /\ worker' = "none"
  /\ current' = NoTask
  /\ started' = <<>>
  /\ allowed' = 0

-----------------------------------------------------------------------------
(* Methods *)

(* Mutant: the completion flag is left set by the previous run. *)
ScheduleTask_NoReset(t) ==
  /\ queue' = Append(queue, t)
  /\ canceled' = FALSE
  /\ UNCHANGED <<completed, worker, current, started, allowed>>

(* ScheduleTask: push; the task makes the scheduler incomplete and clears an *)
(* earlier cancellation.                                                     *)
ScheduleTask(t) ==
  /\ queue' = Append(queue, t)
  /\ completed' = FALSE
  /\ canceled' = FALSE
  /\ UNCHANGED <<worker, current, started, allowed>>

(* Join: returns when there is no thread, or when it has exited. *)
JoinReturns == ~WorkerActive

(* ExecuteTasksAsync: Join the previous thread, then start a new one. *)
ExecuteTasksAsync ==
  /\ JoinReturns
  /\ worker' = "loop"
  /\ UNCHANGED <<queue, completed, canceled, current, started, allowed>>

(* CancelTasks: one store.  A task already popped will still be called. *)
CancelTasks ==
  /\ canceled' = TRUE
  /\ allowed' = Len(started) + (IF worker = "taken" THEN 1 ELSE 0)
  /\ UNCHANGED <<queue, completed, worker, current, started>>

-----------------------------------------------------------------------------
(* The worker, ExecuteTasks *)

(* Nothing left or cancelled: report completion and leave the loop. *)
WorkerCompletes ==
  /\ worker = "loop"
  /\ queue = <<>> \/ canceled
  /\ completed' = TRUE
  /\ worker' = "exited"
  /\ UNCHANGED <<queue, canceled, current, started, allowed>>

(* Mutant: front() without pop(). *)
WorkerTakes_NoPop ==
  /\ worker = "loop"
  /\ queue # <<>>
  /\ ~canceled
  /\ current' = Head(queue)
  /\ worker' = "taken"
  /\ UNCHANGED <<queue, completed, canceled, started, allowed>>

(* Mutant: the queue is used as a stack. *)
WorkerTakes_Last ==
  /\ worker = "loop"
  /\ queue # <<>>
  /\ ~canceled
  /\ current' = queue[Len(queue)]
  /\ queue' = SubSeq(queue, 1, Len(queue) - 1)
  /\ worker' = "taken"
  /\ UNCHANGED <<completed, canceled, started, allowed>>

(* Mutant: the cancellation is only looked at when the queue is empty. *)
WorkerTakes_IgnoresCancel ==
  /\ worker = "loop"
  /\ queue # <<>>
  /\ current' = Head(queue)
  /\ queue' = Tail(queue)
  /\ worker' = "taken"
  /\ UNCHANGED <<completed, canceled, started, allowed>>

(* Pop the front. *)
WorkerTakes ==
  /\ worker = "loop"
  /\ queue # <<>>
  /\ ~canceled
  /\ current' = Head(queue)
  /\ queue' = Tail(queue)
  /\ worker' = "taken"
  /\ UNCHANGED <<completed, canceled, started, allowed>>

(* Call the popped task. *)
WorkerCalls ==
  /\ worker = "taken"
  /\ worker' = "running"
  /\ started' = Append(started, current)
  /\ UNCHANGED <<queue, completed, canceled, current, allowed>>

(* The task returns or throws: an exception is logged and forgotten, so the *)
(* loop goes on in the same way.                                            *)
WorkerReturns ==
  /\ worker = "running"
  /\ worker' = "loop"
  /\ current' = NoTask
  /\ UNCHANGED <<queue, completed, canceled, started, allowed>>

=============================================================================
