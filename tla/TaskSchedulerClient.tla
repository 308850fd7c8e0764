------------------------ MODULE TaskSchedulerClient ------------------------
(***************************************************************************)
(* A TaskScheduler and the thread that owns it, which may call the public  *)
(* methods in every order the class allows; a running task may call        *)
(* CancelTasks too (the download tasks do, through cancelStorageTasks).    *)
(* Every task is scheduled at most once: each ScheduleTask of the code     *)
(* passes a new closure.                                                   *)
(***************************************************************************)
EXTENDS TaskScheduler

VARIABLES
  owner,      (* what the owner thread is inside of                      *)
  scheduled   (* history: the tasks scheduled so far, in order           *)

clientVars == <<schedulerVars, owner, scheduled>>

(* "idle": between calls; "joining": in Join; "executing": in the Join that *)
(* begins ExecuteTasksAsync; "asleep": waiting on completion_condition_;    *)
(* "woken": notified, the wait has not returned yet.                        *)
OwnerState == {"idle", "joining", "executing", "asleep", "woken"}

(* The task popped and not called yet, as a sequence of at most one. *)
Taken == IF worker = "taken" THEN <<current>> ELSE <<>>

Scheduled(t) == \E i \in DOMAIN scheduled : scheduled[i] = t

ClientTypeOK ==
  /\ SchedulerTypeOK
  /\ owner \in OwnerState
  /\ scheduled \in Seq(Task)

ClientInit ==
  /\ SchedulerHolds(<<>>)
  /\ owner = "idle"
  /\ scheduled = <<>>

-----------------------------------------------------------------------------
(* The owner *)

Schedule(t) ==
  /\ owner = "idle"
  /\ ~Scheduled(t)
  /\ ScheduleTask(t)
  /\ scheduled' = Append(scheduled, t)
  /\ UNCHANGED owner

CallExecute ==
  /\ owner = "idle"
  /\ owner' = "executing"
  /\ UNCHANGED <<schedulerVars, scheduled>>

ExecuteReturns ==
  /\ owner = "executing"
  /\ ExecuteTasksAsync
  /\ owner' = "idle"
  /\ UNCHANGED scheduled

CallJoin ==
  /\ owner = "idle"
  /\ owner' = "joining"
  /\ UNCHANGED <<schedulerVars, scheduled>>

OwnerJoins ==
  /\ owner = "joining"
  /\ JoinReturns
  /\ owner' = "idle"
  /\ UNCHANGED <<schedulerVars, scheduled>>

OwnerCancels ==
  /\ owner = "idle"
  /\ CancelTasks
  /\ UNCHANGED <<owner, scheduled>>

(* WaitForCompletionWithTimeout: the predicate is tested under              *)
(* completion_mutex_ before the thread sleeps, so a completion reported     *)
(* earlier is not missed.                                                   *)
CallWait ==
  /\ owner = "idle"
  /\ ~completed
  /\ owner' = "asleep"
  /\ UNCHANGED <<schedulerVars, scheduled>>

OwnerTimesOut ==
  /\ owner = "asleep"
  /\ owner' = "idle"
  /\ UNCHANGED <<schedulerVars, scheduled>>

WaitReturns ==
  /\ owner = "woken"
  /\ owner' = "idle"
  /\ UNCHANGED <<schedulerVars, scheduled>>

-----------------------------------------------------------------------------
(* The worker *)

(* Mutant: completion is stored but not notified. *)
NotifyOwner_Silent == owner' = owner

(* notify_one: with one owner thread there is at most one sleeper. *)
NotifyOwner == owner' = IF owner = "asleep" THEN "woken" ELSE owner

Completes == WorkerCompletes /\ NotifyOwner /\ UNCHANGED scheduled

Takes == WorkerTakes /\ UNCHANGED <<owner, scheduled>>

Calls == WorkerCalls /\ UNCHANGED <<owner, scheduled>>

TaskCancels ==
  /\ worker = "running"
  /\ CancelTasks
  /\ UNCHANGED <<owner, scheduled>>

Returns == WorkerReturns /\ UNCHANGED <<owner, scheduled>>

-----------------------------------------------------------------------------
ClientNext ==
  \/ \E t \in Task : Schedule(t)
  \/ CallExecute
  \/ ExecuteReturns
  \/ CallJoin
  \/ OwnerJoins
  \/ OwnerCancels
  \/ CallWait
  \/ OwnerTimesOut
  \/ WaitReturns
  \/ Completes
  \/ Takes
  \/ Calls
  \/ TaskCancels
  \/ Returns

ClientSpec == ClientInit /\ [][ClientNext]_clientVars

(* The worker is a thread the system schedules and a task is assumed to     *)
(* return.  The owner finishes a call it has made; it is never obliged to   *)
(* make one, and no property counts on a timeout.                           *)
ClientFairness ==
  /\ WF_clientVars(Completes)
  /\ WF_clientVars(Takes)
  /\ WF_clientVars(Calls)
  /\ WF_clientVars(Returns)
  /\ WF_clientVars(ExecuteReturns)
  /\ WF_clientVars(OwnerJoins)
  /\ WF_clientVars(WaitReturns)

ClientFairSpec == ClientSpec /\ ClientFairness

-----------------------------------------------------------------------------
(* Properties *)

(* No task is lost, duplicated or reordered, whatever the interleaving of   *)
(* ScheduleTask with the worker: the calls made so far, the task popped and *)
(* not yet called, and the queue are the scheduled tasks in their order     *)
(* (task_scheduler.h: "scheduling and executing tasks sequentially").       *)
EachTaskOnceInOrder == scheduled = started \o Taken \o queue

(* When AreTasksCompleted() answers true, no task is inside its call or     *)
(* about to be called, and what is left in the queue was cancelled: the     *)
(* caller of WaitForCompletionWithTimeout may read what the tasks wrote.    *)
CompletionMeansQuiet ==
  completed => /\ worker \notin {"taken", "running"}
               /\ queue = <<>> \/ canceled

(* After CancelTasks no task begins except the one the worker had popped    *)
(* already, however the cancellation falls between the worker's test of the *)
(* flag and its call; after a cancellation by the running task itself, none.*)
CancelStopsCalls == canceled => Len(started) <= allowed

(* A caller asleep in WaitForCompletionWithTimeout while the worker is at   *)
(* work is woken by the completion, with no help from the timeout: the      *)
(* notification cannot be lost.                                             *)
SleeperIsWoken == (owner = "asleep" /\ WorkerActive) ~> (owner # "asleep")

(* The class implements the abstract serial executor: tasks are called one  *)
(* at a time, in submission order, each at most once.                       *)
Serial == INSTANCE SerialExecution
            WITH submitted <- scheduled, calls <- started,
                 busy <- (worker = "running")

SerialSpec == Serial!Spec

=============================================================================
