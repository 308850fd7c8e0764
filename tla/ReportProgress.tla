--------------------------- MODULE ReportProgress ---------------------------
(***************************************************************************)
(* BenchmarkRunner::ReportProgress (src/CIL/benchmark/runner.cpp), the     *)
(* ProgressTracker it watches and the handler that advances the tracker.   *)
(* The runner thread starts a scheduler's worker and polls the statuses of *)
(* the tracked tasks, which the worker writes; it leaves when the tracker's*)
(* index has passed every task, or when the user interrupts and confirms.  *)
(* The stages that run a scheduler this way, BenchmarkStage and            *)
(* DownloadStage, extend this module with the bodies of their tasks.       *)
(*                                                                         *)
(* Console output is left out: the console mutex is only tried by the      *)
(* logging threads (mlperf_console_appender.cpp), so it blocks nobody.     *)
(***************************************************************************)
EXTENDS TaskScheduler

CONSTANT Handlers   (* the progress handlers a run may be given *)

ASSUME HandlersAssumption == Handlers \subseteq {"cli", "gui", "none"}

VARIABLES
  status,      (* the Status of every ProgressableTask                      *)
  tracker,     (* ProgressTracker::tasks_                                   *)
  index,       (* current_task_index_                                       *)
  quiet,       (* quiet_                                                    *)
  handler,     (* progress_handler_: the console's, the GUI's, or null      *)
  runner,      (* where the runner thread is in ReportProgress              *)
  interrupt,   (* interrupt_, set by SIGINT or by the GUI's stop button     *)
  verdict      (* what ReportProgress returned                              *)

reportVars == <<schedulerVars, status, tracker, index, quiet, handler, runner,
                interrupt, verdict>>

Status == {"Ready", "Initializing", "Running", "Completed", "Failed",
           "Canceled", "Skipped"}

(* Mutant: a failed task is waited for. *)
IsOver_ForgetsFailed(s) == s \in {"Completed", "Canceled", "Skipped"}

(* Mutant: a cancelled task is waited for. *)
IsOver_ForgetsCanceled(s) == s \in {"Completed", "Failed", "Skipped"}

(* status > kRunning *)
IsOver(s) == s \in {"Completed", "Failed", "Canceled", "Skipped"}

(* "head": at the loop condition; "asleep": in WaitForCompletionWithTimeout;*)
(* "awake": the wait has returned; "asked": the handler is asking the user; *)
(* "joining": past the loop; "reported": ReportProgress has returned.       *)
RunnerState == {"start", "head", "asleep", "awake", "asked", "joining", "reported"}

ReportTypeOK ==
  /\ SchedulerTypeOK
  /\ status \in [Task -> Status]
  /\ tracker \in Seq(Task)
  /\ index \in 0 .. Len(tracker)
  /\ quiet \in BOOLEAN
  /\ handler \in Handlers
  /\ runner \in RunnerState
  /\ interrupt \in BOOLEAN
  /\ verdict \in BOOLEAN

(* A scheduler and a tracker filled with the same tasks. *)
ReadyToReport(tasks) ==
  /\ SchedulerHolds(tasks)
  /\ tracker = tasks
  /\ index = 0
  /\ runner = "start"
  /\ verdict = FALSE

(* The next scheduler and tracker, after the destructors of the last ones. *)
ReportNext(tasks) ==
  /\ NewScheduler(tasks)
  /\ tracker' = tasks
  /\ index' = 0
  /\ runner' = "start"
  /\ verdict' = FALSE

TrackerFinished(i) == i = Len(tracker)

(* The index after one Update: a quiet tracker skips every finished task in *)
(* a row, the others pass at most one task per call.                        *)
AdvancedIndex ==
  LET PassableTo(j) == \A i \in (index + 1) .. j : IsOver(status[tracker[i]])
      reach == {j \in index .. Len(tracker) : PassableTo(j)}
  IN  IF quiet THEN CHOOSE j \in reach : \A k \in reach : k <= j
      ELSE IF PassableTo(index + 1) THEN index + 1 ELSE index

(* The predicate is tested before sleeping. *)
AfterWait == IF completed THEN "awake" ELSE "asleep"

-----------------------------------------------------------------------------
(* The runner thread *)

StartReporting ==
  /\ runner = "start"
  /\ ExecuteTasksAsync
  /\ runner' = "head"
  /\ UNCHANGED <<status, tracker, index, quiet, handler, interrupt, verdict>>

LoopEnds ==
  /\ runner = "head"
  /\ TrackerFinished(index)
  /\ runner' = "joining"
  /\ UNCHANGED <<schedulerVars, status, tracker, index, quiet, handler,
                 interrupt, verdict>>

(* Update, then the second test of Finished(), then the wait. *)
UpdateAndWait ==
  /\ runner = "head"
  /\ ~TrackerFinished(index)
  /\ handler # "none"
  /\ index' = AdvancedIndex
  /\ runner' = IF TrackerFinished(index') THEN "joining" ELSE AfterWait
  /\ UNCHANGED <<schedulerVars, status, tracker, quiet, handler, interrupt, verdict>>

(* Without a handler nobody advances the index. *)
WaitWithoutHandler ==
  /\ runner = "head"
  /\ ~TrackerFinished(index)
  /\ handler = "none"
  /\ runner' = AfterWait
  /\ UNCHANGED <<schedulerVars, status, tracker, index, quiet, handler,
                 interrupt, verdict>>

WaitTimesOut ==
  /\ runner = "asleep"
  /\ runner' = "awake"
  /\ UNCHANGED <<schedulerVars, status, tracker, index, quiet, handler,
                 interrupt, verdict>>

TestInterrupt ==
  /\ runner = "awake"
  /\ runner' = IF handler # "none" /\ interrupt THEN "asked" ELSE "head"
  /\ UNCHANGED <<schedulerVars, status, tracker, index, quiet, handler,
                 interrupt, verdict>>

(* The console user answers "y": the interrupt is forgotten, one that came  *)
(* while the question was on the screen included.                           *)
UserContinues ==
  /\ runner = "asked"
  /\ handler = "cli"
  /\ interrupt' = FALSE
  /\ runner' = "head"
  /\ UNCHANGED <<schedulerVars, status, tracker, index, quiet, handler, verdict>>

(* The console user declines to continue; the GUI's handler never asks.  The*)
(* interrupt flag stays set.                                                *)
UserStops ==
  /\ runner = "asked"
  /\ CancelTasks
  /\ runner' = "reported"
  /\ verdict' = FALSE
  /\ UNCHANGED <<status, tracker, index, quiet, handler, interrupt>>

(* Mutant: the loop is left, so the tasks must be over: no Join. *)
JoinAndReport_NoJoin ==
  /\ runner = "joining"
  /\ runner' = "reported"
  /\ verdict' = TRUE
  /\ UNCHANGED <<schedulerVars, status, tracker, index, quiet, handler, interrupt>>

JoinAndReport ==
  /\ runner = "joining"
  /\ JoinReturns
  /\ runner' = "reported"
  /\ verdict' = TRUE
  /\ UNCHANGED <<schedulerVars, status, tracker, index, quiet, handler, interrupt>>

RunnerStep ==
  \/ StartReporting
  \/ LoopEnds
  \/ UpdateAndWait
  \/ WaitWithoutHandler
  \/ TestInterrupt
  \/ JoinAndReport

-----------------------------------------------------------------------------
(* The user and the worker *)

UserInterrupts ==
  /\ interrupt' = TRUE
  /\ UNCHANGED <<schedulerVars, status, tracker, index, quiet, handler,
                 runner, verdict>>

(* The worker reports completion and wakes the runner. *)
CompletesAndWakes ==
  /\ WorkerCompletes
  /\ runner' = IF runner = "asleep" THEN "awake" ELSE runner
  /\ UNCHANGED <<status, tracker, index, quiet, handler, interrupt, verdict>>

TakesNext ==
  /\ WorkerTakes
  /\ UNCHANGED <<status, tracker, index, quiet, handler, runner, interrupt, verdict>>

-----------------------------------------------------------------------------
(* The call of one of these tasks is over, and its status is not final.     *)
TaskLost(tasks) ==
  \E i \in DOMAIN started :
     /\ started[i] \in tasks
     /\ started[i] # current
     /\ status[started[i]] \in {"Ready", "Initializing", "Running"}

(* What may keep ReportProgress in its loop for ever: a console user who    *)
(* leaves the question unanswered, a task that was lost and was one of      *)
(* those that can be, or no handler to advance the tracker.                 *)
MayStayInLoop(tasks) ==
  \/ handler = "none"
  \/ <>[](handler = "cli" /\ runner = "asked")
  \/ <>[]TaskLost(tasks)

=============================================================================
