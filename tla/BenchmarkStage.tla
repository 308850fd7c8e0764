--------------------------- MODULE BenchmarkStage ---------------------------
(***************************************************************************)
(* BenchmargStage::Run (src/CIL/benchmark/benchmark_stage.cpp) with the     *)
(* executors it schedules (LLMExecutor, Txt2TxtExecutor): one scheduler and *)
(* tracker per model, run one after the other through ReportProgress.  An   *)
(* executor is cancelled cooperatively: Cancel, called by the runner thread,*)
(* stores kCanceled, and the worker tests and overwrites the same status.   *)
(***************************************************************************)
EXTENDS ReportProgress, FiniteSets

CONSTANTS
  Groups,        (* the executors of each model, in order                    *)
  Prompts,       (* inference sessions of one executor                       *)
  MayThrow,      (* executors whose Run an exception may leave               *)
  Unusable,      (* those with an input file that yields no prompts: its list*)
                 (* is empty, or one of its objects has no role              *)
  Reserved       (* those with an input file of the category "Overall"       *)

ASSUME BenchmarkAssumption ==
  /\ Groups \in Seq(Seq(Task)) \ {<<>>}
  /\ Prompts \in Nat
  /\ MayThrow \subseteq Task
  /\ Unusable \subseteq Task
  /\ Reserved \subseteq Task

(* Every entry of every model gets an executor of its own.                  *)
ASSUME ExecutorsAssumption ==
  \A g, h \in DOMAIN Groups : \A i \in DOMAIN Groups[g], j \in DOMAIN Groups[h] :
    Groups[g][i] = Groups[h][j] => g = h /\ i = j

VARIABLES
  body,       (* where the worker is in BenchmarkTask and the executor's Run *)
  left,       (* sessions the running executor has still to do               *)
  success,    (* benchmark_success of the running executor                   *)
  note,       (* its error message says that the run was cancelled           *)
  results,    (* results_logger_: one record per appended result             *)
  executed,   (* task_executed                                               *)
  stage,      (* where the runner thread is in BenchmargStage::Run           *)
  group,      (* the model whose tracker is reported                         *)
  victim,     (* the executor being cancelled                                *)
  outcome     (* what the stage returned                                     *)

bodyVars == <<body, left, success, note, results, executed>>
stageVars == <<stage, group, victim, outcome>>
vars == <<reportVars, bodyVars, stageVars>>

BodyState == {"none", "guard", "validate", "create", "check", "begin", "prompt",
              "infer", "end", "commit", "record", "overall", "finish",
              "append"}

(* "storing": Cancel has seen a status other than kCompleted and has not    *)
(* stored kCanceled yet; "unwinding": the schedulers' destructors join.     *)
StageState == {"reporting", "canceling", "storing", "unwinding", "returned"}

TypeOK ==
  /\ ReportTypeOK
  /\ body \in BodyState
  /\ left \in 0 .. Prompts
  /\ success \in BOOLEAN
  /\ note \in BOOLEAN
  /\ results \in Seq([task : Task, success : BOOLEAN, cancelled : BOOLEAN])
  /\ executed \in BOOLEAN
  /\ stage \in StageState
  /\ group \in DOMAIN Groups
  /\ victim \in Nat
  /\ outcome \in BOOLEAN

(* An executor whose constructor could not read its assets has failed       *)
(* already when it is scheduled.                                            *)
Init ==
  /\ ReadyToReport(Groups[1])
  /\ status \in [Task -> {"Ready", "Failed"}]
  /\ quiet = FALSE
  /\ handler \in Handlers
  /\ interrupt = FALSE
  /\ body = "none"
  /\ left = 0
  /\ success = FALSE
  /\ note = FALSE
  /\ results = <<>>
  /\ executed = FALSE
  /\ stage = "reporting"
  /\ group = 1
  /\ victim = 0
  /\ outcome = FALSE

-----------------------------------------------------------------------------
(* The worker: BenchmarkTask around the executor's Run *)

unchangedByBody == <<queue, completed, canceled, allowed, tracker, index, quiet,
                     handler, runner, interrupt, verdict, stageVars>>

Goto(from, to) == body = from /\ body' = to

SetStatus(s) == status' = [status EXCEPT ![current] = s]

(* A step inside the running executor. *)
Inside == UNCHANGED <<unchangedByBody, worker, current, started, success, note,
                      results, executed>>

CallExecutor ==
  /\ WorkerCalls
  /\ Goto("none", "guard")
  /\ success' = FALSE
  /\ note' = FALSE
  /\ UNCHANGED <<status, tracker, index, quiet, handler, runner, interrupt,
                 verdict, left, results, executed, stageVars>>

(* LLMExecutor::Run returns at once unless the status is kReady. *)
TestReady ==
  /\ Goto("guard", IF status[current] = "Ready" THEN "validate" ELSE "append")
  /\ UNCHANGED <<status, left>>
  /\ Inside

(* The checks of the model, the inputs and the settings. *)
ValidationFails ==
  /\ Goto("validate", "append")
  /\ SetStatus("Failed")
  /\ UNCHANGED left
  /\ Inside

ValidationPasses ==
  /\ Goto("validate", "create")
  /\ SetStatus("Initializing")
  /\ UNCHANGED left
  /\ Inside

(* Creation of the inference object. *)
CreationFails ==
  /\ Goto("create", "finish")
  /\ SetStatus("Failed")
  /\ UNCHANGED left
  /\ Inside

CreationSucceeds ==
  /\ Goto("create", "check")
  /\ UNCHANGED <<status, left>>
  /\ Inside

(* The test for kCanceled before the store of kRunning. *)
TestCanceled ==
  /\ Goto("check", IF status[current] = "Canceled" THEN "finish" ELSE "begin")
  /\ UNCHANGED <<status, left>>
  /\ Inside

BeginRunning ==
  /\ Goto("begin", "prompt")
  /\ SetStatus("Running")
  /\ left' = Prompts
  /\ Inside

(* The head of the session loop: no session left, cancelled, or one more.  *)
(* An executor gets past all its input files only if each yields prompts.  *)
NextPrompt ==
  /\ left = 0 => current \notin Unusable
  /\ Goto("prompt", IF left = 0 THEN "end"
                    ELSE IF status[current] = "Canceled" THEN "finish"
                    ELSE "infer")
  /\ UNCHANGED <<status, left>>
  /\ Inside

(* "Failed to tokenize input prompts": Run returns and leaves kRunning. *)
PromptsUnusable ==
  /\ Goto("prompt", "finish")
  /\ current \in Unusable
  /\ UNCHANGED <<status, left>>
  /\ Inside

(* The session is done, or its failure is skipped. *)
PromptDone ==
  /\ Goto("infer", "prompt")
  /\ left' = left - 1
  /\ UNCHANGED status
  /\ Inside

(* A failure that may not be skipped, or the model cannot be initialised.   *)
PromptFails ==
  /\ Goto("infer", "finish")
  /\ SetStatus("Failed")
  /\ UNCHANGED left
  /\ Inside

(* An exception leaves Run: the scheduler logs it, and neither the status   *)
(* nor the results are touched.                                             *)
ExecutorThrows ==
  /\ current \in MayThrow
  /\ body \in {"validate", "create", "infer", "end", "overall"}
  /\ WorkerReturns
  /\ body' = "none"
  /\ UNCHANGED <<status, tracker, index, quiet, handler, runner, interrupt,
                 verdict, left, success, note, results, executed, stageVars>>

(* "if (status_ == kRunning) status_ = kCompleted": a load, then a store. *)
TestRunning ==
  /\ Goto("end", IF status[current] = "Running" THEN "commit" ELSE "record")
  /\ UNCHANGED <<status, left>>
  /\ Inside

(* Mutant: Run is over as soon as the status says so. *)
CommitCompleted_SkipsRecord ==
  /\ Goto("commit", "finish")
  /\ SetStatus("Completed")
  /\ UNCHANGED left
  /\ Inside

CommitCompleted ==
  /\ Goto("commit", "record")
  /\ SetStatus("Completed")
  /\ UNCHANGED left
  /\ Inside

(* benchmark_success = status_ == kCompleted: one more load. *)
RecordSuccess ==
  /\ Goto("record", "overall")
  /\ success' = (status[current] = "Completed")
  /\ UNCHANGED <<unchangedByBody, worker, current, started, status, left, note,
                 results, executed>>

(* The overall results get a category of their own, or are left out since a *)
(* required category is missing.                                            *)
AddOverall ==
  /\ Goto("overall", "finish")
  /\ UNCHANGED <<status, left>>
  /\ Inside

(* "'Overall' category already present": the status is overwritten, and     *)
(* benchmark_success stays as it was recorded.                              *)
OverallTaken ==
  /\ Goto("overall", "finish")
  /\ current \in Reserved
  /\ SetStatus("Failed")
  /\ UNCHANGED left
  /\ Inside

(* Back in LLMExecutor::Run: the last look at the status, for the message. *)
FinishRun ==
  /\ Goto("finish", "append")
  /\ note' = (status[current] = "Canceled")
  /\ UNCHANGED <<unchangedByBody, worker, current, started, status, left, success,
                 results, executed>>

(* BenchmarkTask goes on after Run whatever it returned.  A result that     *)
(* cannot be written to the file is logged and forgotten; results holds     *)
(* those handed to the logger.                                              *)
AppendResult ==
  /\ body = "append"
  /\ results' = Append(results, [task |-> current, success |-> success,
                                 cancelled |-> note])
  /\ executed' = TRUE
  /\ WorkerReturns
  /\ body' = "none"
  /\ UNCHANGED <<status, tracker, index, quiet, handler, runner, interrupt,
                 verdict, left, success, note, stageVars>>

BodyStep ==
  \/ CallExecutor
  \/ TestReady
  \/ ValidationFails
  \/ ValidationPasses
  \/ CreationFails
  \/ CreationSucceeds
  \/ TestCanceled
  \/ BeginRunning
  \/ NextPrompt
  \/ PromptsUnusable
  \/ PromptDone
  \/ PromptFails
  \/ ExecutorThrows
  \/ TestRunning
  \/ CommitCompleted
  \/ RecordSuccess
  \/ AddOverall
  \/ OverallTaken
  \/ FinishRun
  \/ AppendResult

-----------------------------------------------------------------------------
(* The runner thread in BenchmargStage::Run *)

Reported(v) == stage = "reporting" /\ runner = "reported" /\ verdict = v

(* The next model's scheduler and tracker. *)
NextGroup ==
  /\ Reported(TRUE)
  /\ group < Len(Groups)
  /\ group' = group + 1
  /\ ReportNext(Groups[group + 1])
  /\ UNCHANGED <<status, quiet, handler, interrupt, bodyVars, stage, victim, outcome>>

(* return task_executed *)
ReturnExecuted ==
  /\ Reported(TRUE)
  /\ group = Len(Groups)
  /\ stage' = "returned"
  /\ outcome' = executed
  /\ UNCHANGED <<reportVars, bodyVars, group, victim>>

(* Interrupted: every executor of the group is cancelled, in order. *)
BeginCanceling ==
  /\ Reported(FALSE)
  /\ stage' = "canceling"
  /\ victim' = 1
  /\ UNCHANGED <<reportVars, bodyVars, group, outcome>>

(* LLMExecutor::Cancel does nothing for a completed executor. *)
CancelTests ==
  /\ stage = "canceling"
  /\ victim <= Len(tracker)
  /\ IF status[tracker[victim]] = "Completed"
     THEN victim' = victim + 1 /\ UNCHANGED stage
     ELSE stage' = "storing" /\ UNCHANGED victim
  /\ UNCHANGED <<reportVars, bodyVars, group, outcome>>

CancelStores ==
  /\ stage = "storing"
  /\ status' = [status EXCEPT ![tracker[victim]] = "Canceled"]
  /\ stage' = "canceling"
  /\ victim' = victim + 1
  /\ UNCHANGED <<schedulerVars, tracker, index, quiet, handler, runner,
                 interrupt, verdict, bodyVars, group, outcome>>

EndCanceling ==
  /\ stage = "canceling"
  /\ victim > Len(tracker)
  /\ stage' = "unwinding"
  /\ UNCHANGED <<reportVars, bodyVars, group, victim, outcome>>

(* return false: ~TaskScheduler joins the worker. *)
DestructorJoins ==
  /\ stage = "unwinding"
  /\ JoinReturns
  /\ stage' = "returned"
  /\ UNCHANGED <<reportVars, bodyVars, group, victim, outcome>>

StageStep ==
  \/ NextGroup
  \/ ReturnExecuted
  \/ BeginCanceling
  \/ CancelTests
  \/ CancelStores
  \/ EndCanceling
  \/ DestructorJoins

-----------------------------------------------------------------------------
WorkerLoopStep == CompletesAndWakes \/ TakesNext

Frame == UNCHANGED <<bodyVars, stageVars>>

UserStep == UserInterrupts \/ UserContinues \/ UserStops

(* The process ends after the stage. *)
Terminated == stage = "returned" /\ UNCHANGED vars

Next ==
  \/ stage = "reporting" /\ RunnerStep /\ Frame
  \/ stage = "reporting" /\ WaitTimesOut /\ Frame
  \/ stage # "returned" /\ UserStep /\ Frame
  \/ WorkerLoopStep /\ Frame
  \/ BodyStep
  \/ StageStep
  \/ Terminated

Spec == Init /\ [][Next]_vars

(* Both threads run; an inference returns.  The wait may always time out, so *)
(* a sleeping runner goes on.  The GUI's handler answers by itself; the      *)
(* console user owes nothing.                                               *)
Fairness ==
  /\ WF_vars(RunnerStep /\ Frame)
  /\ WF_vars(WaitTimesOut /\ Frame)
  /\ WF_vars(WorkerLoopStep /\ Frame)
  /\ WF_vars(BodyStep)
  /\ WF_vars(StageStep)
  /\ WF_vars(handler = "gui" /\ UserStops /\ Frame)

FairSpec == Spec /\ Fairness

-----------------------------------------------------------------------------
(* Properties *)

(* When ReportProgress returns true, every executor of the group has been   *)
(* called, in order, none is still inside its call, and each has a final    *)
(* status: the tracker's index, the scheduler's queue and the statuses agree*)
(* although three parties update them.                                      *)
ReportedMeansDone ==
  (runner = "reported" /\ verdict) =>
     /\ started = tracker
     /\ ~WorkerActive
     /\ \A i \in DOMAIN tracker : IsOver(status[tracker[i]])

(* A result counts as a success only if the executor went through all its   *)
(* sessions, and one the tracker shows as completed always does, wherever a *)
(* cancellation falls between the two loads and the store that end a run.   *)
(* A success that the tracker shows as failed has an input file that uses   *)
(* the name of the overall category, which is found out afterwards.         *)
SuccessIsEarned ==
  [][ Len(results') > Len(results) =>
        LET r == results'[Len(results')] IN
        /\ r.success => left = 0 /\ status[r.task] # "Running"
        /\ r.success /\ status[r.task] = "Failed" => r.task \in Reserved
        /\ status[r.task] = "Completed" => r.success ]_vars

(* The stage ends by itself, however often the user interrupts and goes on, *)
(* unless a console user leaves the question unanswered, or an executor is  *)
(* lost to an exception or to an input file without prompts: nothing else   *)
(* keeps the runner polling.                                                *)
StageEnds == <>(stage = "returned") \/ MayStayInLoop(MayThrow \cup Unusable)

=============================================================================
