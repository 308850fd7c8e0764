---------------------------- MODULE InferenceRun ----------------------------
(***************************************************************************)
(* One executor's RunScenario with its inference object: Txt2TxtExecutor   *)
(* and LLMInference, with the thread that samples the hardware, or         *)
(* Txt2ImgExecutor and ImageInference, over the seven entry points of a    *)
(* vendor library (IHV.h) that may refuse any call, log an error on any    *)
(* call, or go away with the process it runs in.                           *)
(*                                                                         *)
(* The order in which the calls reach the library is the executors' to     *)
(* keep: they look at the inference object's message after a call, and     *)
(* Init, Run, Prepare, Reset and Deinit set and clear it differently in    *)
(* the two classes.                                                        *)
(***************************************************************************)
EXTENDS Naturals

CONSTANTS
  Files,       (* input files of the scenario                              *)
  Prompts,     (* prompts of a file; conversations of an agentic file      *)
  Warmup,      (* iterations_warmup_                                       *)
  Iterations   (* sessions of a prompt, warm-up included; turns            *)

ASSUME InferenceAssumption ==
  /\ Files \in Nat \ {0}
  /\ Prompts \in Nat \ {0}
  /\ Iterations \in Nat \ {0}
  /\ Warmup \in 0 .. Iterations - 1

VARIABLES
  kind,        (* "text", "agentic" or "image"                             *)
  skippable,   (* the files a failed prompt of which may be skipped        *)
  pc,          (* where RunScenario is                                     *)
  next,        (* where it goes on after the Deinit it is in               *)
  file, prompt, iter,
  changed,     (* model_config # last_model_config                         *)
  initialized, (* model_initialized                                        *)
  good,        (* is_success of the current prompt                         *)
  status,      (* the executor's status_                                   *)
  noted,       (* benchmark_result_.error_message is not empty             *)
  success,     (* benchmark_result_.benchmark_success                      *)
  measured,    (* prompts whose timings are in prompt_perf_results         *)
  skipped,     (* skipped_prompts                                          *)
  outcome,     (* how the run ended                                        *)
  message,     (* BaseInference::error_message_ is not empty               *)
  errors,      (* API_Handler::ihv_errors_ is not empty                    *)
  alive,       (* API_Handler::IsLoaded                                    *)
  library,     (* "ready" between a successful Init and the next Deinit    *)
  faulty,      (* some call failed, or the library has gone                *)
  late,        (* inferences begun after a cancellation                    *)
  monitor,     (* hw_monitor_thread_: "none" when it is not joinable       *)
  stop,        (* hw_monitor_stop_                                         *)
  collect      (* hw_monitor_collect_                                      *)

scenarioVars == <<kind, skippable>>
placeVars == <<file, prompt, iter, changed, initialized, good>>
resultVars == <<status, noted, success, measured, skipped>>
handlerVars == <<message, errors, alive, library, faulty>>
monitorVars == <<monitor, stop, collect>>
vars == <<scenarioVars, pc, next, placeVars, resultVars, outcome, handlerVars,
          late, monitorVars>>

Place == {"file", "model", "deinit", "join", "init", "check", "session",
          "prepare", "infer", "inferring", "reset", "prompt", "last", "finish",
          "destroy", "destroyJoin", "release", "gone"}

PromptId == (1 .. Files) \X (1 .. Prompts)

PlaceTypeOK ==
  /\ pc \in Place /\ next \in Place
  /\ file \in 1 .. Files /\ prompt \in 1 .. Prompts
  /\ iter \in 1 .. Iterations + 1
  /\ good \in BOOLEAN /\ changed \in BOOLEAN /\ initialized \in BOOLEAN

ResultTypeOK ==
  /\ kind \in {"text", "agentic", "image"} /\ skippable \subseteq 1 .. Files
  /\ status \in {"Running", "Canceled", "Failed", "Completed"}
  /\ noted \in BOOLEAN /\ success \in BOOLEAN
  /\ measured \subseteq PromptId /\ skipped \subseteq PromptId
  /\ outcome \in {"none", "returned", "threw", "terminated"}

HandlerTypeOK ==
  /\ message \in BOOLEAN /\ errors \in BOOLEAN /\ alive \in BOOLEAN
  /\ library \in {"idle", "ready"}
  /\ faulty \in BOOLEAN /\ late \in Nat
  /\ monitor \in {"none", "test", "look", "sample", "exited"}
  /\ stop \in BOOLEAN /\ collect \in BOOLEAN

TypeOK == PlaceTypeOK /\ ResultTypeOK /\ HandlerTypeOK

(* The inference object exists, Setup has succeeded, kRunning is stored.   *)
Init ==
  /\ kind \in {"text", "agentic", "image"}
  /\ skippable \in SUBSET (1 .. Files)
  /\ pc = "file" /\ next = "gone"
  /\ file = 1 /\ prompt = 1 /\ iter = 1
  /\ changed = FALSE /\ initialized = FALSE /\ good = TRUE
  /\ status = "Running" /\ noted = FALSE /\ success = FALSE
  /\ measured = {} /\ skipped = {}
  /\ outcome = "none"
  /\ message = FALSE /\ errors = FALSE /\ alive = TRUE
  /\ library = "idle" /\ faulty = FALSE /\ late = 0
  /\ monitor = "none" /\ stop = FALSE /\ collect = FALSE

-----------------------------------------------------------------------------
(* Helpers *)

Monitored == kind # "image"
Joinable == monitor # "none"

Goto(from, to) == pc = from /\ pc' = to

(* BaseInference::GetErrorMessage, with the errors of the library.         *)
Complains(m, e) == m \/ e

(* A call that the library answers with ok, logging an error or not.       *)
Answer(ok, logged) ==
  /\ alive
  /\ errors' = (errors \/ logged)
  /\ faulty' = (faulty \/ ~ok \/ logged)
  /\ alive' = alive

(* The library's process has ended: IsLoaded answers no.                   *)
NotLoaded ==
  /\ ~alive
  /\ UNCHANGED <<errors, alive, faulty>>

(* What follows a prompt: the next one, the next file, the end. Only the   *)
(* text executor looks at the model again for every prompt.                *)
AfterPrompt ==
  IF prompt < Prompts THEN (IF Monitored THEN "model" ELSE "session")
  ELSE IF file < Files THEN "file" ELSE "last"

Advance ==
  /\ iter' = 1
  /\ good' = TRUE
  /\ IF prompt < Prompts THEN prompt' = prompt + 1 /\ file' = file
     ELSE IF file < Files THEN prompt' = 1 /\ file' = file + 1
     ELSE UNCHANGED <<prompt, file>>

-----------------------------------------------------------------------------
(* Init and Deinit of the inference object *)

StartMonitor ==
  IF Monitored
  THEN monitor' = "test" /\ stop' = FALSE /\ collect' = FALSE
  ELSE UNCHANGED monitorVars

(* A thread object that is still joinable must not be assigned to.         *)
InitSucceeds ==
  /\ pc = "init"
  /\ \E logged \in BOOLEAN : Answer(TRUE, logged)
  /\ library' = "ready"
  /\ message' = FALSE
  /\ IF Monitored /\ Joinable
     THEN pc' = "gone" /\ outcome' = "terminated" /\ UNCHANGED monitorVars
     ELSE pc' = next /\ UNCHANGED outcome /\ StartMonitor
  /\ UNCHANGED <<scenarioVars, next, placeVars, resultVars, late>>

InitFails ==
  /\ Goto("init", next)
  /\ \/ \E logged \in BOOLEAN : Answer(FALSE, logged)
     \/ NotLoaded
  /\ message' = TRUE
  /\ UNCHANGED <<scenarioVars, next, placeVars, resultVars, outcome, library,
                 late, monitorVars>>

(* Where a Deinit that has ended goes: to Init when the model is loaded    *)
(* again, and from there to the check or, after a skip, to the next prompt.*)
Reinits == next \in {"check", "model", "session", "file", "last"}
AfterDeinit == IF Reinits THEN "init" ELSE next

(* Mutant: the thread is not told to end. *)
DeinitSucceeds_Silent ==
  /\ pc = "deinit"
  /\ \E logged \in BOOLEAN : Answer(TRUE, logged)
  /\ library' = "idle"
  /\ message' = IF Monitored THEN FALSE ELSE message
  /\ IF ~Monitored
     THEN pc' = AfterDeinit /\ UNCHANGED <<outcome, monitorVars>>
     ELSE /\ collect' = FALSE /\ UNCHANGED <<stop, monitor>>
          /\ IF Joinable THEN pc' = "join" /\ UNCHANGED outcome
             ELSE pc' = "destroy" /\ outcome' = "threw"
  /\ UNCHANGED <<scenarioVars, next, placeVars, resultVars, late>>

(* Mutant: the thread is told but not joined. *)
DeinitSucceeds_NoJoin ==
  /\ pc = "deinit"
  /\ \E logged \in BOOLEAN : Answer(TRUE, logged)
  /\ library' = "idle"
  /\ message' = IF Monitored THEN FALSE ELSE message
  /\ pc' = AfterDeinit
  /\ IF Monitored THEN collect' = FALSE /\ stop' = TRUE ELSE UNCHANGED <<collect, stop>>
  /\ UNCHANGED <<scenarioVars, next, placeVars, resultVars, late, outcome, monitor>>

(* Joining a thread that is not joinable throws out of RunScenario.        *)
DeinitSucceeds ==
  /\ pc = "deinit"
  /\ \E logged \in BOOLEAN : Answer(TRUE, logged)
  /\ library' = "idle"
  /\ message' = IF Monitored THEN FALSE ELSE message
  /\ IF ~Monitored
     THEN pc' = AfterDeinit /\ UNCHANGED <<outcome, monitorVars>>
     ELSE /\ collect' = FALSE /\ stop' = TRUE /\ UNCHANGED monitor
          /\ IF Joinable THEN pc' = "join" /\ UNCHANGED outcome
             ELSE pc' = "destroy" /\ outcome' = "threw"
  /\ UNCHANGED <<scenarioVars, next, placeVars, resultVars, late>>

(* The method returns early: the thread is neither stopped nor joined.     *)
DeinitFails ==
  /\ Goto("deinit", AfterDeinit)
  /\ \/ /\ \E logged \in BOOLEAN : Answer(FALSE, logged)
        /\ library' = "idle"
        /\ message' = TRUE
     \/ /\ NotLoaded
        /\ message' = (message \/ Monitored)
        /\ UNCHANGED library
  /\ UNCHANGED <<scenarioVars, next, placeVars, resultVars, outcome, late,
                 monitorVars>>

JoinMonitor ==
  /\ Goto("join", AfterDeinit)
  /\ monitor = "exited"
  /\ monitor' = "none"
  /\ UNCHANGED <<scenarioVars, next, placeVars, resultVars, outcome,
                 handlerVars, late, stop, collect>>

-----------------------------------------------------------------------------
(* The loops over files and prompts *)

FileCanceled ==
  /\ Goto("file", "destroy")
  /\ status = "Canceled"
  /\ UNCHANGED <<scenarioVars, next, placeVars, resultVars, outcome,
                 handlerVars, late, monitorVars>>

(* Object prompts without a known role end the run with its status as it   *)
(* was; other failures of the tokenizer, and a malformed conversation, set *)
(* kFailed.                                                                *)
NoPrompts ==
  /\ Goto("file", "destroy")
  /\ status # "Canceled"
  /\ Monitored
  /\ \/ UNCHANGED <<status, noted>>
     \/ status' = "Failed" /\ noted' \in BOOLEAN
  /\ UNCHANGED <<scenarioVars, next, placeVars, success, measured, skipped,
                 outcome, handlerVars, late, monitorVars>>

ReadFile ==
  /\ Goto("file", "model")
  /\ status # "Canceled"
  /\ changed' \in IF initialized THEN BOOLEAN ELSE {TRUE}
  /\ UNCHANGED <<scenarioVars, next, file, prompt, iter, initialized, good,
                 resultVars, outcome, handlerVars, late, monitorVars>>

(* The model is loaded once, again for a new configuration, and again for  *)
(* every conversation.                                                     *)
LoadModel ==
  /\ pc = "model"
  /\ next' = "check"
  /\ pc' = IF ~initialized THEN "init"
           ELSE IF changed \/ kind = "agentic" THEN "deinit"
           ELSE "check"
  /\ changed' = FALSE
  /\ UNCHANGED <<scenarioVars, file, prompt, iter, initialized, good,
                 resultVars, outcome, handlerVars, late, monitorVars>>

CheckModel ==
  /\ pc = "check"
  /\ IF Complains(message, errors)
     THEN pc' = "destroy" /\ status' = "Failed" /\ noted' = message
          /\ UNCHANGED initialized
     ELSE pc' = "session" /\ initialized' = TRUE /\ UNCHANGED <<status, noted>>
  /\ UNCHANGED <<scenarioVars, next, file, prompt, iter, changed, good, success,
                 measured, skipped, outcome, handlerVars, late, monitorVars>>

NextSession ==
  /\ pc = "session"
  /\ IF iter > Iterations THEN pc' = "prompt" /\ UNCHANGED next
     ELSE IF status = "Canceled" THEN pc' = "deinit" /\ next' = "destroy"
     ELSE pc' = "prepare" /\ UNCHANGED next
  /\ UNCHANGED <<scenarioVars, placeVars, resultVars, outcome, handlerVars,
                 late, monitorVars>>

-----------------------------------------------------------------------------
(* One session: Prepare, Run, Reset *)

(* Mutant: the image class clears its message too when Prepare succeeds. *)
Prepare_Clears ==
  /\ pc = "prepare"
  /\ \/ \E ok, logged \in BOOLEAN : Answer(ok, logged) /\ message' = ~ok
     \/ NotLoaded /\ message' = TRUE
  /\ good' = ~Complains(message', errors')
  /\ noted' = IF good' THEN noted ELSE message'
  /\ pc' = IF good' THEN "infer" ELSE "prompt"
  /\ UNCHANGED <<scenarioVars, next, file, prompt, iter, changed, initialized,
                 status, success, measured, skipped, outcome, library, late,
                 monitorVars>>

(* The image class leaves an earlier message alone when the call succeeds. *)
Prepare ==
  /\ pc = "prepare"
  /\ \/ \E ok, logged \in BOOLEAN :
          Answer(ok, logged) /\ message' = (~ok \/ (message /\ ~Monitored))
     \/ NotLoaded /\ message' = TRUE
  /\ good' = ~Complains(message', errors')
  /\ noted' = IF good' THEN noted ELSE message'
  /\ pc' = IF good' THEN "infer" ELSE "prompt"
  /\ UNCHANGED <<scenarioVars, next, file, prompt, iter, changed, initialized,
                 status, success, measured, skipped, outcome, library, late,
                 monitorVars>>

BeginInfer ==
  /\ Goto("infer", "inferring")
  /\ alive
  /\ collect' = (collect \/ Monitored)
  /\ late' = IF status = "Canceled" THEN late + 1 ELSE late
  /\ UNCHANGED <<scenarioVars, next, placeVars, resultVars, outcome,
                 handlerVars, monitor, stop>>

(* check_error after Run.                                                  *)
RunChecked ==
  /\ pc' = "reset"
  /\ good' = ~Complains(message', errors')
  /\ noted' = IF good' THEN noted ELSE message'
  /\ UNCHANGED <<scenarioVars, next, file, prompt, iter, changed, initialized,
                 status, success, measured, skipped, library, outcome, late>>

InferNotLoaded ==
  /\ pc = "infer"
  /\ NotLoaded
  /\ message' = TRUE
  /\ RunChecked
  /\ UNCHANGED monitorVars

InferSucceeds ==
  /\ pc = "inferring"
  /\ \E logged \in BOOLEAN : Answer(TRUE, logged)
  /\ message' = FALSE
  /\ RunChecked
  /\ collect' = FALSE
  /\ UNCHANGED <<monitor, stop>>

(* The thread goes on collecting.                                          *)
InferFails ==
  /\ pc = "inferring"
  /\ \/ \E logged \in BOOLEAN : Answer(FALSE, logged)
     \/ NotLoaded
  /\ message' = TRUE
  /\ RunChecked
  /\ UNCHANGED monitorVars

(* The timestamps that come with the answer are malformed: the text        *)
(* executor catches the exception and tries a Reset, the image executor    *)
(* lets it out.                                                            *)
InferThrows ==
  /\ pc = "inferring"
  /\ alive
  /\ faulty' = TRUE
  /\ IF Monitored
     THEN /\ good' = FALSE
          /\ pc' = "prompt"
          /\ \E ok, logged \in BOOLEAN :
               errors' = (errors \/ logged) /\ message' = ~ok
          /\ UNCHANGED outcome
     ELSE /\ pc' = "destroy" /\ outcome' = "threw"
          /\ UNCHANGED <<good, errors, message>>
  /\ UNCHANGED <<scenarioVars, next, file, prompt, iter, changed, initialized,
                 resultVars, alive, library, late, monitorVars>>

(* A tool called for after the inference fails: no Reset.                  *)
ToolFails ==
  /\ Goto("inferring", "prompt")
  /\ kind = "agentic"
  /\ \E logged \in BOOLEAN : Answer(TRUE, logged)
  /\ message' = FALSE
  /\ good' = FALSE
  /\ collect' = FALSE
  /\ UNCHANGED <<scenarioVars, next, file, prompt, iter, changed, initialized,
                 resultVars, outcome, library, late, monitor, stop>>

(* The image executor adds the timings of the session to its lists at once.*)
Measure ==
  measured' = IF kind = "image" /\ iter > Warmup
              THEN measured \cup {<<file, prompt>>} ELSE measured

Reset ==
  /\ pc = "reset"
  /\ \/ \E ok, logged \in BOOLEAN :
          Answer(ok, logged) /\ message' = (~ok \/ (message /\ ~Monitored))
     \/ NotLoaded /\ message' = TRUE
  /\ noted' = IF good /\ Complains(message', errors') THEN message' ELSE noted
  /\ good' = (good /\ ~Complains(message', errors'))
  /\ IF good' THEN pc' = "session" /\ iter' = iter + 1 /\ Measure
     ELSE pc' = "prompt" /\ UNCHANGED <<iter, measured>>
  /\ UNCHANGED <<scenarioVars, next, file, prompt, changed, initialized, status,
                 success, skipped, outcome, library, late, monitorVars>>

(* The tokens of the answer cannot be decoded.                             *)
DecodeFails ==
  /\ Goto("reset", "deinit")
  /\ Monitored /\ good
  /\ \E logged \in BOOLEAN : Answer(TRUE, logged)
  /\ message' = FALSE
  /\ ~errors'
  /\ status' = "Failed" /\ noted' = TRUE
  /\ next' = "destroy"
  /\ UNCHANGED <<scenarioVars, placeVars, success, measured, skipped, outcome,
                 library, late, monitorVars>>

-----------------------------------------------------------------------------
(* After the sessions of a prompt *)

(* Text: every session has tokens. Image: every session has pixels. The    *)
(* agentic results are added when the file is over, with all its prompts.  *)
PromptGood ==
  /\ Goto("prompt", AfterPrompt)
  /\ good
  /\ measured' = measured \cup {<<file, prompt>>}
  /\ Advance
  /\ UNCHANGED <<scenarioVars, next, changed, initialized, status, noted, success,
                 skipped, outcome, handlerVars, late, monitorVars>>

(* A prompt that failed, or one of whose outputs is empty.                 *)
PromptSkipped ==
  /\ Goto("prompt", "deinit")
  /\ file \in skippable /\ kind # "agentic"
  /\ skipped' = skipped \cup {<<file, prompt>>}
  /\ message' = FALSE /\ errors' = FALSE
  /\ next' = AfterPrompt
  /\ Advance
  /\ UNCHANGED <<scenarioVars, changed, initialized, status, noted, success,
                 measured, outcome, alive, library, faulty, late, monitorVars>>

(* Mutant: the result of a prompt that failed is kept all the same. *)
PromptFails_Forgives ==
  /\ Goto("prompt", AfterPrompt)
  /\ ~(file \in skippable /\ kind # "agentic")
  /\ Advance
  /\ UNCHANGED <<scenarioVars, next, changed, initialized, status, noted, success,
                 measured, skipped, outcome, handlerVars, late, monitorVars>>

PromptFails ==
  /\ Goto("prompt", "deinit")
  /\ ~(file \in skippable /\ kind # "agentic")
  /\ status' = "Failed" /\ noted' = TRUE
  /\ next' = "destroy"
  /\ UNCHANGED <<scenarioVars, placeVars, success, measured, skipped, outcome,
                 handlerVars, late, monitorVars>>

(* A later file starts with its own configuration; after a skip the model  *)
(* may have failed to load, which the next Init or check finds.            *)
LastDeinit ==
  /\ pc = "last"
  /\ IF initialized THEN pc' = "deinit" /\ next' = "finish"
     ELSE pc' = "finish" /\ UNCHANGED next
  /\ UNCHANGED <<scenarioVars, placeVars, resultVars, outcome, handlerVars,
                 late, monitorVars>>

(* status_ is read once; a Cancel that comes after the read is in Cancel.  *)
Finish ==
  /\ Goto("finish", "destroy")
  /\ status' = IF status = "Running" THEN "Completed" ELSE status
  /\ success' = (status' = "Completed")
  /\ UNCHANGED <<scenarioVars, next, placeVars, noted, measured, skipped, outcome,
                 handlerVars, late, monitorVars>>

-----------------------------------------------------------------------------
(* The destructor of the inference object *)

(* Mutant: the thread outlives the object. *)
Destroy_Detaches ==
  /\ Goto("destroy", "release")
  /\ UNCHANGED <<scenarioVars, next, placeVars, resultVars, outcome,
                 handlerVars, late, monitorVars>>

Destroy ==
  /\ pc = "destroy"
  /\ IF Joinable
     THEN pc' = "destroyJoin" /\ collect' = FALSE /\ stop' = TRUE
     ELSE pc' = "release" /\ UNCHANGED <<collect, stop>>
  /\ UNCHANGED <<scenarioVars, next, placeVars, resultVars, outcome,
                 handlerVars, late, monitor>>

DestructorJoins ==
  /\ Goto("destroyJoin", "release")
  /\ monitor = "exited"
  /\ monitor' = "none"
  /\ UNCHANGED <<scenarioVars, next, placeVars, resultVars, outcome,
                 handlerVars, late, stop, collect>>

(* The answer to Release is only logged.                                   *)
Release ==
  /\ Goto("release", "gone")
  /\ outcome' = IF outcome = "none" THEN "returned" ELSE outcome
  /\ UNCHANGED <<scenarioVars, next, placeVars, resultVars, handlerVars, late,
                 monitorVars>>

-----------------------------------------------------------------------------
(* The owner, the library's process and the monitoring thread *)

Running == pc # "gone"

Cancel ==
  /\ Running
  /\ status # "Completed"
  /\ status' = "Canceled"
  /\ UNCHANGED <<scenarioVars, pc, next, placeVars, noted, success, measured,
                 skipped, outcome, handlerVars, late, monitorVars>>

LibraryGoes ==
  /\ Running /\ alive
  /\ alive' = FALSE /\ faulty' = TRUE
  /\ UNCHANGED <<scenarioVars, pc, next, placeVars, resultVars, outcome, message,
                 errors, library, late, monitorVars>>

MonitorGoes(from, to) ==
  /\ monitor = from
  /\ outcome # "terminated"
  /\ monitor' = to
  /\ UNCHANGED <<scenarioVars, pc, next, placeVars, resultVars, outcome,
                 handlerVars, late, stop, collect>>

MonitorTests == MonitorGoes("test", IF stop THEN "exited" ELSE "look")

(* A sample, if wanted, and a second's sleep.                              *)
MonitorLooks == MonitorGoes("look", IF collect THEN "sample" ELSE "test")

MonitorSamples == MonitorGoes("sample", "test")

-----------------------------------------------------------------------------
(* The specification *)

Executor ==
  \/ InitSucceeds \/ InitFails
  \/ DeinitSucceeds \/ DeinitFails \/ JoinMonitor
  \/ FileCanceled \/ NoPrompts \/ ReadFile
  \/ LoadModel \/ CheckModel \/ NextSession
  \/ Prepare \/ BeginInfer \/ InferNotLoaded
  \/ InferSucceeds \/ InferFails \/ InferThrows \/ ToolFails
  \/ Reset \/ DecodeFails
  \/ PromptGood \/ PromptSkipped \/ PromptFails
  \/ LastDeinit \/ Finish
  \/ Destroy \/ DestructorJoins \/ Release

Monitor == MonitorTests \/ MonitorLooks \/ MonitorSamples

Next == Executor \/ Monitor \/ Cancel \/ LibraryGoes

Spec == Init /\ [][Next]_vars

(* The library answers every call, and both threads are scheduled.         *)
FairSpec == Spec /\ WF_vars(Executor) /\ WF_vars(Monitor)

-----------------------------------------------------------------------------
(* Properties *)

(* An inference begins only between an Init the library accepted and the   *)
(* Deinit that follows, although the skip of a failed prompt loads the     *)
(* model again and does not look whether that worked.                      *)
InferOnlyWhenReady == [][pc' = "inferring" => library = "ready"]_vars

(* The inference object is gone only after its sampling thread: the thread *)
(* reads the object's members.                                             *)
GoneMeansQuiet ==
  pc \in {"release", "gone"} /\ outcome # "terminated" => monitor = "none"

(* What is reported as a success has an answer for every prompt, except    *)
(* those it lists as skipped, which only files that allow it have. A       *)
(* prompt is not both, but for images: the timings of the sessions before  *)
(* the failing one stay in the averages. Only a skip leaves a message in a *)
(* success.                                                                *)
SuccessAccounted ==
  success => /\ measured \cup skipped = PromptId
             /\ noted => skipped # {}
             /\ kind # "image" => measured \cap skipped = {}
             /\ \A p \in skipped : p[1] \in skippable /\ kind # "agentic"

(* After Cancel at most the session whose test came before it runs.        *)
CancelBounded == late <= 1

(* As long as the library answers every call without an error, the run     *)
(* neither lets an exception out nor ends the program.                     *)
NoFaultNoCrash == outcome \in {"threw", "terminated"} => faulty

(* RunScenario ends, and with it the object and its thread.                *)
RunEnds == <>(pc = "gone")

=============================================================================
