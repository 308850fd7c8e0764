---------------------------- MODULE DownloadStage ----------------------------
(***************************************************************************)
(* DownloadStage::Run (src/CIL/benchmark/download_stage.cpp) with the       *)
(* StorageTasks it schedules: a sizing sweep and the disk-space check, then*)
(* the pass that fetches the files and collects their paths.  The lambda of*)
(* a task may cancel all the others from the worker (a failed transfer, a  *)
(* disk that fills up), while the runner thread cancels them after an      *)
(* interrupt.  Cancel stores kCanceled and stops the downloader the storage*)
(* has at that moment.                                                     *)
(***************************************************************************)
EXTENDS ReportProgress, DiskSpace

CONSTANTS
  Files,        (* the tasks in the order addStorageTasks creates them       *)
  EpFiles,      (* those of the EP dependencies: their paths are not used    *)
  Storage,      (* the Storage objects, numbered as they are created         *)
  StorageOf,    (* the Storage of each task                                  *)
  Behaviors,    (* the download behaviours to consider                       *)
  MayThrow,     (* tasks out of which std::filesystem may throw              *)
  UrlOf,        (* the URL of each task,                                     *)
  PathOf,       (* the destination of its file,                              *)
  Size,         (* its size,                                                 *)
  Space         (* and the free space of the volumes to consider             *)

ASSUME DownloadAssumption ==
  /\ Files \in Seq(Task)
  /\ EpFiles \subseteq Task
  /\ Storage \subseteq Nat
  /\ StorageOf \in [Task -> Storage]
  /\ Behaviors \subseteq {"normal", "forced", "skip_all", "prompt",
                          "deps_only_enumeration"}
  /\ MayThrow \subseteq Task
  /\ DOMAIN UrlOf = Task
  /\ PathOf \in [Task -> Seq(STRING)]
  /\ Size \in [Task -> Nat \ {0}]   (* a file of size 0 gets no second task *)
  /\ \A t, u \in Task : PathOf[t] = PathOf[u] \/ UrlOf[t] = UrlOf[u] => Size[t] = Size[u]
  /\ Space \subseteq [Mounts -> Nat]

VARIABLES
  behavior,   (* download_behavior                                           *)
  body,       (* where the worker is in the lambda and StorageTask::Run      *)
  found,      (* FindFile's answer for the running task                      *)
  sweep,      (* the worker's position in cancelStorageTasks                 *)
  disk,       (* the files that exist and are valid                          *)
  resolved,   (* tasks whose res_path_ is not empty                          *)
  checked,    (* pre_check_done_ of the tasks                                *)
  downloader, (* per Storage: no downloader_ yet, one at work, or stopped    *)
  planned,    (* file_sizes_ of the storages: the tasks that set an entry    *)
  space,      (* the tracker of CheckDiskSpace, then space_tracker           *)
  free,       (* the free space of each volume, from the check on            *)
  crowded,    (* another program has filled one, or it cannot be asked       *)
  overlooked, (* a file that is not in the plan was fetched                  *)
  error,      (* SetErrorMessage was called                                  *)
  phase,      (* which of the two RunStorageTasks is executing               *)
  stage,      (* where the runner thread is in RunStorageTasks               *)
  victim,     (* the runner's position in cancelStorageTasks                 *)
  outcome     (* what the stage returned                                     *)

diskVars == <<planned, space, free, crowded, overlooked>>
bodyVars == <<body, found, sweep, disk, resolved, downloader, diskVars, error>>
stageVars == <<behavior, checked, phase, stage, victim, outcome>>
vars == <<reportVars, bodyVars, stageVars>>

BodyState == {"none", "guard", "init", "precheck", "decide", "running", "find",
              "transfer", "final", "after", "cancel"}

StageState == {"precheck", "report", "cancel", "store", "stop", "join",
               "examine", "paths", "returned"}

TypeOK ==
  /\ ReportTypeOK
  /\ behavior \in Behaviors
  /\ body \in BodyState
  /\ found \in BOOLEAN
  /\ sweep \in Nat
  /\ {disk, resolved, planned} \subseteq SUBSET Task
  /\ free \in [Mounts -> Nat]
  /\ {crowded, overlooked} \subseteq BOOLEAN
  /\ checked \in BOOLEAN
  /\ downloader \in [Storage -> {"none", "live", "stopped"}]
  /\ error \in BOOLEAN
  /\ phase \in {"sizing", "fetching"}
  /\ stage \in StageState
  /\ victim \in Nat
  /\ outcome \in BOOLEAN

(* The sweep is left out when the behaviour is interactive or downloads     *)
(* nothing: then the tasks are checked on the runner thread first.          *)
ChecksFirst == behavior \in {"skip_all", "prompt", "deps_only_enumeration"}

Init ==
  /\ behavior \in Behaviors
  /\ ReadyToReport(Files)
  /\ status = [t \in Task |-> "Ready"]
  /\ quiet = ~ChecksFirst
  /\ handler \in Handlers
  /\ interrupt = FALSE
  /\ body = "none"
  /\ found = FALSE
  /\ sweep = 0
  /\ disk \in SUBSET Task
  /\ resolved = {}
  /\ checked = FALSE
  /\ downloader = [s \in Storage |-> "none"]
  /\ planned = {}
  /\ space = NothingPlanned
  /\ free = [v \in Mounts |-> 0]
  /\ crowded = FALSE
  /\ overlooked = FALSE
  /\ error = FALSE
  /\ phase = IF ChecksFirst THEN "fetching" ELSE "sizing"
  /\ stage = IF ChecksFirst THEN "precheck" ELSE "report"
  /\ victim = 0
  /\ outcome = FALSE

-----------------------------------------------------------------------------
(* The worker: the lambda around StorageTask::Run *)

(* What a step inside the lambda leaves alone. *)
Inside == UNCHANGED <<schedulerVars, tracker, index, quiet, handler, runner,
                      interrupt, verdict, stageVars>>

Goto(from, to) == body = from /\ body' = to

SetStatus(s) == status' = [status EXCEPT ![current] = s]

CallTask ==
  /\ WorkerCalls
  /\ Goto("none", "guard")
  /\ UNCHANGED <<status, tracker, index, quiet, handler, runner, interrupt, verdict,
                 found, sweep, disk, resolved, downloader, diskVars, error, stageVars>>

TestReady ==
  /\ Goto("guard", IF status[current] = "Ready" THEN "init" ELSE "after")
  /\ UNCHANGED <<status, found, sweep, disk, resolved, downloader, diskVars, error>>
  /\ Inside

BeginInitializing ==
  /\ Goto("init", IF checked THEN "decide" ELSE "precheck")
  /\ SetStatus("Initializing")
  /\ UNCHANGED <<found, sweep, disk, resolved, downloader, diskVars, error>>
  /\ Inside

(* The directories that exist by now; a transfer makes those it needs. *)
Directories == Mounts \cup {Front(PathOf[t]) : t \in disk}

Volume(t) == VolumeOf(PathOf[t], Directories)

(* Mutant: a path is set without a look whether the file is there. *)
CheckFile_Trusts ==
  /\ Goto("precheck", "decide")
  /\ resolved' = IF behavior # "forced" THEN resolved \cup {current} ELSE resolved
  /\ UNCHANGED <<status, found, sweep, disk, downloader, diskVars, error>>
  /\ Inside

(* CheckIfFileExistsInStorage: the path is set when a valid file is there,  *)
(* unless the download is forced.                                           *)
CheckFile ==
  /\ Goto("precheck", "decide")
  /\ resolved' = IF current \in disk /\ behavior # "forced"
                 THEN resolved \cup {current} ELSE resolved
  /\ UNCHANGED <<status, found, sweep, disk, downloader, diskVars, error>>
  /\ Inside

(* Nothing to fetch, ... *)
SkipFile ==
  /\ Goto("decide", "after")
  /\ current \in resolved
  /\ SetStatus("Skipped")
  /\ UNCHANGED <<found, sweep, disk, resolved, downloader, diskVars, error>>
  /\ Inside

(* ... a URI without a file name, ... *)
InvalidUri ==
  /\ Goto("decide", "after")
  /\ current \notin resolved
  /\ SetStatus("Failed")
  /\ UNCHANGED <<found, sweep, disk, resolved, downloader, diskVars, error>>
  /\ Inside

(* ... or a file to fetch. *)
BeginRunning ==
  /\ Goto("decide", "find")
  /\ current \notin resolved
  /\ SetStatus("Running")
  /\ UNCHANGED <<found, sweep, disk, resolved, downloader, diskVars, error>>
  /\ Inside

(* FindFile gives up before it has a downloader: no directory, no URL. *)
FindFails ==
  /\ Goto("find", "final")
  /\ found' = FALSE
  /\ UNCHANGED <<status, sweep, disk, resolved, downloader, diskVars, error>>
  /\ Inside

(* A new Downloader: a stop asked of the previous one is forgotten. *)
CreateDownloader ==
  /\ Goto("find", "transfer")
  /\ downloader' = [downloader EXCEPT ![StorageOf[current]] = "live"]
  /\ UNCHANGED <<status, found, sweep, disk, resolved, diskVars, error>>
  /\ Inside

(* A file is at the destination of the task, this one's or another's. *)
Written(t) == \E u \in disk : PathOf[u] = PathOf[t]

(* Only after the check is the space known; a file that is there already is *)
(* written over.                                                            *)
Fits == ChecksFirst \/ Written(current) \/ Size[current] <= free[Volume(current)]

FreeAfterTransfer ==
  IF ChecksFirst \/ Written(current) THEN free
  ELSE [free EXCEPT ![Volume(current)] = @ - Size[current]]

(* A storage keeps the sizes by URL, with the destination that was sized    *)
(* last.                                                                    *)
PlannedWith(t) ==
  {t} \cup {u \in planned : StorageOf[u] = StorageOf[t] => UrlOf[u] # UrlOf[t]}

(* scenario_data.file_sizes, by URL too: those of data_storage, and what    *)
(* insert adds to them, storage by storage, which replaces nothing.         *)
FileSizes ==
  {t \in planned : \A u \in planned : UrlOf[u] = UrlOf[t] => StorageOf[t] <= StorageOf[u]}

(* The URL has an entry for another destination and this one has none.      *)
Overlooked(t) ==
  /\ \E u \in FileSizes : UrlOf[u] = UrlOf[t]
  /\ \A u \in FileSizes : PathOf[u] # PathOf[t]

(* The size is learned, or the file fetched.  A stopped downloader may      *)
(* still succeed: a size request, a local copy and a transfer in one stream *)
(* do not look at the flag.                                                 *)
TransferSucceeds ==
  /\ Goto("transfer", "final")
  /\ found' = TRUE
  /\ IF phase = "sizing"
     THEN /\ planned' = PlannedWith(current)
          /\ UNCHANGED <<disk, resolved, free, overlooked>>
     ELSE /\ Fits
          /\ disk' = disk \cup {current}
          /\ resolved' = resolved \cup {current}
          /\ free' = FreeAfterTransfer
          /\ overlooked' = (overlooked \/ (~Written(current) /\ Overlooked(current)))
          /\ UNCHANGED planned
  /\ UNCHANGED <<status, sweep, downloader, space, crowded, error>>
  /\ Inside

TransferFails ==
  /\ Goto("transfer", "final")
  /\ found' = FALSE
  /\ UNCHANGED <<status, sweep, disk, resolved, downloader, diskVars, error>>
  /\ Inside

(* The last store of Run, whatever the status is by now; what was found is  *)
(* forgotten with its call.                                                 *)
SetFinalStatus ==
  /\ Goto("final", "after")
  /\ SetStatus(IF found THEN "Completed" ELSE "Failed")
  /\ found' = FALSE
  /\ UNCHANGED <<sweep, disk, resolved, downloader, diskVars, error>>
  /\ Inside

(* An exception of std::filesystem goes through the lambda. *)
TaskThrows ==
  /\ current \in MayThrow
  /\ body \in {"precheck", "find"}
  /\ WorkerReturns
  /\ body' = "none"
  /\ UNCHANGED <<status, tracker, index, quiet, handler, runner, interrupt, verdict,
                 found, sweep, disk, resolved, downloader, diskVars, error, stageVars>>

(* The lambda has nothing more to do for this status. *)
LambdaReturns ==
  /\ body = "after"
  /\ \/ status[current] \notin {"Failed", "Completed"}
     \/ status[current] = "Completed" /\ phase = "sizing"
  /\ WorkerReturns
  /\ body' = "none"
  /\ UNCHANGED <<status, tracker, index, quiet, handler, runner, interrupt, verdict,
                 found, sweep, disk, resolved, downloader, diskVars, error, stageVars>>

(* MarkCompleted, then HasEnoughSpace. *)
SpaceSuffices ==
  /\ body = "after"
  /\ status[current] = "Completed" /\ phase = "fetching"
  /\ body' = "none"
  /\ WorkerReturns
  /\ space' = MarkCompleted(space, PathOf[current], Directories)
  /\ HasEnoughSpace(space', free)
  /\ UNCHANGED <<status, tracker, index, quiet, handler, runner, interrupt, verdict,
                 found, sweep, disk, resolved, downloader, planned, free, crowded,
                 overlooked, error, stageVars>>

(* cancelStorageTasks begins with CancelTasks. *)
SpaceRunsOut ==
  /\ body = "after"
  /\ status[current] = "Completed" /\ phase = "fetching"
  /\ body' = "cancel"
  /\ CancelTasks
  /\ space' = MarkCompleted(space, PathOf[current], Directories)
  /\ ~HasEnoughSpace(space', free)
  /\ error' = TRUE
  /\ sweep' = 1
  /\ UNCHANGED <<status, tracker, index, quiet, handler, runner, interrupt, verdict,
                 found, disk, resolved, downloader, planned, free, crowded, overlooked,
                 stageVars>>

FailureCancelsAll ==
  /\ body = "after"
  /\ status[current] = "Failed"
  /\ CancelTasks
  /\ body' = "cancel"
  /\ sweep' = 1
  /\ UNCHANGED <<status, tracker, index, quiet, handler, runner, interrupt, verdict,
                 found, disk, resolved, downloader, diskVars, error, stageVars>>

(* StopDownload on the downloader of a task's storage. *)
Stopped(t) ==
  [downloader EXCEPT ![StorageOf[t]] = IF @ = "live" THEN "stopped" ELSE @]

(* StorageTask::Cancel on the worker.  The only other writer of a status is *)
(* the runner's own Cancel, so the test and the store are one step.         *)
SweepCancels ==
  /\ body = "cancel"
  /\ sweep <= Len(tracker)
  /\ sweep' = sweep + 1
  /\ LET t == tracker[sweep] IN
     IF IsOver(status[t])
     THEN UNCHANGED <<status, downloader>>
     ELSE /\ status' = [status EXCEPT ![t] = "Canceled"]
          /\ downloader' = Stopped(t)
  /\ UNCHANGED <<body, found, disk, resolved, diskVars, error>>
  /\ Inside

SweepEnds ==
  /\ body = "cancel"
  /\ sweep > Len(tracker)
  /\ WorkerReturns
  /\ body' = "none"
  /\ sweep' = 0
  /\ UNCHANGED <<status, tracker, index, quiet, handler, runner, interrupt, verdict,
                 found, disk, resolved, downloader, diskVars, error, stageVars>>

BodyStep ==
  \/ CallTask
  \/ TestReady
  \/ BeginInitializing
  \/ CheckFile
  \/ SkipFile
  \/ InvalidUri
  \/ BeginRunning
  \/ FindFails
  \/ CreateDownloader
  \/ TransferSucceeds
  \/ TransferFails
  \/ SetFinalStatus
  \/ TaskThrows
  \/ LambdaReturns
  \/ SpaceSuffices
  \/ SpaceRunsOut
  \/ FailureCancelsAll
  \/ SweepCancels
  \/ SweepEnds

-----------------------------------------------------------------------------
(* The runner thread *)

Skippable(t) == t \in disk

(* CheckIfTaskCanBeSkipped for every task, before any worker exists: those  *)
(* that can are skipped and leave the tracker, not the scheduler.  For the  *)
(* others skip_all gives up, prompt asks, the enumeration goes on.          *)
CheckAllTasks ==
  /\ stage = "precheck"
  /\ behavior = "skip_all" => \A i \in DOMAIN tracker : Skippable(tracker[i])
  /\ checked' = TRUE
  /\ status' = [t \in Task |-> IF Skippable(t) THEN "Skipped" ELSE status[t]]
  /\ resolved' = {t \in Task : Skippable(t)}
  /\ tracker' = SelectSeq(tracker, LAMBDA t : ~Skippable(t))
  /\ stage' = IF tracker' = <<>> THEN "examine" ELSE "report"
  /\ UNCHANGED <<schedulerVars, index, quiet, handler, runner, interrupt, verdict,
                 body, found, sweep, disk, downloader, diskVars, error,
                 behavior, phase, victim, outcome>>

(* skip_all gives up, or the user declines a download. *)
CheckGivesUp ==
  /\ stage = "precheck"
  /\ behavior \in {"skip_all", "prompt"}
  /\ \E i \in DOMAIN tracker : ~Skippable(tracker[i])
  /\ stage' = "returned"
  /\ UNCHANGED <<reportVars, bodyVars, behavior, checked, phase, victim, outcome>>

Reported(v) == stage = "report" /\ runner = "reported" /\ verdict = v

AllReported ==
  /\ Reported(TRUE)
  /\ stage' = "examine"
  /\ UNCHANGED <<reportVars, bodyVars, behavior, checked, phase, victim, outcome>>

(* Interrupted: cancelStorageTasks once more, on this thread. *)
BeginCanceling ==
  /\ Reported(FALSE)
  /\ CancelTasks
  /\ stage' = "cancel"
  /\ victim' = 1
  /\ UNCHANGED <<status, tracker, index, quiet, handler, runner, interrupt, verdict,
                 bodyVars, behavior, checked, phase, outcome>>

(* StorageTask::Cancel: the test, the store and the stop of the downloader. *)
CancelTests ==
  /\ stage = "cancel"
  /\ victim <= Len(tracker)
  /\ IF IsOver(status[tracker[victim]])
     THEN victim' = victim + 1 /\ UNCHANGED stage
     ELSE stage' = "store" /\ UNCHANGED victim
  /\ UNCHANGED <<reportVars, bodyVars, behavior, checked, phase, outcome>>

CancelStores ==
  /\ stage = "store"
  /\ status' = [status EXCEPT ![tracker[victim]] = "Canceled"]
  /\ stage' = "stop"
  /\ UNCHANGED <<schedulerVars, tracker, index, quiet, handler, runner, interrupt,
                 verdict, bodyVars, behavior, checked, phase, victim, outcome>>

CancelStops ==
  /\ stage = "stop"
  /\ downloader' = Stopped(tracker[victim])
  /\ stage' = "cancel"
  /\ victim' = victim + 1
  /\ UNCHANGED <<reportVars, body, found, sweep, disk, resolved, diskVars, error,
                 behavior, checked, phase, outcome>>

EndCanceling ==
  /\ stage = "cancel"
  /\ victim > Len(tracker)
  /\ stage' = "join"
  /\ UNCHANGED <<reportVars, bodyVars, behavior, checked, phase, victim, outcome>>

(* Join, then return false; in the sizing sweep CheckDiskSpace adds why. *)
JoinAndFail ==
  /\ stage = "join"
  /\ JoinReturns
  /\ stage' = "returned"
  /\ error' = (error \/ phase = "sizing")
  /\ UNCHANGED <<reportVars, body, found, sweep, disk, resolved, downloader, diskVars,
                 behavior, checked, phase, victim, outcome>>

SomeFailed == \E i \in DOMAIN tracker : status[tracker[i]] = "Failed"

StopOnFailure ==
  /\ stage = "examine"
  /\ SomeFailed
  /\ stage' = "returned"
  /\ error' = (error \/ phase = "sizing")
  /\ UNCHANGED <<reportVars, body, found, sweep, disk, resolved, downloader, diskVars,
                 behavior, checked, phase, victim, outcome>>

(* The sweep is over, and every entry of file_sizes is to be in the tracker *)
(* of CheckDiskSpace.                                                       *)
SizesKnown == stage = "examine" /\ ~SomeFailed /\ phase = "sizing"

Registered(t) == PathOf[t] \in DOMAIN space.files

(* One pass of the loop over file_sizes, whatever order the map has.  The   *)
(* tracker of the second pass is filled by the same loop.                   *)
RegisterPlannedFile ==
  /\ SizesKnown
  /\ \E t \in FileSizes :
       /\ ~Registered(t)
       /\ space' = RegisterPlannedDownload(space, PathOf[t], Size[t], Directories)
  /\ UNCHANGED <<reportVars, body, found, sweep, disk, resolved, downloader, planned,
                 free, crowded, overlooked, error, stageVars>>

PlanIsComplete == SizesKnown /\ \A t \in FileSizes : Registered(t)

(* CheckDiskSpace compares the sizes with the free space. *)
SpaceCheckFails ==
  /\ PlanIsComplete
  /\ \E f \in Space : ~HasEnoughSpace(space, f)
  /\ stage' = "returned"
  /\ error' = TRUE
  /\ UNCHANGED <<reportVars, body, found, sweep, disk, resolved, downloader, diskVars,
                 behavior, checked, phase, victim, outcome>>

(* The second pass has new tasks, storages, scheduler and tracker. *)
SpaceCheckPasses ==
  /\ PlanIsComplete
  /\ free' \in Space
  /\ HasEnoughSpace(space, free')
  /\ phase' = "fetching"
  /\ stage' = "report"
  /\ ReportNext(Files)
  /\ quiet' = FALSE
  /\ status' = [t \in Task |-> "Ready"]
  /\ resolved' = {}
  /\ downloader' = [s \in Storage |-> "none"]
  /\ UNCHANGED <<handler, interrupt, body, found, sweep, disk, planned, space,
                 crowded, overlooked, error, behavior, checked, victim, outcome>>

(* Another program fills a volume, or fs::space fails from now on.  That    *)
(* matters when the space is used or looked at, if more is to be written.   *)
VolumeFills ==
  /\ phase = "fetching"
  /\ body \in {"transfer", "after"}
  /\ \E v \in Mounts :
       /\ free[v] > 0 /\ space.bytes[v] > 0
       /\ free' = [free EXCEPT ![v] = 0]
  /\ crowded' = TRUE
  /\ UNCHANGED <<reportVars, body, found, sweep, disk, resolved, downloader, planned,
                 space, overlooked, error, stageVars>>

CollectPaths ==
  /\ stage = "examine"
  /\ ~SomeFailed
  /\ phase = "fetching"
  /\ stage' = "paths"
  /\ UNCHANGED <<reportVars, bodyVars, behavior, checked, phase, victim, outcome>>

(* retrievePathsFromTasks: an EP dependency has no path to retrieve. *)
PathsFound ==
  /\ stage = "paths"
  /\ \A i \in DOMAIN Files : Files[i] \in EpFiles \cup resolved
  /\ stage' = "returned"
  /\ outcome' = TRUE
  /\ UNCHANGED <<reportVars, bodyVars, behavior, checked, phase, victim>>

(* A path is missing, or an archive cannot be unpacked. *)
PathsMissing ==
  /\ stage = "paths"
  /\ \E i \in DOMAIN Files : Files[i] \notin EpFiles
  /\ stage' = "returned"
  /\ UNCHANGED <<reportVars, bodyVars, behavior, checked, phase, victim, outcome>>

StageStep ==
  \/ CheckAllTasks
  \/ CheckGivesUp
  \/ AllReported
  \/ BeginCanceling
  \/ CancelTests
  \/ CancelStores
  \/ CancelStops
  \/ EndCanceling
  \/ JoinAndFail
  \/ StopOnFailure
  \/ RegisterPlannedFile
  \/ SpaceCheckFails
  \/ SpaceCheckPasses
  \/ CollectPaths
  \/ PathsFound
  \/ PathsMissing

-----------------------------------------------------------------------------
Reporting == stage = "report"

Frame == UNCHANGED <<bodyVars, stageVars>>

WorkerLoopStep == CompletesAndWakes \/ TakesNext

Next ==
  \/ Reporting /\ RunnerStep /\ Frame
  \/ Reporting /\ WaitTimesOut /\ Frame
  \/ Reporting /\ UserContinues /\ Frame
  \/ Reporting /\ UserStops /\ Frame
  \/ stage # "returned" /\ UserInterrupts /\ Frame
  \/ WorkerLoopStep /\ Frame
  \/ VolumeFills
  \/ BodyStep
  \/ StageStep
  \/ stage = "returned" /\ UNCHANGED vars

Spec == Init /\ [][Next]_vars

(* Both threads run and a transfer returns; the wait may time out; the GUI's *)
(* handler answers by itself, the console user need not.                    *)
Fairness ==
  /\ WF_vars((Reporting /\ RunnerStep /\ Frame) \/ StageStep)
  /\ WF_vars(Reporting /\ WaitTimesOut /\ Frame)
  /\ WF_vars((WorkerLoopStep /\ Frame) \/ BodyStep)
  /\ WF_vars(Reporting /\ handler = "gui" /\ UserStops /\ Frame)

FairSpec == Spec /\ Fairness

-----------------------------------------------------------------------------
(* Properties *)

(* A stage that returns true hands over only paths of files that exist, for *)
(* every model, input and asset file: no interleaving of a cancellation with*)
(* the task's own stores makes a file that was not fetched pass for one.    *)
PathsAreOnDisk ==
  (stage = "returned" /\ outcome) =>
     \A i \in DOMAIN Files : Files[i] \in EpFiles \/ Files[i] \in disk \cap resolved

(* What has passed the check fits: after a file is fetched the rest is only *)
(* given up for want of space if another program took some meanwhile, or if *)
(* a file was fetched whose URL the plan had with another destination only. *)
(* The bytes leave the tracker's sum as they are taken from the volume, in  *)
(* whatever order files are fetched, skipped and their directories made.    *)
CheckedSpaceSuffices ==
  body = "cancel" /\ status[current] = "Completed" => crowded \/ overlooked

(* The stage ends by itself, whatever fails and whoever cancels, unless a   *)
(* console user leaves the question unanswered or an exception has lost a   *)
(* task: a cancelled task that is never called does not hold it up.         *)
StageEnds == <>(stage = "returned") \/ MayStayInLoop(MayThrow)

=============================================================================
