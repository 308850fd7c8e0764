# MLPerf Client in TLA+

A verification project for MLPerf Client 2.0 (`src/`): TLA+ modules for the parts
of the benchmark that keep state over time, TLC configurations that check them on
small instances, and proofs, checked by TLAPS, of what should hold for instances
of every size. Paths below are relative to `src/src/CIL/` unless they begin with
`gui/` or `CLI/`, which are beside it.

Contents: [the system](#the-system), [the modules](#the-modules-and-the-code),
[runs](#runs), [known behaviours](#known-behaviours), [bounds](#bounds),
[fairness](#fairness), [proofs](#proofs),
[what is not modelled](#what-is-not-modelled), [plan](#plan).

## The system

A run of the program takes every scenario of a configuration through its stages:
download, preparation, data verification, benchmark and, in the console client,
the display of the results (`benchmark/runner.cpp`). A stage that has work of some
length puts it, as callables, on a `TaskScheduler` with one worker thread, while
the thread that runs the stage (the *runner*) polls the tasks' statuses in
`BenchmarkRunner::ReportProgress` and lets a handler (console or GUI) ask the user
after an interrupt. Tasks are cancelled cooperatively: everybody writes one atomic
`status_`. A benchmark task is an executor; it drives an inference object, which
drives a vendor's library through seven entry points, in this process or in a
subprocess behind pipes. The graphical client runs the runner in threads of its
own beside an event loop.

| Component | State | Operations | Talks to | Hard behaviour | What makes it correct |
|---|---|---|---|---|---|
| `TaskScheduler` | queue, `current_task_`, `tasks_completed_`, `tasks_canceled_`, the worker | ScheduleTask, ExecuteTasksAsync, CancelTasks, Join, AreTasksCompleted, WaitForCompletionWithTimeout | its owner, its tasks | a flag stored outside the mutex, a lost notification, completion against a new task | each task once and in order; completion means quiet; a cancellation admits no further call |
| `ProgressTracker`, handlers, `ReportProgress` | index, `quiet_`, `interrupt_` | AddTask, Update, RequestInterrupt, the polling loop | scheduler, tasks, the user | three writers of the statuses, an index that runs ahead, an interrupt during the question | a stage that is reported has no task left or at work |
| `BenchmarkStage` and executors | schedulers and trackers per model, executor status, results | Run, Cancel | the above, an inference object | test-then-store on `status_`, exceptions, locals captured by reference | a success was earned; the stage ends |
| `DownloadStage`, `StorageTask`, `Storage` | tasks, storages, `downloader_`, error message, disk tracker | Run, the sizing sweep, disk check, fetch pass, Cancel | the above, Downloader, URL cache | cancellation from the worker and from the runner, a full disk, stop of a downloader that is being replaced | paths handed over exist; a checked download fits |
| `Downloader` | `stop_`, a shared byte counter, `has_failed`, the file | operator(), StopDownload | chunk threads, a progress thread | retries that take bytes back, answers longer than their range, one chunk failing | a range known to be missing is not published; a stop ends the call |
| `URLCacheManager`, size and validation caches | `url_cache.json`, two process-wide maps | AddUrlToCache, ValidateFile, ClearCache, the size cache | Storage, DownloadStage | a file rewritten in place, entries that outlive what they vouch for, versions sharing a cache | files its own URLs' transfers reported complete, of the right version |
| `DiskSpaceTracker` | bytes planned per volume, the largest file | RegisterPlannedDownload, HasEnoughSpace, MarkCompleted | DownloadStage | bytes that leave the sum and the volume at different steps | what passed the check goes on passing it |
| `Unpacker` | files, the detached extraction thread, `unpacked_files_` | UnpackFilesFromZIP, UnpackAsset | DownloadStage, PreparationStage | a time-out that leaves the thread at work, a full disk, a death in between | what is named as unpacked is whole |
| `PreparationStage`, EP dependencies, portable Python | prepared EPs, failed names, an enumeration cache and a PATH that outlive the run | Run | API_Handler, the unpacker | loops that skip and continue over six lists; conditions that are combined | only what was examined is benchmarked; an EP gets the files it needs |
| `BenchmarkRunner::Run` | stages, scenario index, error message | Run | all stages, the client's callbacks | state that stays from one scenario to the next | true means executed |
| `LLMInference`, `ImageInference`, hardware monitoring | a sampling thread, its samples, a message | Init, Prepare, Run, Reset, Deinit | API_Handler | a thread started and joined around failures | the thread does not outlive its object; a success accounts for all prompts |
| `API_Handler`, IPC `Server`/`Client` | the child process, three channels, a log reader, the library's phase | Start, Setup, EnumerateDevices, Init, Prepare, Infer, Reset, Deinit, Release, Stop | a library in a subprocess | time-outs, late answers, deaths of either side, a full log channel | answers in order; nothing left behind; Stop ends |
| IHV plugins | handles of the vendor's runtime, message, output buffer, `genai_config.json` | the seven entry points | the vendor's runtime | each call may fail in the middle; the skip of a prompt reloads | no double free, no leak, no foreign tokens, the user's file put back |
| `BenchmarkLogger`, history page | results in memory, `results.json`, the page's rows | append, read, delete rows | BenchmarkStage, GUI | rows against lines, a rewriting in place, deaths | the page shows the file; only selected results are lost |
| GUI controllers | threads, `interrupt_`, `benchmark_status_`, pages | run, stop, enumerate, clear cache, close | runner, caches, Qt's event loop | queued lambdas and blocking calls against joins | no thread destroyed at work; a run comes back |
| Command line | `interrupt_`, the options | parsing, SystemController::Config, SIGINT handler, SystemController::Run | runner | a signal at any step; options in any order, a dozen reasons not to run | each argument counts; as `ReportProgress` and `Run` |
| Configuration | models, EPs, inputs, the verdict on the file | verification, the files and directories of models, the executors | DownloadStage, BenchmarkStage, GUI | models that share files, EPs with models of their own, files that cannot be read | verified means listed; a model's files stay together; each EP runs each name once |
| Tools of agentic models | the files of a sandbox | read, write, patch, execute | Txt2TxtExecutor | calls found in free text, a failure in the middle, values of the wrong type | all calls, in order, up to the first failure |
| Results of text models | times of prompts per category | aggregation | Txt2TxtExecutor | prompts skipped, answers of a single token | every prompt counts where it belongs, or is listed as skipped |
| System information, packer | none that lasts | reading | | I/O and data | |

The hazards with their lines, and the properties that answer each, are in
`PROJECT.json`.

## The modules and the code

```
TaskScheduler            the class: operators, one per method and worker step
 ├─ TaskSchedulerClient  + an owner thread   ──implements──►  SerialExecution
 └─ ReportProgress       + tracker, handler, interrupt, polling loop
      ├─ BenchmarkStage  + executors          (…MC: instance)
      └─ DownloadStage   + storage tasks      (…MC: instance)
           └─ DiskSpace  the tracker
Downloader               one call of operator()
StorageCache             what downloads leave behind                 (…MC)
Unpacker                 archives and built-in assets
RunnerPipeline           all stages, scenario after scenario
 └─ …MC: instance; takes from EPDependencies the files an EP gets
EPDependencies ─ EPConditions    operators
InferenceRun             an executor and its inference object
IHVSubprocess            handler, child process, transport
IHVPlugins ─ IHVOrtGenAI, IHVRyzenAI, IHVWindowsML, IHVNativeQNN, IHVGGML,
 │           IHVMLX, IHVOpenVINO, IHVDiffusers    one per library
 └─ IHVObject            the inference object they share
BenchmarkController      the graphical client's threads                      (…MC)
ResultsHistory           results.json and the history page

Operators, and the module and run that compare them with a reference:
ScenarioFiles            models, their files and executors   BenchmarkStageMC
EPDependencies           what the EPs depend on              RunnerPipelineMC
CommandOptions           the start of the console client     RunnerPipelineMC
LLMTools, LLMResults     tools and numbers of a text model   InferenceRunMC
Configuration            what is read, what is offered       BenchmarkControllerMC

Proofs: BenchmarkStageProofs (and TaskSchedulerClient), DownloadStageProofs (and
DiskSpace), FileProofs (Downloader, Unpacker), StorageCacheProofs,
RunnerPipelineProofs (and EPConditions), InferenceRunProofs, IHVSubprocessProofs,
BenchmarkControllerProofs
```

**TaskScheduler** (`task_scheduler.{h,cpp}`). `queue`, `current`, `completed`,
`canceled`, `worker` are `tasks_`, `current_task_`, `tasks_completed_`,
`tasks_canceled_` and the place of the worker in `ExecuteTasks`. `started` is a
history of calls and `allowed` the calls a cancellation still admits. The worker
tests the flag and pops under `queue_mutex_` (`WorkerTakes`, one step);
`CancelTasks` does not take the mutex, so it may come between this step and the
call: state `taken`. An exception is caught by the worker, hence one
`WorkerReturns`. `TaskSchedulerClient` adds the owner: any order of calls, with
Join, the wait and its time-out as states (`ClientSpec`).

**SerialExecution** is the abstract specification: submitted tasks are called
one at a time, in the order of submission, at most once.

**ReportProgress** (`benchmark/runner.cpp:349-397`, `progress_tracker.cpp`,
`progress_tracker_handler.cpp`, `gui/gui_progress_tracker_handler.cpp`,
`CLI/main.cpp`). The runner's loop: head, sleep, wake, update, question, leave,
join. `IsOver` is the comparison of `Status` that lets the index advance. The
handler may be the console's (asks the user), the GUI's (confirms by itself) or
null. The extending modules supply the bodies of the tasks and `UNCHANGED` for
their own variables (`Frame`).

**BenchmarkStage** (`benchmark/benchmark_stage.cpp`, `llm/llm_executor.cpp`,
`llm/txt2txt_executor.cpp`). An executor's `Run` is followed load by load and
store by store where `status_` is concerned: test for cancelled, store running,
sessions with a test each, the two loads and the store at the end
(`CommitCompleted`). `Cancel` tests and stores in two steps. One group is one
model: scheduler and tracker are built, reported, joined by the destructor.
Two sets of executors say what the configuration's input files do: `Unusable` (a file
that yields no prompts, `PromptsUnusable`) and `Reserved` (a file of the category
"Overall", which can be found taken after the success was recorded: `AddOverall`,
`OverallTaken`); `MayThrow` are those an exception may leave.
`ExecutorsAssumption`: an executor belongs to one entry of one model, because the
loop creates one for each.

**DownloadStage** (`benchmark/download_stage.cpp`, `storage_task.cpp`,
`storage.cpp`). Sizing sweep, disk check, pre-check (`CheckIfTaskCanBeSkipped`),
fetch pass, path retrieval. `downloader` says of each `Storage` whether it has a
downloader yet and whether that one was told to stop. `cancelStorageTasks` goes
through the tasks one by one, from the worker or from the runner. `free` are the
volumes' free bytes: a transfer takes its own, and another program may fill a
volume (`VolumeFills`). The loop of `CheckDiskSpace` over the sizes is one
`RegisterPlannedFile` per file, in any order. Several tasks may have one URL or one
destination, whose files then have one size (`DownloadAssumption`). Sizes are kept by
URL, in each storage (`PlannedWith`) and when those are put together (`FileSizes`), so
a second destination of a URL may be missing from the plan (`Overlooked`);
`overlooked` notes that such a file was fetched.

**DiskSpace** (`disk_space_tracker.cpp`). The volume of a path is found through its
nearest existing directory and the mount table; sums and the reserve for the merge
of chunks (half of the largest file) are integers.

**Downloader** (`downloader.cpp`). One stream or a set of chunk threads; a
callback writes a piece and adds to `progress`; a failed attempt subtracts what
it added, a last one returns. An answer of status 206 ends a chunk with success
whatever its length, and the close that writes the last buffer is not tested
(`Succeeds`: `complete` or `short`). The watcher is the progress thread. The caller joins
the chunks, then the watcher, then renames.

**StorageCache** (`url_cache_manager.{h,cpp}` with the searches of `storage.cpp`
and the passes of `download_stage.cpp`). Here a pass runs its tasks one after the
other, and what lasts is in focus: `disk`, `stored` (`url_cache.json`, which may
be torn), `cache` (its copy in memory), `sizes`, `validated`. A process dies at
any step and is launched again, perhaps as another version; servers publish new
editions; a user changes or deletes files between passes. Tasks are made one
request after the other (`AddTask`), each from the cache as the ones before left it.
`CacheLocalFiles` is true, its default. A file that is written gets a fresh modification time. A
transfer that reports success has written an edition of the file or, as edition 0, an
incomplete one that the downloader took for complete (`ReportedComplete`). No guard
looks at the edition: what is recorded is the hash of what was written.

**Unpacker** (`unpacker.cpp`). A file is the sequence of its pieces, each with the
edition of the archive it is from, so that holes, mixtures and short files are told
apart. Each call of `UnpackFilesFromZIP` starts a detached thread (`workers`),
which opens the archive (`OpenArchive`, at any time after the call), then checks,
opens and writes entry by entry, falls back on the shell of Windows, and goes on
after the caller's time-out. `UnpackAsset` skips files of the right
size and those it lists. The process may die at any step.

**EPConditions, EPDependencies** (`ep_dependencies_config.cpp`,
`ep_dependencies_manager.cpp`). Operators without state: a condition is a set of
clauses (empty: always), a clause a function from keys to allowed values. `Resolve`
is `from_json`'s search over the dependencies between EPs, `FilterFiles` what is
kept for a configuration. RunnerPipelineMC compares them with a definition of what
they are for. `RunnerPipeline` has the files of an EP as the operator constant
`FilesOf`, which RunnerPipelineMC gives it from `EPDependencies`: the search is
recursive, the theorems about the pipeline hold whatever files there are.

**ScenarioFiles** (`execution_config.cpp`, `benchmark/download_stage.cpp`,
`benchmark/benchmark_stage.cpp`). What the configuration, the download and the
benchmark each make of the same models: `GetModelFiles` and `GetModelExtraFiles`,
`BuildPathToSubdirMap` with its map that a later model overwrites, and the loop that
makes an executor of every file and every EP that runs it. The models and executors of
the BenchmarkStage run are those it makes of one scenario.

**Configuration** (`execution_config.cpp`, `execution_provider_config.h`,
`model_config.cpp`, `gui/controllers/app_controller.cpp`). The verification against
files of hashes, the paths, inputs and names of EPs, and the cards of the start page: the configurations of the
BenchmarkController run.

**CommandOptions** (`command_parser.cpp`, `command_option.cpp`, `CLI/main.cpp`,
`CLI/system_controller.cpp`). An argument is its dashes and its text; `Main` gives the
first of the reasons not to run, with the exit code, or the settings of the run. The
`world` is what the program finds: files, directories, volumes. RunnerPipelineMC takes
the console's clients, values of `--device-id` and Python settings from what `Main`
makes of command lines.

**LLMTools** (`llm/llm_tools.cpp`). A text is lines of tokens, of which braces, quotes,
backslashes and fences count; what the JSON parser and the shell do is given. The
files of the sandbox are a function.

**LLMResults** (`llm/txt2txt_executor.cpp`). `RunPrompts` is the loop with its skips;
a category's numbers are the prompts they are means of.

**RunnerPipeline** (`benchmark/runner.cpp`, `benchmark/preparation_stage.cpp`,
`benchmark/data_verification_stage.cpp`, `llm/portable_python.cpp`,
`CLI/system_controller.cpp`, `gui/controllers/benchmark_controller.cpp` for its callbacks). Download and
Benchmark return what their own modules say they can; preparation is modelled loop
by loop: unsupported EPs, files of the dependencies, the Python of agentic
scenarios, libraries that load or do not, device enumeration with `--device-id`,
adjusted and valid EPs, and the enumeration cache no caller clears. The clients are
the console and the GUI, each for a full run, only dependencies or enumeration, and
the GUI's size collection.

**InferenceRun** (`llm/txt2txt_executor.cpp`, `image/txt2img_executor.cpp`,
`base_inference.cpp`, `llm/llm_inference.cpp`, `image/image_inference.cpp`,
`hardware_monitor.h`). One `RunScenario`: files, prompts, sessions, the change of
model configuration, the skip of a failed prompt with its Deinit and Init, and the
calls to a library that may refuse, log an error or go away. `monitor`, `stop`,
`collect` are the sampling thread and its two flags. An assignment to a joinable
`std::thread` ends the program, as in C++ (`outcome = "terminated"`).

**IHVSubprocess** (`api_handler.cpp`, `api_handler_ipc.cpp`,
`api_handler_ipc_posix.cpp`, `api_handler_ipc_win.cpp`). `caller` is the owner
thread in a call or in Stop, `child` the process, `library` what its calls have
made of the library, three channels between them, the log reader. On Windows the
child has to open its ends of the pipes first (`connecting`), a wait for it
succeeds also when nobody came, the log write has no limit, and a process is not
reaped. The numbers on commands are not in the code; they let the properties say
which answer belongs to which command. A frame is read or written as a whole.

**IHVObject, IHV…, IHVPlugins** (`IHV/`). For each library, what every entry point
does to the inference object: an action of `IHVPlugins` is one call in an order the
executors keep (load, Setup, EnumerateDevices, Init, Prepare, Infer, Reset, Deinit,
Release, and the reload after a skip), and `Answers(call, o)` is the set of results
the library's code can produce, with the state each leaves. `live`, `stale` and
`lost` are handles a pointer leads to, that it led to before they were destroyed,
and that nothing leads to any more; `harm` records what C++ leaves open: use or
destruction of a stale handle, an index out of range. IHVWindowsML also has the
search for devices and the assignment of models to them.

**BenchmarkController** (`gui/controllers/benchmark_controller.cpp`,
`app_controller.cpp`). The GUI thread (`gui`: in its loop, in one of four waits, in
a modal question, gone), the thread objects with their life, the member
`benchmark_thread_`, and the queue of events, among them `finished` lambdas, which
use the member instead of their own thread, and blocking queued calls, for which a
worker waits.

**ResultsHistory** (`benchmark_logger.cpp`, `gui/controllers/results_history_*`).
The file is a sequence of lines that parse or do not; a line torn by a death takes
the next result in. The loops over lines and rows are steps (`ReadLine`, `EraseRow`,
`WriteLine`), so that a death may come between two of them. `damage` keeps what the
code does not provide for: the page is `stale` from a file that could not be opened,
or a deletion that met a line without a row before its rows (`shifted`), until it is
loaded again; a `rewrite` was cut short.

A definition preceded by `(* Mutant: ... *)` is a faulty variant of the one after
it; `PROJECT.json` names, for each property, a variant that breaks it.

## Runs

| Run | Instance | Distinct states | Checks and shows |
|---|---|---|---|
| `TaskScheduler` | 3 tasks, owner calls in any order | 2 481 | `EachTaskOnceInOrder`, `CompletionMeansQuiet`, `CancelStopsCalls`; it implements `SerialExecution` (`SerialSpec`); the completion wakes a sleeper without its time-out (`SleeperIsWoken`) |
| `BenchmarkStage` | models of 2 and 1 executors: one that may throw, one with unusable prompts, one with an "Overall" file; 1 session, all handlers | 27 784 | what the loop reports agrees with what was done (`ReportedMeansDone`, `SuccessIsEarned`); the stage ends unless an executor was lost to an exception or to unusable prompts, or a question is left open (`StageEnds`); the assumptions on ScenarioFiles |
| `DownloadStage` | 3 files of two EPs' storages, two of them one URL with two destinations; one volume, 4 behaviours, exceptions, other programs filling the volume | 226 214 | `PathsAreOnDisk`; a download that passed the check is given up for space only if another program took some, or a destination the plan overlooked was written (`CheckedSpaceSuffices`); `StageEnds` |
| `Downloader` | 3 chunks of 2 pieces, bodies of up to 3, 2 attempts | 119 721 | `PartialOnlyIfUnreported`, `StopEndsDownload` |
| `StorageCache` | a remote and a local URL that share a destination, the remote one again as a versioned library; 2 versions, an edition and an incomplete file of each, 2 modifications | 7 265 070 | `OneClaimPerPath`, `SuccessMeansReceived`, `VersionedIsOurs` |
| `Unpacker` | 2 entries, one resized by a new edition, 2 calls, Windows | 1 408 562 | `UnpackedIsWhole`, but for the three mishaps it names |
| `RunnerPipeline` | 2 scenarios, 4 EPs of 3 libraries, 7 clients, 3 values of `--device-id`, 3 Python settings | 4 689 440 | `TrueMeansExecuted`, `RowsAreOfTheScenario`; the assumptions on EPDependencies and CommandOptions |
| `InferenceRun` | 2 files of 2 prompts, 3 sessions, text, agentic and image | 370 537 | `GoneMeansQuiet`, `SuccessAccounted`, `NoFaultNoCrash`, `InferOnlyWhenReady`, `RunEnds`; the assumptions on LLMTools and LLMResults |
| `IHVSubprocess` | both platforms, all three uses, 6 commands before the last round, log buffer of 1 | 1 055 519 | `AnswersInOrder`, `NothingIsLeft`, `StopEnds`, `OrphanEnds` |
| `IHVPlugins` | all ten combinations of library and kind | 208 641 | `HarmNeedsFailure`, `NothingIsLost`, `ConfigIsPutBack`, `AnswerIsOfThePrompt`, `ReloadRecovers` |
| `BenchmarkController` | 2 configurations, 3 threads | 151 570 | `CrashNeedsOverlap`, `OneWorker`, `DevicesAreItsOwn`, `StopIsObeyed`, `RunComesBack`; the assumptions on Configuration |
| `ResultsHistory` | 4 results | 30 943 | `ShownIsStored`, `OnlySelectedAreLost` |

Each module has a type invariant, `TypeOK` (`ClientTypeOK`, `UnpackerTypeOK`, `HistoryTypeOK`), that
holds of these instances (three of them are theorems, and the types the other proofs
need are the first part of their invariants); the configurations list the
properties that say more.

The assumptions of the last column compare operators with a reference definition: TLC
evaluates them, for all inputs of a small size, before it explores the states.

Notes on what some properties and assumptions mean.

*CancelStopsCalls.* `task_scheduler.h:65-71` says that `CancelTasks` cancels the
queued tasks and notifies the completion; the code only sets a flag, leaves the
tasks queued and the notification to the worker, and `ScheduleTask` clears the
flag again (`task_scheduler.cpp:38,47`). No caller schedules after a
cancellation, so the property is stated up to the next `ScheduleTask`.

*VersionedIsOurs* excepts a file that the scenario asks for twice, once as a
dependency that comes with the program and once as one that does not
(`AlsoUnversioned`): the second request is served from the cache without the check of
the version and may write its file over the first's.

*SuccessIsEarned* says of a result handed to the logger as a success that its executor
went through all its sessions and is not running, and that its status is failed only
for an executor of `Reserved`. *StageEnds* (BenchmarkStage) exempts the executors that may
throw and those of `Unusable`: both leave the status running.

*PartialOnlyIfUnreported.* A chunk thread that found the disk full, could not open the
file or saw another's failure keeps the file from being published. The three ways in
which bytes can be missing unreported are states of a thread: an answer shorter than
its range and a last buffer that was not written (`short`), and attempts that ran out
(`exhausted`).

*SuccessMeansReceived* says whose file it is, not that it is whole: what a successful
pass hands over was written by a transfer of this URL that the downloader reported as
complete, never by a user, by half a copy or for another URL. It is stated of requests
whose destination no other URL of the same scenario claims and for which a task was made. A crash while
`url_cache.json` is being rewritten leaves a file that later starts cannot parse;
the model has it (`CacheUnreadable`), and since nothing in the repository promises
to recover, no property asks for it.

*AnswersInOrder.* Since answers name no command, one that comes after its call's
time-out is taken for the next call's. The property says exactly how far behind
the answers are: as many places as calls have timed out.

*CheckedSpaceSuffices* is what the design of the tracker is for. It rests on three
steps agreeing: the file takes its bytes from the volume, `MarkCompleted` takes them
from the sum of the volume its path had when it was registered, and the reserve
stays. Directories are made between the two, which can move a path to another volume
only if the mount table changes (`VolumeIsFixed`). It speaks of what the plan has:
`file_sizes` is kept by URL, so of a URL with two destinations one is not in it. The
dependencies shipped for Windows have such a file, the RyzenAI-Runtime, which goes to
two directories. The instance is of that kind, with just the space the plan asks for: once
the second copy was fetched (`overlooked`) the library is given up.

*FailsIfCircular, NeededIsKept* (EPDependencies). Over all 19 683 graphs of dependencies of three EPs: the
resolution fails exactly for the circular ones, and over all conditions of the files
an EP gets no file it does not need, and all it needs unless it is reached in two
ways.

*FilesStayTogether, EachNameOnce* (ScenarioFiles). Over all scenarios of two models
and two EPs, one of which may have a model of its own, with every combination of
shared files: a model that shares none of its files has them in one directory, named
for it, and of two models with the same data file one does not; when the contents of
all models differ, every EP runs every name once, with the file and the tokenizer that
are its own or the scenario's.

*VerifiedIsListed, NoHashNoVerdict, CardsInOrder, PromptsAreOfTheType,
BaseDirIsPutOnce, NamesAreStable* (Configuration). Over the three verification files
of the graphical client: a configuration is verified exactly if the file for it lists
its hash, as long as the files can be read. `HasNonBasePrompts`, from which the results
are labelled, is compared with the inputs that are run; what is written of an EP and
read again is the same EP.

*EachArgumentCounts, OrderDoesNotMatter* (CommandOptions). Over all command lines of
four arguments, and of four options in every order: an argument is an option, the value
of the one before it, or an error, and no order changes what the program does.

*ObjectsEndWhereTheyClose, AllObjectsAreFound, CallsInOrder, StopsAtTheFirstFailure,
PatchesLeaveNoDiff* (LLMTools). Over all texts of six tokens, and over runs of three
tools: the scanner, with its states of strings and escapes, agrees with counting braces
that stand outside of strings; the calls found are those in the text; there is one
result per tool up to the first failure.

*EveryPromptCounts* (LLMResults). Over all runs of two prompts: each is in the numbers
of its category or in the list of those skipped.

## Known behaviours

What the models do because the code does it, and what the properties therefore
exempt, each exemption no wider than the behaviour. A reader of the code may want to
know of them.

*Tasks and stages*
* A task that throws leaves its status running and the loop polling for ever
  (`task_scheduler.cpp:93`, `benchmark/runner.cpp:358`); `StageEnds` exempts
  `MayStayInLoop`. So does an input file without prompts, or with a prompt that has no
  role: `Run` returns and leaves the status running
  (`llm/txt2txt_executor.cpp:468-473,536-541`). Without a handler nobody advances the
  index, either. An interrupt that comes during the question is cleared with it
  (`benchmark/runner.cpp:373`).
* A `Cancel` between the test of `status_` and the store of running is overwritten
  (`llm/txt2txt_executor.cpp:329-333`); `SuccessIsEarned` speaks of the sessions instead.
* A shortage of space before an EP's file sets the error message while the stage
  succeeds. A message of an earlier scenario is reported for a later one
  (`benchmark/runner.cpp:177`); a result that cannot be appended is only logged
  (`benchmark/benchmark_stage.cpp:235`).
* Results of an interrupted scenario are shown with the next (`RowsAreOfTheScenario`
  exempts `cut`). The GUI's success looks at the first result only; the console's
  exit code is 0 after any Run. EPs of types without enumeration keep their place
  whatever `--device-id` says, and `ClearDeviceEnumerationCache` has no caller.

*Configuration and command line*
* A data file that two models share goes to the directory of the last one. An EP whose
  own model differs from the scenario's only in its tokenizer, or whose file has the same
  contents, does not run that model (`FilesStayTogether`, `EachNameOnce`).
* A verification file that cannot be opened or parsed vouches for any configuration
  (`execution_config.cpp:97-115`).
* A flag takes the word after it for its value (`command_parser.cpp:67`); nothing is said
  of it. A configuration that wants its files on another volume ends the program by an
  exception (`outcome` "abort"; `CLI/system_controller.cpp:115`).

*Downloads and archives*
* A chunk that used up its attempts does not report it (`downloader.cpp:203-208`), an
  answer of status 206 is not compared with its range (`downloader.cpp:183`), and the
  close that writes its last buffer is not tested (`downloader.cpp:207`): the progress
  thread waits for ever, or the incomplete file is published
  (`PartialOnlyIfUnreported` names the three). Its hash is recorded, and every later
  check accepts it (`ReportedComplete`). What an answer longer than its range writes
  into the next one, and the length of a body in one stream, are not judged.
* The plan of a download is kept by URL (`benchmark/download_stage.cpp:372-378`): a
  second destination of a URL is not in it (`CheckedSpaceSuffices` exempts
  `overlooked`).
* A local file is recorded with size 0 (`storage.cpp:224-227`), which the next run
  takes for "locally cached" (`url_cache_manager.h:30-31`,
  `benchmark/download_stage.cpp:199`) and makes no task for.
* The disk check counts downloads, not what they unpack to. When the mount table
  cannot be read, directories stand for volumes (not modelled).
* A full disk goes unnoticed by the unpacker, in archives and in assets; the thread
  of a call that timed out goes on beside the next call's; the shell answers before
  it has copied. These are the `mishaps` of `UnpackedIsWhole`. The error a damaged
  archive gives to a read is negative, and taken for a length (`unpacker.cpp:459-463`). A new edition in which
  a file has the old size is not unpacked over it.

*Inference and libraries*
* A Deinit that fails leaves the sampling thread, over which the next Init's
  assignment ends the program (`llm/llm_inference.cpp:280`): `NoFaultNoCrash` asks for a
  fault. `SendInferCommand` waits on after its time-out (`api_handler_ipc.cpp:187`).
* WindowsML puts `genai_config.json` aside after changing it
  (`IHV/WindowsML/src/LLM/llm_inference.cpp:411`); `ConfigIsPutBack` exempts it. In
  its assignment a missing model for an NVIDIA device leaves every later device
  without one.
* RyzenAI destroys a generator twice when making the new one fails; MLX frees a model
  twice when the Init between two Deinits failed, and does not look at a null from
  its `create`; GGML and OpenVINO index a device that is not in the list
  (`HarmNeedsFailure` names all four).
* GGML and Diffusers never delete their dispatcher's structure; NativeQNN, GGML and
  MLX leave the model to a Release without Deinit (`NothingIsLost`). NativeQNN and
  the image classes of MLX and OpenVINO never clear their message, so that after a
  skip every later prompt fails (`ReloadRecovers`).
* On Windows, the wait for the child succeeds also when nobody connected.
* Conditions that exclude each other combine to "always" (proved, see
  `ExclusionMeansAlways`); an EP reached in two ways keeps the first way's condition;
  values are compared in lower case, but intersected as they are written.
* A patch removes a file of the name its diff gets, and a diff names its files from where
  the program was started. A write is not checked after it was opened. What an iteration
  of an agentic prompt left in the sandbox, the next one finds. A tool's id or type that
  is no string ends the search or the run, with what it had so far.
* One prompt with an answer of a single token takes the rate of tokens from every
  category. The success is noted before a category of the name "Overall" makes the
  executor fail (`llm/txt2txt_executor.cpp:956,1063-1071`; `SuccessIsEarned` names the
  executors), and prompts that were skipped and
  warm-ups count for whether results are verified. With every prompt skipped the mean
  duration is zero divided by zero.
* A search for Python that failed is remembered with its setting and not repeated.

*Graphical client*
* The `finished` lambdas use the member: a thread created before the lambda of the
  last one ran is deleted at work (`CrashNeedsOverlap`), or the tabs never come back.
  A window that waits for a worker in a blocking call never ends (`Stuck` in
  `RunComesBack`; `gui/controllers/benchmark_controller.cpp:203-208`).
* Deleting rows after a torn line deletes other lines; a rewriting that dies half way
  loses the rest (`damage` in ResultsHistory).

## Bounds

* *Tasks* 3: enough for an order to be wrong, for one to be popped, one queued and
  one scheduled afterwards. The theorems hold for any set.
* *Groups, `Prompts`* (BenchmarkStage). A second model exists to see state carried
  from one scheduler to the next; one session lets a cancellation come before,
  during and after it. `MayThrow`, `Unusable` and `Reserved` have one executor each.
* *Files* (DownloadStage). A runtime that two EPs name, once among the dependencies of
  EPs and once where its path is handed over, and a library. A volume that is full
  or has 4 bytes: the least that lets the download begin (2 and 1 bytes and a reserve of
  1), so that any byte counted twice, and the one overlooked, is missed. Of `deps_only_enumeration` all behaviours are among
  those of `prompt`. `VolumeFills` is only taken where the space is about to be used
  or read: earlier, it commutes with what comes between.
* *`Pieces`, `Body`, `Retries`* (Downloader). A range received not at all, half, whole,
  and an answer longer than its range; an attempt that is retried and one that is the last
  (5 in the code).
* *`MaxEdition`, `MaxClock`, `Version`* (StorageCache). The file of a URL has two
  contents, an edition and an incomplete file: hashes tell no more than that two
  contents differ, so the incomplete one stands for another edition too. (With
  `MaxEdition` = 2, 14.3 million states, the same holds.) A file written and then replaced, after it was validated; another version and back.
* *`MaxCalls`, `MaxEditions`* (Unpacker). Two threads are needed for one to overtake
  another; two editions for a file to be of the wrong one. `Resized` has one entry
  whose size gives an edition away and one whose size does not.
* *RunnerPipeline.* Two scenarios show what stays from the first; the entries are two
  of one EP that differ by device, one without a choice and one for hardware that is
  not there; the dependencies have the shape of the file the program comes with.
* *InferenceRun.* A second file for the change of the model, a second prompt for what
  a skip leaves, a third session for one before, between and after.
* *`MaxSent`* (IHVSubprocess). Commands after which neither a Prepare nor an Init
  begins: 6 gives Setup, Init, Prepare, Infer, Reset and a second round, with every
  failure and time-out on the way. `LogRoom`: one message fits, so the next blocks.
* *IHVPlugins* has no bound: the state of the objects is finite, however often a
  library is loaded.
* *`Threads`* 3 (BenchmarkController): one to be overtaken, the one that overtakes,
  and one after both. With 4 (2 011 546 states) the same holds.
* *`MaxResults`* 4 (ResultsHistory): a torn line, the one it swallows, one deleted and
  one kept.

* *Operators.* The inputs are all up to a size: six tokens hold an object in an object,
  or a string with an escape; two models, two EPs and two prompts are what sharing,
  overriding and skipping need.

No symmetry is used: the orders of tasks, files and chunks matter to the
properties, and liveness forbids it in most runs. `CHECK_DEADLOCK FALSE` is given
where the program simply ends (InferenceRun, RunnerPipeline, BenchmarkController);
elsewhere the end of a behaviour is an explicit stuttering step.

## Fairness

Weak fairness is given to what the system schedules and to nothing else.

* Worker, runner, chunk, progress and sampling threads run; a task's body returns
  because its inference or transfer does (the http client has connection and read
  time-outs; sessions are finite).
* A wait with a time-out may end by it; where a notification is the point
  (`SleeperIsWoken`), no fairness is given to the time-out.
* The GUI's handler answers an interrupt by itself. A console user owes no answer,
  and no user owes an interrupt: `MayStayInLoop` names the behaviours this leaves.
* In InferenceRun the library answers every call, one way or the other: `RunEnds` is
  about the executor. In IHVSubprocess nothing is asked of the library: it may never
  return, never log or never stop logging; both processes and the log reader run and
  time-outs pass.
* In BenchmarkController threads and the event loop run, and a modal question, which
  blocks the window, is answered. Nothing else is asked of the user.

Safety runs for which no liveness is stated use `Spec` alone.

## Proofs

Eight modules hold proofs. The constants are arbitrary but for the named assumption
of the module, which TLC evaluates in its run.

| Module, theorem | States |
|---|---|
| `BenchmarkStageProofs` `ClientTypeCorrect`, `TasksCalledOnceInOrder`, `CompletionIsQuiet`, `CancellationStopsCalls`, `ImplementsSerialExecution` | the safety of `TaskSchedulerClient`, and its refinement of `SerialExecution`, for every set of tasks |
| `BenchmarkStageProofs` `TypeCorrect`, `ReportIsTrue`, `SuccessNeedsAllSessions` | `[]TypeOK`, `[]ReportedMeansDone`, `SuccessIsEarned`, for any models, executors and sessions |
| `DownloadStageProofs` `PathsHandedOverExist` | `[]PathsAreOnDisk`, for any files, storages, paths and behaviours |
| `DownloadStageProofs` `SpaceOnceCheckedSuffices` | `[]CheckedSpaceSuffices`, for any files, URLs, destinations, sizes, volumes and orders of registration, transfer and skipping |
| `DownloadStageProofs` `VolumeIsFixed` | the volume found for a destination does not depend on the directories made meanwhile |
| `DownloadStageProofs` `CompletionKeepsSpace` | a file that fits takes its bytes from the volume and from the sum, and a requirement that was met is met after it |
| `FileProofs` `ReportedIsNotPublished` | `[]PartialOnlyIfUnreported`, for any chunks, pieces, bodies and attempts |
| `FileProofs` `NamedIsWhole` | `[]UnpackedIsWhole`, for any entries, sizes, editions and calls, on every platform |
| `StorageCacheProofs` `ClaimsAreUnique`, `SuccessIsReceived`, `OwnDependencies` | the safety of the run, for any URLs, paths, scenarios, editions and versions |
| `RunnerPipelineProofs` `TrueIsExecuted`, `RowsShownOnce` | the safety of the run, for any scenarios, EPs, devices, libraries and files of dependencies |
| `RunnerPipelineProofs` `CombinedMeansBoth`, `ExclusionMeansAlways` | what `CombineConditions` means, for all conditions, keys, values and spellings; where both conditions are assumed to match, only if they spell shared values alike |
| `InferenceRunProofs` `TypeCorrect`, `NoThreadLeft`, `SuccessIsAccounted`, `CancelIsBounded`, `NoCrashWithoutFault`, `InfersWhenReady` | the safety of the run, and at most one inference after a cancellation, for any files, prompts and sessions |
| `IHVSubprocessProofs` `AnswersStayInOrder`, `StopLeavesNothing` | the safety of the run, for both transports, any number of commands and any room for logs |
| `BenchmarkControllerProofs` `CrashOnlyByOverlap`, `OneWorkerAtATime`, `EntriesAreTheirOwn`, `StopRequestsAreObeyed` | its safety properties, for any configurations and threads |
| `BenchmarkControllerProofs` `ShownRowsAreStored`, `UnselectedAreKept` | the safety of `ResultsHistory`, for any number of results |

The arguments.

*TaskScheduler.* `ClientInv` is the types, `EachTaskOnceInOrder`, `CompletionMeansQuiet`
and `PendingCallsAllowed`. `CancelStopsCalls` is not inductive: with a popped task
and the calls at the limit, the next call breaks it; `PendingCallsAllowed` counts the
popped task too. The refinement maps every step to a step of `SerialExecution` or to
a stutter.

*BenchmarkStage.* What ReportProgress sees is the tracker's index, what was done is in
the scheduler; the invariant ties them. `CallsInOrder`: tracker = called, popped and
queued, in this order. `Phases`: until the group was stopped, everything the index has
passed is over and stays over, the runner joins only when the index has reached the
end, and cancellations come only after the stop. `NotCalledYet` and `BodyAgrees`: what
a status may be before the call and at each place inside it, so that an executor that
is over has returned from its call or is about to. Since a success is only recorded
with `left = 0`, the sessions follow from `BodyAgrees` at the last load; and after a
success was recorded the running executor's status is stored only by a cancellation or
by `OverallTaken`, so `BodyAgrees` has failed beside success for `Reserved` alone.

*DownloadStage.* A path is set only with its file, no file goes, and the runner
forgets paths between passes only; so what holds when the outcome becomes true stays.
This holds with no assumption on who cancels whom and when.

*DiskSpace.* `VolumeIsFixed`: mount points are directories, so the longest one above a
path is above the nearest directory that exists, whatever that is; registration,
transfer and completion mean the same volume. `RequirementSinks` is the arithmetic:
with the reserve unchanged, the sum sinks by what the volume lost; `CompletedBytes`
says that only the file's volume is touched.

*DownloadStage, the space.* `CheckedSpaceSuffices` needs to know what is in the sum,
but no sum: `SpaceInv` says that every volume has what is required of it at each
place of the pass, less the running file's bytes between the transfer that takes them
and the `MarkCompleted` that removes them (`SpaceHolds`), as long as `crowded` is
false. For the step, the file just completed must be one the tracker counts, which
takes that a task is completed in the second pass only after a transfer (`Calls`,
`Fetched`), that the tracker has exactly the files that were sized and are not yet
there, but for those overlooked (`Sized`, `PlanAgrees`), and that the sweep leaves no
task out when it reports success (`NothingLeftOut`). A URL that was sized by any storage
is in `FileSizes`, with the destination of the first storage that sized it, a minimum
that exists because storages are numbered; every other destination is overlooked, or
the same. A file of no bytes is in no sum. That a finite set of
mount points has a longest one is proved by well-founded induction on a set
(`LargestExists`, from `WFMin`).

*Downloader.* `Accounted`: a thread that gave up for a reason the code reports
(`dropped`) leaves `has_failed` set, whoever set it; the
caller goes on only after all have returned; the file is published only without
`has_failed`. The type of the counter is
left out: that it is never negative takes a sum over the threads.

*Unpacker.* `UnpackGood` holds as long as none of the three mishaps has happened. Then
only the thread of the last call works (`Threads`: a call made while an earlier
one's thread works is a mishap); once it has opened the archive (`Reading`) it reads the
edition the call will be judged by; a file that is not whole is of one edition and
shorter than that edition has it (`Begun`), so the test of sizes by which an entry is
skipped takes no rest of a dead run for a file; the worker has everything before its
place whole and of its place the pieces it counts (`Unpacked`); and the answer is what
the worker had (`Told`). `WholeAs` speaks of some edition of the same size, because
the code skips by size.

*StorageCache.* `Sound` is what holds whatever happens, in the middle of a pass, after
a death and after any meddling: one claim per path; times of files and of the
validation cache are not later than the clock (`Dated`); an entry's hash is that of what a
reported transfer of its URL left, and of what the named version has fetched (`Honest`, of memory and of
`url_cache.json`); a yes of the validation cache is of a file that still has the
content, as long as it has the time (`Remembered`, which needs `Dated`: a file that is
written again has a new time). `PassAgrees` is the pass: every request of the scenario
is still to be done, was omitted, or is done, and what is done stays so while the
others are written, unless one contests the path. The proof of `OwnDependencies`
failed at first for a request made with and without the check of the version, and TLC
reached the state: this is the exception above.

*RunnerPipeline.* `Where` ties the place in a stage to the stage, `PythonFirst` says
that an agentic scenario past its preparation has the Python of the setting and that
what PATH holds is a place where the search looks; `Done` that without an error every
scenario before this one was executed, and this one when past the Benchmark stage.
That no row is shown twice needs both ends: the rows the logger holds are of this
scenario or of one that was cut short (`Pending`), the rows shown are of earlier ones
and are held no longer (`Past`).

*InferenceRun.* The invariant is a conjunction with a part per property: what is
loaded wherever the run goes on to use it (`LibraryInv`, with `Told`: or the object
has a message that stops it), the account of prompts before the place where the run is
(`AccountInv`), the place after a cancellation (`LateInv`), and that without a fault
the thread exists exactly between an Init and the next Deinit (`FaultInv`).

*IHVSubprocess.* Commands that wait, the one at work and answers that wait are the last
ones sent, one by one (`Numbered`); between calls they are as many as calls have timed
out. Together this says which command the next answer belongs to. `Answered` keeps it
when the child has gone and its answers are still in the channel. `Places` ties the
child, the reader and the steps of Stop: the reader is joined before the child is
waited for, and every way through Stop ends with the child reaped.

*BenchmarkController.* `CoreInv` is the core types and `~replaced => Orderly`: the
member holds the only thread that runs, and there is one `finished` lambda in the
queue, for an ended member. The theorem is conditional on `~replaced` because the code
is: once the member is overwritten before the lambda ran, `Orderly` fails for good.
`Enumeration` counts the entries an enumeration pushes against those it skipped.
`StopInv` needs no such condition: a thread has one lambda (`Born`); the window shows
its tabs only when no run is at work or still to be reported (`Settled`), so that the
two places that clear the interrupt, both reached from the tabs, find no worker that
was asked to stop (`Heard`).

*ResultsHistory.* What the page shows is a filter of the file, which is a recursive
function; `Lists` says the same without one: an increasing map from the rows onto the
lines that parse. Each loop then changes the map by a place: one more
(`OneMorePlace`, a line read or written), one less (`OnePlaceLess`, a row erased), and
the rows through the lines that were copied (`PlacesAmongPlaces`, the end of a
rewriting). `FirstPlacesAreTheirOwn` is why a deletion by index is right: when all
lines up to a row's index parse, the row is that line's. It needs the rows erased from
the greatest down, and `PageAgrees` says so between two of them: every row still to be
erased is before those that were. `NoOtherLost` follows a result from the file to the
lines still to be written, and needs `PageAgrees` for the step that chooses the lines.

*EPConditions.* A clause of the combination is the merge of a pair, which matches when
both do; the case `combination = {}` needs its own theorem because the empty set of
clauses means "always". That a match of the combination is a match of both holds however
values are spelled. The converse does not: the combination intersects values as they are
written, and the match compares them in lower case, so it is stated of conditions that
spell their shared values alike (`SpelledAlike`), as those of the shipped dependencies do;
RunnerPipelineMC evaluates it for the conditions of the run
(`ConditionsSpelledAlike`), whose configurations are spelled otherwise.

Only model-checked:

* all liveness: fairness and `ENABLED` are beyond the prover;
* the libraries: the run has no parameter but the library, and TLC covers all ten;
* the search over the dependencies, which is recursive, over bounded inputs. What a
  recursively defined function computes over all data would need induction rules with
  operator parameters, which the prover cannot instantiate.

## What is not modelled

* *Data*: prompts, tokens, the arithmetic of timings, hashes, formatting and logs. A file
  is its URL and edition, or junk; a hash agrees exactly when contents do.
* *Schemas, the parsing of JSON, the data of scenarios, system information, performance
  counters, the dependency packer*: lookups and reads without state that lasts.
* *Torn shared pointers*: `Storage::downloader_` is written and read without
  synchronisation (`storage.cpp:208`); the model gives the reader the old or the new
  one.
* *Downloads*: the fall-back from one GitHub URL to another, proxies, size requests,
  `collect_file_sizes_and_prompt` in DownloadStage; `CacheLocalFiles = false`; a
  mount table that cannot be read.
* *Transport*: partial frames (a `ReadMessage` that times out between an answer's
  header and its body), the unloading of DLLs, job objects.
* *Unpacker*: `ZipFiles`, `SetDepsDir` but for its failure across volumes
  (CommandOptions), and the arithmetic of the size limit.
* *EP dependencies*: validation by the schema; the subdirectories of a dependency are a
  parameter of ScenarioFiles.
* *Tools of agentic models*: what a command does and how long it takes, and the repair of
  the portable Python's links; in the pipeline there is only whether the interpreter is
  found.
* *Libraries*: what is inside the vendors' runtimes, WindowsML's catalogue of
  packages, the Python scripts of Diffusers.
* *GUI*: pages and widgets without threads. *Console drawing*: the console mutex is
  only tried by the logging threads, so it blocks nobody.

## Plan

Done: every module above, in the order of the table of the system.

What would add most next:

1. An abstract specification of a download ("published whole or not at all, after a
   stop or a failure") for Downloader, and one of a request/answer channel for
   IHVSubprocess, with their refinements.
2. Theorems: `AnswerIsOfThePrompt` library by library.
3. Frames in IHVSubprocess, for a time-out that takes an answer's header.
