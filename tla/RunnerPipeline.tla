---------------------------- MODULE RunnerPipeline ----------------------------
(***************************************************************************)
(* BenchmarkRunner::Run: every scenario of a configuration goes through    *)
(* the stages Download, Preparation, DataVerification, Benchmark and, in   *)
(* the console client, DisplayResult. The client's callbacks decide whether*)
(* a stage is entered and whether the scenario survives its failure.       *)
(*                                                                         *)
(* Download and Benchmark are what DownloadStage and BenchmarkStage say    *)
(* they return. PreparationStage is modelled in full: it turns the EPs of  *)
(* the configuration into the list the Benchmark stage makes its tasks     *)
(* from, with the help of an enumeration cache that outlives the run.      *)
(***************************************************************************)
EXTENDS Integers, FiniteSets, Sequences

CONSTANTS
  Scenarios,  (* number of scenarios                                       *)
  Entries,    (* the EPs of a scenario: a sequence of [name, backend,      *)
              (* library, chooses, device, config]; chooses: an EP of the  *)
              (* types whose devices are enumerated for a benchmark too    *)
  FilesOf(_), (* the files the EPDependenciesManager keeps for an EP       *)
  Built,      (* the <<name, backend>> the program was built with          *)
  Vendors,    (* whose hardware there is                                   *)
  Agentic,    (* the scenarios that need a Python                          *)
  PythonPaths,(* the settings of PythonPath to consider                    *)
  MaxDevices, (* bound: devices a library may enumerate                    *)
  Clients,    (* the clients of the run                                    *)
  Overrides   (* values of --device-id; Unset when it is not given         *)

Unset == -2
All == -1

ASSUME PipelineAssumption ==
  /\ Scenarios \in Nat \ {0}
  /\ MaxDevices \in Nat
  /\ Clients \subseteq {"cli", "cliDeps", "cliEnumerate", "gui", "guiDeps",
                        "guiEnumerate", "guiSizes"}
  /\ Overrides \subseteq {Unset, All} \cup Nat
  /\ Agentic \subseteq 1 .. Scenarios
  /\ PythonPaths \subseteq STRING

VARIABLES
  client,     (* who runs the runner, and for what                         *)
  override,   (* device_id_                                                *)
  scenario,   (* i                                                         *)
  stage,      (* position in stage_order_                                  *)
  pc,         (* where the stage is                                        *)
  wasError,   (* was_error                                                 *)
  outcome,    (* "none", then what Run returned, or "thrown"               *)
  message,    (* the scenario whose message the Download stage keeps, or 0 *)
  interrupt,  (* interrupt_                                                *)
  prepared,   (* scenario_data.prepared_eps: <<entry, device>>             *)
  lists,      (* prepared_eps_                                             *)
  names,      (* prepared_ep_names_                                        *)
  failed,     (* failed_ep_names_                                          *)
  libraries,  (* eps_libraries_ not examined yet                           *)
  library,    (* the one PrepareIHVDevicesIfNeeded examines; between its   *)
              (* calls the first                                           *)
  next,       (* next entry of a loop over entries or prepared EPs         *)
  adjusted,   (* adjusted_eps                                              *)
  valid,      (* valid_eps                                                 *)
  cache,      (* the enumeration cache: devices by library, or Unset       *)
  pythonPath, (* the setting of PythonPath                                 *)
  python,     (* the statics of portable_python.cpp                        *)
  tasks,      (* positions in prepared whose executor has not been called  *)
  executed,   (* scenarios whose task_executed was set                     *)
  results,    (* results_ of the logger                                    *)
  shown,      (* what DisplayResult showed: [scenario, rows]               *)
  success,    (* the GUI's status.success_                                 *)
  cut         (* scenarios whose Benchmark stage was interrupted           *)

pythonVars == <<pythonPath, python>>
prepareVars == <<names, failed, libraries, library, next, adjusted, valid, cache,
                 pythonVars>>
runVars == <<client, override, scenario, outcome, lists>>
stageVars == <<stage, pc, wasError, success>>
resultVars == <<executed, results, shown, cut>>
vars == <<runVars, stageVars, message, interrupt, prepared, prepareVars, tasks,
          resultVars>>

Entry == 1 .. Len(Entries)
Name == {Entries[e].name : e \in Entry}
Library == {Entries[e].library : e \in Entry}

CommandLine == client \in {"cli", "cliDeps", "cliEnumerate"}
EnumerateOnly == client \in {"cliEnumerate", "guiEnumerate"}
DepsOnly == client \in {"cliDeps", "guiDeps"}

StageOrder ==
  <<"Download", "Preparation">>
    \o (IF EnumerateOnly THEN << >> ELSE <<"DataVerification", "Benchmark">>)
    \o (IF CommandLine THEN <<"DisplayResult">> ELSE << >>)

TypeOK ==
  /\ client \in Clients /\ override \in Overrides
  /\ scenario \in 1 .. Scenarios /\ stage \in 1 .. Len(StageOrder)
  /\ pc \in {"enter", "Download", "Preparation", "libraries", "devices",
             "entries", "DataVerification", "Benchmark", "tasks", "DisplayResult",
             "over", "done"}
  /\ wasError \in BOOLEAN
  /\ outcome \in {"none", "true", "false", "thrown"}
  /\ message \in 0 .. Scenarios
  /\ interrupt \in BOOLEAN
  /\ names \in [Name -> Int] /\ failed \subseteq Name
  /\ libraries \subseteq Library /\ library \in Library
  /\ next \in Nat /\ valid \in Nat
  /\ cache \in [Library -> {Unset} \cup 0 .. MaxDevices]
  /\ pythonPath \in PythonPaths
  /\ tasks \subseteq 1 .. Len(prepared)
  /\ executed \subseteq 1 .. Scenarios /\ cut \subseteq 1 .. Scenarios
  /\ success \in BOOLEAN

-----------------------------------------------------------------------------
(* EnsurePortablePythonOnPath (src/CIL/llm/portable_python.cpp): the search *)
(* for the interpreter an agentic scenario runs its tools with, and the    *)
(* PATH of the process. A directory is the sequence of its names; a setting *)
(* is "" for the bundled Python, "system", or a directory's name.          *)

NoDirectory == << >>

(* The statics of the functions: applied_dir, ok, whether base holds the   *)
(* PATH of the start, and the directory that stands before it.             *)
FreshPython == [applied |-> "none", ok |-> FALSE, snapshot |-> FALSE,
                prefix |-> NoDirectory]

(* Where the interpreter may be. The bundled one was unpacked next to the  *)
(* scenario's first input or a directory above.                            *)
Candidates(setting) ==
  IF setting # "" THEN <<<<setting>>, <<setting, "python">>>>
  ELSE <<<<"beside", "python">>, <<"above", "python">>>>

(* The first of them that holds one.                                       *)
FindPythonDir(setting, present) ==
  LET held == {c \in {1, 2} : Candidates(setting)[c] \in present}
  IN  IF held = {} THEN NoDirectory
      ELSE Candidates(setting)[CHOOSE c \in held : \A d \in held : c <= d]

(* PATH is put together from what it was at first; the system may refuse.  *)
PrependToPath(statics, directory, works) ==
  IF directory = NoDirectory /\ ~statics.snapshot THEN [statics EXCEPT !.ok = TRUE]
  ELSE [statics EXCEPT !.snapshot = TRUE,
                        !.ok = works,
                        !.prefix = IF works THEN directory ELSE @]

(* Nothing is looked for again while the setting stays the same, whether it *)
(* was found or not. present are the directories that hold an interpreter. *)
EnsurePortablePythonOnPath(statics, setting, present, works) ==
  LET found   == FindPythonDir(setting, present)
      applied == [statics EXCEPT !.applied = setting]
  IN  IF statics.applied = setting THEN statics
      ELSE IF setting = "system" THEN PrependToPath(applied, NoDirectory, works)
      ELSE IF found = NoDirectory THEN [applied EXCEPT !.ok = FALSE]
      ELSE PrependToPath(applied, found, works)

-----------------------------------------------------------------------------
(* What an earlier run of the process enumerated and put on the PATH: the  *)
(* console client has none, the user of the GUI changes the setting.       *)
EarlierCaches ==
  IF CommandLine THEN {[l \in Library |-> Unset]} ELSE [Library -> {Unset, MaxDevices}]

EarlierPythons ==
  {FreshPython} \cup
  IF CommandLine THEN {}
  ELSE {EnsurePortablePythonOnPath(FreshPython, run[1], run[2], TRUE) :
          run \in PythonPaths \X {{}, {<<"above", "python">>}}}

Init ==
  /\ client \in Clients
  /\ override \in IF CommandLine /\ client # "cliDeps" THEN Overrides ELSE {Unset}
  /\ scenario = 1 /\ stage = 1 /\ pc = "enter"
  /\ wasError = FALSE /\ outcome = "none" /\ message = 0
  /\ interrupt = FALSE
  /\ prepared = << >> /\ lists = << >>
  /\ names = [n \in Name |-> 0] /\ failed = {}
  /\ libraries = {} /\ library = Entries[1].library
  /\ next = 1 /\ adjusted = << >> /\ valid = 0
  /\ cache \in EarlierCaches
  /\ pythonPath \in PythonPaths /\ python \in EarlierPythons
  /\ tasks = {}
  /\ executed = {} /\ results = << >> /\ shown = << >>
  /\ success = TRUE /\ cut = {}

-----------------------------------------------------------------------------
(* The loops over scenarios and stages *)

StageName == StageOrder[stage]

(* A configuration of the GUI has one scenario.                            *)
LastScenario == IF CommandLine THEN Scenarios ELSE 1

(* The clients' callbacks.                                                 *)
MayEnter ==
  /\ StageName = "Preparation" => ~DepsOnly
  /\ client = "guiSizes" => StageName = "Download"

SurvivesFailure == StageName = "DataVerification"

EnterStage ==
  /\ pc = "enter"
  /\ pc' = IF MayEnter THEN StageName ELSE "over"
  /\ wasError' = (wasError \/ ~MayEnter)
  /\ UNCHANGED <<runVars, stage, success, message, interrupt, prepared, prepareVars,
                 tasks, resultVars>>

(* The stage has returned ok.                                              *)
Leave(ok) ==
  IF ok \/ SurvivesFailure
  THEN /\ IF stage < Len(StageOrder)
          THEN pc' = "enter" /\ stage' = stage + 1
          ELSE pc' = "over" /\ UNCHANGED stage
       /\ UNCHANGED <<wasError, success>>
  ELSE /\ pc' = "over" /\ wasError' = TRUE /\ success' = FALSE
       /\ UNCHANGED stage

(* The end of a scenario, and of the run. The GUI asks for the first       *)
(* result, unless it only downloaded.                                      *)
EndScenario ==
  /\ pc = "over"
  /\ lists' = IF EnumerateOnly THEN Append(lists, prepared) ELSE lists
  /\ prepared' = << >>
  /\ stage' = 1
  /\ IF scenario < LastScenario
     THEN /\ scenario' = scenario + 1 /\ pc' = "enter"
          /\ UNCHANGED <<outcome, success>>
     ELSE /\ pc' = "done"
          /\ outcome' = IF wasError THEN "false" ELSE "true"
          /\ success' = IF client = "gui"
                        THEN ~wasError /\ results # << >> /\ results[1].ok
                        ELSE success
          /\ UNCHANGED scenario
  /\ tasks' = {} /\ names' = [n \in Name |-> 0] /\ failed' = {}
  /\ UNCHANGED <<client, override, wasError, message, interrupt, libraries, library,
                 next, adjusted, valid, cache, pythonVars, resultVars>>

(* An exception leaves the run; the clients catch it.                      *)
Throw ==
  /\ pc \notin {"enter", "over", "done"}
  /\ pc' = "done" /\ outcome' = "thrown" /\ success' = FALSE
  /\ UNCHANGED <<client, override, scenario, lists, stage, wasError, message, interrupt,
                 prepared, prepareVars, tasks, resultVars>>

-----------------------------------------------------------------------------
(* Interrupts. ReportProgress asks in the stages with a scheduler; the     *)
(* console user may go on, and the flag stays set when he does not.        *)

Interrupt ==
  /\ pc # "done" /\ ~interrupt
  /\ interrupt' = TRUE
  /\ UNCHANGED <<runVars, stageVars, message, prepared, prepareVars, tasks, resultVars>>

UserContinues ==
  /\ pc \in {"Download", "tasks"} /\ CommandLine
  /\ interrupt
  /\ interrupt' = FALSE
  /\ UNCHANGED <<runVars, stageVars, message, prepared, prepareVars, tasks, resultVars>>

-----------------------------------------------------------------------------
(* Download and DataVerification *)

(* A failure may be an interrupt. A message is kept for a full disk, which *)
(* need not fail the stage (see DownloadStage), and is never cleared.      *)
Download ==
  /\ pc = "Download"
  /\ message' \in {message, scenario}
  /\ \E ok \in BOOLEAN : Leave(ok)
  /\ UNCHANGED <<runVars, interrupt, prepared, prepareVars, tasks, resultVars>>

DataVerification ==
  /\ pc = "DataVerification"
  /\ \E ok \in BOOLEAN : Leave(ok)
  /\ UNCHANGED <<runVars, message, interrupt, prepared, prepareVars, tasks, resultVars>>

-----------------------------------------------------------------------------
(* PreparationStage::Impl *)

NeedsPython == ~EnumerateOnly /\ scenario \in Agentic

(* Agentic scenarios need a Python first.                                  *)
BeginPreparation ==
  /\ pc = "Preparation"
  /\ names' = [n \in Name |-> 0] /\ failed' = {} /\ libraries' = {}
  /\ next' = 1
  /\ IF NeedsPython
     THEN \E works \in BOOLEAN :
          \E present \in SUBSET {Candidates(pythonPath)[c] : c \in {1, 2}} :
            python' = EnsurePortablePythonOnPath(python, pythonPath, present, works)
     ELSE UNCHANGED python
  /\ IF NeedsPython => python'.ok
     THEN pc' = "entries" /\ UNCHANGED <<stage, wasError, success>>
     ELSE Leave(FALSE)
  /\ UNCHANGED <<runVars, message, interrupt, prepared, library, adjusted, valid, cache,
                 pythonPath, tasks, resultVars>>

(* The vendor whose hardware an EP, or one of its backends, is made for.   *)
VendorOf(name, backend) ==
  CASE name = "OrtGenAI-RyzenAI"                       -> "AMD"
    [] name = "llama-cpp" /\ backend = "cuda"          -> "NVIDIA"
    [] name = "llama-cpp" /\ backend = "rocm"          -> "AMD"
    [] name = "Diffusers" /\ backend = "cuda"          -> "NVIDIA"
    [] name = "Diffusers" /\ backend = "ryzenai"       -> "AMD"
    [] OTHER                                           -> "any"

MadeForThisHardware(name, backend) ==
  VendorOf(name, backend) \in Vendors \cup {"any"}

(* Two EPs are built backend by backend; without a backend they are taken  *)
(* as they are. For the others what follows the name does not matter.      *)
IsEpSupportedOnThisPlatform(e) ==
  /\ \E b \in Built : b[1] = e.name
  /\ IF e.name \in {"llama-cpp", "Diffusers"}
     THEN e.backend # "" => /\ <<e.name, e.backend>> \in Built
                            /\ MadeForThisHardware(e.name, e.backend)
     ELSE MadeForThisHardware(e.name, "")

(* The manager is told the configurations of all the entries of an EP.     *)
ConfigsOf(name) == {Entries[e].config : e \in {d \in Entry : Entries[d].name = name}}

(* Before an EP is prepared, its files must be there.                      *)
PrepareDependenciesForEP(files, there) == files \subseteq there

(* An EP that is not supported, or whose dependencies or library are not   *)
(* there, is skipped.                                                      *)
PrepareEntry ==
  /\ pc = "entries" /\ next <= Len(Entries)
  /\ next' = next + 1
  /\ LET e == Entries[next] IN
     \E there \in SUBSET FilesOf(e.name), loads \in BOOLEAN :
     \/ /\ IsEpSupportedOnThisPlatform(e)
        /\ PrepareDependenciesForEP(FilesOf(e.name), there) /\ loads
        /\ prepared' = Append(prepared, <<next, e.device>>)
        /\ names' = [names EXCEPT ![e.name] = @ + 1]
        /\ libraries' = libraries \cup {e.library}
        /\ UNCHANGED failed
     \/ /\ \/ ~IsEpSupportedOnThisPlatform(e)
           \/ ~PrepareDependenciesForEP(FilesOf(e.name), there)
           \/ ~loads
        /\ failed' = failed \cup {e.name}
        /\ UNCHANGED <<prepared, names, libraries>>
  /\ UNCHANGED <<runVars, stageVars, message, interrupt, library, adjusted, valid,
                 cache, pythonVars, tasks, resultVars>>

EndEntries ==
  /\ pc = "entries" /\ next > Len(Entries)
  /\ pc' = "libraries" /\ next' = 1
  /\ UNCHANGED <<runVars, stage, wasError, success, message, interrupt, prepared, names,
                 failed, libraries, library, adjusted, valid, cache, pythonVars, tasks, resultVars>>

Of(list, l) == {i \in 1 .. Len(list) : Entries[list[i][1]].library = l}
NameAt(list, i) == Entries[list[i][1]].name

(* mark_ihv_eps_as_failed looks through the list of prepared EPs.          *)
MarkFailed(list, l) ==
  /\ names' = [n \in Name |->
       names[n] - Cardinality({i \in Of(list, l) : NameAt(list, i) = n})]
  /\ failed' = failed \cup {NameAt(list, i) : i \in Of(list, l)}

ChoosesDevices(l) == \E e \in Entry : Entries[e].library = l /\ Entries[e].chooses

(* The libraries whose EPs choose among devices are enumerated; the others *)
(* only on an enumeration, and cannot follow --device-id.                  *)
TakeLibrary ==
  /\ pc = "libraries" /\ libraries # {}
  /\ \E l \in libraries :
       /\ IF ChoosesDevices(l) \/ EnumerateOnly
          THEN /\ pc' = "devices" /\ library' = l /\ next' = 1 /\ adjusted' = << >> /\ valid' = 0
               /\ UNCHANGED <<libraries, names, failed>>
          ELSE /\ libraries' = libraries \ {l}
               /\ IF override # Unset THEN MarkFailed(prepared, l)
                  ELSE UNCHANGED <<names, failed>>
               /\ UNCHANGED <<pc, library, next, adjusted, valid>>
  /\ UNCHANGED <<runVars, stage, wasError, success, message, interrupt, prepared, cache,
                 pythonVars, tasks, resultVars>>

InRange(id, found) == id >= 0 /\ id < found

(* What one prepared EP becomes when its library has found some devices:   *)
(* one entry per device, the device asked for, or nothing.                 *)
Adjusted(e, device, found) ==
  IF (device < 0 /\ override = Unset) \/ override = All
  THEN [d \in 1 .. found |-> <<e, d - 1>>]
  ELSE LET id == IF override # Unset THEN override ELSE device IN
       IF InRange(id, found) THEN <<<<e, id>>>> ELSE << >>

(* The cached devices, or those the library enumerates now; an enumeration *)
(* that fails is not cached and drops the EP.                              *)
ExamineEP ==
  /\ pc = "devices" /\ next <= Len(prepared)
  /\ next' = next + 1
  /\ LET e == prepared[next][1]  device == prepared[next][2] IN
     IF Entries[e].library # library
     THEN adjusted' = Append(adjusted, prepared[next]) /\ UNCHANGED <<cache, valid>>
     ELSE \E found \in IF cache[library] # Unset THEN {cache[library]}
                       ELSE {Unset} \cup 0 .. MaxDevices :
            IF found = Unset THEN UNCHANGED <<adjusted, valid, cache>>
            ELSE /\ cache' = [cache EXCEPT ![library] = found]
                 /\ adjusted' = adjusted \o Adjusted(e, device, found)
                 /\ valid' = valid + Len(Adjusted(e, device, found))
  /\ UNCHANGED <<runVars, stageVars, message, interrupt, prepared, names, failed,
                 libraries, library, pythonVars, tasks, resultVars>>

(* prepared_eps_ is replaced before the caller marks the EPs of a library  *)
(* without a valid one as failed, so it finds none of them.                *)
EndLibrary ==
  /\ pc = "devices" /\ next > Len(prepared)
  /\ pc' = "libraries"
  /\ prepared' = adjusted
  /\ libraries' = libraries \ {library}
  /\ IF EnumerateOnly \/ valid > 0 THEN UNCHANGED <<names, failed>>
     ELSE MarkFailed(adjusted, library)
  /\ library' = Entries[1].library
  /\ next' = 1 /\ adjusted' = << >> /\ valid' = 0
  /\ UNCHANGED <<runVars, stage, wasError, success, message, interrupt, cache,
                 pythonVars, tasks, resultVars>>

EndPreparation ==
  /\ pc = "libraries" /\ libraries = {}
  /\ Leave(EnumerateOnly \/ \E n \in Name : names[n] > 0)
  /\ UNCHANGED <<runVars, message, interrupt, prepared, prepareVars, tasks, resultVars>>

-----------------------------------------------------------------------------
(* Benchmark *)

(* A task for every prepared EP that can execute the model.                *)
MakeTasks ==
  /\ pc = "Benchmark"
  /\ pc' = "tasks"
  /\ tasks' \in SUBSET (1 .. Len(prepared))
  /\ UNCHANGED <<runVars, stage, wasError, success, message, interrupt, prepared,
                 prepareVars, resultVars>>

(* BenchmarkTask: the next executor is called, its result appended. One    *)
(* that cannot be written is lost.                                         *)
CallTask(ok) ==
  \E i \in tasks, appended \in BOOLEAN :
    /\ \A j \in tasks : i <= j
    /\ tasks' = tasks \ {i}
    /\ executed' = executed \cup {scenario}
    /\ results' = IF appended
                  THEN Append(results, [scenario |-> scenario, task |-> i, ok |-> ok])
                  ELSE results

RunTask ==
  /\ pc = "tasks"
  /\ \E ok \in BOOLEAN : CallTask(ok)
  /\ UNCHANGED <<runVars, stageVars, message, interrupt, prepared, prepareVars, shown,
                 cut>>

(* ReportProgress returns false: the executor at work ends as cancelled,   *)
(* the others are not called any more.                                     *)
StopTasks ==
  /\ pc = "tasks" /\ interrupt
  /\ Leave(FALSE)
  /\ \/ tasks # {} /\ CallTask(FALSE)
     \/ UNCHANGED <<tasks, executed, results>>
  /\ cut' = cut \cup {scenario}
  /\ UNCHANGED <<runVars, message, interrupt, prepared, prepareVars, shown>>

(* Mutant: a stage without a task succeeds. *)
EndTasks_Always ==
  /\ pc = "tasks" /\ tasks = {}
  /\ Leave(TRUE)
  /\ UNCHANGED <<runVars, message, interrupt, prepared, prepareVars, tasks, resultVars>>

EndTasks ==
  /\ pc = "tasks" /\ tasks = {}
  /\ Leave(scenario \in executed)
  /\ UNCHANGED <<runVars, message, interrupt, prepared, prepareVars, tasks, resultVars>>

(* Mutant: the logger is not cleared. *)
DisplayResult_Keeps ==
  /\ pc = "DisplayResult"
  /\ shown' = Append(shown, [scenario |-> scenario, rows |-> results])
  /\ Leave(TRUE)
  /\ UNCHANGED <<runVars, message, interrupt, prepared, prepareVars, tasks, executed,
                 results, cut>>

(* SystemController::DisplayResultsStage shows, exports and clears.        *)
DisplayResult ==
  /\ pc = "DisplayResult"
  /\ shown' = Append(shown, [scenario |-> scenario, rows |-> results])
  /\ results' = << >>
  /\ Leave(TRUE)
  /\ UNCHANGED <<runVars, message, interrupt, prepared, prepareVars, tasks, executed,
                 cut>>

-----------------------------------------------------------------------------
Next ==
  \/ EnterStage \/ EndScenario \/ Throw
  \/ Interrupt \/ UserContinues
  \/ Download \/ DataVerification
  \/ BeginPreparation \/ PrepareEntry \/ EndEntries \/ TakeLibrary \/ ExamineEP
  \/ EndLibrary \/ EndPreparation
  \/ MakeTasks \/ RunTask \/ StopTasks \/ EndTasks
  \/ DisplayResult

Spec == Init /\ [][Next]_vars

-----------------------------------------------------------------------------
(* Properties *)

(* A run that BenchmarkRunner::Run reports as successful executed at least *)
(* one task of every scenario, although the preparation succeeds with an   *)
(* empty list of EPs; and the GUI's success means moreover that the first  *)
(* result was written and good. An agentic scenario was only executed with *)
(* the Python of the setting on the PATH, whatever was put there before.   *)
TrueMeansExecuted ==
  /\ outcome = "true" /\ client \in {"cli", "gui"} => executed = 1 .. LastScenario
  /\ outcome # "none" /\ client = "gui" /\ success
       => outcome = "true" /\ results # << >> /\ results[1].ok
  /\ executed \cap Agentic # {} =>
       python.prefix \in IF pythonPath = "system" THEN {NoDirectory}
                         ELSE {Candidates(pythonPath)[c] : c \in {1, 2}}

(* DisplayResult shows and exports every result once, with the scenario it *)
(* belongs to, unless the Benchmark stage of its scenario was interrupted: *)
(* its results are shown with the next scenario that comes this far.       *)
RowsAreOfTheScenario ==
  \A k \in 1 .. Len(shown) : \A i \in 1 .. Len(shown[k].rows) :
    LET row == shown[k].rows[i] IN
    /\ row.scenario = shown[k].scenario \/ row.scenario \in cut
    /\ \A m \in 1 .. k - 1 : \A j \in 1 .. Len(shown[m].rows) : shown[m].rows[j] # row

=============================================================================
