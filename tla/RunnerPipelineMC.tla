-------------------------- MODULE RunnerPipelineMC ---------------------------
(***************************************************************************)
(* An instance of RunnerPipeline, which the console client runs as its     *)
(* command line says; and, before it is run, the dependencies              *)
(* of EPs (EPDependencies), over all those three EPs can have on one       *)
(* another and on themselves, compared with a definition of what they are  *)
(* for, and the command line (CommandOptions), over short ones, compared   *)
(* with what a reader of its help takes it for.                            *)
(***************************************************************************)
EXTENDS RunnerPipeline, EPDependencies, CommandOptions, FiniteSets, Relation, SequencesExt

(* EPDependencies                                                          *)

Backend(values) == [k \in {"backend"} |-> values]

Cuda == ParseCondition({Backend({"CUDA"})})
Rocm == ParseCondition({Backend({"ROCM"}), Backend({})})
CudaOrAmd == ParseCondition({Backend({"CUDA"}),
                             [device_vendor |-> {"AMD"}, backend |-> {}]})

Configs == {[k \in {"backend"} |-> "cuda"], [k \in {"backend"} |-> "ROCM"],
            [backend |-> "ROCM", device_vendor |-> "AMD"]}

EPOrder == <<"a", "b", "c">>
EP == {"a", "b", "c"}

(* The conditions are spelled alike, although a configuration may be spelled *)
(* otherwise: what RunnerPipelineProofs assumes of the two it combines.     *)
ASSUME ConditionsSpelledAlike ==
  \A a, b \in {Always, Cuda, Rocm, CudaOrAmd} : SpelledAlike(a, b)

Absent == {{}}

(* The condition of each dependency, or Absent.                            *)
Edges == [EP \X EP -> {Absent, Always, CudaOrAmd}]

DependsOn(edges, on) == [a, b \in EP |-> edges[a, b] \in on]
Reaches(edges, on) == TransitiveClosure(DependsOn(edges, on), EP)
Circular(edges) == \E ep \in EP : Reaches(edges, {Always, CudaOrAmd})[ep, ep]

EntriesOf(edges, conditions) ==
  [ep \in EP |->
    [files |-> <<[name |-> ep, condition |-> conditions[ep]]>>,
     dependencies |->
       LET deps == SelectSeq(EPOrder, LAMBDA d : edges[ep, d] # Absent)
       IN  [i \in DOMAIN deps |-> [name |-> deps[i], condition |-> edges[ep, deps[i]]]]]]

Unconditional == [ep \in EP |-> Always]

(* The resolution fails exactly for circular dependencies.                 *)
ASSUME FailsIfCircular ==
  \A edges \in Edges : Resolve(EntriesOf(edges, Unconditional), EPOrder).ok <=> ~Circular(edges)

(* What an EP needs under a configuration: its own file and those of all   *)
(* the EPs it reaches by dependencies the configuration matches.           *)
Needed(edges, conditions, ep, config) ==
  LET on == {c \in {Always, CudaOrAmd} : ConditionMatchesConfig(c, config)}
  IN  {f \in EP : /\ f = ep \/ Reaches(edges, on)[ep, f]
                  /\ ConditionMatchesConfig(conditions[f], config)}

(* Some EP is reached in two ways.                                         *)
SeveralWays(edges, ep) ==
  LET all == {Always, CudaOrAmd}
      reached == {ep} \cup {d \in EP : Reaches(edges, all)[ep, d]}
  IN  Cardinality({p \in reached \X reached : edges[p] # Absent}) >= Cardinality(reached)

Resolutions == {e \in Edges : ~Circular(e)} \X [EP -> {Always, Cuda, Rocm}]

(* Whichever EPs come first in the order of the names, an EP gets only     *)
(* files it needs, and all of them unless it reaches an EP in two ways:    *)
(* then the condition of the first way counts. (What happens to conditions *)
(* that exclude each other is in RunnerPipelineProofs.)                    *)
ASSUME NeededIsKept ==
  \A r \in Resolutions :
    LET resolved == Resolve(EntriesOf(r[1], r[2]), EPOrder) IN
    \A ep \in EP, config \in Configs :
      LET kept == ResolvedFileNames(resolved, ep, EP, {config})
          needed == Needed(r[1], r[2], ep, config)
      IN  kept \subseteq needed /\ (kept = needed \/ SeveralWays(r[1], ep))

-----------------------------------------------------------------------------
(* CommandOptions                                                          *)

Long(text) == [dashes |-> 2, text |-> text]
Short(text) == [dashes |-> 1, text |-> text]
Word(text) == [dashes |-> 0, text |-> text]

CommandLines ==
  SeqOf({Long("config"), Short("c"), Long("pause"), Short("e"), Short("zz"), Long("bogus"),
         Word("true"), Word("a.json")}, 4)

(* An argument is an option, the value of the option before it, or neither. *)
IsOption(arg) == OptionOf(arg) # ""
IsValue(args, i) == i > 1 /\ args[i].dashes = 0 /\ IsOption(args[i - 1])
ValueAt(args, i) == IF i < Len(args) /\ IsValue(args, i + 1) THEN args[i + 1].text ELSE ""
Given(args, name) == {i \in DOMAIN args : OptionOf(args[i]) = name}
LastOf(S) == CHOOSE i \in S : \A j \in S : j <= i

(* Each argument is taken for what it is wherever it stands, and of the    *)
(* same option the last one counts.                                        *)
ASSUME EachArgumentCounts ==
  \A args \in CommandLines :
    LET parsed == Process(args) IN
    /\ parsed.ok <=> \A i \in DOMAIN args :
                        IsOption(args[i]) => ValidateValue(Options[OptionOf(args[i])], ValueAt(args, i))
    /\ parsed.unknown = {i \in DOMAIN args : ~IsOption(args[i]) /\ ~IsValue(args, i)}
    /\ \A name \in DOMAIN Options :
         /\ OptionPassed(parsed, name) <=> Given(args, name) # {}
         /\ GetOptionValue(parsed, name)
              = IF Given(args, name) = {} THEN Options[name].default
                ELSE ValueAt(args, LastOf(Given(args, name)))

-----------------------------------------------------------------------------
ScenarioOf(supported) == [supported |-> supported, models |-> TRUE, eps |-> TRUE]

ConfigurationOf(tempPath) ==
  [isJsonFile |-> TRUE, valid |-> TRUE, tempPath |-> tempPath, tempPathCorrect |-> TRUE,
   baseDirCorrect |-> TRUE, scenarios |-> <<ScenarioOf(TRUE)>>, download |-> "prompt",
   cache |-> "false", python |-> "system"]

WorldOf(config, sameVolume, spaceKnown) ==
  [config |-> config, assets |-> TRUE, tempDir |-> "dir", tempPathCreatable |-> TRUE,
   sameVolume |-> sameVolume, dependencies |-> TRUE, spaceKnown |-> spaceKnown,
   loggerFile |-> FALSE, defaultLogger |-> TRUE, outputDir |-> FALSE, dataDir |-> TRUE]

Worlds ==
  {WorldOf(ConfigurationOf(tempPath), sameVolume, spaceKnown) :
     tempPath \in {"", "temp"}, sameVolume \in BOOLEAN, spaceKnown \in BOOLEAN}

(* Options with their values, in every order.                              *)
OptionGroups ==
  {<<Long("config"), Word("a.json")>>, <<Short("t"), Word("deps")>>, <<Short("e")>>,
   <<Long("subprocess-isolate"), Word("true")>>, <<Short("b"), Word("deps_only")>>,
   <<Long("python-path"), Word("default")>>, <<Short("o"), Word("out")>>,
   <<Short("i"), Word("all")>>, <<Short("h")>>}

Orders(groups) == {FlattenSeq(order) : order \in SetToSeqs(groups)}

(* The order of the options makes no difference to what the program does;  *)
(* a configuration that wants its files elsewhere can end it only when no  *)
(* --temp-dir is given; what one option says, no other one and no          *)
(* configuration undoes.                                                   *)
ASSUME OrderDoesNotMatter ==
  \A groups \in {g \in SUBSET OptionGroups : Cardinality(g) <= 4} :
    \A world \in Worlds :
      LET ends == {Main(args, world) : args \in Orders(groups)}
          end == CHOOSE o \in ends : TRUE
          has(group) == group \in groups
      IN  /\ Cardinality(ends) = 1
          /\ end.code = "abort" =>
               ~has(<<Short("t"), Word("deps")>>) /\ world.config.tempPath # ""
          /\ end.runs =>
               /\ has(<<Long("config"), Word("a.json")>>) /\ ~has(<<Short("o"), Word("out")>>)
               /\ has(<<Short("t"), Word("deps")>>) => end.settings.tempDir = "deps"
               /\ has(<<Short("b"), Word("deps_only")>>) <=> end.settings.download = "deps_only"
               /\ has(<<Short("i"), Word("all")>>) <=> end.settings.device = "all"
               /\ end.settings.python = "system"
               /\ ~end.settings.subprocess <=>
                    \/ ~Subprocess
                    \/ has(<<Short("e")>>) /\ ~has(<<Long("subprocess-isolate"), Word("true")>>)

-----------------------------------------------------------------------------
(* The instance of RunnerPipeline                                          *)

(* Two entries of one EP that chooses its device, for any device and for   *)
(* the first one, an EP of a type that has no choice, and one that is made *)
(* for hardware that is not there.                                         *)
EntriesMC ==
  <<[name |-> "NativeOpenVINO", backend |-> "", library |-> "a", chooses |-> TRUE,
     device |-> Unset, config |-> << >>],
    [name |-> "NativeOpenVINO", backend |-> "", library |-> "a", chooses |-> TRUE,
     device |-> 0, config |-> << >>],
    [name |-> "Diffusers", backend |-> "cuda", library |-> "b", chooses |-> FALSE,
     device |-> Unset, config |-> [k \in {"backend"} |-> "cuda"]],
    [name |-> "llama-cpp", backend |-> "rocm", library |-> "c", chooses |-> FALSE,
     device |-> Unset, config |-> [k \in {"backend"} |-> "ROCM"]]>>

(* The shape of the dependencies the program comes with.                   *)
DependenciesMC ==
  LET file(name, condition) == [name |-> name, condition |-> condition]
  IN  ("NativeOpenVINO" :> [files |-> <<file("openvino", Always)>>, dependencies |-> << >>])
   @@ ("Runtime" :> [files |-> <<file("ryzenai", Always)>>, dependencies |-> << >>])
   @@ ("llama-cpp" :> [files |-> <<file("cudart", Cuda)>>, dependencies |-> << >>])
   @@ ("Diffusers" :> [files |-> <<file("cudart", Cuda)>>,
                       dependencies |-> <<[name |-> "Runtime", condition |-> CudaOrAmd]>>])

NameOrderMC == <<"Diffusers", "NativeOpenVINO", "Runtime", "llama-cpp">>

LowerMC(v) == IF v = "CUDA" THEN "cuda" ELSE v

(* What the console client is run with: command lines that get as far as a *)
(* run, and configurations with and without a Python of their own.         *)
PythonWorlds ==
  {[WorldOf(ConfigurationOf(""), TRUE, TRUE) EXCEPT !.config.python = p] :
     p \in {"", "system"}}

ChoicesOfTheRun ==
  (SUBSET {<<Short("e")>>, <<Short("b"), Word("deps_only")>>,
           <<Long("python-path"), Word("custom")>>})
  \X {<< >>, <<Short("i"), Word("all")>>, <<Short("i"), Word("0")>>}

ConsoleRuns ==
  LET end(choice, world) ==
        Main(<<Short("c"), Word("a.json")>> \o FlattenSeq(SetToSeq(choice[1])) \o choice[2], world)
      ends == {end(choice, world) : choice \in ChoicesOfTheRun, world \in PythonWorlds}
  IN  {e.settings : e \in {x \in ends : x.runs}}

(* An enumeration is one whatever is to be downloaded.                     *)
ConsoleClient(settings) ==
  IF settings.enumerate THEN "cliEnumerate"
  ELSE IF settings.download = "deps_only" THEN "cliDeps" ELSE "cli"

ClientsMC ==
  {ConsoleClient(settings) : settings \in ConsoleRuns}
    \cup {"gui", "guiDeps", "guiEnumerate", "guiSizes"}

OverridesMC ==
  {IF settings.device = "" THEN Unset ELSE IF settings.device = "all" THEN All ELSE 0 :
     settings \in ConsoleRuns}

PythonPathsMC == {settings.python : settings \in ConsoleRuns}

BuiltMC == {<<"NativeOpenVINO", "">>, <<"Diffusers", "cuda">>, <<"llama-cpp", "rocm">>}

FilesOfMC(name) ==
  ResolvedFileNames(Resolved, name, {b[1] : b \in Built}, ConfigsOf(name))

=============================================================================
