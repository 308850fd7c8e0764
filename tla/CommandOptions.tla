---------------------------- MODULE CommandOptions ----------------------------
(***************************************************************************)
(* The start of the console client (src/CLI/main.cpp): the options of its  *)
(* command line, what makes it end before it runs, SystemController::      *)
(* Config, and what the run is told of options and configuration.          *)
(*                                                                         *)
(* An argument is [dashes, text]; text is a long name after two dashes and *)
(* a letter, or anything longer, after one. "" is what is not given.       *)
(***************************************************************************)
EXTENDS Naturals, Sequences, TLC

CONSTANT Subprocess  (* the build can run plugins in a process of their own *)

-----------------------------------------------------------------------------
(* CommandOption and generate_command_options *)

Flag(short) == [short |-> short, flag |-> TRUE, values |-> {}, default |-> ""]
AnyText(short, default) == [short |-> short, flag |-> FALSE, values |-> {}, default |-> default]
OneOf(short, values, default) ==
  [short |-> short, flag |-> FALSE, values |-> values, default |-> default]

Digits == {"0", "1", "2", "3", "4", "5", "6", "7", "8", "9"}

Options ==
     "help" :> Flag("h") @@ "version" :> Flag("v")
  @@ "list-models" :> Flag("m") @@ "list-scenarios" :> Flag("S")
  @@ "config" :> AnyText("c", "") @@ "logger" :> AnyText("l", "")
  @@ "output-dir" :> AnyText("o", "") @@ "data-dir" :> AnyText("d", "")
  @@ "temp-dir" :> AnyText("t", "") @@ "export-csv" :> AnyText("x", "")
  @@ "python-path" :> AnyText("", "default")
  @@ "pause" :> OneOf("p", {"true", "false"}, "true")
  @@ "download_behaviour" :>
       OneOf("b", {"forced", "prompt", "skip_all", "deps_only", "normal"}, "normal")
  @@ "prompts" :> OneOf("q", {"base", "ext", "both"}, "base")
  @@ "cache-local-files" :> OneOf("n", {"true", "false"}, "true")
  @@ "enumerate-devices" :> Flag("e") @@ "skip-failed-prompts" :> Flag("s")
  @@ "device-id" :> OneOf("i", Digits \cup {"all"}, "0")
  @@ IF Subprocess THEN "subprocess-isolate" :> OneOf("", {"true", "false"}, "true")
     ELSE << >>

ValidateValue(option, value) ==
  IF value = "" THEN option.flag ELSE option.values = {} \/ value \in option.values

-----------------------------------------------------------------------------
(* CommandParser *)

(* The name of the option an argument is for, or "".                       *)
OptionOf(arg) ==
  LET names == {n \in DOMAIN Options : \/ arg.dashes = 2 /\ arg.text = n
                                       \/ arg.dashes = 1 /\ arg.text = Options[n].short}
  IN  IF arg.text = "" \/ names = {} THEN "" ELSE CHOOSE n \in names : TRUE

NothingParsed == [ok |-> TRUE, values |-> << >>, unknown |-> {}]

(* An option takes the next argument for its value unless that begins with *)
(* a dash, a flag too; what is neither is unknown. Of an option that is    *)
(* given twice the last value counts.                                      *)
Process(args) ==
  LET taken(i) == i < Len(args) /\ args[i + 1].dashes = 0
      value(i) == IF taken(i) THEN args[i + 1].text ELSE ""
      parsed[i \in 1 .. Len(args) + 2] ==
        IF i > Len(args) THEN NothingParsed
        ELSE LET name == OptionOf(args[i])
                 rest == parsed[IF name # "" /\ taken(i) THEN i + 2 ELSE i + 1]
             IN  IF name = "" THEN [rest EXCEPT !.unknown = @ \cup {i}]
                 ELSE [rest EXCEPT !.ok = @ /\ ValidateValue(Options[name], value(i)),
                                   !.values = @ @@ (name :> value(i))]
  IN  parsed[1]

OptionPassed(parsed, name) == name \in DOMAIN parsed.values

GetOptionValue(parsed, name) ==
  IF OptionPassed(parsed, name) THEN parsed.values[name] ELSE Options[name].default

Override(parsed, name, otherwise) ==
  IF OptionPassed(parsed, name) THEN parsed.values[name] ELSE otherwise

-----------------------------------------------------------------------------
(* SystemController::Config: the configuration is for this program, and    *)
(* what it names can be had. The assets unpacked so far are moved to the   *)
(* directory it wants; on another volume that ends the program.            *)

(* What it has to do with the directories of the program.                  *)
Moves(parsed, config) == ~OptionPassed(parsed, "temp-dir") /\ config.tempPath # ""

FilesUsable(parsed, world) ==
  LET config == world.config IN
  /\ config.isJsonFile /\ world.assets /\ config.valid
  /\ OptionPassed(parsed, "temp-dir") \/ config.tempPathCorrect
  /\ config.baseDirCorrect
  /\ Moves(parsed, config) => world.tempPathCreatable

(* What it has to do with its scenarios: they, their models and their EPs  *)
(* are known, and the dependencies of the EPs can be read.                 *)
ScenariosSupported(world) ==
  /\ \A i \in DOMAIN world.config.scenarios :
       LET scenario == world.config.scenarios[i] IN
       scenario.supported /\ scenario.models /\ scenario.eps
  /\ world.dependencies /\ world.spaceKnown

ConfigOutcome(parsed, world) ==
  IF ~FilesUsable(parsed, world) THEN "false"
  ELSE IF Moves(parsed, world.config) /\ ~world.sameVolume THEN "thrown"
  ELSE IF ScenariosSupported(world) THEN "true" ELSE "false"

(* main *)

TempDirFails(parsed, world) ==
  OptionPassed(parsed, "temp-dir") /\ world.tempDir \in {"uncreatable", "file"}

(* The first that applies ends the program, with its exit code. A command  *)
(* line that is not right, or asks for words only, needs no world.         *)
Answered(parsed) ==
  LET passed(name) == OptionPassed(parsed, name) IN
  <<[if |-> ~parsed.ok \/ parsed.unknown # {}, code |-> "1"],
    [if |-> passed("version") \/ passed("help"), code |-> "0"],
    [if |-> passed("list-models") \/ passed("list-scenarios"), code |-> "0"]>>

CannotRun(parsed, world) ==
  LET passed(name) == OptionPassed(parsed, name) IN
  <<[if |-> TempDirFails(parsed, world), code |-> "1"],
    [if |-> ~(passed("logger") /\ world.loggerFile) /\ ~world.defaultLogger, code |-> "1"],
    [if |-> ~world.spaceKnown, code |-> "-1"],
    [if |-> passed("output-dir") /\ ~world.outputDir, code |-> "1"],
    [if |-> passed("data-dir") /\ ~world.dataDir, code |-> "1"],
    [if |-> ~passed("config"), code |-> "1"],
    [if |-> ConfigOutcome(parsed, world) = "thrown", code |-> "abort"],
    [if |-> ConfigOutcome(parsed, world) = "false", code |-> "1"]>>

(* What SystemController::Run goes by.                                     *)
Settings(parsed, config) ==
  LET value(name) == GetOptionValue(parsed, name)
      enumerate == OptionPassed(parsed, "enumerate-devices")
      prompts == Override(parsed, "prompts", "base")
      python == value("python-path")
  IN  [enumerate |-> enumerate,
       subprocess |-> /\ Subprocess /\ value("subprocess-isolate") = "true"
                      /\ enumerate => OptionPassed(parsed, "subprocess-isolate"),
       tempDir |-> Override(parsed, "temp-dir", config.tempPath),
       outputDir |-> value("output-dir"),
       dataDir |-> Override(parsed, "data-dir", "data"),
       device |-> Override(parsed, "device-id", ""),
       skipFailed |-> OptionPassed(parsed, "skip-failed-prompts"),
       csv |-> value("export-csv"),
       download |-> Override(parsed, "download_behaviour", config.download),
       prompts |-> IF prompts = "ext" THEN "extended" ELSE prompts,
       cache |-> Override(parsed, "cache-local-files", config.cache) = "true",
       python |-> IF python = "default" THEN config.python ELSE python]

(* The program is its own client when it is started for a plugin.          *)
IsPluginProcess(args) ==
  Subprocess /\ \E i \in 1 .. Len(args) - 1 : args[i] = [dashes |-> 2, text |-> "ihv-client"]

(* The exit code says nothing of how the run ended.                        *)
Main(args, world) ==
  LET parsed == Process(args)
      reasons == SelectSeq(Answered(parsed) \o CannotRun(parsed, world), LAMBDA r : r.if)
  IN  IF IsPluginProcess(args) THEN [runs |-> FALSE, code |-> "plugin"]
      ELSE IF reasons # << >> THEN [runs |-> FALSE, code |-> reasons[1].code]
      ELSE [runs |-> TRUE, code |-> "0", settings |-> Settings(parsed, world.config),
            pauses |-> GetOptionValue(parsed, "pause") = "true"]

=============================================================================
