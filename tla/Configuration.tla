---------------------------- MODULE Configuration ----------------------------
(***************************************************************************)
(* What is read from a configuration file (src/CIL/execution_config.cpp):  *)
(* whether it is one that was tested, the paths of the program, a          *)
(* scenario's inputs and the names of its EPs; and which configurations    *)
(* the graphical client offers. "" is what is not given.                   *)
(***************************************************************************)
EXTENDS Naturals, Sequences, SequencesExt

-----------------------------------------------------------------------------
(* ExecutionConfig *)

(* The hash is in the file, or nobody can read it. (A verification file is *)
(* [category, readable, names], names giving a name to each hash.)         *)
VerifyConfigFileHash(file, hash) == file.readable => hash \in DOMAIN file.names

NotVerified(name) == [verified |-> FALSE, category |-> "", name |-> name]

Verified(verdict, file, hash) ==
  [verified |-> verdict.verified \/ file.category = "",
   category |-> IF file.category = "" THEN verdict.category ELSE file.category,
   name     |-> IF file.readable THEN file.names[hash] ELSE verdict.name]

(* The files are looked at in the order of their categories, "" first,     *)
(* until the configuration is verified and has a category.                 *)
Verdict(files, hash, name) ==
  FoldLeft(LAMBDA verdict, file :
             IF verdict.verified /\ verdict.category # "" THEN verdict
             ELSE IF VerifyConfigFileHash(file, hash) THEN Verified(verdict, file, hash)
             ELSE verdict,
           NotVerified(name), files)

(* The hash is not computed when there is nothing to compare it with.      *)
ValidateAndParse(config, files) ==
  IF ~config.readable \/ ~config.valid THEN [ok |-> FALSE] @@ NotVerified("")
  ELSE [ok |-> TRUE] @@ IF files = << >> \/ config.hash = "" THEN NotVerified(config.name)
                        ELSE Verdict(files, config.hash, config.name)

IsConfigFileValid(config) == config.path # "" /\ config.isFile /\ config.isJson

-----------------------------------------------------------------------------
(* SystemConfig *)

TempPathOf(path, legal) ==
  [path |-> IF path \in legal THEN path ELSE "", correct |-> path \in legal \cup {""}]

(* A base is a file:// URL of a directory; one that is given but empty is  *)
(* an error.                                                               *)
BaseDirOf(base, directories) ==
  LET good == base.given /\ base.scheme = "file" /\ base.path \in directories IN
  [path |-> IF good THEN base.path ELSE "", correct |-> good \/ ~base.given]

(* A path is [scheme, absolute, name].                                     *)
NoPath == [scheme |-> "", absolute |-> FALSE, name |-> << >>]

PrependBaseDirIfNeeded(path, base) ==
  IF base = "" \/ path = NoPath \/ path.scheme = "http" \/ path.absolute THEN path
  ELSE [scheme |-> "file", absolute |-> TRUE, name |-> <<base>> \o path.name]

-----------------------------------------------------------------------------
(* ScenarioConfig and ExecutionProviderConfig *)

(* InputFilePath is a list, whose inputs are of the type base, or has one  *)
(* per type. An input is [type, path].                                     *)
InputsOf(lists) ==
  FlattenSeq([i \in DOMAIN lists |->
               [j \in DOMAIN lists[i].paths |->
                 [type |-> IF lists[i].type = "" THEN "base" ELSE lists[i].type,
                  path |-> lists[i].paths[j]]]])

GetInputs(inputs, allowed) == SelectSeq(inputs, LAMBDA x : allowed \in {x.type, "both"})

GetInputTypes(inputs) ==
  FoldLeft(LAMBDA types, x : IF Contains(types, x.type) THEN types ELSE Append(types, x.type),
           << >>, inputs)

HasNonBasePrompts(inputs, allowed) ==
  allowed # "base" /\ \E i \in DOMAIN inputs : inputs[i].type # "base"

(* A scenario that goes by the name of a model gives it to the models that *)
(* have no base name.                                                      *)
ModelBaseName(base, alias) == IF base = "" THEN alias ELSE base

Backends == {"Vulkan", "Metal", "CUDA", "ROCm"}

(* An EP is [name, config], config giving values to keys. Looking for the  *)
(* device_type of RyzenAI puts the key there.                              *)
NamedRyzenAI(ep) ==
  IF ep.name # "RyzenAI" THEN ep
  ELSE LET config == ep.config @@ [k \in {"device_type"} |-> "null"] IN
       [name |-> IF config.device_type \in {"NPU", "NPU and GPU"} THEN "OrtGenAI-RyzenAI"
                 ELSE ep.name,
        config |-> config]

NamedBackend(ep) ==
  IF ep.name \notin Backends THEN ep
  ELSE [name |-> "llama-cpp", config |-> ep.config @@ [k \in {"backend"} |-> ep.name]]

ReadEP(ep) == NamedBackend(NamedRyzenAI(ep))

KeyOfBackend(name) ==
  IF name \in {"llama-cpp", "Diffusers"} THEN "backend"
  ELSE IF name = "WindowsML" THEN "device_ep" ELSE ""

(* The name and, where the EP has one, its backend.                        *)
GetFullName(ep) ==
  <<ep.name>> \o (IF KeyOfBackend(ep.name) \in DOMAIN ep.config
                  THEN <<ep.config[KeyOfBackend(ep.name)]>> ELSE << >>)

-----------------------------------------------------------------------------
(* AppController::InitConfigs and InitStartPage *)

CategoryOrder(category) ==
  IF category = "extended" THEN 1 ELSE IF category = "experimental" THEN 2 ELSE 0

(* The configurations of the archive that load, are for this platform and  *)
(* have an EP it supports, those without a category first. A card of the   *)
(* start page has the number of its configuration.                         *)
BaseConfigs(configs, files) ==
  LET verdict(c) == ValidateAndParse(c, files)
      usable == SelectSeq(configs, LAMBDA c : verdict(c).ok /\ c.hasEP /\ c.here /\ c.supported)
      of(order) == SelectSeq(usable, LAMBDA c : CategoryOrder(verdict(c).category) = order)
  IN  of(0) \o of(1) \o of(2)

PromptType(inputs) == IF inputs = << >> THEN "base" ELSE GetInputTypes(inputs)[1]

=============================================================================
