---------------------------- MODULE ScenarioFiles ----------------------------
(***************************************************************************)
(* What becomes of the models a configuration names: which files of them   *)
(* are downloaded (ScenarioConfig, src/CIL/execution_config.cpp), into     *)
(* which directory (DownloadStage), and which EP runs which file, with     *)
(* which tokenizer (the construction of the executors in BenchmarkStage).  *)
(*                                                                         *)
(* A model is [name, base, path, data, tokenizer, more]; an EP is          *)
(* [library, supported, models], the models being those it has instead of  *)
(* the scenario's of the same name; a scenario is [kind, display, models,  *)
(* eps]. An URL that is not given is None.                                 *)
(***************************************************************************)
EXTENDS Naturals, Sequences, SequencesExt

CONSTANT None

-----------------------------------------------------------------------------
(* ScenarioConfig *)

(* An EP this platform has no plugin for brings no files.                  *)
BringsFiles(ep) == ep.library # None \/ ep.supported

OwnModels(eps) == FlattenSeq([i \in DOMAIN eps |-> eps[i].models])

ModelsWithFiles(s) == s.models \o OwnModels(SelectSeq(s.eps, BringsFiles))

ModelKey(m) == <<m.path, m.data, m.tokenizer>>

ExtraPaths(m) == ({m.data, m.tokenizer} \ {None}) \cup m.more

(* The models whose files are downloaded: the first with each path.        *)
GetModelFiles(s) ==
  FoldLeft(LAMBDA files, m :
             IF m.path = None \/ \E i \in DOMAIN files : files[i].path = m.path THEN files
             ELSE Append(files, [path |-> m.path, key |-> ModelKey(m)]),
           << >>, ModelsWithFiles(s))

(* The key of each other file is that of the last model that has it.       *)
GetModelExtraFiles(s) ==
  LET models == ModelsWithFiles(s)
      last(p) == SelectLastInSeq(models, LAMBDA m : p \in ExtraPaths(m))
  IN  [p \in UNION {ExtraPaths(models[i]) : i \in DOMAIN models} |-> ModelKey(models[last(p)])]

NoModel == [name |-> None, base |-> None, path |-> None, data |-> None,
            tokenizer |-> None, more |-> {}]

GetModelByFilePath(models, path) ==
  LET i == SelectInSeq(models, LAMBDA m : m.path = path) IN
  IF i = 0 THEN NoModel ELSE models[i]

-----------------------------------------------------------------------------
(* DownloadStage *)

ComputeModelDir(s, base) ==
  IF s.kind # "txt2txt" THEN <<s.display>>
  ELSE IF base = None THEN <<s.kind>> ELSE <<s.kind, base>>

(* Of the whole configuration, EPs without a plugin included. The files of *)
(* the dependencies of EPs have directories of their own, subdirs.         *)
AllModels(s) == s.models \o OwnModels(s.eps)

BuildPathToSubdirMap(s, subdirs) ==
  LET models == AllModels(s)
      paths(m) == ExtraPaths(m) \cup ({m.path} \ {None})
      last(p) == SelectLastInSeq(models, LAMBDA m : p \in paths(m))
  IN  subdirs @@ [p \in UNION {paths(models[i]) : i \in DOMAIN models} |->
                    ComputeModelDir(s, models[last(p)].base)]

ScenarioFilesSubdir(s) ==
  ComputeModelDir(s, IF \A i \in DOMAIN s.models : s.models[i].base = s.models[1].base
                     THEN s.models[1].base ELSE None)

(* The directory of a file of a model, whose last name is the hash of the  *)
(* key, and that of any other file.                                        *)
SubdirOf(s, subdirs, path) ==
  LET map == BuildPathToSubdirMap(s, subdirs) IN
  IF path \in DOMAIN map THEN map[path] ELSE ScenarioFilesSubdir(s)

ModelFileDir(s, subdirs, path, key) == Append(SubdirOf(s, subdirs, path), key)

(* Where the files of the models go.                                       *)
DirectoriesOf(s, subdirs) ==
  LET files == GetModelFiles(s)
      extra == GetModelExtraFiles(s)
  IN  {<<files[i].path, ModelFileDir(s, subdirs, files[i].path, files[i].key)>> : i \in DOMAIN files}
        \cup {<<p, ModelFileDir(s, subdirs, p, extra[p])>> : p \in DOMAIN extra}

-----------------------------------------------------------------------------
(* BenchmarkStage *)

HasModelFileConfig(ep, path) == \E i \in DOMAIN ep.models : ep.models[i].path = path
HasModelConfig(ep, name) == \E i \in DOMAIN ep.models : ep.models[i].name = name

(* The EPs that run a file, when it is a file of the scenario's models and *)
(* when it is only one of their own.                                       *)
Runs(s, ep, path) ==
  LET name == GetModelByFilePath(s.models, path).name IN
  IF name = None THEN HasModelFileConfig(ep, path) ELSE ~HasModelConfig(ep, name)

DisplayName(s, ep, path) ==
  LET name == GetModelByFilePath(s.models, path).name IN
  IF name = None THEN GetModelByFilePath(ep.models, path).name ELSE name

Tokenizer(s, ep, path) ==
  LET own == GetModelByFilePath(ep.models, path).tokenizer IN
  IF own = None THEN GetModelByFilePath(s.models, path).tokenizer ELSE own

(* A file with the contents of one before it is left out.                  *)
NewContents(paths, contents) ==
  FoldLeft(LAMBDA kept, p :
             IF \E i \in DOMAIN kept : contents[kept[i]] = contents[p] THEN kept
             ELSE Append(kept, p),
           << >>, paths)

ExecutorsFor(s, eps, path) ==
  LET runs == SelectSeq([i \in DOMAIN eps |-> i], LAMBDA i : Runs(s, eps[i], path)) IN
  [j \in DOMAIN runs |->
     [ep |-> runs[j], path |-> path, display |-> DisplayName(s, eps[runs[j]], path),
      tokenizer |-> Tokenizer(s, eps[runs[j]], path)]]

Executors(s, eps, paths, contents) ==
  LET kept == NewContents(paths, contents) IN
  FlattenSeq([i \in DOMAIN kept |-> ExecutorsFor(s, eps, kept[i])])

(* One scheduler for the executors of one name that follow one another.    *)
Schedulers(executors) ==
  FoldLeft(LAMBDA groups, e :
             IF groups # << >> /\ Last(Last(groups)).display = e.display
             THEN Append(Front(groups), Append(Last(groups), e))
             ELSE Append(groups, <<e>>),
           << >>, executors)

=============================================================================
