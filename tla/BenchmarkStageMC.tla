-------------------------- MODULE BenchmarkStageMC ---------------------------
(***************************************************************************)
(* An instance of BenchmarkStage, a model with two executors followed by   *)
(* one with a single executor, which ScenarioFiles makes of a scenario;    *)
(* and, before it is run, how executors come about, over all scenarios of  *)
(* two models and two EPs, the first of which may have a model of its own: *)
(* what the author of a configuration expects of files and executors, and  *)
(* where the sharing of files between models makes it otherwise.           *)
(***************************************************************************)
EXTENDS BenchmarkStage, ScenarioFiles, FiniteSets

CONSTANTS e1, e2, e3

TwoModels == <<<<e1, e2>>, <<e3>>>>

-----------------------------------------------------------------------------
ModelOf(name, base, path, data, tokenizer) ==
  [name |-> name, base |-> base, path |-> path, data |-> data,
   tokenizer |-> tokenizer, more |-> {}]

(* Files of models end in onnx, data and json.                             *)
GlobalModels ==
  {<<ModelOf("A", "phi", "a.onnx", d[1], t[1]), ModelOf("B", base, "b.onnx", d[2], t[2])>> :
     base \in {"phi", "llama"},
     d \in {<<None, None>>, <<"a.data", "b.data">>, <<"a.data", "a.data">>},
     t \in {<<"t.json", "t.json">>, <<"t.json", "u.json">>}}

Overrides ==
  {<< >>} \cup
  {<<ModelOf(name, "phi", path, None, tokenizer)>> :
     name \in {"A", "C"}, path \in {"a.onnx", "b.onnx", "c.onnx"}, tokenizer \in {None, "u.json"}}

ScenarioConfigs ==
  {[kind |-> kind, display |-> "Phi", models |-> models,
    eps |-> <<[library |-> None, supported |-> supported, models |-> own],
              [library |-> None, supported |-> TRUE, models |-> << >>]>>] :
     kind \in {"txt2txt", "txt2img"}, models \in GlobalModels, own \in Overrides,
     supported \in BOOLEAN}

(* Of the dependencies of the EPs.                                         *)
Subdirs == [p \in {"runtime.zip"} |-> <<"runtime">>]

-----------------------------------------------------------------------------
ModelSet(s) == {ModelsWithFiles(s)[i] : i \in DOMAIN ModelsWithFiles(s)}
PathsOf(m) == ExtraPaths(m) \cup {m.path}

(* No other model has one of its files.                                    *)
SharesNothing(s, m) ==
  \A i \in DOMAIN AllModels(s) :
    AllModels(s)[i] = m \/ PathsOf(AllModels(s)[i]) \cap PathsOf(m) = {}

(* The files of a model find each other by their directory: all those of a *)
(* model that shares none of them go to one. Of two models with the same   *)
(* data file, one is in another directory than its data.                   *)
ASSUME FilesStayTogether ==
  \A s \in ScenarioConfigs :
    LET together(m) == \E dir \in {d[2] : d \in DirectoriesOf(s, Subdirs)} :
                         \A p \in PathsOf(m) : <<p, dir>> \in DirectoriesOf(s, Subdirs)
    IN  /\ \A m \in ModelSet(s) : SharesNothing(s, m) =>
             /\ together(m)
             /\ \A d \in DirectoriesOf(s, Subdirs) : d[1] \in PathsOf(m) =>
                  Front(d[2]) = ComputeModelDir(s, m.base)
        /\ \A m, n \in ModelSet(s) :
             m # n /\ m.data = n.data /\ m.data # None => ~(together(m) /\ together(n))

-----------------------------------------------------------------------------
Downloaded(s) == [i \in DOMAIN GetModelFiles(s) |-> GetModelFiles(s)[i].path]

(* Each file has its own contents, or one has those of another one.        *)
ContentsOf(s) ==
  LET paths == {m.path : m \in ModelSet(s)} IN
  {[p \in paths |-> p]} \cup {[p \in paths |-> IF p = same[1] THEN same[2] ELSE p] :
                                same \in paths \X paths}

(* The model an EP is to run for a name: its own, or the scenario's.       *)
Expected(s, ep, name) ==
  IF HasModelConfig(ep, name)
  THEN ep.models[CHOOSE i \in DOMAIN ep.models : ep.models[i].name = name]
  ELSE s.models[CHOOSE i \in DOMAIN s.models : s.models[i].name = name]

NamesFor(s, ep) ==
  {s.models[i].name : i \in DOMAIN s.models} \cup {ep.models[i].name : i \in DOMAIN ep.models}

(* The configuration gives each model of the scenario, and each model an   *)
(* EP has instead of one, a file of its own with contents of its own.      *)
Distinct(s, contents) ==
  Cardinality({contents[m.path] : m \in ModelSet(s)}) = Cardinality(ModelSet(s))

(* Then each EP runs each name once, with the file and the tokenizer that  *)
(* are its own or the scenario's. But an EP whose own file has the contents *)
(* of the one it replaces, as it has if only the tokenizer is another one, *)
(* runs the name not at all.                                               *)
ASSUME EachNameOnce ==
  \A s \in ScenarioConfigs :
    \A contents \in ContentsOf(s) :
      LET eps == SelectSeq(s.eps, LAMBDA ep : ep.supported)
          executors == Executors(s, eps, Downloaded(s), contents)
          runs(i) == SelectSeq(executors, LAMBDA e : e.ep = i)
          expected(i) ==
            {LET m == Expected(s, eps[i], n) IN
             [ep |-> i, path |-> m.path, display |-> n, tokenizer |-> m.tokenizer] :
               n \in NamesFor(s, eps[i])}
      IN  /\ FlattenSeq(Schedulers(executors)) = executors
          /\ \A i \in DOMAIN eps :
               /\ Distinct(s, contents) =>
                    ToSet(runs(i)) = expected(i) /\ IsInjective(runs(i))
               /\ \A j \in DOMAIN eps[i].models, k \in DOMAIN s.models :
                    LET own == eps[i].models[j] IN
                    own.name = s.models[k].name /\ contents[own.path] = contents[s.models[k].path]
                      => \A e \in ToSet(runs(i)) : e.display # own.name

-----------------------------------------------------------------------------
(* The instance of BenchmarkStage is that of a scenario: both EPs run the  *)
(* first model, and the second one, which the first EP has with another    *)
(* tokenizer only, is run by the other EP alone.                           *)
PhiScenario ==
  [kind |-> "txt2txt", display |-> "Phi",
   models |-> <<ModelOf("A", "phi", "a.onnx", None, "t.json"),
                ModelOf("B", "phi", "b.onnx", None, "t.json")>>,
   eps |-> <<[library |-> None, supported |-> TRUE,
              models |-> <<ModelOf("B", "phi", "b.onnx", None, "u.json")>>],
             [library |-> None, supported |-> TRUE, models |-> << >>]>>]

PhiExecutors ==
  Executors(PhiScenario, PhiScenario.eps, Downloaded(PhiScenario), [p \in {"a.onnx", "b.onnx"} |-> p])

ASSUME GroupsAreOfAScenario ==
  LET groups == Schedulers(PhiExecutors)
      named == <<e1, e2, e3>>
  IN  /\ Len(PhiExecutors) = 3
      /\ Groups = [g \in DOMAIN groups |->
                    [i \in DOMAIN groups[g] |->
                      named[CHOOSE n \in 1 .. 3 : PhiExecutors[n] = groups[g][i]]]]

=============================================================================
