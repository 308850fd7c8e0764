------------------------- MODULE RunnerPipelineProofs -------------------------
(***************************************************************************)
(* RunnerPipeline: what a successful run means, and whose rows are shown,  *)
(* for any number of scenarios and EPs and whatever files the EPs need; and *)
(* EPConditions: CombineConditions is a conjunction, but for conditions    *)
(* that exclude each other, which it turns into the one that always        *)
(* matches.                                                                *)
(***************************************************************************)
EXTENDS RunnerPipeline, EPConditions, TLAPS, SequenceTheorems

(* Two clauses that both match, and spell what they share alike, have a    *)
(* value in common for every key of both.                                  *)
LEMMA MatchingClausesAgree ==
  ASSUME NEW a \in Condition, NEW b \in Condition, SpelledAlike(a, b),
         NEW ca \in a, NEW cb \in b, NEW config,
         ClauseMatchesConfig(ca, config), ClauseMatchesConfig(cb, config),
         NEW k \in Common(ca, cb)
  PROVE  \E v \in ca[k] \cap cb[k] : Lower(v) = Lower(config[k])
<1>1. PICK v \in ca[k] : Lower(v) = Lower(config[k])
  BY DEF ClauseMatchesConfig, Common
<1>2. PICK w \in cb[k] : Lower(w) = Lower(config[k])
  BY DEF ClauseMatchesConfig, Common
<1>3. v = w
  BY <1>1, <1>2 DEF SpelledAlike
<1> QED
  BY <1>1, <1>2, <1>3

(* What the merged clause matches, both match.                             *)
LEMMA MergedIsStricter ==
  ASSUME NEW a \in Clause, NEW b \in Clause, NEW config,
         ClauseMatchesConfig(Merge(a, b), config)
  PROVE  ClauseMatchesConfig(a, config) /\ ClauseMatchesConfig(b, config)
<1> DEFINE m == Merge(a, b)
<1>1. DOMAIN m = DOMAIN a \cup DOMAIN b
  BY DEF Merge
<1>2. /\ \A k \in DOMAIN a : m[k] \subseteq a[k]
      /\ \A k \in DOMAIN b : m[k] \subseteq b[k]
  BY DEF Merge, Common
<1> HIDE DEF m
<1>3. \A k \in DOMAIN m : k \in DOMAIN config /\ \E v \in m[k] : Lower(v) = Lower(config[k])
  BY DEF m, ClauseMatchesConfig
<1> QED
  BY <1>1, <1>2, <1>3 DEF ClauseMatchesConfig

(* The merged clause matches what both match, where they are spelled alike. *)
LEMMA MergedMatches ==
  ASSUME NEW a \in Condition, NEW b \in Condition, SpelledAlike(a, b),
         NEW ca \in a, NEW cb \in b, NEW config,
         ClauseMatchesConfig(ca, config), ClauseMatchesConfig(cb, config)
  PROVE  ClauseMatchesConfig(Merge(ca, cb), config)
<1> DEFINE m == Merge(ca, cb)
<1>1. DOMAIN m = DOMAIN ca \cup DOMAIN cb
  BY DEF Merge
<1> SUFFICES ASSUME NEW k \in DOMAIN m
             PROVE  k \in DOMAIN config /\ \E v \in m[k] : Lower(v) = Lower(config[k])
  BY DEF ClauseMatchesConfig
<1>2. k \in DOMAIN config
  BY <1>1 DEF ClauseMatchesConfig
<1>3. CASE k \in Common(ca, cb)
  <2>1. m[k] = ca[k] \cap cb[k]
    BY <1>3 DEF Merge, Common
  <2> QED
    BY <1>2, <1>3, <2>1, MatchingClausesAgree
<1>4. CASE k \in DOMAIN ca /\ k \notin DOMAIN cb
  <2>1. m[k] = ca[k]
    BY <1>4 DEF Merge, Common
  <2> QED
    BY <1>2, <1>4, <2>1 DEF ClauseMatchesConfig
<1>5. CASE k \in DOMAIN cb /\ k \notin DOMAIN ca
  <2>1. m[k] = cb[k]
    BY <1>5 DEF Merge, Common
  <2> QED
    BY <1>2, <1>5, <2>1 DEF ClauseMatchesConfig
<1> QED
  BY <1>1, <1>3, <1>4, <1>5 DEF Common

(* What a file inherits is and-ed to its own condition                     *)
(* (ep_dependencies_config.cpp:92-120), for all keys, values, spellings and *)
(* conditions, as long as something is left of the combination: a          *)
(* configuration that matches the combination matches both, and one that   *)
(* matches both matches the combination if the two conditions spell the    *)
(* values they share alike: the combination compares them as they are      *)
(* written, the match in lower case (ep_dependencies_config.cpp:27-49).    *)
THEOREM CombinedMeansBoth ==
  ASSUME NEW a \in Condition, NEW b \in Condition, NEW config \in Config,
         a = Always \/ b = Always \/ CombineConditions(a, b) # Always
  PROVE  /\ ConditionMatchesConfig(CombineConditions(a, b), config)
              => ConditionMatchesConfig(a, config) /\ ConditionMatchesConfig(b, config)
         /\ SpelledAlike(a, b) =>
              (ConditionMatchesConfig(a, config) /\ ConditionMatchesConfig(b, config)
                 => ConditionMatchesConfig(CombineConditions(a, b), config))
<1>1. CASE a = Always \/ b = Always
  BY <1>1 DEF CombineConditions, ConditionMatchesConfig
<1>2. CASE a # Always /\ b # Always
  <2> DEFINE both == CombineConditions(a, b)
  <2>1. both # Always
    BY <1>2
  <2>2. \A ca \in a, cb \in b : ca \in Clause /\ cb \in Clause
    BY DEF Condition
  <2>3. both = {Merge(p[1], p[2]) : p \in {q \in a \X b : ~Exclude(q[1], q[2])}}
    BY <1>2 DEF CombineConditions
  <2>4. ASSUME ConditionMatchesConfig(both, config)
        PROVE  ConditionMatchesConfig(a, config) /\ ConditionMatchesConfig(b, config)
    <3>1. PICK c \in both : ClauseMatchesConfig(c, config)
      BY <2>1, <2>4 DEF ConditionMatchesConfig
    <3>2. PICK ca \in a, cb \in b : c = Merge(ca, cb)
      BY <2>3, <3>1
    <3>3. ClauseMatchesConfig(ca, config) /\ ClauseMatchesConfig(cb, config)
      BY <2>2, <3>1, <3>2, MergedIsStricter
    <3> QED
      BY <3>2, <3>3 DEF ConditionMatchesConfig
  <2>5. ASSUME SpelledAlike(a, b), ConditionMatchesConfig(a, config),
               ConditionMatchesConfig(b, config)
        PROVE  ConditionMatchesConfig(both, config)
    <3>1. PICK ca \in a : ClauseMatchesConfig(ca, config)
      BY <1>2, <2>5 DEF ConditionMatchesConfig
    <3>2. PICK cb \in b : ClauseMatchesConfig(cb, config)
      BY <1>2, <2>5 DEF ConditionMatchesConfig
    <3>3. ~Exclude(ca, cb)
      BY <2>5, <3>1, <3>2, MatchingClausesAgree DEF Exclude
    <3>4. Merge(ca, cb) \in both
      <4>1. <<ca, cb>> \in {q \in a \X b : ~Exclude(q[1], q[2])}
        BY <3>1, <3>2, <3>3
      <4> QED
        BY <2>3, <4>1
    <3>5. ClauseMatchesConfig(Merge(ca, cb), config)
      BY <2>5, <3>1, <3>2, MergedMatches
    <3> QED
      BY <3>4, <3>5 DEF ConditionMatchesConfig
  <2> QED
    BY <2>4, <2>5
<1> QED
  BY <1>1, <1>2

(* When every clause of one excludes every clause of the other, nothing is *)
(* left and the file counts as unconditional: every configuration gets it, *)
(* although, if the two spell what they share alike, none needs it.        *)
THEOREM ExclusionMeansAlways ==
  ASSUME NEW a \in Condition, NEW b \in Condition, a # Always, b # Always,
         \A ca \in a, cb \in b : Exclude(ca, cb)
  PROVE  \A config \in Config :
           /\ ConditionMatchesConfig(CombineConditions(a, b), config)
           /\ SpelledAlike(a, b) =>
                ~(ConditionMatchesConfig(a, config) /\ ConditionMatchesConfig(b, config))
<1> SUFFICES ASSUME NEW config \in Config
             PROVE  /\ ConditionMatchesConfig(CombineConditions(a, b), config)
                    /\ SpelledAlike(a, b) =>
                         ~(ConditionMatchesConfig(a, config)
                             /\ ConditionMatchesConfig(b, config))
  OBVIOUS
<1>1. ConditionMatchesConfig(CombineConditions(a, b), config)
  <2>1. \A p \in a \X b : Exclude(p[1], p[2])
    OBVIOUS
  <2>2. CombineConditions(a, b) = Always
    BY <2>1 DEF CombineConditions, Always
  <2> QED
    BY <2>2 DEF ConditionMatchesConfig
<1>2. ASSUME SpelledAlike(a, b), ConditionMatchesConfig(a, config),
             ConditionMatchesConfig(b, config)
      PROVE  FALSE
  <2>1. PICK ca \in a : ClauseMatchesConfig(ca, config)
    BY <1>2 DEF ConditionMatchesConfig
  <2>2. PICK cb \in b : ClauseMatchesConfig(cb, config)
    BY <1>2 DEF ConditionMatchesConfig
  <2>3. \A k \in Common(ca, cb) : ca[k] \cap cb[k] # {}
    BY <1>2, <2>1, <2>2, MatchingClausesAgree
  <2> QED
    BY <2>3 DEF Exclude
<1> QED
  BY <1>1, <1>2

-----------------------------------------------------------------------------
(* The invariant. Where the Python of a setting may be; the statics hold   *)
(* one of these places, and none before PATH has been changed.             *)
Directories(setting) ==
  IF setting = "system" THEN {NoDirectory}
  ELSE {Candidates(setting)[c] : c \in {1, 2}}

Directory == {NoDirectory} \cup UNION {Directories(s) : s \in PythonPaths}

Python == [applied : PythonPaths \cup {"none"}, ok : BOOLEAN, snapshot : BOOLEAN,
           prefix : Directory]

PythonIsSound(p) ==
  /\ p \in Python
  /\ ~p.snapshot => p.prefix = NoDirectory
  /\ p.ok => p.prefix \in Directories(p.applied)

Applied == python.ok /\ python.applied = pythonPath

Row == [scenario : 1 .. Scenarios, task : Int, ok : BOOLEAN]
Shown == [scenario : 1 .. Scenarios, rows : Seq(Row)]

(* The types, and that only scenarios the run has come to were executed or *)
(* cut short.                                                              *)
RunTypes ==
  /\ client \in Clients
  /\ scenario \in 1 .. LastScenario
  /\ stage \in 1 .. Len(StageOrder)
  /\ wasError \in BOOLEAN /\ success \in BOOLEAN
  /\ outcome \in {"none", "true", "false", "thrown"}
  /\ pythonPath \in PythonPaths
  /\ tasks \subseteq Int
  /\ executed \subseteq 1 .. scenario /\ cut \subseteq 1 .. scenario
  /\ results \in Seq(Row)
  /\ shown \in Seq(Shown)

(* The place in a stage belongs to the stage.                              *)
Where ==
  /\ pc \in {"enter", "Download", "Preparation", "libraries", "devices",
             "entries", "DataVerification", "Benchmark", "tasks", "DisplayResult",
             "over", "done"}
  /\ pc \in {"Download", "Preparation", "DataVerification", "Benchmark",
             "DisplayResult"} => StageName = pc
  /\ pc \in {"entries", "libraries", "devices"} => StageName = "Preparation"
  /\ pc = "tasks" => StageName = "Benchmark"
  /\ pc = "done" <=> outcome # "none"

(* An agentic scenario past its preparation has the Python of the setting. *)
PythonFirst ==
  /\ PythonIsSound(python)
  /\ scenario \in Agentic /\ ~EnumerateOnly
       /\ (stage > 2 \/ pc \in {"entries", "libraries", "devices"}) => Applied
  /\ executed \cap Agentic # {} => Applied

(* Without an error so far every earlier scenario was executed, and this   *)
(* one when it is past the Benchmark stage.                                *)
Done ==
  /\ client \in {"cli", "gui"} /\ ~wasError /\ outcome = "none" =>
       /\ 1 .. scenario - 1 \subseteq executed
       /\ stage = 5 \/ pc = "over" => scenario \in executed
  /\ outcome = "true" /\ client \in {"cli", "gui"} => executed = 1 .. LastScenario
  /\ outcome # "none" /\ client = "gui" /\ success
       => outcome = "true" /\ results # << >> /\ results[1].ok

(* The rows the logger holds are this scenario's, or left from one that    *)
(* was cut short.                                                          *)
Pending ==
  CommandLine => \A i \in 1 .. Len(results) :
    \/ results[i].scenario \in cut
    \/ /\ results[i].scenario = scenario
       /\ scenario \in executed
       /\ pc \in {"tasks", "done"} \/ (stage = 5 /\ pc \in {"enter", "DisplayResult"})

(* The rows shown are of earlier scenarios, or of this one at its end, and *)
(* are no longer held.                                                     *)
Past ==
  /\ ~CommandLine => shown = << >>
  /\ \A k \in 1 .. Len(shown) : \A i \in 1 .. Len(shown[k].rows) :
       /\ shown[k].rows[i].scenario <= scenario
       /\ shown[k].rows[i].scenario = scenario => pc \in {"over", "done"}
       /\ \A j \in 1 .. Len(results) : results[j] # shown[k].rows[i]

IInv == RunTypes /\ Where /\ PythonFirst /\ Done /\ Pending /\ Past

-----------------------------------------------------------------------------
(* The stages of a run *)

(* The five names in their order, without those the run leaves out.        *)
LEMMA StageOrders ==
  /\ ~EnumerateOnly /\ CommandLine => StageOrder =
       <<"Download", "Preparation", "DataVerification", "Benchmark", "DisplayResult">>
  /\ ~EnumerateOnly /\ ~CommandLine => StageOrder =
       <<"Download", "Preparation", "DataVerification", "Benchmark">>
  /\ EnumerateOnly /\ CommandLine => StageOrder =
       <<"Download", "Preparation", "DisplayResult">>
  /\ EnumerateOnly /\ ~CommandLine => StageOrder = <<"Download", "Preparation">>
<1> DEFINE Stages == {"Download", "Preparation", "DataVerification", "Benchmark",
                      "DisplayResult"}
           first == <<"Download", "Preparation">>
           work == <<"DataVerification", "Benchmark">>
           result == <<"DisplayResult">>
           most == <<"Download", "Preparation", "DataVerification", "Benchmark">>
           all == <<"Download", "Preparation", "DataVerification", "Benchmark",
                    "DisplayResult">>
           few == <<"Download", "Preparation", "DisplayResult">>
<1>1. /\ first \in Seq(Stages) /\ work \in Seq(Stages) /\ result \in Seq(Stages)
      /\ most \in Seq(Stages) /\ all \in Seq(Stages) /\ few \in Seq(Stages)
  OBVIOUS
<1>2. first \o work = most
  <2>1. (first \o work) \in Seq(Stages)
    BY <1>1, ConcatProperties
  <2>2. Len(first \o work) = Len(most)
    BY <1>1, ConcatProperties
  <2>3. \A i \in 1 .. Len(first \o work) : (first \o work)[i] = most[i]
    BY <1>1, <2>2, ConcatProperties
  <2> QED
    BY <1>1, <2>1, <2>2, <2>3, SeqEqual
<1>3. first \o result = few
  <2>1. (first \o result) \in Seq(Stages)
    BY <1>1, ConcatProperties
  <2>2. Len(first \o result) = Len(few)
    BY <1>1, ConcatProperties
  <2>3. \A i \in 1 .. Len(first \o result) : (first \o result)[i] = few[i]
    BY <1>1, <2>2, ConcatProperties
  <2> QED
    BY <1>1, <2>1, <2>2, <2>3, SeqEqual
<1>4. most \o result = all
  <2>1. (most \o result) \in Seq(Stages)
    BY <1>1, ConcatProperties
  <2>2. Len(most \o result) = Len(all)
    BY <1>1, ConcatProperties
  <2>3. \A i \in 1 .. Len(most \o result) : (most \o result)[i] = all[i]
    BY <1>1, <2>2, ConcatProperties
  <2> QED
    BY <1>1, <2>1, <2>2, <2>3, SeqEqual
<1>5. most \o << >> = most /\ first \o << >> = first
  BY <1>1, ConcatEmptySeq
<1>6. ~EnumerateOnly => first \o (IF EnumerateOnly THEN << >> ELSE work) = most
  BY <1>2
<1>7. EnumerateOnly => first \o (IF EnumerateOnly THEN << >> ELSE work) = first
  BY <1>5
<1>8. StageOrder = (first \o (IF EnumerateOnly THEN << >> ELSE work))
                     \o (IF CommandLine THEN result ELSE << >>)
  BY DEF StageOrder
<1> HIDE DEF first, work, result, most, all, few
<1>9. /\ ~EnumerateOnly /\ CommandLine => StageOrder = all
      /\ ~EnumerateOnly /\ ~CommandLine => StageOrder = most
      /\ EnumerateOnly /\ CommandLine => StageOrder = few
      /\ EnumerateOnly /\ ~CommandLine => StageOrder = first
  BY <1>3, <1>4, <1>5, <1>6, <1>7, <1>8
<1> QED
  BY <1>9 DEF all, most, few, first

LEMMA StageAt ==
  ASSUME NEW n \in 1 .. Len(StageOrder)
  PROVE  /\ Len(StageOrder) = (IF EnumerateOnly THEN 2 ELSE 4) + (IF CommandLine THEN 1 ELSE 0)
         /\ StageOrder[n] = "Download" <=> n = 1
         /\ StageOrder[n] = "Preparation" <=> n = 2
         /\ StageOrder[n] = "DataVerification" <=> n = 3 /\ ~EnumerateOnly
         /\ StageOrder[n] = "Benchmark" <=> n = 4 /\ ~EnumerateOnly
         /\ StageOrder[n] = "DisplayResult" <=> CommandLine /\ n = Len(StageOrder)
         /\ StageOrder[n] \in {"Download", "Preparation", "DataVerification", "Benchmark",
                           "DisplayResult"}
<1>1. CASE ~EnumerateOnly /\ CommandLine
  <2>1. Len(StageOrder) = 5
    BY <1>1, StageOrders
  <2>2. /\ StageOrder[1] = "Download"
        /\ StageOrder[2] = "Preparation"
        /\ StageOrder[3] = "DataVerification"
        /\ StageOrder[4] = "Benchmark"
        /\ StageOrder[5] = "DisplayResult"
    BY <1>1, StageOrders
  <2>3. n = 1 \/ n = 2 \/ n = 3 \/ n = 4 \/ n = 5
    BY <2>1
  <2> QED
    BY <1>1, <2>1, <2>2, <2>3
<1>2. CASE ~EnumerateOnly /\ ~CommandLine
  <2>1. Len(StageOrder) = 4
    BY <1>2, StageOrders
  <2>2. /\ StageOrder[1] = "Download"
        /\ StageOrder[2] = "Preparation"
        /\ StageOrder[3] = "DataVerification"
        /\ StageOrder[4] = "Benchmark"
    BY <1>2, StageOrders
  <2>3. n = 1 \/ n = 2 \/ n = 3 \/ n = 4
    BY <2>1
  <2> QED
    BY <1>2, <2>1, <2>2, <2>3
<1>3. CASE EnumerateOnly /\ CommandLine
  <2>1. Len(StageOrder) = 3
    BY <1>3, StageOrders
  <2>2. /\ StageOrder[1] = "Download"
        /\ StageOrder[2] = "Preparation"
        /\ StageOrder[3] = "DisplayResult"
    BY <1>3, StageOrders
  <2>3. n = 1 \/ n = 2 \/ n = 3
    BY <2>1
  <2> QED
    BY <1>3, <2>1, <2>2, <2>3
<1>4. CASE EnumerateOnly /\ ~CommandLine
  <2>1. Len(StageOrder) = 2
    BY <1>4, StageOrders
  <2>2. /\ StageOrder[1] = "Download"
        /\ StageOrder[2] = "Preparation"
    BY <1>4, StageOrders
  <2>3. n = 1 \/ n = 2
    BY <2>1
  <2> QED
    BY <1>4, <2>1, <2>2, <2>3
<1> QED
  BY <1>1, <1>2, <1>3, <1>4

LEMMA StageFacts ==
  ASSUME stage \in 1 .. Len(StageOrder)
  PROVE  /\ Len(StageOrder) = (IF EnumerateOnly THEN 2 ELSE 4) + (IF CommandLine THEN 1 ELSE 0)
         /\ StageName = "Download" <=> stage = 1
         /\ StageName = "Preparation" <=> stage = 2
         /\ StageName = "DataVerification" <=> stage = 3 /\ ~EnumerateOnly
         /\ StageName = "Benchmark" <=> stage = 4 /\ ~EnumerateOnly
         /\ StageName = "DisplayResult" <=> CommandLine /\ stage = Len(StageOrder)
         /\ StageName \in {"Download", "Preparation", "DataVerification", "Benchmark",
                           "DisplayResult"}
BY StageAt DEF StageName

(* A run keeps its client.                                                 *)
LEMMA SameClient ==
  ASSUME client' = client
  PROVE  /\ CommandLine' = CommandLine
         /\ EnumerateOnly' = EnumerateOnly
         /\ StageOrder' = StageOrder
         /\ LastScenario' = LastScenario
BY DEF CommandLine, EnumerateOnly, StageOrder, LastScenario

(* A stage is left to the next one, or the scenario ends: after its last    *)
(* stage, or because the stage failed.                                     *)
LEMMA Leaving ==
  ASSUME NEW ok \in BOOLEAN, Leave(ok), stage \in 1 .. Len(StageOrder)
  PROVE  \/ /\ pc' = "enter" /\ stage' = stage + 1 /\ stage < Len(StageOrder)
            /\ wasError' = wasError /\ success' = success
            /\ ok \/ StageName = "DataVerification"
         \/ /\ pc' = "over" /\ stage' = stage /\ stage = Len(StageOrder)
            /\ wasError' = wasError /\ success' = success
            /\ ok \/ StageName = "DataVerification"
         \/ /\ pc' = "over" /\ stage' = stage /\ wasError' = TRUE /\ success' = FALSE
            /\ ~ok /\ StageName # "DataVerification"
BY StageFacts DEF Leave, SurvivesFailure

LEMMA LeavingTypes ==
  ASSUME NEW ok \in BOOLEAN, Leave(ok), stage \in 1 .. Len(StageOrder),
         wasError \in BOOLEAN, success \in BOOLEAN
  PROVE  stage' \in 1 .. Len(StageOrder) /\ wasError' \in BOOLEAN /\ success' \in BOOLEAN
<1>1. stage' \in 1 .. Len(StageOrder)
  <2>1. Len(StageOrder) \in 2 .. 5
    BY StageFacts
  <2>2. stage' = stage \/ (stage' = stage + 1 /\ stage < Len(StageOrder))
    BY Leaving
  <2> QED
    BY <2>1, <2>2
<1>2. wasError' = wasError \/ wasError' = TRUE
  BY Leaving
<1>3. success' = success \/ success' = FALSE
  BY Leaving
<1> QED
  BY <1>1, <1>2, <1>3

-----------------------------------------------------------------------------
(* The Python of the process *)

LEMMA FoundIsCandidate ==
  ASSUME NEW s, NEW present, FindPythonDir(s, present) # NoDirectory
  PROVE  FindPythonDir(s, present) \in {Candidates(s)[c] : c \in {1, 2}}
<1> DEFINE held == {c \in {1, 2} : Candidates(s)[c] \in present}
<1>1. held # {}
  BY DEF FindPythonDir
<1>2. \E c \in held : \A d \in held : c <= d
  BY <1>1
<1>3. (CHOOSE c \in held : \A d \in held : c <= d) \in held
  BY <1>2
<1> QED
  BY <1>1, <1>3 DEF FindPythonDir

LEMMA PrependKeepsSound ==
  ASSUME NEW p \in Python, ~p.snapshot => p.prefix = NoDirectory,
         p.applied \in PythonPaths, NEW directory \in Directories(p.applied), NEW works \in BOOLEAN,
         directory = NoDirectory => p.applied = "system"
  PROVE  /\ PythonIsSound(PrependToPath(p, directory, works))
         /\ PrependToPath(p, directory, works).applied = p.applied
<1>0. p \in Python /\ directory \in Directory /\ TRUE \in BOOLEAN
  BY DEF Directory
<1>1. CASE directory = NoDirectory /\ ~p.snapshot
  <2>1. PrependToPath(p, directory, works) = [p EXCEPT !.ok = TRUE]
    BY <1>1 DEF PrependToPath
  <2>2. [p EXCEPT !.ok = TRUE] \in Python
    BY <1>0 DEF Python
  <2>3. /\ [p EXCEPT !.ok = TRUE].applied = p.applied
        /\ [p EXCEPT !.ok = TRUE].prefix = p.prefix
        /\ [p EXCEPT !.ok = TRUE].snapshot = p.snapshot
    BY <1>0 DEF Python
  <2>4. p.prefix = NoDirectory
    BY <1>1
  <2> QED
    BY <1>1, <2>1, <2>2, <2>3, <2>4 DEF PythonIsSound
<1>2. CASE ~(directory = NoDirectory /\ ~p.snapshot)
  <2> DEFINE prefix == IF works THEN directory ELSE p.prefix
             q == [p EXCEPT !.snapshot = TRUE, !.ok = works, !.prefix = prefix]
  <2>1. PrependToPath(p, directory, works) = q
    BY <1>2, <1>0 DEF PrependToPath, Python
  <2>2. prefix \in Directory
    BY <1>0 DEF Python
  <2>3. works => prefix = directory
    OBVIOUS
  <2> HIDE DEF prefix
  <2>4. q \in Python
    BY <1>0, <2>2 DEF Python
  <2>5. q.applied = p.applied /\ q.ok = works /\ q.snapshot = TRUE /\ q.prefix = prefix
    BY <1>0, <2>2 DEF Python
  <2> HIDE DEF q
  <2> QED
    BY <2>1, <2>3, <2>4, <2>5 DEF PythonIsSound
<1> QED
  BY <1>1, <1>2

(* The statics stay sound, and the setting is the one applied.             *)
LEMMA EnsureKeepsSound ==
  ASSUME NEW p, PythonIsSound(p), NEW setting \in PythonPaths, NEW present,
         NEW works \in BOOLEAN
  PROVE  /\ PythonIsSound(EnsurePortablePythonOnPath(p, setting, present, works))
         /\ EnsurePortablePythonOnPath(p, setting, present, works).applied = setting
<1> DEFINE found == FindPythonDir(setting, present)
           q == [p EXCEPT !.applied = setting]
<1>0. p \in Python /\ setting \in PythonPaths \cup {"none"} /\ FALSE \in BOOLEAN
  BY DEF PythonIsSound
<1>1. CASE p.applied = setting
  BY <1>1 DEF EnsurePortablePythonOnPath
<1>2. CASE p.applied # setting
  <2>1. q \in Python
    BY <1>0 DEF Python
  <2>2. /\ q.applied = setting
        /\ q.ok = p.ok
        /\ q.snapshot = p.snapshot
        /\ q.prefix = p.prefix
    BY <1>0 DEF Python
  <2>3. ~q.snapshot => q.prefix = NoDirectory
    BY <2>2 DEF PythonIsSound
  <2> HIDE DEF q
  <2>4. CASE setting = "system"
    <3>1. NoDirectory \in Directories(q.applied)
      BY <2>2, <2>4 DEF Directories
    <3>2. EnsurePortablePythonOnPath(p, setting, present, works) = PrependToPath(q, NoDirectory, works)
      BY <1>2, <2>4 DEF EnsurePortablePythonOnPath, q
    <3> QED
      BY <2>1, <2>2, <2>3, <2>4, <3>1, <3>2, PrependKeepsSound
  <2>5. CASE setting # "system" /\ found = NoDirectory
    <3>1. EnsurePortablePythonOnPath(p, setting, present, works) = [q EXCEPT !.ok = FALSE]
      BY <1>2, <2>5 DEF EnsurePortablePythonOnPath, q
    <3>2. [q EXCEPT !.ok = FALSE] \in Python
      BY <1>0, <2>1 DEF Python
    <3>3. /\ [q EXCEPT !.ok = FALSE].applied = q.applied
          /\ [q EXCEPT !.ok = FALSE].ok = FALSE
          /\ [q EXCEPT !.ok = FALSE].snapshot = q.snapshot
          /\ [q EXCEPT !.ok = FALSE].prefix = q.prefix
      BY <2>1 DEF Python
    <3> QED
      BY <2>2, <2>3, <3>1, <3>2, <3>3 DEF PythonIsSound
  <2>6. CASE setting # "system" /\ found # NoDirectory
    <3>1. found \in Directories(q.applied)
      BY <2>2, <2>6, FoundIsCandidate DEF Directories
    <3>2. EnsurePortablePythonOnPath(p, setting, present, works) = PrependToPath(q, found, works)
      BY <1>2, <2>6 DEF EnsurePortablePythonOnPath, q
    <3> QED
      BY <2>1, <2>2, <2>3, <2>6, <3>1, <3>2, PrependKeepsSound
  <2> QED
    BY <2>4, <2>5, <2>6
<1> QED
  BY <1>1, <1>2

-----------------------------------------------------------------------------
(* The invariant *)

main == <<client, scenario, stage, wasError, success, outcome, pythonPath, python,
          executed, results, shown, cut>>

(* Steps that only prepare EPs or examine libraries.                       *)
LEMMA PreparingKeeps ==
  ASSUME IInv, UNCHANGED main, tasks' = tasks,
         \/ pc' = pc
         \/ pc \in {"entries", "libraries", "devices"} /\ pc' \in {"entries", "libraries", "devices"}
  PROVE  IInv'
<1>1. /\ client' = client /\ scenario' = scenario /\ stage' = stage
      /\ wasError' = wasError /\ success' = success /\ outcome' = outcome
      /\ pythonPath' = pythonPath /\ python' = python
      /\ executed' = executed /\ results' = results /\ shown' = shown /\ cut' = cut
  BY DEF main
<1>2. /\ CommandLine' = CommandLine /\ EnumerateOnly' = EnumerateOnly
      /\ StageOrder' = StageOrder /\ LastScenario' = LastScenario /\ StageName' = StageName
  BY <1>1, SameClient DEF StageName
<1>3. RunTypes'
  BY <1>1, <1>2 DEF IInv, RunTypes
<1>4. Where'
  BY <1>1, <1>2 DEF IInv, Where
<1>5. PythonFirst'
  <2>1. PythonIsSound(python') /\ (Applied' <=> Applied)
    BY <1>1 DEF IInv, PythonFirst, Applied
  <2> QED
    BY <1>1, <1>2, <2>1 DEF IInv, PythonFirst
<1>6. Done'
  BY <1>1, <1>2 DEF IInv, Done
<1>7. Pending'
  BY <1>1, <1>2 DEF IInv, Pending
<1>8. Past'
  BY <1>1, <1>2 DEF IInv, Past
<1> QED
  BY <1>3, <1>4, <1>5, <1>6, <1>7, <1>8 DEF IInv

(* Steps that leave a stage and do nothing else.                           *)
LEMMA LeavingKeeps ==
  ASSUME IInv, NEW ok \in BOOLEAN, Leave(ok), tasks' = tasks,
         UNCHANGED <<client, scenario, outcome, pythonPath, python, executed, results,
                     shown, cut>>,
         pc \in {"Download", "libraries", "DataVerification", "tasks"},
         pc = "tasks" => (ok <=> scenario \in executed)
  PROVE  IInv'
<1>1. /\ client' = client /\ scenario' = scenario /\ outcome' = outcome
      /\ pythonPath' = pythonPath /\ python' = python
      /\ executed' = executed /\ results' = results /\ shown' = shown /\ cut' = cut
  OBVIOUS
<1>2. /\ CommandLine' = CommandLine /\ EnumerateOnly' = EnumerateOnly
      /\ StageOrder' = StageOrder /\ LastScenario' = LastScenario
  BY <1>1, SameClient
<1>3. stage \in 1 .. Len(StageOrder) /\ outcome = "none"
  BY DEF IInv, RunTypes, Where
<1>4. /\ Len(StageOrder) = (IF EnumerateOnly THEN 2 ELSE 4) + (IF CommandLine THEN 1 ELSE 0)
      /\ pc = "Download" => stage = 1
      /\ pc = "libraries" => stage = 2
      /\ pc = "DataVerification" => stage = 3 /\ ~EnumerateOnly
      /\ pc = "tasks" => stage = 4 /\ ~EnumerateOnly
      /\ StageName = "DataVerification" <=> stage = 3 /\ ~EnumerateOnly
  BY <1>3, StageFacts DEF IInv, Where
<1>5. \/ /\ pc' = "enter" /\ stage' = stage + 1 /\ stage < Len(StageOrder)
         /\ wasError' = wasError /\ success' = success
         /\ ok \/ StageName = "DataVerification"
      \/ /\ pc' = "over" /\ stage' = stage /\ stage = Len(StageOrder)
         /\ wasError' = wasError /\ success' = success
         /\ ok \/ StageName = "DataVerification"
      \/ /\ pc' = "over" /\ stage' = stage /\ wasError' = TRUE /\ success' = FALSE
         /\ ~ok /\ StageName # "DataVerification"
  BY <1>3, Leaving
<1>6. stage' \in 1 .. Len(StageOrder) /\ wasError' \in BOOLEAN /\ success' \in BOOLEAN
  BY <1>3, LeavingTypes DEF IInv, RunTypes
<1>7. RunTypes'
  BY <1>1, <1>2, <1>6 DEF IInv, RunTypes
<1>8. Where'
  BY <1>1, <1>3, <1>5 DEF Where
<1>9. PythonFirst'
  <2>1. PythonIsSound(python') /\ (Applied' <=> Applied)
    BY <1>1 DEF IInv, PythonFirst, Applied
  <2>2. stage' > 2 => stage > 2 \/ pc = "libraries"
    BY <1>3, <1>4, <1>5
  <2>3. pc' \notin {"entries", "libraries", "devices"}
    BY <1>5
  <2> QED
    BY <1>1, <1>2, <2>1, <2>2, <2>3 DEF IInv, PythonFirst
<1>10. Done'
  <2>1. client \in {"cli", "gui"} => ~EnumerateOnly /\ (CommandLine <=> client = "cli")
    BY DEF EnumerateOnly, CommandLine
  <2>2. ~wasError' => ~wasError
    BY <1>5
  <2>3. client \in {"cli", "gui"} /\ ~wasError' /\ (stage' = 5 \/ pc' = "over") => scenario \in executed
    BY <1>3, <1>4, <1>5, <2>1
  <2>4. outcome' = "none"
    BY <1>1, <1>3
  <2> QED
    BY <1>1, <1>2, <1>3, <2>2, <2>3, <2>4 DEF IInv, Done
<1>11. Pending'
  <2>1. ASSUME CommandLine, NEW i \in 1 .. Len(results), results[i].scenario \notin cut
        PROVE  /\ results[i].scenario = scenario /\ scenario \in executed
               /\ pc' = "enter" /\ stage' = 5
    <3>1. results[i].scenario = scenario /\ scenario \in executed /\ pc = "tasks"
      BY <2>1 DEF IInv, Pending
    <3> QED
      BY <2>1, <3>1, <1>3, <1>4, <1>5
  <2> QED
    BY <1>1, <1>2, <2>1 DEF Pending
<1>12. Past'
  BY <1>1, <1>2 DEF IInv, Past
<1> QED
  BY <1>7, <1>8, <1>9, <1>10, <1>11, <1>12 DEF IInv


(* What IInv says of a step that leaves the client alone.                  *)
LEMMA Facts ==
  ASSUME IInv, client' = client
  PROVE  /\ stage \in 1 .. Len(StageOrder)
         /\ Len(StageOrder) = (IF EnumerateOnly THEN 2 ELSE 4) + (IF CommandLine THEN 1 ELSE 0)
         /\ pc \in {"Preparation", "entries", "libraries", "devices"} => stage = 2
         /\ pc \in {"Benchmark", "tasks"} => stage = 4 /\ ~EnumerateOnly
         /\ pc = "DisplayResult" => CommandLine /\ stage = Len(StageOrder)
         /\ client \in {"cli", "gui"} => ~EnumerateOnly /\ (CommandLine <=> client = "cli")
         /\ CommandLine' = CommandLine /\ EnumerateOnly' = EnumerateOnly
         /\ StageOrder' = StageOrder /\ LastScenario' = LastScenario
<1>1. stage \in 1 .. Len(StageOrder)
  BY DEF IInv, RunTypes
<1>2. /\ pc \in {"Preparation", "entries", "libraries", "devices"} => StageName = "Preparation"
      /\ pc \in {"Benchmark", "tasks"} => StageName = "Benchmark"
      /\ pc = "DisplayResult" => StageName = "DisplayResult"
  BY DEF IInv, Where
<1>3. client \in {"cli", "gui"} => ~EnumerateOnly /\ (CommandLine <=> client = "cli")
  BY DEF EnumerateOnly, CommandLine
<1> QED
  BY <1>1, <1>2, <1>3, StageFacts, SameClient

LEMMA EnterKeeps ==
  ASSUME IInv, EnterStage
  PROVE  IInv'
<1>1. /\ client' = client /\ scenario' = scenario /\ stage' = stage
      /\ success' = success /\ outcome' = outcome
      /\ pythonPath' = pythonPath /\ python' = python /\ tasks' = tasks
      /\ executed' = executed /\ results' = results /\ shown' = shown /\ cut' = cut
  BY DEF EnterStage, runVars, prepareVars, pythonVars, resultVars
<1>2. /\ pc = "enter"
      /\ pc' = IF MayEnter THEN StageName ELSE "over"
      /\ wasError' = (wasError \/ ~MayEnter)
  BY DEF EnterStage
<1>3. /\ StageName \in {"Download", "Preparation", "DataVerification", "Benchmark",
                        "DisplayResult"}
      /\ StageName' = StageName
      /\ StageName = "DisplayResult" <=> CommandLine /\ stage = Len(StageOrder)
  BY <1>1, Facts, StageFacts DEF StageName
<1>4. outcome = "none"
  BY <1>2 DEF IInv, Where
<1>5. RunTypes'
  <2>1. wasError' \in BOOLEAN
    BY <1>2
  <2> QED
    BY <1>1, <2>1, Facts DEF IInv, RunTypes
<1>6. Where'
  BY <1>1, <1>2, <1>3, <1>4 DEF Where
<1>7. PythonFirst'
  <2>1. PythonIsSound(python') /\ (Applied' <=> Applied)
    BY <1>1 DEF IInv, PythonFirst, Applied
  <2>2. pc' \notin {"entries", "libraries", "devices"}
    BY <1>2, <1>3
  <2> QED
    BY <1>1, <2>1, <2>2, Facts DEF IInv, PythonFirst
<1>8. Done'
  <2>1. ~wasError' => ~wasError /\ pc' # "over"
    BY <1>2, <1>3
  <2> QED
    BY <1>1, <1>4, <2>1, Facts DEF IInv, Done
<1>9. Pending'
  <2>1. ASSUME CommandLine, NEW i \in 1 .. Len(results), results[i].scenario \notin cut
        PROVE  /\ results[i].scenario = scenario /\ scenario \in executed
               /\ pc' = "DisplayResult" /\ stage' = 5
    <3>1. results[i].scenario = scenario /\ scenario \in executed /\ stage = 5
      BY <1>2, <2>1 DEF IInv, Pending
    <3>2. StageName = "DisplayResult"
      <4>1. stage = Len(StageOrder)
        <5>1. /\ stage \in 1 .. Len(StageOrder)
              /\ Len(StageOrder) = (IF EnumerateOnly THEN 2 ELSE 4) + (IF CommandLine THEN 1 ELSE 0)
          BY <1>1, Facts
        <5>2. Len(StageOrder) \in {2, 3, 4, 5}
          BY <5>1
        <5> QED
          BY <3>1, <5>1, <5>2
      <4> QED
        BY <1>3, <2>1, <4>1
    <3>3. MayEnter
      BY <2>1, <3>2 DEF MayEnter, CommandLine
    <3> QED
      BY <1>1, <1>2, <3>1, <3>2, <3>3
  <2> QED
    BY <1>1, <2>1, Facts DEF Pending
<1>10. Past'
  BY <1>1, <1>2, Facts DEF IInv, Past
<1> QED
  BY <1>5, <1>6, <1>7, <1>8, <1>9, <1>10 DEF IInv

LEMMA EndScenarioKeeps ==
  ASSUME PipelineAssumption, IInv, EndScenario
  PROVE  IInv'
<1>1. /\ client' = client /\ wasError' = wasError /\ stage' = 1
      /\ pythonPath' = pythonPath /\ python' = python /\ tasks' = {}
      /\ executed' = executed /\ results' = results /\ shown' = shown /\ cut' = cut
  BY DEF EndScenario, pythonVars, resultVars
<1>2. pc = "over" /\ outcome = "none"
  BY DEF EndScenario, IInv, Where
<1>3. \/ /\ scenario < LastScenario /\ scenario' = scenario + 1 /\ pc' = "enter"
         /\ outcome' = outcome /\ success' = success
      \/ /\ ~(scenario < LastScenario) /\ scenario' = scenario /\ pc' = "done"
         /\ outcome' = IF wasError THEN "false" ELSE "true"
         /\ success' = IF client = "gui"
                       THEN ~wasError /\ results # << >> /\ results[1].ok
                       ELSE success
  BY DEF EndScenario
<1>4. /\ scenario \in 1 .. LastScenario /\ LastScenario \in Nat
      /\ executed \subseteq 1 .. scenario /\ cut \subseteq 1 .. scenario
      /\ wasError \in BOOLEAN /\ success \in BOOLEAN
      /\ results \in Seq(Row)
  BY DEF IInv, RunTypes, PipelineAssumption, LastScenario
<1>5. RunTypes'
  <2>1. scenario' \in 1 .. LastScenario /\ scenario <= scenario' /\ scenario' \in Nat
    BY <1>3, <1>4
  <2>2. executed \subseteq 1 .. scenario' /\ cut \subseteq 1 .. scenario'
    BY <1>4, <2>1
  <2>3. success' \in BOOLEAN
    <3>1. results # << >> => results[1].ok \in BOOLEAN
      <4>1. results # << >> => 1 \in 1 .. Len(results)
        BY <1>4, EmptySeq
      <4>2. results # << >> => results[1] \in Row
        BY <1>4, <4>1
      <4> QED
        BY <4>2 DEF Row
    <3> QED
      BY <1>3, <1>4, <3>1
  <2>4. outcome' \in {"none", "true", "false", "thrown"}
    BY <1>2, <1>3
  <2>5. 1 \in 1 .. Len(StageOrder)
    BY <1>1, Facts
  <2>6. tasks' \subseteq Int
    BY <1>1
  <2> QED
    BY <1>1, <1>4, <2>1, <2>2, <2>3, <2>4, <2>5, <2>6, Facts DEF IInv, RunTypes
<1>6. Where'
  BY <1>2, <1>3 DEF Where
<1>7. PythonFirst'
  <2>1. PythonIsSound(python') /\ (Applied' <=> Applied)
    BY <1>1 DEF IInv, PythonFirst, Applied
  <2> QED
    BY <1>1, <1>3, <2>1 DEF IInv, PythonFirst
<1>8. Done'
  <2>1. ASSUME client \in {"cli", "gui"}, ~wasError
        PROVE  executed = 1 .. scenario
    <3>1. 1 .. scenario - 1 \subseteq executed /\ scenario \in executed
      BY <1>2, <2>1 DEF IInv, Done
    <3>2. \A n \in 1 .. scenario : n \in 1 .. scenario - 1 \/ n = scenario
      BY <1>4
    <3> QED
      BY <1>4, <3>1, <3>2
  <2>2. CASE pc' = "enter"
    <3>1. scenario' - 1 = scenario /\ outcome' = "none"
      BY <1>2, <1>3, <1>4, <2>2
    <3>2. client \in {"cli", "gui"} /\ ~wasError => 1 .. scenario' - 1 \subseteq executed
      BY <2>1, <3>1
    <3>3. stage' # 5 /\ pc' # "over"
      BY <1>1, <2>2
    <3> QED
      BY <1>1, <3>1, <3>2, <3>3 DEF Done
  <2>3. CASE pc' = "done"
    <3>1. scenario = LastScenario
      BY <1>3, <1>4, <2>3
    <3>2. outcome' = (IF wasError THEN "false" ELSE "true") /\ outcome' # "none"
      BY <1>3, <2>3
    <3>3. outcome' = "true" /\ client \in {"cli", "gui"} => executed = 1 .. LastScenario
      BY <2>1, <3>1, <3>2
    <3>4. client = "gui" /\ success' => ~wasError /\ results # << >> /\ results[1].ok
      BY <1>3, <2>3
    <3> QED
      BY <1>1, <3>2, <3>3, <3>4, Facts DEF Done
  <2> QED
    BY <1>3, <2>2, <2>3
<1>9. Pending'
  BY <1>1, <1>2, Facts DEF IInv, Pending
<1>10. Past'
  <2>1. ~CommandLine' => shown' = << >>
    BY <1>1, Facts DEF IInv, Past
  <2>2. ASSUME NEW k \in 1 .. Len(shown), NEW i \in 1 .. Len(shown[k].rows)
        PROVE  /\ shown[k].rows[i].scenario <= scenario'
               /\ shown[k].rows[i].scenario = scenario' => pc' \in {"over", "done"}
               /\ \A j \in 1 .. Len(results) : results[j] # shown[k].rows[i]
    <3>1. /\ shown[k].rows[i].scenario <= scenario
          /\ \A j \in 1 .. Len(results) : results[j] # shown[k].rows[i]
      BY DEF IInv, Past
    <3>2. shown[k].rows[i].scenario \in Int
      <4>1. shown[k] \in Shown
        BY DEF IInv, RunTypes
      <4>2. shown[k].rows[i] \in Row
        BY <4>1 DEF Shown
      <4> QED
        BY <4>2 DEF Row
    <3> QED
      BY <1>3, <1>4, <3>1, <3>2
  <2> QED
    BY <1>1, <2>1, <2>2 DEF Past
<1> QED
  BY <1>5, <1>6, <1>7, <1>8, <1>9, <1>10 DEF IInv

LEMMA ThrowKeeps ==
  ASSUME IInv, Throw
  PROVE  IInv'
<1>1. /\ client' = client /\ scenario' = scenario /\ stage' = stage
      /\ wasError' = wasError
      /\ pythonPath' = pythonPath /\ python' = python /\ tasks' = tasks
      /\ executed' = executed /\ results' = results /\ shown' = shown /\ cut' = cut
  BY DEF Throw, prepareVars, pythonVars, resultVars
<1>2. pc' = "done" /\ outcome' = "thrown" /\ success' = FALSE
      /\ pc \notin {"enter", "over", "done"}
  BY DEF Throw
<1>3. RunTypes'
  <2>1. success' \in BOOLEAN /\ outcome' \in {"none", "true", "false", "thrown"}
    BY <1>2
  <2> QED
    BY <1>1, <2>1, Facts DEF IInv, RunTypes
<1>4. Where'
  BY <1>2 DEF Where
<1>5. PythonFirst'
  <2>1. PythonIsSound(python') /\ (Applied' <=> Applied)
    BY <1>1 DEF IInv, PythonFirst, Applied
  <2> QED
    BY <1>1, <1>2, <2>1, Facts DEF IInv, PythonFirst
<1>6. Done'
  BY <1>2 DEF Done
<1>7. Pending'
  BY <1>1, <1>2, Facts DEF IInv, Pending
<1>8. Past'
  <2>1. pc' \in {"over", "done"} /\ CommandLine' = CommandLine
    BY <1>1, <1>2, Facts
  <2> QED
    BY <1>1, <2>1 DEF IInv, Past
<1> QED
  BY <1>3, <1>4, <1>5, <1>6, <1>7, <1>8 DEF IInv


LEMMA BeginKeeps ==
  ASSUME IInv, BeginPreparation
  PROVE  IInv'
<1>1. /\ client' = client /\ scenario' = scenario /\ outcome' = outcome
      /\ pythonPath' = pythonPath /\ tasks' = tasks
      /\ executed' = executed /\ results' = results /\ shown' = shown /\ cut' = cut
  BY DEF BeginPreparation, runVars, resultVars
<1>2. pc = "Preparation" /\ outcome = "none" /\ stage = 2
  BY <1>1, Facts DEF BeginPreparation, IInv, Where
<1>3. StageName = "Preparation" /\ SurvivesFailure = FALSE
  BY <1>2 DEF IInv, Where, SurvivesFailure
<1>4. \/ python' = python /\ ~NeedsPython
      \/ \E works \in BOOLEAN, present \in SUBSET {Candidates(pythonPath)[c] : c \in {1, 2}} :
           python' = EnsurePortablePythonOnPath(python, pythonPath, present, works)
  BY DEF BeginPreparation
<1>5. /\ PythonIsSound(python')
      /\ NeedsPython => python'.applied = pythonPath
      /\ Applied => python' = python
  <2>1. CASE python' = python /\ ~NeedsPython
    BY <2>1 DEF IInv, PythonFirst
  <2>2. ASSUME NEW works \in BOOLEAN,
               NEW present \in SUBSET {Candidates(pythonPath)[c] : c \in {1, 2}},
               python' = EnsurePortablePythonOnPath(python, pythonPath, present, works)
        PROVE  /\ PythonIsSound(python')
               /\ python'.applied = pythonPath
               /\ Applied => python' = python
    <3>1. PythonIsSound(python) /\ pythonPath \in PythonPaths
      BY DEF IInv, PythonFirst, RunTypes
    <3>2. Applied => python' = python
      BY <2>2 DEF Applied, EnsurePortablePythonOnPath
    <3> QED
      BY <2>2, <3>1, <3>2, EnsureKeepsSound
  <2> QED
    BY <1>4, <2>1, <2>2
<1>6. \/ /\ NeedsPython => python'.ok
         /\ pc' = "entries" /\ stage' = stage /\ wasError' = wasError /\ success' = success
      \/ pc' = "over" /\ stage' = stage /\ wasError' = TRUE /\ success' = FALSE
  BY <1>3 DEF BeginPreparation, Leave
<1>7. /\ stage' = stage
      /\ wasError' = wasError \/ wasError' = TRUE
      /\ success' = success \/ success' = FALSE
      /\ pc' = "entries" \/ (pc' = "over" /\ wasError' = TRUE)
  BY <1>6
<1>8. RunTypes'
  <2>1. wasError' \in BOOLEAN /\ success' \in BOOLEAN
    BY <1>7 DEF IInv, RunTypes
  <2> QED
    BY <1>1, <1>7, <2>1, Facts DEF IInv, RunTypes
<1>9. Where'
  <2>1. StageName' = StageName
    BY <1>1, <1>7, Facts DEF StageName
  <2> QED
    BY <1>1, <1>2, <1>3, <1>7, <2>1 DEF Where
<1>10. PythonFirst'
  <2>1. Applied => Applied'
    BY <1>1, <1>5 DEF Applied
  <2>2. NeedsPython /\ pc' = "entries" => Applied'
    BY <1>1, <1>5, <1>6 DEF Applied
  <2>3. scenario \in Agentic /\ ~EnumerateOnly /\ pc' = "entries" => Applied'
    BY <2>2 DEF NeedsPython
  <2>4. executed \cap Agentic # {} => Applied
    BY DEF IInv, PythonFirst
  <2>5. ~(stage' > 2)
    BY <1>2, <1>7
  <2> QED
    BY <1>1, <1>5, <1>7, <2>1, <2>3, <2>4, <2>5, Facts DEF PythonFirst
<1>11. Done'
  <2>1. ~wasError' => ~wasError /\ pc' = "entries"
    BY <1>7
  <2>2. stage' # 5 /\ outcome' = "none"
    BY <1>1, <1>2, <1>7
  <2> QED
    BY <1>1, <1>2, <2>1, <2>2 DEF IInv, Done
<1>12. Pending'
  BY <1>1, <1>2, Facts DEF IInv, Pending
<1>13. Past'
  BY <1>1, <1>2, Facts DEF IInv, Past
<1> QED
  BY <1>8, <1>9, <1>10, <1>11, <1>12, <1>13 DEF IInv

LEMMA MakeTasksKeeps ==
  ASSUME IInv, MakeTasks
  PROVE  IInv'
<1>1. /\ client' = client /\ scenario' = scenario /\ stage' = stage
      /\ wasError' = wasError /\ success' = success /\ outcome' = outcome
      /\ pythonPath' = pythonPath /\ python' = python
      /\ executed' = executed /\ results' = results /\ shown' = shown /\ cut' = cut
  BY DEF MakeTasks, runVars, prepareVars, pythonVars, resultVars
<1>2. pc = "Benchmark" /\ pc' = "tasks" /\ tasks' \in SUBSET (1 .. Len(prepared))
  BY DEF MakeTasks
<1>3. RunTypes'
  <2>1. tasks' \subseteq Int
    BY <1>2
  <2> QED
    BY <1>1, <2>1, Facts DEF IInv, RunTypes
<1>4. Where'
  BY <1>1, <1>2, Facts DEF IInv, Where, StageName
<1>5. PythonFirst'
  <2>1. PythonIsSound(python') /\ (Applied' <=> Applied)
    BY <1>1 DEF IInv, PythonFirst, Applied
  <2> QED
    BY <1>1, <1>2, <2>1, Facts DEF IInv, PythonFirst
<1>6. Done'
  BY <1>1, <1>2, Facts DEF IInv, Done
<1>7. Pending'
  BY <1>1, <1>2, Facts DEF IInv, Pending
<1>8. Past'
  BY <1>1, <1>2, Facts DEF IInv, Past
<1> QED
  BY <1>3, <1>4, <1>5, <1>6, <1>7, <1>8 DEF IInv

(* Executors are called in the Benchmark stage only, and the rows they add *)
(* are the scenario's.                                                     *)
LEMMA CallFacts ==
  ASSUME IInv, NEW ok \in BOOLEAN, CallTask(ok)
  PROVE  /\ tasks' \subseteq Int
         /\ executed' = executed \cup {scenario}
         /\ executed' \subseteq 1 .. scenario
         /\ \/ results' = results
            \/ \E i \in Int : results' = Append(results, [scenario |-> scenario, task |-> i, ok |-> ok])
<1>1. /\ tasks \subseteq Int /\ executed \subseteq 1 .. scenario /\ scenario \in 1 .. LastScenario
  BY DEF IInv, RunTypes
<1>2. PICK i \in tasks, appended \in BOOLEAN :
        /\ tasks' = tasks \ {i}
        /\ executed' = executed \cup {scenario}
        /\ results' = IF appended
                      THEN Append(results, [scenario |-> scenario, task |-> i, ok |-> ok])
                      ELSE results
  BY DEF CallTask
<1>3. scenario \in 1 .. scenario
  BY <1>1
<1> QED
  BY <1>1, <1>2, <1>3


LEMMA RowsAfterCall ==
  ASSUME PipelineAssumption, IInv, NEW ok \in BOOLEAN, CallTask(ok)
  PROVE  /\ results' \in Seq(Row)
         /\ \A j \in 1 .. Len(results') :
              \/ j \in 1 .. Len(results) /\ results'[j] = results[j]
              \/ results'[j].scenario = scenario
<1>1. results \in Seq(Row)
  BY DEF IInv, RunTypes
<1>2. scenario \in 1 .. Scenarios
  BY DEF IInv, RunTypes, LastScenario, PipelineAssumption
<1>3. CASE results' = results
  BY <1>1, <1>3
<1>4. ASSUME NEW i \in Int,
             results' = Append(results, [scenario |-> scenario, task |-> i, ok |-> ok])
      PROVE  /\ results' \in Seq(Row)
             /\ \A j \in 1 .. Len(results') :
                  \/ j \in 1 .. Len(results) /\ results'[j] = results[j]
                  \/ results'[j].scenario = scenario
  <2> DEFINE row == [scenario |-> scenario, task |-> i, ok |-> ok]
  <2>1. row \in Row /\ row.scenario = scenario
    BY <1>2 DEF Row
  <2>2. results' = Append(results, row)
    BY <1>4
  <2> HIDE DEF row
  <2>3. /\ results' \in Seq(Row)
        /\ Len(results') = Len(results) + 1
        /\ \A j \in 1 .. Len(results) : results'[j] = results[j]
        /\ results'[Len(results) + 1] = row
    BY <1>1, <2>1, <2>2, AppendProperties
  <2>4. \A j \in 1 .. Len(results) + 1 : j \in 1 .. Len(results) \/ j = Len(results) + 1
    BY <1>1
  <2> QED
    BY <2>1, <2>3, <2>4
<1> QED
  BY <1>3, <1>4, CallFacts

LEMMA RunTaskKeeps ==
  ASSUME PipelineAssumption, IInv, RunTask
  PROVE  IInv'
<1>1. /\ client' = client /\ scenario' = scenario /\ stage' = stage /\ pc' = pc
      /\ wasError' = wasError /\ success' = success /\ outcome' = outcome
      /\ pythonPath' = pythonPath /\ python' = python /\ shown' = shown /\ cut' = cut
  BY DEF RunTask, runVars, stageVars, prepareVars, pythonVars
<1>2. pc = "tasks" /\ outcome = "none" /\ stage = 4 /\ ~EnumerateOnly
  BY <1>1, Facts DEF RunTask, IInv, Where
<1>3. PICK ok \in BOOLEAN : CallTask(ok)
  BY DEF RunTask
<1>4. /\ tasks' \subseteq Int
      /\ executed' = executed \cup {scenario} /\ executed' \subseteq 1 .. scenario
  BY <1>3, CallFacts
<1>5. /\ results' \in Seq(Row)
      /\ \A j \in 1 .. Len(results') :
           \/ j \in 1 .. Len(results) /\ results'[j] = results[j]
           \/ results'[j].scenario = scenario
  BY <1>3, RowsAfterCall
<1>6. RunTypes'
  BY <1>1, <1>4, <1>5, Facts DEF IInv, RunTypes
<1>7. Where'
  BY <1>1, Facts DEF IInv, Where, StageName
<1>8. PythonFirst'
  <2>1. PythonIsSound(python') /\ (Applied' <=> Applied)
    BY <1>1 DEF IInv, PythonFirst, Applied
  <2>2. scenario \in Agentic => Applied
    BY <1>2 DEF IInv, PythonFirst
  <2>3. executed' \cap Agentic # {} => Applied
    BY <1>4, <2>2 DEF IInv, PythonFirst
  <2> QED
    BY <1>1, <1>2, <2>1, <2>2, <2>3, Facts DEF PythonFirst
<1>9. Done'
  <2>1. stage' # 5 /\ pc' # "over" /\ outcome' = "none"
    BY <1>1, <1>2
  <2> QED
    BY <1>1, <1>2, <1>4, <2>1 DEF IInv, Done
<1>10. Pending'
  <2>1. ASSUME CommandLine, NEW i \in 1 .. Len(results'), results'[i].scenario \notin cut
        PROVE  results'[i].scenario = scenario
    BY <1>5, <2>1 DEF IInv, Pending
  <2>2. scenario \in executed' /\ pc' = "tasks"
    BY <1>1, <1>2, <1>4
  <2> QED
    BY <1>1, <2>1, <2>2, Facts DEF Pending
<1>11. Past'
  <2>1. ASSUME NEW k \in 1 .. Len(shown), NEW i \in 1 .. Len(shown[k].rows)
        PROVE  /\ shown[k].rows[i].scenario <= scenario
               /\ shown[k].rows[i].scenario # scenario
               /\ \A j \in 1 .. Len(results') : results'[j] # shown[k].rows[i]
    <3>1. /\ shown[k].rows[i].scenario <= scenario
          /\ shown[k].rows[i].scenario # scenario
          /\ \A j \in 1 .. Len(results) : results[j] # shown[k].rows[i]
      BY <1>2 DEF IInv, Past
    <3> QED
      BY <1>5, <3>1
  <2>2. ~CommandLine => shown = << >>
    BY DEF IInv, Past
  <2> QED
    BY <1>1, <2>1, <2>2, Facts DEF Past
<1> QED
  BY <1>6, <1>7, <1>8, <1>9, <1>10, <1>11 DEF IInv

LEMMA StopTasksKeeps ==
  ASSUME PipelineAssumption, IInv, StopTasks
  PROVE  IInv'
<1>1. /\ client' = client /\ scenario' = scenario /\ outcome' = outcome
      /\ pythonPath' = pythonPath /\ python' = python /\ shown' = shown
  BY DEF StopTasks, runVars, prepareVars, pythonVars
<1>2. /\ pc = "tasks" /\ outcome = "none" /\ stage = 4 /\ ~EnumerateOnly
      /\ cut' = cut \cup {scenario}
  BY <1>1, Facts DEF StopTasks, IInv, Where
<1>3. pc' = "over" /\ stage' = stage /\ wasError' = TRUE /\ success' = FALSE
  BY <1>2 DEF StopTasks, Leave, SurvivesFailure, IInv, Where
<1>4. /\ tasks' \subseteq Int
      /\ executed' = executed \/ executed' = executed \cup {scenario}
      /\ executed' \subseteq 1 .. scenario
      /\ results' \in Seq(Row)
      /\ \A j \in 1 .. Len(results') :
           \/ j \in 1 .. Len(results) /\ results'[j] = results[j]
           \/ results'[j].scenario = scenario
  <2>1. CASE CallTask(FALSE)
    BY <2>1, CallFacts, RowsAfterCall
  <2>2. CASE tasks' = tasks /\ executed' = executed /\ results' = results
    BY <2>2 DEF IInv, RunTypes
  <2> QED
    BY <2>1, <2>2 DEF StopTasks
<1>5. RunTypes'
  <2>1. wasError' \in BOOLEAN /\ success' \in BOOLEAN
    BY <1>3
  <2>2. cut' \subseteq 1 .. scenario
    BY <1>2 DEF IInv, RunTypes
  <2> QED
    BY <1>1, <1>3, <1>4, <2>1, <2>2, Facts DEF IInv, RunTypes
<1>6. Where'
  BY <1>1, <1>2, <1>3 DEF Where
<1>7. PythonFirst'
  <2>1. PythonIsSound(python') /\ (Applied' <=> Applied)
    BY <1>1 DEF IInv, PythonFirst, Applied
  <2>2. scenario \in Agentic => Applied
    BY <1>2 DEF IInv, PythonFirst
  <2>3. executed' \cap Agentic # {} => Applied
    BY <1>4, <2>2 DEF IInv, PythonFirst
  <2> QED
    BY <1>1, <1>2, <1>3, <2>1, <2>2, <2>3, Facts DEF PythonFirst
<1>8. Done'
  BY <1>1, <1>2, <1>3 DEF Done
<1>9. Pending'
  <2>1. ASSUME CommandLine, NEW i \in 1 .. Len(results')
        PROVE  results'[i].scenario \in cut'
    BY <1>2, <1>4, <2>1 DEF IInv, Pending
  <2> QED
    BY <1>1, <2>1, Facts DEF Pending
<1>10. Past'
  <2>1. ASSUME NEW k \in 1 .. Len(shown), NEW i \in 1 .. Len(shown[k].rows)
        PROVE  /\ shown[k].rows[i].scenario <= scenario
               /\ \A j \in 1 .. Len(results') : results'[j] # shown[k].rows[i]
    <3>1. /\ shown[k].rows[i].scenario <= scenario
          /\ shown[k].rows[i].scenario # scenario
          /\ \A j \in 1 .. Len(results) : results[j] # shown[k].rows[i]
      BY <1>2 DEF IInv, Past
    <3> QED
      BY <1>4, <3>1
  <2>2. ~CommandLine => shown = << >>
    BY DEF IInv, Past
  <2> QED
    BY <1>1, <1>3, <2>1, <2>2, Facts DEF Past
<1> QED
  BY <1>5, <1>6, <1>7, <1>8, <1>9, <1>10 DEF IInv

LEMMA DisplayKeeps ==
  ASSUME PipelineAssumption, IInv, DisplayResult
  PROVE  IInv'
<1>1. /\ client' = client /\ scenario' = scenario /\ outcome' = outcome
      /\ pythonPath' = pythonPath /\ python' = python /\ tasks' = tasks
      /\ executed' = executed /\ cut' = cut
      /\ results' = << >>
      /\ shown' = Append(shown, [scenario |-> scenario, rows |-> results])
  BY DEF DisplayResult, runVars, prepareVars, pythonVars
<1>2. /\ pc = "DisplayResult" /\ outcome = "none"
      /\ CommandLine /\ stage = Len(StageOrder)
  BY <1>1, Facts DEF DisplayResult, IInv, Where
<1>3. pc' = "over" /\ stage' = stage /\ wasError' = wasError /\ success' = success
  <2>1. stage \in 1 .. Len(StageOrder) /\ ~(stage < Len(StageOrder))
    BY <1>1, <1>2, Facts
  <2>2. Leave(TRUE)
    BY DEF DisplayResult
  <2> QED
    BY <2>1, <2>2 DEF Leave
<1>4. /\ scenario \in 1 .. Scenarios
      /\ results \in Seq(Row) /\ shown \in Seq(Shown)
  BY DEF IInv, RunTypes, LastScenario, PipelineAssumption
<1> DEFINE last == [scenario |-> scenario, rows |-> results]
<1>5. last \in Shown /\ last.rows = results
  BY <1>4 DEF Shown
<1>6. shown' = Append(shown, last)
  BY <1>1
<1> HIDE DEF last
<1>7. /\ shown' \in Seq(Shown)
      /\ Len(shown') = Len(shown) + 1
      /\ \A k \in 1 .. Len(shown) : shown'[k] = shown[k]
      /\ shown'[Len(shown) + 1] = last
  BY <1>4, <1>5, <1>6, AppendProperties
<1>8. RunTypes'
  <2>1. << >> \in Seq(Row)
    OBVIOUS
  <2> QED
    BY <1>1, <1>3, <1>7, <2>1, Facts DEF IInv, RunTypes
<1>9. Where'
  BY <1>1, <1>2, <1>3 DEF Where
<1>10. PythonFirst'
  <2>1. PythonIsSound(python') /\ (Applied' <=> Applied)
    BY <1>1 DEF IInv, PythonFirst, Applied
  <2> QED
    BY <1>1, <1>3, <2>1, Facts DEF IInv, PythonFirst
<1>11. Done'
  <2>1. client \in {"cli", "gui"} => stage = 5
    BY <1>1, <1>2, Facts
  <2>2. client \in {"cli", "gui"} /\ ~wasError =>
          1 .. scenario - 1 \subseteq executed /\ scenario \in executed
    BY <1>2, <2>1 DEF IInv, Done
  <2> QED
    BY <1>1, <1>2, <1>3, <2>2 DEF Done
<1>12. Pending'
  <2>1. Len(results') = 0
    BY <1>1
  <2> QED
    BY <2>1 DEF Pending
<1>13. Past'
  <2>1. \A j \in 1 .. Len(results') : FALSE
    BY <1>1
  <2>2. ASSUME NEW k \in 1 .. Len(shown'), NEW i \in 1 .. Len(shown'[k].rows)
        PROVE  shown'[k].rows[i].scenario <= scenario
    <3>1. CASE k \in 1 .. Len(shown)
      BY <1>7, <2>2, <3>1 DEF IInv, Past
    <3>2. CASE k = Len(shown) + 1
      <4>1. i \in 1 .. Len(results) /\ shown'[k].rows[i] = results[i]
        BY <1>5, <1>7, <2>2, <3>2
      <4>2. results[i].scenario <= scenario
        <5>1. results[i].scenario \in cut \/ results[i].scenario = scenario
          BY <1>2, <4>1 DEF IInv, Pending
        <5>2. cut \subseteq 1 .. scenario /\ scenario \in 1 .. scenario
          BY <1>4 DEF IInv, RunTypes
        <5>3. \A n \in 1 .. scenario : n <= scenario
          BY <1>4
        <5> QED
          BY <1>4, <5>1, <5>2, <5>3
      <4> QED
        BY <4>1, <4>2
    <3> QED
      BY <1>4, <1>7, <2>2, <3>1, <3>2
  <2> QED
    BY <1>1, <1>2, <1>3, <2>1, <2>2, Facts DEF Past
<1> QED
  BY <1>8, <1>9, <1>10, <1>11, <1>12, <1>13 DEF IInv


LEMMA InitHolds ==
  ASSUME PipelineAssumption, Init
  PROVE  IInv
<1>1. /\ client \in Clients /\ scenario = 1 /\ stage = 1 /\ pc = "enter"
      /\ wasError = FALSE /\ outcome = "none" /\ success = TRUE
      /\ tasks = {} /\ executed = {} /\ results = << >> /\ shown = << >> /\ cut = {}
      /\ pythonPath \in PythonPaths /\ python \in EarlierPythons
  BY DEF Init
<1>2. PythonIsSound(python)
  <2>1. PythonIsSound(FreshPython)
    <3>1. FreshPython \in Python
      BY DEF FreshPython, Python, Directory
    <3> QED
      BY <3>1 DEF PythonIsSound, FreshPython
  <2>2. \A s \in PythonPaths : \A p :
          PythonIsSound(EnsurePortablePythonOnPath(FreshPython, s, p, TRUE))
    BY <2>1, EnsureKeepsSound
  <2> DEFINE found == {{}, {<<"above", "python">>}}
             later == {EnsurePortablePythonOnPath(FreshPython, run[1], run[2], TRUE) :
                         run \in PythonPaths \X found}
  <2>3. \A q \in later : PythonIsSound(q)
    <3> HIDE DEF found
    <3>1. \A run \in PythonPaths \X found : run[1] \in PythonPaths
      OBVIOUS
    <3> QED
      BY <2>2, <3>1
  <2>4. python \in {FreshPython} \cup (IF CommandLine THEN {} ELSE later)
    BY <1>1 DEF EarlierPythons
  <2> HIDE DEF later
  <2> QED
    BY <2>1, <2>3, <2>4
<1>3. RunTypes
  <2>1. 1 \in 1 .. LastScenario
    BY DEF LastScenario, PipelineAssumption
  <2>2. 1 \in 1 .. Len(StageOrder)
    BY StageOrders
  <2>3. << >> \in Seq(Row) /\ << >> \in Seq(Shown)
    OBVIOUS
  <2> QED
    BY <1>1, <2>1, <2>2, <2>3 DEF RunTypes
<1>4. Where
  BY <1>1 DEF Where
<1>5. PythonFirst
  BY <1>1, <1>2 DEF PythonFirst
<1>6. Done
  <2>1. 1 .. 1 - 1 = {}
    OBVIOUS
  <2> QED
    BY <1>1, <2>1 DEF Done
<1>7. Pending
  <2>1. Len(results) = 0
    BY <1>1
  <2> QED
    BY <2>1 DEF Pending
<1>8. Past
  <2>1. Len(shown) = 0
    BY <1>1
  <2> QED
    BY <1>1, <2>1 DEF Past
<1> QED
  BY <1>3, <1>4, <1>5, <1>6, <1>7, <1>8 DEF IInv

LEMMA NextKeeps ==
  ASSUME PipelineAssumption, IInv, [Next]_vars
  PROVE  IInv'
<1>1. CASE EnterStage
  BY <1>1, EnterKeeps
<1>2. CASE EndScenario
  BY <1>2, EndScenarioKeeps
<1>3. CASE Throw
  BY <1>3, ThrowKeeps
<1>4. CASE Interrupt \/ UserContinues
  <2>1. UNCHANGED main /\ tasks' = tasks /\ pc' = pc
    BY <1>4 DEF Interrupt, UserContinues, main, runVars, stageVars, prepareVars, pythonVars,
                resultVars
  <2> QED
    BY <2>1, PreparingKeeps
<1>5. CASE Download
  <2>1. PICK ok \in BOOLEAN : Leave(ok)
    BY <1>5 DEF Download
  <2>2. /\ pc = "Download" /\ tasks' = tasks
        /\ UNCHANGED <<client, scenario, outcome, pythonPath, python, executed, results,
                       shown, cut>>
    BY <1>5 DEF Download, runVars, prepareVars, pythonVars, resultVars
  <2> QED
    BY <2>1, <2>2, LeavingKeeps
<1>6. CASE DataVerification
  <2>1. PICK ok \in BOOLEAN : Leave(ok)
    BY <1>6 DEF DataVerification
  <2>2. /\ pc = "DataVerification" /\ tasks' = tasks
        /\ UNCHANGED <<client, scenario, outcome, pythonPath, python, executed, results,
                       shown, cut>>
    BY <1>6 DEF DataVerification, runVars, prepareVars, pythonVars, resultVars
  <2> QED
    BY <2>1, <2>2, LeavingKeeps
<1>7. CASE BeginPreparation
  BY <1>7, BeginKeeps
<1>8. CASE PrepareEntry \/ ExamineEP
  <2>1. UNCHANGED main /\ tasks' = tasks /\ pc' = pc
    BY <1>8 DEF PrepareEntry, ExamineEP, main, runVars, stageVars, pythonVars, resultVars
  <2> QED
    BY <2>1, PreparingKeeps
<1>9. CASE EndEntries \/ TakeLibrary \/ EndLibrary
  <2>1. UNCHANGED main /\ tasks' = tasks
    BY <1>9 DEF EndEntries, TakeLibrary, EndLibrary, main, runVars, pythonVars, resultVars
  <2>2. \/ pc' = pc
        \/ /\ pc \in {"entries", "libraries", "devices"}
           /\ pc' \in {"entries", "libraries", "devices"}
    BY <1>9 DEF EndEntries, TakeLibrary, EndLibrary
  <2> QED
    BY <2>1, <2>2, PreparingKeeps
<1>10. CASE EndPreparation
  <2>1. PICK ok \in BOOLEAN : Leave(ok)
    BY <1>10 DEF EndPreparation
  <2>2. /\ pc = "libraries" /\ tasks' = tasks
        /\ UNCHANGED <<client, scenario, outcome, pythonPath, python, executed, results,
                       shown, cut>>
    BY <1>10 DEF EndPreparation, runVars, prepareVars, pythonVars, resultVars
  <2> QED
    BY <2>1, <2>2, LeavingKeeps
<1>11. CASE MakeTasks
  BY <1>11, MakeTasksKeeps
<1>12. CASE RunTask
  BY <1>12, RunTaskKeeps
<1>13. CASE StopTasks
  BY <1>13, StopTasksKeeps
<1>14. CASE EndTasks
  <2>1. (scenario \in executed) \in BOOLEAN
    OBVIOUS
  <2>2. PICK ok \in BOOLEAN : Leave(ok) /\ (ok <=> scenario \in executed)
    BY <1>14, <2>1 DEF EndTasks
  <2>3. /\ pc = "tasks" /\ tasks' = tasks
        /\ UNCHANGED <<client, scenario, outcome, pythonPath, python, executed, results,
                       shown, cut>>
    BY <1>14 DEF EndTasks, runVars, prepareVars, pythonVars, resultVars
  <2> QED
    BY <2>2, <2>3, LeavingKeeps
<1>15. CASE DisplayResult
  BY <1>15, DisplayKeeps
<1>16. CASE UNCHANGED vars
  <2>1. UNCHANGED main /\ tasks' = tasks /\ pc' = pc
    BY <1>16 DEF vars, main, runVars, stageVars, prepareVars, pythonVars, resultVars
  <2> QED
    BY <2>1, PreparingKeeps
<1> QED
  BY <1>1, <1>2, <1>3, <1>4, <1>5, <1>6, <1>7, <1>8, <1>9, <1>10, <1>11, <1>12, <1>13,
     <1>14, <1>15, <1>16 DEF Next

LEMMA Invariant == Spec => []IInv
<1>1. Init => IInv
  BY InitHolds, PipelineAssumption
<1>2. IInv /\ [Next]_vars => IInv'
  BY NextKeeps, PipelineAssumption
<1> QED
  BY <1>1, <1>2, PTL DEF Spec

-----------------------------------------------------------------------------
(* The properties *)

(* A run reported as successful has executed every scenario, the GUI's     *)
(* success means a good first result, and an agentic scenario was only     *)
(* executed with the Python of the setting: for any number of scenarios,   *)
(* EPs and devices, any files the EPs need, and any settings.              *)
THEOREM TrueIsExecuted == Spec => []TrueMeansExecuted
<1>1. IInv => TrueMeansExecuted
  <2> SUFFICES ASSUME IInv PROVE TrueMeansExecuted
    OBVIOUS
  <2>1. executed \cap Agentic # {} =>
          python.prefix \in IF pythonPath = "system" THEN {NoDirectory}
                            ELSE {Candidates(pythonPath)[c] : c \in {1, 2}}
    BY DEF IInv, PythonFirst, PythonIsSound, Applied, Directories
  <2> QED
    BY <2>1 DEF IInv, Done, TrueMeansExecuted
<1> QED
  BY <1>1, Invariant, PTL


(* DisplayResult shows every row once and with its scenario, unless the    *)
(* scenario's benchmark was cut short: for any number of scenarios and     *)
(* tasks, and wherever failures, interrupts and exceptions come.           *)
THEOREM RowsShownOnce == Spec => []RowsAreOfTheScenario
<1>1. Init => RowsAreOfTheScenario
  <2> SUFFICES ASSUME Init PROVE RowsAreOfTheScenario
    OBVIOUS
  <2>1. Len(shown) = 0
    BY DEF Init
  <2> QED
    BY <2>1 DEF RowsAreOfTheScenario
<1>2. IInv /\ RowsAreOfTheScenario /\ [Next]_vars => RowsAreOfTheScenario'
  <2> SUFFICES ASSUME IInv, RowsAreOfTheScenario, [Next]_vars
               PROVE  RowsAreOfTheScenario'
    OBVIOUS
  <2>1. CASE DisplayResult
    <3>1. /\ cut' = cut
          /\ shown' = Append(shown, [scenario |-> scenario, rows |-> results])
      BY <2>1 DEF DisplayResult
    <3>2. /\ pc = "DisplayResult" /\ CommandLine
      BY <2>1, Facts DEF DisplayResult, runVars
    <3>3. /\ scenario \in 1 .. Scenarios
          /\ results \in Seq(Row) /\ shown \in Seq(Shown)
      BY PipelineAssumption DEF IInv, RunTypes, LastScenario, PipelineAssumption
    <3> DEFINE last == [scenario |-> scenario, rows |-> results]
    <3>4. last \in Shown /\ last.rows = results /\ last.scenario = scenario
      BY <3>3 DEF Shown
    <3>5. shown' = Append(shown, last)
      BY <3>1
    <3> HIDE DEF last
    <3>6. /\ Len(shown') = Len(shown) + 1
          /\ \A k \in 1 .. Len(shown) : shown'[k] = shown[k]
          /\ shown'[Len(shown) + 1] = last
      BY <3>3, <3>4, <3>5, AppendProperties
    <3>7. ASSUME NEW k \in 1 .. Len(shown'), NEW i \in 1 .. Len(shown'[k].rows)
          PROVE  /\ \/ shown'[k].rows[i].scenario = shown'[k].scenario
                    \/ shown'[k].rows[i].scenario \in cut'
                 /\ \A m \in 1 .. k - 1 : \A j \in 1 .. Len(shown'[m].rows) :
                      shown'[m].rows[j] # shown'[k].rows[i]
      <4>1. CASE k \in 1 .. Len(shown)
        <5>1. shown'[k] = shown[k] /\ \A m \in 1 .. k - 1 : shown'[m] = shown[m]
          BY <3>3, <3>6, <4>1
        <5> QED
          BY <3>1, <3>7, <4>1, <5>1 DEF RowsAreOfTheScenario
      <4>2. CASE k = Len(shown) + 1
        <5>1. /\ i \in 1 .. Len(results)
              /\ shown'[k].rows[i] = results[i] /\ shown'[k].scenario = scenario
          BY <3>4, <3>6, <3>7, <4>2
        <5>2. results[i].scenario = scenario \/ results[i].scenario \in cut
          BY <3>2, <5>1 DEF IInv, Pending
        <5>3. \A m \in 1 .. k - 1 : m \in 1 .. Len(shown) /\ shown'[m] = shown[m]
          BY <3>3, <3>6, <4>2
        <5>4. ASSUME NEW m \in 1 .. k - 1, NEW j \in 1 .. Len(shown'[m].rows)
              PROVE  shown'[m].rows[j] # shown'[k].rows[i]
          BY <5>1, <5>3, <5>4 DEF IInv, Past
        <5> QED
          BY <3>1, <5>1, <5>2, <5>4
      <4> QED
        BY <3>3, <3>6, <3>7, <4>1, <4>2
    <3> QED
      BY <3>7 DEF RowsAreOfTheScenario
  <2>2. CASE shown' = shown /\ cut \subseteq cut'
    BY <2>2 DEF RowsAreOfTheScenario
  <2>3. DisplayResult \/ (shown' = shown /\ cut \subseteq cut')
    <3>1. CASE EnterStage \/ EndScenario \/ Throw \/ Interrupt \/ UserContinues
      BY <3>1 DEF EnterStage, EndScenario, Throw, Interrupt, UserContinues, resultVars
    <3>2. CASE Download \/ DataVerification \/ BeginPreparation \/ PrepareEntry \/ EndEntries
      BY <3>2 DEF Download, DataVerification, BeginPreparation, PrepareEntry, EndEntries,
                  resultVars
    <3>3. CASE TakeLibrary \/ ExamineEP \/ EndLibrary \/ EndPreparation \/ MakeTasks \/ EndTasks
      BY <3>3 DEF TakeLibrary, ExamineEP, EndLibrary, EndPreparation, MakeTasks, EndTasks,
                  resultVars
    <3>4. CASE RunTask \/ StopTasks
      BY <3>4 DEF RunTask, StopTasks
    <3>5. CASE UNCHANGED vars
      BY <3>5 DEF vars, resultVars
    <3> QED
      BY <3>1, <3>2, <3>3, <3>4, <3>5 DEF Next
  <2> QED
    BY <2>1, <2>2, <2>3
<1> QED
  BY <1>1, <1>2, Invariant, PTL DEF Spec

=============================================================================
