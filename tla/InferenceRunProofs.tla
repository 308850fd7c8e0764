------------------------ MODULE InferenceRunProofs -------------------------
(***************************************************************************)
(* Theorems about InferenceRun, for every number of files, prompts and     *)
(* sessions: the type invariant, no inference on a library that is not     *)
(* initialised, no thread left by the inference object, the account of the *)
(* prompts of a success, and at most one inference after a cancellation.   *)
(***************************************************************************)
EXTENDS InferenceRun, TLAPS

-----------------------------------------------------------------------------
(* The inductive invariant *)

(* No session is begun when all are done.                                  *)
SessionInv ==
  /\ PlaceTypeOK
  /\ pc \in {"prepare", "infer", "inferring", "reset"} => iter <= Iterations

(* The library is initialised or the inference object says it is not; in   *)
(* the image class, whose Prepare and Reset leave the message alone, it    *)
(* still says so after them.                                               *)
Told == library = "ready" \/ message
Ready == library = "ready" \/ (message /\ ~Monitored)

(* A model is loaded, or known not to be, wherever the run goes on to use  *)
(* it; after a Deinit that is an Init again, unless the run is ending.     *)
LibraryInv ==
  /\ pc \in {"infer", "inferring", "reset"} => library = "ready"
  /\ pc \in {"session", "prepare"} => Ready
  /\ pc = "prompt" /\ good => Ready
  /\ pc = "check" => Told
  /\ pc \in {"file", "model"} /\ initialized => Told
  /\ pc = "init" => Reinits
  /\ pc \in {"deinit", "join"} => Reinits \/ next \in {"finish", "destroy"}
  /\ pc \in {"init", "deinit", "join"} /\ next = "session" => ~Monitored

(* The prompts before the place where the run is.                          *)
Before == {p \in PromptId : p[1] < file \/ (p[1] = file /\ p[2] < prompt)}

Ending == {"destroy", "destroyJoin", "release", "gone"}
Over == pc \in Ending \/ (pc \in {"deinit", "join"} /\ next = "destroy")

(* Every prompt has been dealt with. *)
AllSeen ==
  \/ pc \in {"last", "finish"}
  \/ pc \in {"init", "deinit", "join"} /\ next \in {"last", "finish"}

AccountInv ==
  /\ ~Over /\ ~AllSeen => Before \subseteq measured \cup skipped
  /\ ~Over /\ ~AllSeen /\ kind # "image" =>
       /\ measured \subseteq Before
       /\ skipped \subseteq Before
  /\ AllSeen => measured \cup skipped = PromptId
  /\ kind # "image" => measured \cap skipped = {}
  /\ \A p \in skipped : p[1] \in skippable /\ kind # "agentic"
  /\ success => pc \in Ending /\ measured \cup skipped = PromptId
  /\ noted /\ ~Over => skipped # {} \/ (pc \in {"prompt", "reset"} /\ ~good)
  /\ success /\ noted => skipped # {}

(* The run cannot come to another inference once one has begun after the   *)
(* cancellation: the status is tested before, or the run is ending.        *)
LateInv ==
  /\ late <= 1
  /\ late = 1 => /\ status = "Canceled" \/ Over
                 /\ pc \notin {"prepare", "infer"}

(* Without a fault the thread exists exactly between a successful Init and *)
(* the next Deinit, so no Init finds one and no Deinit finds none.         *)
Loaded ==
  {"check", "session", "prepare", "infer", "inferring", "reset", "prompt"}

FaultInv ==
  /\ ~alive => faulty
  /\ ~faulty => outcome \notin {"threw", "terminated"}
  /\ ~faulty /\ Monitored =>
       /\ pc \in {"file", "model"} => (initialized <=> Joinable)
       /\ pc \in Loaded \cup {"deinit", "join"} => Joinable
       /\ pc = "init" => ~Joinable
       /\ pc = "last" /\ initialized => Joinable
       /\ pc \in Loaded \ {"check"} => initialized
       /\ /\ pc \in {"init", "deinit", "join"}
          /\ next \in {"model", "session", "file", "last"}
          => initialized

IInv ==
  /\ SessionInv /\ ResultTypeOK /\ HandlerTypeOK /\ LibraryInv
  /\ GoneMeansQuiet /\ AccountInv /\ LateInv /\ FaultInv

-----------------------------------------------------------------------------
(* Types *)

LEMMA AdvanceType ==
  ASSUME PlaceTypeOK, Advance
  PROVE  /\ file' \in 1 .. Files /\ prompt' \in 1 .. Prompts
         /\ iter' \in 1 .. Iterations + 1 /\ good' \in BOOLEAN
BY InferenceAssumption DEF PlaceTypeOK, Advance

(* The prompt where the run is. *)
LEMMA HereIsPrompt ==
  ASSUME PlaceTypeOK
  PROVE  <<file, prompt>> \in PromptId
BY DEF PlaceTypeOK, PromptId

(* Every step keeps SessionInv. *)
LEMMA SessionStep ==
  ASSUME SessionInv, LibraryInv, [Next]_vars
  PROVE  SessionInv'
<1> USE DEF SessionInv, PlaceTypeOK, Place, placeVars
<1>1. CASE InitSucceeds
  BY <1>1 DEF InitSucceeds, Answer, StartMonitor, LibraryInv, Reinits
<1>2. CASE InitFails
  BY <1>2 DEF InitFails, Goto, Answer, NotLoaded, LibraryInv, Reinits
<1>3. CASE DeinitSucceeds
  BY <1>3 DEF DeinitSucceeds, Answer, AfterDeinit, LibraryInv, Reinits
<1>4. CASE DeinitFails
  BY <1>4 DEF DeinitFails, Goto, Answer, NotLoaded, AfterDeinit, LibraryInv,
  Reinits
<1>5. CASE JoinMonitor
  BY <1>5 DEF JoinMonitor, Goto, AfterDeinit, LibraryInv, Reinits
<1>6. CASE FileCanceled
  BY <1>6 DEF FileCanceled, Goto
<1>7. CASE NoPrompts
  BY <1>7 DEF NoPrompts, Goto
<1>8. CASE ReadFile
  BY <1>8 DEF ReadFile, Goto
<1>9. CASE LoadModel
  BY <1>9 DEF LoadModel
<1>10. CASE CheckModel
  BY <1>10 DEF CheckModel, Complains
<1>11. CASE NextSession
  BY <1>11, InferenceAssumption DEF NextSession
<1>12. CASE Prepare
  BY <1>12 DEF Prepare, Answer, NotLoaded, Complains
<1>13. CASE BeginInfer
  BY <1>13 DEF BeginInfer, Goto
<1>14. CASE InferNotLoaded
  BY <1>14 DEF InferNotLoaded, NotLoaded, RunChecked, Complains
<1>15. CASE InferSucceeds
  BY <1>15 DEF InferSucceeds, Answer, RunChecked, Complains
<1>16. CASE InferFails
  BY <1>16 DEF InferFails, Answer, NotLoaded, RunChecked, Complains
<1>17. CASE InferThrows
  BY <1>17 DEF InferThrows
<1>18. CASE ToolFails
  BY <1>18 DEF ToolFails, Goto, Answer
<1>19. CASE Reset
  BY <1>19, InferenceAssumption DEF Reset, Answer, NotLoaded, Measure,
  Complains
<1>20. CASE DecodeFails
  BY <1>20 DEF DecodeFails, Goto, Answer
<1>21. CASE PromptGood
  BY <1>21, AdvanceType DEF PromptGood, Goto, Advance, AfterPrompt
<1>22. CASE PromptSkipped
  BY <1>22, AdvanceType DEF PromptSkipped, Goto, Advance, AfterPrompt
<1>23. CASE PromptFails
  BY <1>23 DEF PromptFails, Goto
<1>24. CASE LastDeinit
  BY <1>24 DEF LastDeinit
<1>25. CASE Finish
  BY <1>25 DEF Finish, Goto
<1>26. CASE Destroy
  BY <1>26 DEF Destroy
<1>27. CASE DestructorJoins
  BY <1>27 DEF DestructorJoins, Goto
<1>28. CASE Release
  BY <1>28 DEF Release, Goto
<1>29. CASE MonitorTests
  BY <1>29 DEF MonitorTests, MonitorGoes
<1>30. CASE MonitorLooks
  BY <1>30 DEF MonitorLooks, MonitorGoes
<1>31. CASE MonitorSamples
  BY <1>31 DEF MonitorSamples, MonitorGoes
<1>32. CASE Cancel
  BY <1>32 DEF Cancel
<1>33. CASE LibraryGoes
  BY <1>33 DEF LibraryGoes
<1>34. CASE UNCHANGED vars
  BY <1>34 DEF vars
<1> QED
  BY <1>1, <1>2, <1>3, <1>4, <1>5, <1>6, <1>7, <1>8, <1>9, <1>10, <1>11,
  <1>12, <1>13, <1>14, <1>15, <1>16, <1>17, <1>18, <1>19, <1>20, <1>21,
  <1>22, <1>23, <1>24, <1>25, <1>26, <1>27, <1>28, <1>29, <1>30, <1>31,
  <1>32, <1>33, <1>34 DEF Next, Executor, Monitor

(* Every step keeps the types of the result. *)
LEMMA ResultTypeStep ==
  ASSUME ResultTypeOK, PlaceTypeOK, HandlerTypeOK, [Next]_vars
  PROVE  ResultTypeOK'
<1> USE DEF ResultTypeOK, scenarioVars, resultVars
<1>1. CASE InitSucceeds
  BY <1>1 DEF InitSucceeds, Answer, StartMonitor
<1>2. CASE InitFails
  BY <1>2 DEF InitFails, Goto, Answer, NotLoaded
<1>3. CASE DeinitSucceeds
  BY <1>3 DEF DeinitSucceeds, Answer, AfterDeinit
<1>4. CASE DeinitFails
  BY <1>4 DEF DeinitFails, Goto, Answer, NotLoaded, AfterDeinit
<1>5. CASE JoinMonitor
  BY <1>5 DEF JoinMonitor, Goto, AfterDeinit
<1>6. CASE FileCanceled
  BY <1>6 DEF FileCanceled, Goto
<1>7. CASE NoPrompts
  BY <1>7 DEF NoPrompts, Goto
<1>8. CASE ReadFile
  BY <1>8 DEF ReadFile, Goto
<1>9. CASE LoadModel
  BY <1>9 DEF LoadModel
<1>10. CASE CheckModel
  BY <1>10 DEF CheckModel, HandlerTypeOK
<1>11. CASE NextSession
  BY <1>11 DEF NextSession
<1>12. CASE Prepare
  BY <1>12 DEF Prepare, Answer, NotLoaded, Complains
<1>13. CASE BeginInfer
  BY <1>13 DEF BeginInfer, Goto
<1>14. CASE InferNotLoaded
  BY <1>14 DEF InferNotLoaded, NotLoaded, RunChecked, Complains
<1>15. CASE InferSucceeds
  BY <1>15 DEF InferSucceeds, Answer, RunChecked, Complains
<1>16. CASE InferFails
  BY <1>16 DEF InferFails, Answer, NotLoaded, RunChecked, Complains
<1>17. CASE InferThrows
  BY <1>17 DEF InferThrows
<1>18. CASE ToolFails
  BY <1>18 DEF ToolFails, Goto, Answer
<1>19. CASE Reset
  <2>1. noted' \in BOOLEAN
    BY <1>19 DEF Reset, Answer, NotLoaded, HandlerTypeOK
  <2>2. measured' \subseteq PromptId
    BY <1>19, HereIsPrompt DEF Reset, Measure
  <2> QED
    BY <1>19, <2>1, <2>2 DEF Reset
<1>20. CASE DecodeFails
  BY <1>20 DEF DecodeFails, Goto, Answer
<1>21. CASE PromptGood
  BY <1>21, HereIsPrompt DEF PromptGood, Goto, Advance, AfterPrompt
<1>22. CASE PromptSkipped
  BY <1>22, HereIsPrompt DEF PromptSkipped, Goto, Advance, AfterPrompt
<1>23. CASE PromptFails
  BY <1>23 DEF PromptFails, Goto
<1>24. CASE LastDeinit
  BY <1>24 DEF LastDeinit
<1>25. CASE Finish
  BY <1>25 DEF Finish, Goto
<1>26. CASE Destroy
  BY <1>26 DEF Destroy
<1>27. CASE DestructorJoins
  BY <1>27 DEF DestructorJoins, Goto
<1>28. CASE Release
  BY <1>28 DEF Release, Goto
<1>29. CASE MonitorTests
  BY <1>29 DEF MonitorTests, MonitorGoes
<1>30. CASE MonitorLooks
  BY <1>30 DEF MonitorLooks, MonitorGoes
<1>31. CASE MonitorSamples
  BY <1>31 DEF MonitorSamples, MonitorGoes
<1>32. CASE Cancel
  BY <1>32 DEF Cancel
<1>33. CASE LibraryGoes
  BY <1>33 DEF LibraryGoes
<1>34. CASE UNCHANGED vars
  BY <1>34 DEF vars
<1> QED
  BY <1>1, <1>2, <1>3, <1>4, <1>5, <1>6, <1>7, <1>8, <1>9, <1>10, <1>11,
  <1>12, <1>13, <1>14, <1>15, <1>16, <1>17, <1>18, <1>19, <1>20, <1>21,
  <1>22, <1>23, <1>24, <1>25, <1>26, <1>27, <1>28, <1>29, <1>30, <1>31,
  <1>32, <1>33, <1>34 DEF Next, Executor, Monitor

(* Every step keeps the types of the handler and of the thread. *)
LEMMA HandlerTypeStep ==
  ASSUME HandlerTypeOK, [Next]_vars
  PROVE  HandlerTypeOK'
<1> USE DEF HandlerTypeOK, handlerVars, monitorVars
<1>1. CASE InitSucceeds
  BY <1>1 DEF InitSucceeds, Answer, StartMonitor
<1>2. CASE InitFails
  BY <1>2 DEF InitFails, Goto, Answer, NotLoaded
<1>3. CASE DeinitSucceeds
  BY <1>3 DEF DeinitSucceeds, Answer, AfterDeinit
<1>4. CASE DeinitFails
  BY <1>4 DEF DeinitFails, Goto, Answer, NotLoaded, AfterDeinit
<1>5. CASE JoinMonitor
  BY <1>5 DEF JoinMonitor, Goto, AfterDeinit
<1>6. CASE FileCanceled
  BY <1>6 DEF FileCanceled, Goto
<1>7. CASE NoPrompts
  BY <1>7 DEF NoPrompts, Goto
<1>8. CASE ReadFile
  BY <1>8 DEF ReadFile, Goto
<1>9. CASE LoadModel
  BY <1>9 DEF LoadModel
<1>10. CASE CheckModel
  BY <1>10 DEF CheckModel, Complains
<1>11. CASE NextSession
  BY <1>11 DEF NextSession
<1>12. CASE Prepare
  BY <1>12 DEF Prepare, Answer, NotLoaded, Complains
<1>13. CASE BeginInfer
  BY <1>13 DEF BeginInfer, Goto
<1>14. CASE InferNotLoaded
  BY <1>14 DEF InferNotLoaded, NotLoaded, RunChecked, Complains
<1>15. CASE InferSucceeds
  BY <1>15 DEF InferSucceeds, Answer, RunChecked, Complains
<1>16. CASE InferFails
  BY <1>16 DEF InferFails, Answer, NotLoaded, RunChecked, Complains
<1>17. CASE InferThrows
  BY <1>17 DEF InferThrows
<1>18. CASE ToolFails
  BY <1>18 DEF ToolFails, Goto, Answer
<1>19. CASE Reset
  BY <1>19 DEF Reset, Answer, NotLoaded, Measure, Complains
<1>20. CASE DecodeFails
  BY <1>20 DEF DecodeFails, Goto, Answer
<1>21. CASE PromptGood
  BY <1>21 DEF PromptGood, Goto, Advance, AfterPrompt
<1>22. CASE PromptSkipped
  BY <1>22 DEF PromptSkipped, Goto, Advance, AfterPrompt
<1>23. CASE PromptFails
  BY <1>23 DEF PromptFails, Goto
<1>24. CASE LastDeinit
  BY <1>24 DEF LastDeinit
<1>25. CASE Finish
  BY <1>25 DEF Finish, Goto
<1>26. CASE Destroy
  BY <1>26 DEF Destroy
<1>27. CASE DestructorJoins
  BY <1>27 DEF DestructorJoins, Goto
<1>28. CASE Release
  BY <1>28 DEF Release, Goto
<1>29. CASE MonitorTests
  BY <1>29 DEF MonitorTests, MonitorGoes
<1>30. CASE MonitorLooks
  BY <1>30 DEF MonitorLooks, MonitorGoes
<1>31. CASE MonitorSamples
  BY <1>31 DEF MonitorSamples, MonitorGoes
<1>32. CASE Cancel
  BY <1>32 DEF Cancel
<1>33. CASE LibraryGoes
  BY <1>33 DEF LibraryGoes
<1>34. CASE UNCHANGED vars
  BY <1>34 DEF vars
<1> QED
  BY <1>1, <1>2, <1>3, <1>4, <1>5, <1>6, <1>7, <1>8, <1>9, <1>10, <1>11,
  <1>12, <1>13, <1>14, <1>15, <1>16, <1>17, <1>18, <1>19, <1>20, <1>21,
  <1>22, <1>23, <1>24, <1>25, <1>26, <1>27, <1>28, <1>29, <1>30, <1>31,
  <1>32, <1>33, <1>34 DEF Next, Executor, Monitor

-----------------------------------------------------------------------------
(* The library *)

(* Every step keeps LibraryInv. *)
LEMMA LibraryStep ==
  ASSUME LibraryInv, [Next]_vars
  PROVE  LibraryInv'
<1> USE DEF LibraryInv, Told, Ready, Monitored, Reinits, scenarioVars,
           placeVars, resultVars, handlerVars, monitorVars
<1>1. CASE InitSucceeds
  BY <1>1 DEF InitSucceeds, Answer, StartMonitor
<1>2. CASE InitFails
  BY <1>2 DEF InitFails, Goto, Answer, NotLoaded
<1>3. CASE DeinitSucceeds
  BY <1>3 DEF DeinitSucceeds, Answer, AfterDeinit
<1>4. CASE DeinitFails
  BY <1>4 DEF DeinitFails, Goto, Answer, NotLoaded, AfterDeinit
<1>5. CASE JoinMonitor
  BY <1>5 DEF JoinMonitor, Goto, AfterDeinit
<1>6. CASE FileCanceled
  BY <1>6 DEF FileCanceled, Goto
<1>7. CASE NoPrompts
  BY <1>7 DEF NoPrompts, Goto
<1>8. CASE ReadFile
  BY <1>8 DEF ReadFile, Goto
<1>9. CASE LoadModel
  BY <1>9 DEF LoadModel
<1>10. CASE CheckModel
  BY <1>10 DEF CheckModel, Complains
<1>11. CASE NextSession
  BY <1>11 DEF NextSession
<1>12. CASE Prepare
  BY <1>12 DEF Prepare, Answer, NotLoaded, Complains
<1>13. CASE BeginInfer
  BY <1>13 DEF BeginInfer, Goto
<1>14. CASE InferNotLoaded
  BY <1>14 DEF InferNotLoaded, NotLoaded, RunChecked, Complains
<1>15. CASE InferSucceeds
  BY <1>15 DEF InferSucceeds, Answer, RunChecked, Complains
<1>16. CASE InferFails
  BY <1>16 DEF InferFails, Answer, NotLoaded, RunChecked, Complains
<1>17. CASE InferThrows
  BY <1>17 DEF InferThrows
<1>18. CASE ToolFails
  BY <1>18 DEF ToolFails, Goto, Answer
<1>19. CASE Reset
  BY <1>19 DEF Reset, Answer, NotLoaded, Measure, Complains
<1>20. CASE DecodeFails
  BY <1>20 DEF DecodeFails, Goto, Answer
<1>21. CASE PromptGood
  BY <1>21 DEF PromptGood, Goto, Advance, AfterPrompt
<1>22. CASE PromptSkipped
  BY <1>22 DEF PromptSkipped, Goto, Advance, AfterPrompt
<1>23. CASE PromptFails
  BY <1>23 DEF PromptFails, Goto
<1>24. CASE LastDeinit
  BY <1>24 DEF LastDeinit
<1>25. CASE Finish
  BY <1>25 DEF Finish, Goto
<1>26. CASE Destroy
  BY <1>26 DEF Destroy
<1>27. CASE DestructorJoins
  BY <1>27 DEF DestructorJoins, Goto
<1>28. CASE Release
  BY <1>28 DEF Release, Goto
<1>29. CASE MonitorTests
  BY <1>29 DEF MonitorTests, MonitorGoes
<1>30. CASE MonitorLooks
  BY <1>30 DEF MonitorLooks, MonitorGoes
<1>31. CASE MonitorSamples
  BY <1>31 DEF MonitorSamples, MonitorGoes
<1>32. CASE Cancel
  BY <1>32 DEF Cancel
<1>33. CASE LibraryGoes
  BY <1>33 DEF LibraryGoes
<1>34. CASE UNCHANGED vars
  BY <1>34 DEF vars
<1> QED
  BY <1>1, <1>2, <1>3, <1>4, <1>5, <1>6, <1>7, <1>8, <1>9, <1>10, <1>11,
  <1>12, <1>13, <1>14, <1>15, <1>16, <1>17, <1>18, <1>19, <1>20, <1>21,
  <1>22, <1>23, <1>24, <1>25, <1>26, <1>27, <1>28, <1>29, <1>30, <1>31,
  <1>32, <1>33, <1>34 DEF Next, Executor, Monitor

-----------------------------------------------------------------------------
(* The sampling thread *)

(* Every step keeps GoneMeansQuiet. *)
LEMMA QuietStep ==
  ASSUME GoneMeansQuiet, LibraryInv, [Next]_vars
  PROVE  GoneMeansQuiet'
<1> USE DEF GoneMeansQuiet, LibraryInv, Reinits, Joinable, monitorVars
<1>1. CASE InitSucceeds
  BY <1>1 DEF InitSucceeds, Answer, StartMonitor
<1>2. CASE InitFails
  BY <1>2 DEF InitFails, Goto, Answer, NotLoaded
<1>3. CASE DeinitSucceeds
  BY <1>3 DEF DeinitSucceeds, Answer, AfterDeinit
<1>4. CASE DeinitFails
  BY <1>4 DEF DeinitFails, Goto, Answer, NotLoaded, AfterDeinit
<1>5. CASE JoinMonitor
  BY <1>5 DEF JoinMonitor, Goto, AfterDeinit
<1>6. CASE FileCanceled
  BY <1>6 DEF FileCanceled, Goto
<1>7. CASE NoPrompts
  BY <1>7 DEF NoPrompts, Goto
<1>8. CASE ReadFile
  BY <1>8 DEF ReadFile, Goto
<1>9. CASE LoadModel
  BY <1>9 DEF LoadModel
<1>10. CASE CheckModel
  BY <1>10 DEF CheckModel, Complains
<1>11. CASE NextSession
  BY <1>11 DEF NextSession
<1>12. CASE Prepare
  BY <1>12 DEF Prepare, Answer, NotLoaded, Complains
<1>13. CASE BeginInfer
  BY <1>13 DEF BeginInfer, Goto
<1>14. CASE InferNotLoaded
  BY <1>14 DEF InferNotLoaded, NotLoaded, RunChecked, Complains
<1>15. CASE InferSucceeds
  BY <1>15 DEF InferSucceeds, Answer, RunChecked, Complains
<1>16. CASE InferFails
  BY <1>16 DEF InferFails, Answer, NotLoaded, RunChecked, Complains
<1>17. CASE InferThrows
  BY <1>17 DEF InferThrows
<1>18. CASE ToolFails
  BY <1>18 DEF ToolFails, Goto, Answer
<1>19. CASE Reset
  BY <1>19 DEF Reset, Answer, NotLoaded, Measure, Complains
<1>20. CASE DecodeFails
  BY <1>20 DEF DecodeFails, Goto, Answer
<1>21. CASE PromptGood
  BY <1>21 DEF PromptGood, Goto, Advance, AfterPrompt
<1>22. CASE PromptSkipped
  BY <1>22 DEF PromptSkipped, Goto, Advance, AfterPrompt
<1>23. CASE PromptFails
  BY <1>23 DEF PromptFails, Goto
<1>24. CASE LastDeinit
  BY <1>24 DEF LastDeinit
<1>25. CASE Finish
  BY <1>25 DEF Finish, Goto
<1>26. CASE Destroy
  BY <1>26 DEF Destroy
<1>27. CASE DestructorJoins
  BY <1>27 DEF DestructorJoins, Goto
<1>28. CASE Release
  BY <1>28 DEF Release, Goto
<1>29. CASE MonitorTests
  BY <1>29 DEF MonitorTests, MonitorGoes
<1>30. CASE MonitorLooks
  BY <1>30 DEF MonitorLooks, MonitorGoes
<1>31. CASE MonitorSamples
  BY <1>31 DEF MonitorSamples, MonitorGoes
<1>32. CASE Cancel
  BY <1>32 DEF Cancel
<1>33. CASE LibraryGoes
  BY <1>33 DEF LibraryGoes
<1>34. CASE UNCHANGED vars
  BY <1>34 DEF vars
<1> QED
  BY <1>1, <1>2, <1>3, <1>4, <1>5, <1>6, <1>7, <1>8, <1>9, <1>10, <1>11,
  <1>12, <1>13, <1>14, <1>15, <1>16, <1>17, <1>18, <1>19, <1>20, <1>21,
  <1>22, <1>23, <1>24, <1>25, <1>26, <1>27, <1>28, <1>29, <1>30, <1>31,
  <1>32, <1>33, <1>34 DEF Next, Executor, Monitor

-----------------------------------------------------------------------------
(* Cancellation *)

(* Every step keeps LateInv. *)
LEMMA LateStep ==
  ASSUME LateInv, LibraryInv, HandlerTypeOK, [Next]_vars
  PROVE  LateInv'
<1> USE DEF LateInv, LibraryInv, Over, Ending, Reinits, HandlerTypeOK,
           resultVars
<1>1. CASE InitSucceeds
  BY <1>1 DEF InitSucceeds, Answer, StartMonitor
<1>2. CASE InitFails
  BY <1>2 DEF InitFails, Goto, Answer, NotLoaded
<1>3. CASE DeinitSucceeds
  BY <1>3 DEF DeinitSucceeds, Answer, AfterDeinit
<1>4. CASE DeinitFails
  BY <1>4 DEF DeinitFails, Goto, Answer, NotLoaded, AfterDeinit
<1>5. CASE JoinMonitor
  BY <1>5 DEF JoinMonitor, Goto, AfterDeinit
<1>6. CASE FileCanceled
  BY <1>6 DEF FileCanceled, Goto
<1>7. CASE NoPrompts
  BY <1>7 DEF NoPrompts, Goto
<1>8. CASE ReadFile
  BY <1>8 DEF ReadFile, Goto
<1>9. CASE LoadModel
  BY <1>9 DEF LoadModel
<1>10. CASE CheckModel
  BY <1>10 DEF CheckModel, Complains
<1>11. CASE NextSession
  BY <1>11 DEF NextSession
<1>12. CASE Prepare
  BY <1>12 DEF Prepare, Answer, NotLoaded, Complains
<1>13. CASE BeginInfer
  BY <1>13 DEF BeginInfer, Goto
<1>14. CASE InferNotLoaded
  BY <1>14 DEF InferNotLoaded, NotLoaded, RunChecked, Complains
<1>15. CASE InferSucceeds
  BY <1>15 DEF InferSucceeds, Answer, RunChecked, Complains
<1>16. CASE InferFails
  BY <1>16 DEF InferFails, Answer, NotLoaded, RunChecked, Complains
<1>17. CASE InferThrows
  BY <1>17 DEF InferThrows
<1>18. CASE ToolFails
  BY <1>18 DEF ToolFails, Goto, Answer
<1>19. CASE Reset
  BY <1>19 DEF Reset, Answer, NotLoaded, Measure, Complains
<1>20. CASE DecodeFails
  BY <1>20 DEF DecodeFails, Goto, Answer
<1>21. CASE PromptGood
  BY <1>21 DEF PromptGood, Goto, Advance, AfterPrompt
<1>22. CASE PromptSkipped
  BY <1>22 DEF PromptSkipped, Goto, Advance, AfterPrompt
<1>23. CASE PromptFails
  BY <1>23 DEF PromptFails, Goto
<1>24. CASE LastDeinit
  BY <1>24 DEF LastDeinit
<1>25. CASE Finish
  BY <1>25 DEF Finish, Goto
<1>26. CASE Destroy
  BY <1>26 DEF Destroy
<1>27. CASE DestructorJoins
  BY <1>27 DEF DestructorJoins, Goto
<1>28. CASE Release
  BY <1>28 DEF Release, Goto
<1>29. CASE MonitorTests
  BY <1>29 DEF MonitorTests, MonitorGoes
<1>30. CASE MonitorLooks
  BY <1>30 DEF MonitorLooks, MonitorGoes
<1>31. CASE MonitorSamples
  BY <1>31 DEF MonitorSamples, MonitorGoes
<1>32. CASE Cancel
  BY <1>32 DEF Cancel
<1>33. CASE LibraryGoes
  BY <1>33 DEF LibraryGoes
<1>34. CASE UNCHANGED vars
  BY <1>34 DEF vars
<1> QED
  BY <1>1, <1>2, <1>3, <1>4, <1>5, <1>6, <1>7, <1>8, <1>9, <1>10, <1>11,
  <1>12, <1>13, <1>14, <1>15, <1>16, <1>17, <1>18, <1>19, <1>20, <1>21,
  <1>22, <1>23, <1>24, <1>25, <1>26, <1>27, <1>28, <1>29, <1>30, <1>31,
  <1>32, <1>33, <1>34 DEF Next, Executor, Monitor

-----------------------------------------------------------------------------
(* Faults *)

(* Every step keeps FaultInv. *)
LEMMA FaultStep ==
  ASSUME FaultInv, LibraryInv, HandlerTypeOK, [Next]_vars
  PROVE  FaultInv'
<1> USE DEF FaultInv, Loaded, Monitored, Joinable, LibraryInv, Reinits,
           handlerVars, monitorVars, placeVars, scenarioVars
<1>1. CASE InitSucceeds
  BY <1>1 DEF InitSucceeds, Answer, StartMonitor, HandlerTypeOK
<1>2. CASE InitFails
  BY <1>2 DEF InitFails, Goto, Answer, NotLoaded
<1>3. CASE DeinitSucceeds
  BY <1>3 DEF DeinitSucceeds, Answer, AfterDeinit, HandlerTypeOK
<1>4. CASE DeinitFails
  BY <1>4 DEF DeinitFails, Goto, Answer, NotLoaded, AfterDeinit
<1>5. CASE JoinMonitor
  BY <1>5 DEF JoinMonitor, Goto, AfterDeinit
<1>6. CASE FileCanceled
  BY <1>6 DEF FileCanceled, Goto
<1>7. CASE NoPrompts
  BY <1>7 DEF NoPrompts, Goto
<1>8. CASE ReadFile
  BY <1>8 DEF ReadFile, Goto
<1>9. CASE LoadModel
  BY <1>9 DEF LoadModel
<1>10. CASE CheckModel
  BY <1>10 DEF CheckModel, Complains
<1>11. CASE NextSession
  BY <1>11 DEF NextSession
<1>12. CASE Prepare
  BY <1>12 DEF Prepare, Answer, NotLoaded, Complains
<1>13. CASE BeginInfer
  BY <1>13 DEF BeginInfer, Goto
<1>14. CASE InferNotLoaded
  BY <1>14 DEF InferNotLoaded, NotLoaded, RunChecked, Complains
<1>15. CASE InferSucceeds
  BY <1>15 DEF InferSucceeds, Answer, RunChecked, Complains, HandlerTypeOK
<1>16. CASE InferFails
  BY <1>16 DEF InferFails, Answer, NotLoaded, RunChecked, Complains
<1>17. CASE InferThrows
  BY <1>17 DEF InferThrows
<1>18. CASE ToolFails
  BY <1>18 DEF ToolFails, Goto, Answer, HandlerTypeOK
<1>19. CASE Reset
  BY <1>19 DEF Reset, Answer, NotLoaded, Measure, Complains, HandlerTypeOK
<1>20. CASE DecodeFails
  BY <1>20 DEF DecodeFails, Goto, Answer, HandlerTypeOK
<1>21. CASE PromptGood
  BY <1>21 DEF PromptGood, Goto, Advance, AfterPrompt
<1>22. CASE PromptSkipped
  BY <1>22 DEF PromptSkipped, Goto, Advance, AfterPrompt
<1>23. CASE PromptFails
  BY <1>23 DEF PromptFails, Goto
<1>24. CASE LastDeinit
  BY <1>24 DEF LastDeinit
<1>25. CASE Finish
  BY <1>25 DEF Finish, Goto
<1>26. CASE Destroy
  BY <1>26 DEF Destroy
<1>27. CASE DestructorJoins
  BY <1>27 DEF DestructorJoins, Goto
<1>28. CASE Release
  BY <1>28 DEF Release, Goto
<1>29. CASE MonitorTests
  BY <1>29 DEF MonitorTests, MonitorGoes
<1>30. CASE MonitorLooks
  BY <1>30 DEF MonitorLooks, MonitorGoes
<1>31. CASE MonitorSamples
  BY <1>31 DEF MonitorSamples, MonitorGoes
<1>32. CASE Cancel
  BY <1>32 DEF Cancel
<1>33. CASE LibraryGoes
  BY <1>33 DEF LibraryGoes
<1>34. CASE UNCHANGED vars
  BY <1>34 DEF vars
<1> QED
  BY <1>1, <1>2, <1>3, <1>4, <1>5, <1>6, <1>7, <1>8, <1>9, <1>10, <1>11,
  <1>12, <1>13, <1>14, <1>15, <1>16, <1>17, <1>18, <1>19, <1>20, <1>21,
  <1>22, <1>23, <1>24, <1>25, <1>26, <1>27, <1>28, <1>29, <1>30, <1>31,
  <1>32, <1>33, <1>34 DEF Next, Executor, Monitor

-----------------------------------------------------------------------------
(* The account of the prompts *)

(* Advance adds the prompt it leaves to those before, and the run goes on  *)
(* to the end when that was the last.                                      *)
LEMMA AdvanceBefore ==
  ASSUME PlaceTypeOK, Advance
  PROVE  /\ <<file, prompt>> \notin Before
         /\ AfterPrompt # "last" => Before' = Before \cup {<<file, prompt>>}
         /\ AfterPrompt = "last" => PromptId = Before \cup {<<file, prompt>>}
<1> USE InferenceAssumption DEF PlaceTypeOK, Advance, AfterPrompt, Before, PromptId
<1>1. <<file, prompt>> \notin Before
  OBVIOUS
<1>2. CASE prompt < Prompts
  BY <1>2
<1>3. CASE ~(prompt < Prompts) /\ file < Files
  BY <1>3
<1>4. CASE ~(prompt < Prompts) /\ ~(file < Files)
  BY <1>4
<1> QED
  BY <1>1, <1>2, <1>3, <1>4

(* Every step keeps AccountInv. *)
LEMMA AccountStep ==
  ASSUME AccountInv, SessionInv, ResultTypeOK, LibraryInv, HandlerTypeOK,
  [Next]_vars
  PROVE  AccountInv'
<1> USE DEF AccountInv, SessionInv, LibraryInv, Reinits, AllSeen, Over,
           Ending, scenarioVars, placeVars, resultVars, Before
<1>1. CASE InitSucceeds
  BY <1>1 DEF InitSucceeds, Answer, StartMonitor
<1>2. CASE InitFails
  BY <1>2 DEF InitFails, Goto, Answer, NotLoaded
<1>3. CASE DeinitSucceeds
  BY <1>3 DEF DeinitSucceeds, Answer, AfterDeinit
<1>4. CASE DeinitFails
  BY <1>4 DEF DeinitFails, Goto, Answer, NotLoaded, AfterDeinit
<1>5. CASE JoinMonitor
  BY <1>5 DEF JoinMonitor, Goto, AfterDeinit
<1>6. CASE FileCanceled
  BY <1>6 DEF FileCanceled, Goto
<1>7. CASE NoPrompts
  BY <1>7 DEF NoPrompts, Goto
<1>8. CASE ReadFile
  BY <1>8 DEF ReadFile, Goto
<1>9. CASE LoadModel
  BY <1>9 DEF LoadModel
<1>10. CASE CheckModel
  BY <1>10 DEF CheckModel, Complains
<1>11. CASE NextSession
  BY <1>11 DEF NextSession
<1>12. CASE Prepare
  BY <1>12 DEF Prepare, Answer, NotLoaded, Complains
<1>13. CASE BeginInfer
  BY <1>13 DEF BeginInfer, Goto
<1>14. CASE InferNotLoaded
  BY <1>14 DEF InferNotLoaded, NotLoaded, RunChecked, Complains
<1>15. CASE InferSucceeds
  BY <1>15 DEF InferSucceeds, Answer, RunChecked, Complains
<1>16. CASE InferFails
  BY <1>16 DEF InferFails, Answer, NotLoaded, RunChecked, Complains
<1>17. CASE InferThrows
  BY <1>17 DEF InferThrows
<1>18. CASE ToolFails
  BY <1>18 DEF ToolFails, Goto, Answer
<1>19. CASE Reset
  BY <1>19 DEF Reset, Answer, NotLoaded, Measure, Complains
<1>20. CASE DecodeFails
  BY <1>20 DEF DecodeFails, Goto, Answer
<1>21. CASE PromptGood
  <2>1. pc = "prompt" /\ good /\ pc' = AfterPrompt /\ Advance
        /\ measured' = measured \cup {<<file, prompt>>}
        /\ UNCHANGED <<kind, skippable, skipped, noted, success>>
    BY <1>21 DEF PromptGood, Goto
  <2>2. AfterPrompt \in {"model", "session", "file", "last"}
    BY DEF AfterPrompt
  <2>3. PlaceTypeOK
    BY DEF SessionInv
  <2>4. /\ <<file, prompt>> \notin Before
        /\ AfterPrompt # "last" => Before' = Before \cup {<<file, prompt>>}
        /\ AfterPrompt = "last" => PromptId = Before \cup {<<file, prompt>>}
    BY <2>1, <2>3, AdvanceBefore, Zenon
  <2>5. ~Over /\ ~AllSeen
    BY <2>1
  <2>6. ~Over' /\ (AllSeen' <=> AfterPrompt = "last")
    BY <2>1, <2>2
  <2> HIDE DEF Before, Over, AllSeen, SessionInv, LibraryInv
  <2>7. /\ AfterPrompt # "last" => Before' \subseteq (measured \cup skipped)'
        /\ AfterPrompt = "last" => PromptId \subseteq (measured \cup skipped)'
    BY <2>1, <2>4, <2>5
  <2>8. kind # "image" => /\ measured' \cap skipped' = {}
                          /\ AfterPrompt # "last" => measured' \subseteq Before' /\ skipped' \subseteq Before'
    BY <2>1, <2>4, <2>5
  <2>9. (measured \cup skipped)' \subseteq PromptId
    BY <2>1, <2>3, HereIsPrompt DEF ResultTypeOK
  <2> QED
    BY <2>1, <2>5, <2>6, <2>7, <2>8, <2>9
<1>22. CASE PromptSkipped
  <2>1. pc = "prompt" /\ pc' = "deinit" /\ next' = AfterPrompt /\ Advance
        /\ file \in skippable /\ kind # "agentic"
        /\ skipped' = skipped \cup {<<file, prompt>>}
        /\ UNCHANGED <<kind, skippable, measured, noted, success>>
    BY <1>22 DEF PromptSkipped, Goto
  <2>2. AfterPrompt \in {"model", "session", "file", "last"}
    BY DEF AfterPrompt
  <2>3. PlaceTypeOK
    BY DEF SessionInv
  <2>4. /\ <<file, prompt>> \notin Before
        /\ AfterPrompt # "last" => Before' = Before \cup {<<file, prompt>>}
        /\ AfterPrompt = "last" => PromptId = Before \cup {<<file, prompt>>}
    BY <2>1, <2>3, AdvanceBefore, Zenon
  <2>5. ~Over /\ ~AllSeen
    BY <2>1
  <2>6. ~Over' /\ (AllSeen' <=> AfterPrompt = "last")
    BY <2>1, <2>2
  <2> HIDE DEF Before, Over, AllSeen, SessionInv, LibraryInv
  <2>7. /\ AfterPrompt # "last" => Before' \subseteq (measured \cup skipped)'
        /\ AfterPrompt = "last" => PromptId \subseteq (measured \cup skipped)'
    BY <2>1, <2>4, <2>5
  <2>8. kind # "image" => /\ measured' \cap skipped' = {}
                          /\ AfterPrompt # "last" => measured' \subseteq Before' /\ skipped' \subseteq Before'
    BY <2>1, <2>4, <2>5
  <2>9. (measured \cup skipped)' \subseteq PromptId
    BY <2>1, <2>3, HereIsPrompt DEF ResultTypeOK
  <2>10. \A p \in skipped' : p[1] \in skippable' /\ kind' # "agentic"
    BY <2>1
  <2> HIDE DEF AccountInv
  <2>11. ~success /\ skipped' # {}
    BY <2>1, <2>5 DEF AccountInv, Ending
  <2> QED
    BY <2>1, <2>5, <2>6, <2>7, <2>8, <2>9, <2>10, <2>11 DEF AccountInv
<1>23. CASE PromptFails
  BY <1>23 DEF PromptFails, Goto
<1>24. CASE LastDeinit
  BY <1>24 DEF LastDeinit
<1>25. CASE Finish
  BY <1>25 DEF Finish, Goto
<1>26. CASE Destroy
  BY <1>26 DEF Destroy
<1>27. CASE DestructorJoins
  BY <1>27 DEF DestructorJoins, Goto
<1>28. CASE Release
  BY <1>28 DEF Release, Goto
<1>29. CASE MonitorTests
  BY <1>29 DEF MonitorTests, MonitorGoes
<1>30. CASE MonitorLooks
  BY <1>30 DEF MonitorLooks, MonitorGoes
<1>31. CASE MonitorSamples
  BY <1>31 DEF MonitorSamples, MonitorGoes
<1>32. CASE Cancel
  BY <1>32 DEF Cancel
<1>33. CASE LibraryGoes
  BY <1>33 DEF LibraryGoes
<1>34. CASE UNCHANGED vars
  BY <1>34 DEF vars
<1> QED
  BY <1>1, <1>2, <1>3, <1>4, <1>5, <1>6, <1>7, <1>8, <1>9, <1>10, <1>11,
  <1>12, <1>13, <1>14, <1>15, <1>16, <1>17, <1>18, <1>19, <1>20, <1>21,
  <1>22, <1>23, <1>24, <1>25, <1>26, <1>27, <1>28, <1>29, <1>30, <1>31,
  <1>32, <1>33, <1>34 DEF Next, Executor, Monitor

-----------------------------------------------------------------------------
(* The theorems *)

LEMMA InitIInv == Init => IInv
<1> SUFFICES ASSUME Init PROVE IInv
  OBVIOUS
<1> USE DEF Init
<1>1. SessionInv
  <2>1. file \in 1 .. Files /\ prompt \in 1 .. Prompts /\ iter \in 1 .. Iterations + 1
    BY InferenceAssumption
  <2>2. good \in BOOLEAN /\ changed \in BOOLEAN /\ initialized \in BOOLEAN
    BY Zenon
  <2>3. pc \in Place /\ next \in Place
    BY DEF Place
  <2> QED
    BY <2>1, <2>2, <2>3 DEF SessionInv, PlaceTypeOK
<1>2. ResultTypeOK /\ HandlerTypeOK
  BY DEF ResultTypeOK, HandlerTypeOK
<1>3. LibraryInv /\ GoneMeansQuiet /\ LateInv
  BY DEF LibraryInv, GoneMeansQuiet, LateInv
<1>4. AccountInv
  <2>1. Before = {}
    BY DEF Before, PromptId
  <2> QED
    BY <2>1 DEF AccountInv, AllSeen, Over, Ending
<1>5. FaultInv
  BY DEF FaultInv, Joinable, Loaded
<1> QED
  BY <1>1, <1>2, <1>3, <1>4, <1>5 DEF IInv

LEMMA NextIInv == IInv /\ [Next]_vars => IInv'
BY SessionStep, ResultTypeStep, HandlerTypeStep, LibraryStep, QuietStep,
   AccountStep, LateStep, FaultStep, Zenon
   DEF IInv, SessionInv

LEMMA SpecIInv == Spec => []IInv
BY InitIInv, NextIInv, PTL DEF Spec

(* TypeOK, for every number of files, prompts and sessions. *)
THEOREM TypeCorrect == Spec => []TypeOK
<1>1. IInv => TypeOK
  BY DEF IInv, TypeOK, SessionInv
<1> QED
  BY <1>1, SpecIInv, PTL

(* GoneMeansQuiet: the object's release and end find no sampling thread,   *)
(* whichever calls failed before.                                          *)
THEOREM NoThreadLeft == Spec => []GoneMeansQuiet
<1>1. IInv => GoneMeansQuiet
  BY DEF IInv
<1> QED
  BY <1>1, SpecIInv, PTL

(* SuccessAccounted: a success answers for every prompt of every file.     *)
THEOREM SuccessIsAccounted == Spec => []SuccessAccounted
<1>1. IInv => SuccessAccounted
  BY DEF IInv, AccountInv, SuccessAccounted
<1> QED
  BY <1>1, SpecIInv, PTL

(* CancelBounded: one inference at most begins after the cancellation.     *)
THEOREM CancelIsBounded == Spec => []CancelBounded
<1>1. IInv => CancelBounded
  BY DEF IInv, LateInv, CancelBounded
<1> QED
  BY <1>1, SpecIInv, PTL

(* NoFaultNoCrash: an exception or the end of the program needs a fault.   *)
THEOREM NoCrashWithoutFault == Spec => []NoFaultNoCrash
<1>1. IInv => NoFaultNoCrash
  BY DEF IInv, FaultInv, NoFaultNoCrash
<1> QED
  BY <1>1, SpecIInv, PTL

(* A step that comes to an inference finds the library initialised. *)
LEMMA InferStep ==
  ASSUME LibraryInv, [Next]_vars
  PROVE  pc' = "inferring" => library = "ready"
<1> USE DEF LibraryInv, Reinits
<1>1. CASE InitSucceeds
  BY <1>1 DEF InitSucceeds, Answer, StartMonitor
<1>2. CASE InitFails
  BY <1>2 DEF InitFails, Goto, Answer, NotLoaded
<1>3. CASE DeinitSucceeds
  BY <1>3 DEF DeinitSucceeds, Answer, AfterDeinit
<1>4. CASE DeinitFails
  BY <1>4 DEF DeinitFails, Goto, Answer, NotLoaded, AfterDeinit
<1>5. CASE JoinMonitor
  BY <1>5 DEF JoinMonitor, Goto, AfterDeinit
<1>6. CASE FileCanceled
  BY <1>6 DEF FileCanceled, Goto
<1>7. CASE NoPrompts
  BY <1>7 DEF NoPrompts, Goto
<1>8. CASE ReadFile
  BY <1>8 DEF ReadFile, Goto
<1>9. CASE LoadModel
  BY <1>9 DEF LoadModel
<1>10. CASE CheckModel
  BY <1>10 DEF CheckModel, Complains
<1>11. CASE NextSession
  BY <1>11 DEF NextSession
<1>12. CASE Prepare
  BY <1>12 DEF Prepare, Answer, NotLoaded, Complains
<1>13. CASE BeginInfer
  BY <1>13 DEF BeginInfer, Goto
<1>14. CASE InferNotLoaded
  BY <1>14 DEF InferNotLoaded, NotLoaded, RunChecked, Complains
<1>15. CASE InferSucceeds
  BY <1>15 DEF InferSucceeds, Answer, RunChecked, Complains
<1>16. CASE InferFails
  BY <1>16 DEF InferFails, Answer, NotLoaded, RunChecked, Complains
<1>17. CASE InferThrows
  BY <1>17 DEF InferThrows
<1>18. CASE ToolFails
  BY <1>18 DEF ToolFails, Goto, Answer
<1>19. CASE Reset
  BY <1>19 DEF Reset, Answer, NotLoaded, Measure, Complains
<1>20. CASE DecodeFails
  BY <1>20 DEF DecodeFails, Goto, Answer
<1>21. CASE PromptGood
  BY <1>21 DEF PromptGood, Goto, Advance, AfterPrompt
<1>22. CASE PromptSkipped
  BY <1>22 DEF PromptSkipped, Goto, Advance, AfterPrompt
<1>23. CASE PromptFails
  BY <1>23 DEF PromptFails, Goto
<1>24. CASE LastDeinit
  BY <1>24 DEF LastDeinit
<1>25. CASE Finish
  BY <1>25 DEF Finish, Goto
<1>26. CASE Destroy
  BY <1>26 DEF Destroy
<1>27. CASE DestructorJoins
  BY <1>27 DEF DestructorJoins, Goto
<1>28. CASE Release
  BY <1>28 DEF Release, Goto
<1>29. CASE MonitorTests
  BY <1>29 DEF MonitorTests, MonitorGoes
<1>30. CASE MonitorLooks
  BY <1>30 DEF MonitorLooks, MonitorGoes
<1>31. CASE MonitorSamples
  BY <1>31 DEF MonitorSamples, MonitorGoes
<1>32. CASE Cancel
  BY <1>32 DEF Cancel
<1>33. CASE LibraryGoes
  BY <1>33 DEF LibraryGoes
<1>34. CASE UNCHANGED vars
  BY <1>34 DEF vars
<1> QED
  BY <1>1, <1>2, <1>3, <1>4, <1>5, <1>6, <1>7, <1>8, <1>9, <1>10, <1>11,
  <1>12, <1>13, <1>14, <1>15, <1>16, <1>17, <1>18, <1>19, <1>20, <1>21,
  <1>22, <1>23, <1>24, <1>25, <1>26, <1>27, <1>28, <1>29, <1>30, <1>31,
  <1>32, <1>33, <1>34 DEF Next, Executor, Monitor

(* InferOnlyWhenReady: no inference begins on a library that is not        *)
(* initialised.                                                            *)
THEOREM InfersWhenReady == Spec => InferOnlyWhenReady
<1>1. LibraryInv /\ [Next]_vars => [pc' = "inferring" => library = "ready"]_vars
  BY InferStep
<1>2. IInv => LibraryInv
  BY DEF IInv
<1> QED
  BY <1>1, <1>2, SpecIInv, PTL DEF Spec, InferOnlyWhenReady

=============================================================================
