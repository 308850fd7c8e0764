------------------------ MODULE BenchmarkStageProofs ------------------------
(***************************************************************************)
(* Theorems about the TaskScheduler and the BenchmarkStage that runs on it.*)
(* The scheduler and its owner (TaskSchedulerClient), for every set of     *)
(* tasks: the type invariant, the order and the uniqueness of the calls,   *)
(* what completion and cancellation guarantee, and the implementation of   *)
(* SerialExecution.  The stage, for every number of models, executors and  *)
(* sessions and every handler: what ReportProgress answers agrees with what*)
(* the executors did, and a result counts as a success only if the executor*)
(* went through its sessions.                                              *)
(***************************************************************************)
EXTENDS TaskSchedulerClient, BenchmarkStage, SequenceTheorems, TLAPS

-----------------------------------------------------------------------------
(* Facts about sequences *)

(* Appending to the right operand of a concatenation. *)
LEMMA AppendConcat ==
  ASSUME NEW S, NEW a \in Seq(S), NEW b \in Seq(S), NEW e \in S
  PROVE  Append(a \o b, e) = a \o Append(b, e)
<1>1. Append(a \o b, e) \in Seq(S) /\ a \o Append(b, e) \in Seq(S)
  BY ConcatProperties
<1>2. Len(Append(a \o b, e)) = Len(a \o Append(b, e))
  BY ConcatProperties
<1>3. \A i \in 1 .. Len(Append(a \o b, e)) :
        Append(a \o b, e)[i] = (a \o Append(b, e))[i]
  BY ConcatProperties
<1> QED
  BY <1>1, <1>2, <1>3, SeqEqual

(* Appending is concatenating a one-element sequence. *)
LEMMA AppendToConcat ==
  ASSUME NEW S, NEW a \in Seq(S), NEW e \in S
  PROVE  Append(a, e) = a \o <<e>>
<1>1. Append(a, e) = a \o Append(<<>>, e)
  BY AppendConcat, ConcatEmptySeq, EmptySeq
<1>2. Append(<<>>, e) = <<e>>
  OBVIOUS
<1> QED
  BY <1>1, <1>2

(* Popping the head of the right operand into the left one. *)
LEMMA MoveHead ==
  ASSUME NEW S, NEW a \in Seq(S), NEW q \in Seq(S), q # <<>>
  PROVE  (a \o <<Head(q)>>) \o Tail(q) = a \o q
<1>1. Head(q) \in S /\ Tail(q) \in Seq(S) /\ <<Head(q)>> \in Seq(S)
  BY HeadTailProperties
<1>2. <<Head(q)>> \o Tail(q) = q
  <2>1. <<Head(q)>> \o Tail(q) \in Seq(S)
    BY <1>1, ConcatProperties
  <2>2. Len(<<Head(q)>> \o Tail(q)) = Len(q)
    BY <1>1, ConcatProperties, HeadTailProperties, EmptySeq
  <2>3. \A i \in 1 .. Len(q) : (<<Head(q)>> \o Tail(q))[i] = q[i]
    BY <1>1, ConcatProperties, HeadTailProperties, EmptySeq
  <2> QED
    BY <2>1, <2>2, <2>3, SeqEqual
<1> QED
  BY <1>1, <1>2, ConcatAssociative

-----------------------------------------------------------------------------
(* The inductive invariant of the scheduler and its owner *)

(* CancelStopsCalls counting the task already popped. *)
PendingCallsAllowed == canceled => Len(started) + Len(Taken) <= allowed

ClientInv ==
  /\ ClientTypeOK
  /\ EachTaskOnceInOrder
  /\ CompletionMeansQuiet
  /\ PendingCallsAllowed

LEMMA ClientInitInv == ClientInit => ClientInv
<1> SUFFICES ASSUME ClientInit PROVE ClientInv
  OBVIOUS
<1> USE DEF ClientInit, SchedulerHolds
<1>1. ClientTypeOK
  <2>1. completed = TRUE
    BY Zenon
  <2>2. queue \in Seq(Task) /\ started \in Seq(Task) /\ scheduled \in Seq(Task)
    BY EmptySeq
  <2> QED
    BY <2>1, <2>2 DEF ClientTypeOK, SchedulerTypeOK, WorkerState, OwnerState
<1>2. EachTaskOnceInOrder
  BY ConcatEmptySeq, EmptySeq DEF EachTaskOnceInOrder, Taken
<1>3. CompletionMeansQuiet /\ PendingCallsAllowed
  BY DEF CompletionMeansQuiet, PendingCallsAllowed
<1> QED
  BY <1>1, <1>2, <1>3 DEF ClientInv

(* A step that leaves the scheduler and the history of schedules alone. *)
LEMMA OwnerClientInv ==
  ASSUME ClientInv, UNCHANGED <<schedulerVars, scheduled>>, owner' \in OwnerState
  PROVE  ClientInv'
BY DEF ClientInv, ClientTypeOK, SchedulerTypeOK, EachTaskOnceInOrder,
       CompletionMeansQuiet, PendingCallsAllowed, Taken, schedulerVars

LEMMA ScheduleClientInv ==
  ASSUME ClientInv, NEW t \in Task, Schedule(t)
  PROVE  ClientInv'
<1> USE DEF ClientInv, Schedule, ScheduleTask
<1>1. ClientTypeOK'
  <2>1. queue' \in Seq(Task) /\ scheduled' \in Seq(Task)
    BY DEF ClientTypeOK, SchedulerTypeOK
  <2> QED
    BY <2>1 DEF ClientTypeOK, SchedulerTypeOK
<1>2. EachTaskOnceInOrder'
  <2>1. started \o Taken \in Seq(Task) /\ queue \in Seq(Task)
    BY ConcatProperties, EmptySeq
       DEF ClientTypeOK, SchedulerTypeOK, Taken
  <2>2. scheduled = (started \o Taken) \o queue
    BY DEF EachTaskOnceInOrder
  <2>3. Append(scheduled, t) = (started \o Taken) \o Append(queue, t)
    <3> DEFINE called == started \o Taken
               longer == called \o Append(queue, t)
    <3>1. called \in Seq(Task) /\ scheduled = called \o queue
      BY <2>1, <2>2
    <3> HIDE DEF called
    <3>2. Append(scheduled, t) \in Seq(Task) /\ longer \in Seq(Task)
      BY <2>1, <3>1, ConcatProperties
    <3>3. Len(Append(scheduled, t)) = Len(longer)
      BY <2>1, <3>1, ConcatProperties
    <3>4. ASSUME NEW i \in 1 .. Len(Append(scheduled, t))
          PROVE  Append(scheduled, t)[i] = longer[i]
      <4>1. CASE i <= Len(called)
        BY <2>1, <3>1, <4>1, ConcatProperties
      <4>2. CASE i > Len(called) /\ i <= Len(scheduled)
        BY <2>1, <3>1, <4>2, ConcatProperties
      <4>3. CASE i = Len(scheduled) + 1
        BY <2>1, <3>1, <4>3, ConcatProperties
      <4>4. /\ i \in Int /\ Len(called) \in Int /\ Len(scheduled) \in Int
            /\ i <= Len(scheduled) + 1
        BY <2>1, <3>1, ConcatProperties
      <4>5. \/ i <= Len(called)
            \/ i > Len(called) /\ i <= Len(scheduled)
            \/ i = Len(scheduled) + 1
        BY <4>4
      <4> QED
        BY <4>1, <4>2, <4>3, <4>5, Zenon
    <3>5. Append(scheduled, t) = longer
      BY <3>2, <3>3, <3>4, SeqEqual
    <3> QED
      BY <3>5 DEF called
  <2> QED
    BY <2>3 DEF EachTaskOnceInOrder, Taken
<1>3. CompletionMeansQuiet' /\ PendingCallsAllowed'
  BY DEF CompletionMeansQuiet, PendingCallsAllowed
<1> QED
  BY <1>1, <1>2, <1>3

LEMMA CancelClientInv ==
  ASSUME ClientInv, CancelTasks, UNCHANGED <<owner, scheduled>>
  PROVE  ClientInv'
<1> USE DEF ClientInv, CancelTasks
<1>1. ClientTypeOK'
  BY DEF ClientTypeOK, SchedulerTypeOK
<1>2. EachTaskOnceInOrder'
  BY DEF EachTaskOnceInOrder, Taken
<1>3. CompletionMeansQuiet'
  BY DEF CompletionMeansQuiet
<1>4. PendingCallsAllowed'
  BY DEF PendingCallsAllowed, Taken, ClientTypeOK, SchedulerTypeOK
<1> QED
  BY <1>1, <1>2, <1>3, <1>4

LEMMA ExecuteClientInv ==
  ASSUME ClientInv, ExecuteReturns
  PROVE  ClientInv'
<1> USE DEF ClientInv, ExecuteReturns, ExecuteTasksAsync, JoinReturns, WorkerActive
<1>1. ClientTypeOK'
  BY DEF ClientTypeOK, SchedulerTypeOK, OwnerState, WorkerState
<1>2. EachTaskOnceInOrder' /\ CompletionMeansQuiet' /\ PendingCallsAllowed'
  BY DEF EachTaskOnceInOrder, CompletionMeansQuiet, PendingCallsAllowed, Taken
<1> QED
  BY <1>1, <1>2

LEMMA CompletesClientInv ==
  ASSUME ClientInv, Completes
  PROVE  ClientInv'
<1> USE DEF ClientInv, Completes, WorkerCompletes
<1>1. ClientTypeOK'
  BY DEF ClientTypeOK, SchedulerTypeOK, OwnerState, WorkerState, NotifyOwner
<1>2. EachTaskOnceInOrder' /\ CompletionMeansQuiet' /\ PendingCallsAllowed'
  BY DEF EachTaskOnceInOrder, CompletionMeansQuiet, PendingCallsAllowed, Taken
<1> QED
  BY <1>1, <1>2

LEMMA TakesClientInv ==
  ASSUME ClientInv, Takes
  PROVE  ClientInv'
<1> USE DEF ClientInv, Takes, WorkerTakes
<1>1. Head(queue) \in Task /\ Tail(queue) \in Seq(Task)
  BY HeadTailProperties DEF ClientTypeOK, SchedulerTypeOK
<1>2. ClientTypeOK'
  BY <1>1, TaskAssumption DEF ClientTypeOK, SchedulerTypeOK, WorkerState
<1>3. EachTaskOnceInOrder'
  <2>1. started \o Taken = started
    BY ConcatEmptySeq DEF ClientTypeOK, SchedulerTypeOK, Taken
  <2>2. Taken' = <<Head(queue)>>
    BY DEF Taken
  <2>3. (started \o <<Head(queue)>>) \o Tail(queue) = started \o queue
    BY MoveHead DEF ClientTypeOK, SchedulerTypeOK
  <2> QED
    BY <2>1, <2>2, <2>3 DEF EachTaskOnceInOrder
<1>4. CompletionMeansQuiet' /\ PendingCallsAllowed'
  BY DEF CompletionMeansQuiet, PendingCallsAllowed
<1> QED
  BY <1>2, <1>3, <1>4

LEMMA CallsClientInv ==
  ASSUME ClientInv, Calls
  PROVE  ClientInv'
<1> USE DEF ClientInv, Calls, WorkerCalls
<1>1. current \in Task
  BY DEF ClientTypeOK, SchedulerTypeOK
<1>2. ClientTypeOK'
  BY <1>1 DEF ClientTypeOK, SchedulerTypeOK, WorkerState
<1>3. EachTaskOnceInOrder'
  <2>1. Append(started, current) = started \o Taken
    BY <1>1, AppendToConcat DEF ClientTypeOK, SchedulerTypeOK, Taken
  <2>2. started' \o Taken' = started'
    BY <1>2, ConcatEmptySeq DEF ClientTypeOK, SchedulerTypeOK, Taken
  <2> QED
    BY <2>1, <2>2 DEF EachTaskOnceInOrder
<1>4. CompletionMeansQuiet'
  BY DEF CompletionMeansQuiet
<1>5. PendingCallsAllowed'
  BY <1>1 DEF PendingCallsAllowed, Taken, ClientTypeOK, SchedulerTypeOK
<1> QED
  BY <1>2, <1>3, <1>4, <1>5

LEMMA ReturnsClientInv ==
  ASSUME ClientInv, Returns
  PROVE  ClientInv'
<1> USE DEF ClientInv, Returns, WorkerReturns
<1>1. ClientTypeOK'
  BY DEF ClientTypeOK, SchedulerTypeOK, WorkerState
<1>2. EachTaskOnceInOrder' /\ CompletionMeansQuiet' /\ PendingCallsAllowed'
  BY DEF EachTaskOnceInOrder, CompletionMeansQuiet, PendingCallsAllowed, Taken
<1> QED
  BY <1>1, <1>2

LEMMA ClientStepInv == ClientInv /\ [ClientNext]_clientVars => ClientInv'
<1> SUFFICES ASSUME ClientInv, [ClientNext]_clientVars PROVE ClientInv'
  OBVIOUS
<1>1. ASSUME NEW t \in Task, Schedule(t) PROVE ClientInv'
  BY <1>1, ScheduleClientInv
<1>2. CASE CallExecute
  BY <1>2, OwnerClientInv DEF CallExecute, OwnerState
<1>3. CASE ExecuteReturns
  BY <1>3, ExecuteClientInv
<1>4. CASE CallJoin
  BY <1>4, OwnerClientInv DEF CallJoin, OwnerState
<1>5. CASE OwnerJoins
  BY <1>5, OwnerClientInv DEF OwnerJoins, OwnerState
<1>6. CASE OwnerCancels
  BY <1>6, CancelClientInv DEF OwnerCancels
<1>7. CASE CallWait
  BY <1>7, OwnerClientInv DEF CallWait, OwnerState
<1>8. CASE OwnerTimesOut
  BY <1>8, OwnerClientInv DEF OwnerTimesOut, OwnerState
<1>9. CASE WaitReturns
  BY <1>9, OwnerClientInv DEF WaitReturns, OwnerState
<1>10. CASE Completes
  BY <1>10, CompletesClientInv
<1>11. CASE Takes
  BY <1>11, TakesClientInv
<1>12. CASE Calls
  BY <1>12, CallsClientInv
<1>13. CASE TaskCancels
  BY <1>13, CancelClientInv DEF TaskCancels
<1>14. CASE Returns
  BY <1>14, ReturnsClientInv
<1>15. CASE UNCHANGED clientVars
  BY <1>15, OwnerClientInv DEF clientVars, ClientInv, ClientTypeOK
<1> QED
  BY <1>1, <1>2, <1>3, <1>4, <1>5, <1>6, <1>7, <1>8, <1>9, <1>10, <1>11,
     <1>12, <1>13, <1>14, <1>15 DEF ClientNext

LEMMA ClientInvariant == ClientSpec => []ClientInv
  BY ClientInitInv, ClientStepInv, PTL DEF ClientSpec

-----------------------------------------------------------------------------
(* The theorems about the scheduler *)

(* Every variable keeps its type. *)
THEOREM ClientTypeCorrect == ClientSpec => []ClientTypeOK
<1>1. ClientInv => ClientTypeOK
  BY DEF ClientInv
<1> QED
  BY <1>1, ClientInvariant, PTL

(* The worker neither loses, repeats nor reorders a scheduled task. *)
THEOREM TasksCalledOnceInOrder == ClientSpec => []EachTaskOnceInOrder
<1>1. ClientInv => EachTaskOnceInOrder
  BY DEF ClientInv
<1> QED
  BY <1>1, ClientInvariant, PTL

(* AreTasksCompleted() is true only while no task is being called. *)
THEOREM CompletionIsQuiet == ClientSpec => []CompletionMeansQuiet
<1>1. ClientInv => CompletionMeansQuiet
  BY DEF ClientInv
<1> QED
  BY <1>1, ClientInvariant, PTL

(* At most the task already popped is called after CancelTasks. *)
THEOREM CancellationStopsCalls == ClientSpec => []CancelStopsCalls
<1>1. ClientInv => CancelStopsCalls
  BY EmptySeq DEF ClientInv, CancelStopsCalls, PendingCallsAllowed, Taken, ClientTypeOK,
     SchedulerTypeOK
<1> QED
  BY <1>1, ClientInvariant, PTL

(* TaskScheduler implements the abstract serial executor. *)
THEOREM ImplementsSerialExecution == ClientSpec => SerialSpec
<1>1. ClientInit => Serial!Init
  BY DEF ClientInit, SchedulerHolds, Serial!Init
<1>2. ClientInv /\ [ClientNext]_clientVars => [Serial!Next]_(Serial!vars)
  <2> SUFFICES ASSUME ClientInv, [ClientNext]_clientVars, ~(UNCHANGED Serial!vars)
               PROVE  Serial!Next
    OBVIOUS
  <2> USE DEF Serial!vars
  <2>1. ASSUME NEW t \in Task, Schedule(t) PROVE Serial!Next
    BY <2>1 DEF Schedule, ScheduleTask, Serial!Next, Serial!Submit
  <2>2. CASE Calls
    <3>1. current \in Task /\ started \in Seq(Task) /\ queue \in Seq(Task)
      BY <2>2 DEF ClientInv, ClientTypeOK, SchedulerTypeOK, Calls, WorkerCalls
    <3>2. scheduled = started \o <<current>> \o queue
      BY <2>2 DEF ClientInv, EachTaskOnceInOrder, Taken, Calls, WorkerCalls
    <3>3. Len(started) < Len(scheduled) /\ scheduled[Len(started) + 1] = current
      <4>1. started \o <<current>> \in Seq(Task)
        BY <3>1, ConcatProperties
      <4>2. /\ Len(started \o <<current>>) = Len(started) + 1
            /\ (started \o <<current>>)[Len(started) + 1] = current
        BY <3>1, ConcatProperties
      <4> QED
        BY <3>1, <3>2, <4>1, <4>2, ConcatProperties, LenProperties
    <3> QED
      BY <2>2, <3>3 DEF Calls, WorkerCalls, Serial!Next, Serial!Begin
  <2>3. CASE Returns
    BY <2>3 DEF Returns, WorkerReturns, Serial!Next, Serial!End
  <2>4. CASE \/ CallExecute \/ ExecuteReturns \/ CallJoin \/ OwnerJoins
             \/ OwnerCancels \/ CallWait \/ OwnerTimesOut \/ WaitReturns
             \/ Completes \/ Takes \/ TaskCancels \/ UNCHANGED clientVars
    BY <2>4 DEF CallExecute, ExecuteReturns, ExecuteTasksAsync, CallJoin,
       OwnerJoins, OwnerCancels, CancelTasks, CallWait, OwnerTimesOut,
       WaitReturns, Completes, WorkerCompletes, Takes, WorkerTakes,
       TaskCancels, JoinReturns, WorkerActive, clientVars, schedulerVars
  <2> QED
    BY <2>1, <2>2, <2>3, <2>4 DEF ClientNext
<1> QED
  BY <1>1, <1>2, ClientInvariant, PTL DEF ClientSpec, SerialSpec, Serial!Spec

-----------------------------------------------------------------------------
(* The inductive invariant of the stage *)

(* The runner has stopped the group: it reported FALSE.                    *)
Stopped == runner = "reported" /\ ~verdict

Popped == IF worker = "taken" THEN 1 ELSE 0

(* The executors of the group are called in the order of the tracker; the  *)
(* queue holds those that are left.                                        *)
CallsInOrder ==
  /\ tracker = Groups[group]
  /\ Len(started) + Popped + Len(queue) = Len(tracker)
  /\ \A i \in 1 .. Len(started) : started[i] = tracker[i]
  /\ \A i \in 1 .. Len(queue) : queue[i] = tracker[Len(started) + Popped + i]
  /\ worker = "taken" => current = tracker[Len(started) + 1]
  /\ worker = "running" => Len(started) > 0 /\ current = tracker[Len(started)]
  /\ body # "none" <=> worker = "running"

(* How far the runner is and how far the worker is. Cancellations come only *)
(* after the group was stopped; until then what the index has passed stays *)
(* passed. The tracker of this stage is not quiet.                         *)
Phases ==
  /\ ~quiet
  /\ canceled => Stopped
  /\ stage \in {"canceling", "storing", "unwinding"} => Stopped
  /\ stage = "canceling" => victim > 0
  /\ stage = "storing" => victim \in 1 .. Len(tracker)
  /\ (\E t \in Task : status[t] = "Canceled") => Stopped
  /\ runner = "start" <=> worker = "none"
  /\ worker = "exited" => queue = <<>> \/ canceled
  /\ runner = "joining" => index = Len(tracker)
  /\ runner = "reported" /\ verdict => index = Len(tracker) /\ worker = "exited"
  /\ ~Stopped => \A i \in 1 .. index : IsOver(status[tracker[i]])

(* The status of an executor that has not been called.                     *)
Unrun(s) == s \in {"Ready", "Failed", "Canceled"}

NotCalledYet ==
  /\ \A i \in (Len(started) + 1) .. Len(tracker) : Unrun(status[tracker[i]])
  /\ \A g \in DOMAIN Groups : g > group =>
       \A i \in DOMAIN Groups[g] : Unrun(status[Groups[g][i]])

(* What the status of the running executor may be in each place, whenever  *)
(* a cancellation may have come, and what it says of the success.          *)
BodyAgrees ==
  LET s == status[current] IN
  /\ body = "guard" => Unrun(s)
  /\ body = "validate" => s \in {"Ready", "Canceled"}
  /\ body \in {"create", "check", "begin"} => s \in {"Initializing", "Canceled"}
  /\ body \in {"prompt", "infer", "end", "commit"} => s \in {"Running", "Canceled"}
  /\ body = "record" => s \in {"Completed", "Canceled"}
  /\ body = "overall" =>
       /\ s \in {"Completed", "Canceled"}
       /\ s = "Completed" => success
       /\ left = 0
  /\ body \in {"finish", "append"} =>
       /\ s \in {"Running", "Completed", "Failed", "Canceled"}
       /\ s = "Completed" => success
       /\ success => s # "Running" /\ left = 0
       /\ success /\ s = "Failed" => current \in Reserved
  /\ body \in {"guard", "validate", "create", "check", "begin", "prompt", "infer",
               "end", "commit", "record"} => ~success
  /\ body = "infer" => left > 0
  /\ body \in {"end", "commit", "record"} => left = 0

IInv == TypeOK /\ CallsInOrder /\ Phases /\ NotCalledYet /\ BodyAgrees

-----------------------------------------------------------------------------
(* Facts about the groups and the queue *)

(* The tracker holds executors, and every group is a sequence of them. *)
LEMMA GroupFacts ==
  /\ Len(Groups) \in Nat /\ Len(Groups) > 0 /\ DOMAIN Groups = 1 .. Len(Groups)
  /\ \A g \in DOMAIN Groups : Groups[g] \in Seq(Task)
<1>1. Groups \in Seq(Seq(Task)) /\ Groups # << >>
  BY BenchmarkAssumption
<1> QED
  BY <1>1

(* What taking the first task leaves. *)
LEMMA TakenFromQueue ==
  ASSUME NEW q \in Seq(Task), q # << >>
  PROVE  /\ Head(q) \in Task /\ Head(q) = q[1] /\ Len(q) > 0 /\ Len(q) \in Nat
         /\ Tail(q) \in Seq(Task) /\ Len(Tail(q)) = Len(q) - 1
         /\ \A i \in 1 .. Len(Tail(q)) : Tail(q)[i] = q[i + 1] /\ i + 1 \in 1 .. Len(q)
OBVIOUS

(* One is moved from the one to the other. *)
LEMMA OneMoved ==
  ASSUME NEW a \in Nat, NEW b \in Nat, NEW c, NEW d, a + 0 + b = d, c = b - 1
  PROVE  a + 1 + c = d
OBVIOUS

(* What appending an element makes of a sequence. *)
LEMMA Appended ==
  ASSUME NEW S, NEW q \in Seq(S), NEW e \in S
  PROVE  /\ Append(q, e) \in Seq(S) /\ Len(Append(q, e)) = Len(q) + 1
         /\ Append(q, e)[Len(q) + 1] = e
         /\ \A i \in 1 .. Len(q) : Append(q, e)[i] = q[i]
OBVIOUS

(* The running executor is one of the group's, and no other of the group's *)
(* nor of a later group is the same.                                       *)
LEMMA RunningExecutor ==
  ASSUME TypeOK, CallsInOrder, worker = "running"
  PROVE  /\ current \in Task /\ Len(started) \in 1 .. Len(tracker)
         /\ \A i \in (Len(started) + 1) .. Len(tracker) : tracker[i] # current
         /\ \A g \in DOMAIN Groups : g > group =>
              \A i \in DOMAIN Groups[g] : Groups[g][i] # current
<1>1. /\ Len(started) \in Nat /\ Len(queue) \in Nat /\ tracker \in Seq(Task)
      /\ group \in DOMAIN Groups /\ DOMAIN Groups = 1 .. Len(Groups)
      /\ Len(Groups) \in Nat
  BY GroupFacts DEF TypeOK, ReportTypeOK, SchedulerTypeOK
<1>2. /\ tracker = Groups[group] /\ Len(started) > 0 /\ current = tracker[Len(started)]
      /\ Len(started) + Len(queue) = Len(tracker)
  BY <1>1 DEF CallsInOrder, Popped
<1>3. Len(started) \in 1 .. Len(tracker) /\ DOMAIN Groups[group] = 1 .. Len(tracker)
  BY <1>1, <1>2
<1>4. \A i \in (Len(started) + 1) .. Len(tracker) :
        i \in 1 .. Len(tracker) /\ i # Len(started)
  BY <1>1, <1>3
<1>5. \A i \in (Len(started) + 1) .. Len(tracker) : tracker[i] # current
  BY <1>1, <1>2, <1>3, <1>4, ExecutorsAssumption
<1>6. \A g \in DOMAIN Groups : g > group =>
        \A i \in DOMAIN Groups[g] : Groups[g][i] # current
  <2> SUFFICES ASSUME NEW g \in DOMAIN Groups, g > group, NEW i \in DOMAIN Groups[g]
               PROVE  Groups[g][i] # current
    OBVIOUS
  <2>1. g # group
    BY <1>1
  <2> QED
    BY <2>1, <1>1, <1>2, <1>3, ExecutorsAssumption
<1> QED
  BY <1>1, <1>2, <1>3, <1>5, <1>6

-----------------------------------------------------------------------------
(* Steps of the worker *)

(* A step inside the running executor: a status it stores is not stored    *)
(* over a final one, but for a cancellation.                               *)
LEMMA InsideStep ==
  ASSUME IInv, body # "none", body' \in BodyState \ {"none"},
         UNCHANGED <<unchangedByBody, worker, current, started, results, executed>>,
         left' \in 0 .. Prompts, success' \in BOOLEAN, note' \in BOOLEAN,
         NEW s \in {"Failed", "Initializing", "Running", "Completed"},
         \/ UNCHANGED status
         \/ /\ status' = [status EXCEPT ![current] = s]
            /\ \/ status[current] \in {"Ready", "Initializing", "Running", "Canceled"}
               \/ s = "Failed",
         BodyAgrees'
  PROVE  IInv'
<1> USE DEF unchangedByBody, stageVars
<1>1. worker = "running" /\ TypeOK /\ CallsInOrder /\ Phases /\ NotCalledYet
  BY DEF IInv, CallsInOrder
<1>2. /\ current \in Task /\ Len(started) \in 1 .. Len(tracker)
      /\ \A i \in (Len(started) + 1) .. Len(tracker) : tracker[i] # current
      /\ \A g \in DOMAIN Groups : g > group =>
           \A i \in DOMAIN Groups[g] : Groups[g][i] # current
  BY <1>1, RunningExecutor
<1>3. status' \in [Task -> Status] /\ \A t \in Task : t # current => status'[t] = status[t]
  BY <1>1, <1>2 DEF TypeOK, ReportTypeOK, Status
<1>4. TypeOK'
  BY <1>1, <1>3 DEF TypeOK, ReportTypeOK, SchedulerTypeOK
<1>5. CallsInOrder'
  BY <1>1 DEF CallsInOrder, Popped
<1>6. Phases'
  <2>1. (\E t \in Task : status'[t] = "Canceled") => \E t \in Task : status[t] = "Canceled"
    BY <1>1, <1>2, <1>3 DEF TypeOK, ReportTypeOK
  <2>2. ASSUME ~Stopped, NEW i \in 1 .. index
        PROVE  IsOver(status'[tracker[i]])
    <3>1. IsOver(status[tracker[i]]) /\ tracker[i] \in Task
      BY <1>1, <2>2 DEF Phases, TypeOK, ReportTypeOK
    <3>2. status[tracker[i]] # "Canceled"
      BY <1>1, <2>2, <3>1 DEF Phases
    <3>3. CASE UNCHANGED status
      BY <3>1, <3>3
    <3>4. CASE status[current] \in {"Ready", "Initializing", "Running", "Canceled"}
      BY <3>1, <3>2, <3>4, <1>3 DEF IsOver
    <3>5. CASE status' = [status EXCEPT ![current] = "Failed"]
      BY <3>1, <3>5, <1>1, <1>2 DEF IsOver, TypeOK, ReportTypeOK
    <3> QED
      BY <3>3, <3>4, <3>5
  <2>3. Stopped' <=> Stopped
    BY DEF Stopped
  <2> QED
    BY <1>1, <2>1, <2>2, <2>3 DEF Phases
<1>7. NotCalledYet'
  <2>1. \A i \in (Len(started) + 1) .. Len(tracker) : tracker[i] \in Task
    BY <1>1, <1>2 DEF TypeOK, ReportTypeOK
  <2>2. \A g \in DOMAIN Groups : \A i \in DOMAIN Groups[g] : Groups[g][i] \in Task
    BY GroupFacts
  <2> QED
    BY <1>1, <1>2, <1>3, <2>1, <2>2 DEF NotCalledYet
<1> QED
  BY <1>4, <1>5, <1>6, <1>7 DEF IInv

(* BodyAgrees speaks of the status that a step stores.                     *)
LEMMA Stored ==
  ASSUME TypeOK, worker = "running", NEW s \in Status, SetStatus(s)
  PROVE  status'[current] = s
<1>1. current \in Task /\ status \in [Task -> Status]
  BY DEF TypeOK, ReportTypeOK, SchedulerTypeOK
<1> QED
  BY <1>1 DEF SetStatus

(* A step inside the executor that stores no status.                       *)
LEMMA SilentStep ==
  ASSUME IInv, body # "none", body' \in BodyState \ {"none"},
         UNCHANGED <<unchangedByBody, worker, current, started, results, executed, status>>,
         left' \in 0 .. Prompts, success' \in BOOLEAN, note' \in BOOLEAN, BodyAgrees'
  PROVE  IInv'
BY InsideStep

(* A step inside the executor that stores one.                             *)
LEMMA StoringStep ==
  ASSUME IInv, NEW from \in {"validate", "create", "begin", "infer", "commit"},
         NEW to \in BodyState \ {"none"}, Goto(from, to), Inside,
         NEW s \in {"Failed", "Initializing", "Running", "Completed"}, SetStatus(s),
         left' \in 0 .. Prompts, status'[current] = s => BodyAgrees'
  PROVE  IInv'
<1>1. /\ body = from /\ body' = to /\ TypeOK /\ worker = "running"
      /\ success \in BOOLEAN /\ note \in BOOLEAN
  BY DEF Goto, IInv, CallsInOrder, TypeOK
<1>2. status'[current] = s
  BY <1>1, Stored DEF Status
<1>3. status[current] \in {"Ready", "Initializing", "Running", "Canceled"}
  BY <1>1 DEF IInv, BodyAgrees
<1>4. UNCHANGED <<unchangedByBody, worker, current, started, results, executed, success, note>>
  BY DEF Inside
<1> QED
  BY <1>1, <1>2, <1>3, <1>4, InsideStep DEF SetStatus

(* The late failure of one that has recorded its success.                  *)
LEMMA FailedStep ==
  ASSUME IInv, OverallTaken
  PROVE  IInv'
<1>1. /\ body = "overall" /\ body' = "finish" /\ TypeOK /\ worker = "running"
      /\ current \in Reserved /\ left \in 0 .. Prompts /\ success \in BOOLEAN
      /\ note \in BOOLEAN /\ left = 0
  BY DEF OverallTaken, Goto, IInv, CallsInOrder, TypeOK, BodyAgrees
<1>2. status'[current] = "Failed"
  BY <1>1, Stored DEF Status, OverallTaken
<1>3. UNCHANGED <<unchangedByBody, worker, current, started, results, executed, success, note, left>>
  BY DEF OverallTaken, Inside
<1>4. BodyAgrees'
  BY <1>1, <1>2, <1>3 DEF BodyAgrees
<1> QED
  BY <1>1, <1>3, <1>4, InsideStep DEF OverallTaken, SetStatus, BodyState

(* Every step inside the executor keeps IInv. *)
LEMMA ExecutorStep ==
  ASSUME IInv,
         \/ TestReady \/ ValidationFails \/ ValidationPasses \/ CreationFails
         \/ CreationSucceeds \/ TestCanceled \/ BeginRunning \/ NextPrompt
         \/ PromptsUnusable \/ PromptDone \/ PromptFails \/ TestRunning
         \/ CommitCompleted \/ RecordSuccess \/ AddOverall \/ OverallTaken
         \/ FinishRun
  PROVE  IInv'
<1>1. /\ left \in 0 .. Prompts /\ success \in BOOLEAN /\ note \in BOOLEAN
      /\ BodyAgrees /\ Prompts \in Nat
  BY BenchmarkAssumption DEF IInv, TypeOK
<1>2. body = "guard" => Unrun(status[current])
  BY <1>1 DEF BodyAgrees
<1>3. CASE TestReady
  BY <1>1, <1>2, <1>3, SilentStep DEF TestReady, Goto, Inside, BodyAgrees, Unrun, BodyState
<1>4. CASE ValidationFails
  BY <1>1, <1>4, StoringStep DEF ValidationFails, Goto, Inside, BodyAgrees, BodyState,
     unchangedByBody
<1>5. CASE ValidationPasses
  BY <1>1, <1>5, StoringStep DEF ValidationPasses, Goto, Inside, BodyAgrees, BodyState,
     unchangedByBody
<1>6. CASE CreationFails
  BY <1>1, <1>6, StoringStep DEF CreationFails, Goto, Inside, BodyAgrees, BodyState,
     unchangedByBody
<1>7. CASE CreationSucceeds
  BY <1>1, <1>7, SilentStep DEF CreationSucceeds, Goto, Inside, BodyAgrees, BodyState
<1>8. CASE TestCanceled
  BY <1>1, <1>8, SilentStep DEF TestCanceled, Goto, Inside, BodyAgrees, BodyState
<1>9. CASE BeginRunning
  BY <1>1, <1>9, StoringStep DEF BeginRunning, Goto, Inside, BodyAgrees, BodyState,
     unchangedByBody
<1>10. CASE NextPrompt
  BY <1>1, <1>10, SilentStep DEF NextPrompt, Goto, Inside, BodyAgrees, BodyState
<1>11. CASE PromptDone
  BY <1>1, <1>11, SilentStep DEF PromptDone, Goto, Inside, BodyAgrees, BodyState
<1>12. CASE PromptFails
  BY <1>1, <1>12, StoringStep DEF PromptFails, Goto, Inside, BodyAgrees, BodyState,
     unchangedByBody
<1>13. CASE TestRunning
  BY <1>1, <1>13, SilentStep DEF TestRunning, Goto, Inside, BodyAgrees, BodyState
<1>14. CASE CommitCompleted
  BY <1>1, <1>14, StoringStep DEF CommitCompleted, Goto, Inside, BodyAgrees, BodyState,
     unchangedByBody
<1>15. CASE RecordSuccess
  BY <1>1, <1>15, SilentStep DEF RecordSuccess, Goto, BodyAgrees, BodyState
<1>16. CASE FinishRun
  BY <1>1, <1>16, SilentStep DEF FinishRun, Goto, BodyAgrees, BodyState
<1>17. CASE PromptsUnusable
  BY <1>1, <1>17, SilentStep DEF PromptsUnusable, Goto, Inside, BodyAgrees, BodyState
<1>18. CASE AddOverall
  BY <1>1, <1>18, SilentStep DEF AddOverall, Goto, Inside, BodyAgrees, BodyState
<1>19. CASE OverallTaken
  BY <1>1, <1>19, FailedStep
<1> QED
  BY <1>3, <1>4, <1>5, <1>6, <1>7, <1>8, <1>9, <1>10, <1>11, <1>12, <1>13, <1>14,
     <1>15, <1>16, <1>17, <1>18, <1>19

(* The popped executor is called. *)
LEMMA CallStep ==
  ASSUME IInv, CallExecutor
  PROVE  IInv'
<1> USE DEF stageVars
<1>1. /\ worker = "taken" /\ worker' = "running" /\ body = "none" /\ body' = "guard"
      /\ started' = Append(started, current) /\ success' = FALSE /\ note' = FALSE
      /\ UNCHANGED <<queue, completed, canceled, current, allowed, status, tracker, index,
                     quiet, handler, runner, interrupt, verdict, left, results, executed,
                     stageVars>>
  BY DEF CallExecutor, WorkerCalls, Goto
<1>2. /\ TypeOK /\ CallsInOrder /\ Phases /\ NotCalledYet
      /\ started \in Seq(Task) /\ queue \in Seq(Task) /\ tracker \in Seq(Task)
      /\ current \in Task /\ Len(started) \in Nat /\ Len(queue) \in Nat
  BY <1>1 DEF IInv, TypeOK, ReportTypeOK, SchedulerTypeOK
<1>3. /\ started' \in Seq(Task) /\ Len(started') = Len(started) + 1
      /\ started'[Len(started) + 1] = current
      /\ \A i \in 1 .. Len(started) : started'[i] = started[i]
  BY <1>1, <1>2, Appended
<1>4. TypeOK'
  BY <1>1, <1>2, <1>3 DEF TypeOK, ReportTypeOK, SchedulerTypeOK, WorkerState, BodyState
<1>5. CallsInOrder'
  <2>1. Popped = 1 /\ Popped' = 0
    BY <1>1 DEF Popped
  <2>2. current = tracker[Len(started) + 1]
    BY <1>1, <1>2 DEF CallsInOrder
  <2>3. \A i \in 1 .. Len(started') : started'[i] = tracker[i]
    <3>1. \A i \in 1 .. Len(started') : i \in 1 .. Len(started) \/ i = Len(started) + 1
      BY <1>2, <1>3
    <3> QED
      BY <1>2, <1>3, <2>2, <3>1 DEF CallsInOrder
  <2>4. \A i \in 1 .. Len(queue) : queue[i] = tracker[Len(started') + 0 + i]
    BY <1>2, <1>3, <2>1 DEF CallsInOrder
  <2>5. Len(started') + 0 + Len(queue) = Len(tracker) /\ tracker = Groups[group]
    BY <1>2, <1>3, <2>1 DEF CallsInOrder
  <2> QED
    BY <1>1, <1>2, <1>3, <2>1, <2>2, <2>3, <2>4, <2>5 DEF CallsInOrder
<1>6. Phases'
  BY <1>1, <1>2 DEF Phases, Stopped
<1>7. NotCalledYet' /\ BodyAgrees'
  <2>1. Len(started) + 1 \in (Len(started) + 1) .. Len(tracker)
    BY <1>1, <1>2 DEF CallsInOrder, Popped
  <2>2. Unrun(status[current])
    BY <1>1, <1>2, <2>1 DEF NotCalledYet, CallsInOrder
  <2>3. Len(tracker) \in Nat
        /\ \A i \in (Len(started') + 1) .. Len(tracker) : i \in (Len(started) + 1) .. Len(tracker)
    BY <1>2, <1>3
  <2>4. NotCalledYet'
    BY <1>1, <1>2, <2>3 DEF NotCalledYet
  <2>5. BodyAgrees'
    BY <1>1, <2>2 DEF BodyAgrees
  <2> QED
    BY <2>4, <2>5
<1> QED
  BY <1>4, <1>5, <1>6, <1>7 DEF IInv

(* The executor's call ends, with a result or with an exception. *)
LEMMA ReturnStep ==
  ASSUME IInv, ExecutorThrows \/ AppendResult
  PROVE  IInv'
<1> USE DEF stageVars
<1>1. /\ worker = "running" /\ worker' = "loop" /\ body' = "none" /\ current' = NoTask
      /\ UNCHANGED <<queue, completed, canceled, started, allowed, status, tracker, index,
                     quiet, handler, runner, interrupt, verdict, left, success, note,
                     stageVars>>
  BY DEF ExecutorThrows, AppendResult, WorkerReturns
<1>2. TypeOK /\ CallsInOrder /\ Phases /\ NotCalledYet
  BY DEF IInv
<1>3. /\ results' \in Seq([task : Task, success : BOOLEAN, cancelled : BOOLEAN])
      /\ executed' \in BOOLEAN
  <2>1. /\ results \in Seq([task : Task, success : BOOLEAN, cancelled : BOOLEAN])
        /\ executed \in BOOLEAN /\ success \in BOOLEAN /\ note \in BOOLEAN
        /\ current \in Task
    BY <1>1, <1>2 DEF TypeOK, ReportTypeOK, SchedulerTypeOK
  <2>2. CASE ExecutorThrows
    BY <2>1, <2>2 DEF ExecutorThrows
  <2>3. CASE AppendResult
    <3>1. [task |-> current, success |-> success, cancelled |-> note]
            \in [task : Task, success : BOOLEAN, cancelled : BOOLEAN]
      BY <2>1
    <3> QED
      BY <2>1, <2>3, <3>1 DEF AppendResult
  <2> QED
    BY <2>2, <2>3
<1>4. TypeOK'
  BY <1>1, <1>2, <1>3, TaskAssumption DEF TypeOK, ReportTypeOK, SchedulerTypeOK,
     WorkerState, BodyState
<1>5. CallsInOrder'
  BY <1>1, <1>2 DEF CallsInOrder, Popped
<1>6. Phases'
  BY <1>1, <1>2 DEF Phases, Stopped
<1>7. NotCalledYet' /\ BodyAgrees'
  BY <1>1, <1>2 DEF NotCalledYet, BodyAgrees
<1> QED
  BY <1>4, <1>5, <1>6, <1>7 DEF IInv

(* The worker pops an executor. *)
LEMMA TakeStep ==
  ASSUME IInv, TakesNext, Frame
  PROVE  IInv'
<1> USE DEF bodyVars, stageVars
<1>1. /\ worker = "loop" /\ worker' = "taken" /\ queue # << >> /\ ~canceled
      /\ current' = Head(queue) /\ queue' = Tail(queue)
      /\ UNCHANGED <<completed, canceled, started, allowed, status, tracker, index, quiet,
                     handler, runner, interrupt, verdict, bodyVars, stageVars>>
  BY DEF TakesNext, WorkerTakes, Frame
<1>2. TypeOK /\ CallsInOrder /\ Phases /\ NotCalledYet /\ BodyAgrees
  BY DEF IInv
<1>3. /\ started \in Seq(Task) /\ queue \in Seq(Task) /\ Len(started) \in Nat
      /\ Len(tracker) \in Nat
  BY <1>2 DEF TypeOK, ReportTypeOK, SchedulerTypeOK
<1>4. /\ current' \in Task /\ current' = queue[1] /\ Len(queue) \in Nat /\ Len(queue) > 0
      /\ queue' \in Seq(Task) /\ Len(queue') = Len(queue) - 1
      /\ \A i \in 1 .. Len(queue') : queue'[i] = queue[i + 1] /\ i + 1 \in 1 .. Len(queue)
  BY <1>1, <1>3, TakenFromQueue
<1>5. TypeOK'
  BY <1>1, <1>2, <1>4, TaskAssumption DEF TypeOK, ReportTypeOK, SchedulerTypeOK, WorkerState
<1>6. CallsInOrder'
  <2>1. Popped = 0 /\ Popped' = 1
    BY <1>1 DEF Popped
  <2>2. current' = tracker[Len(started) + 1]
    <3>1. 1 \in 1 .. Len(queue) /\ Len(started) + 0 + 1 = Len(started) + 1
      BY <1>3, <1>4
    <3>2. \A i \in 1 .. Len(queue) : queue[i] = tracker[Len(started) + 0 + i]
      BY <1>2, <2>1 DEF CallsInOrder
    <3>3. queue[1] = tracker[Len(started) + 0 + 1]
      BY <3>1, <3>2
    <3> QED
      BY <1>4, <3>1, <3>3
  <2>3. \A i \in 1 .. Len(queue') : queue'[i] = tracker[Len(started) + 1 + i]
    <3> SUFFICES ASSUME NEW i \in 1 .. Len(queue')
                 PROVE  queue'[i] = tracker[Len(started) + 1 + i]
      OBVIOUS
    <3>1. queue'[i] = queue[i + 1] /\ i + 1 \in 1 .. Len(queue)
      BY <1>4
    <3>2. queue[i + 1] = tracker[Len(started) + 0 + (i + 1)]
      BY <1>2, <2>1, <3>1 DEF CallsInOrder
    <3>3. Len(started) + 0 + (i + 1) = Len(started) + 1 + i
      BY <1>3
    <3> QED
      BY <3>1, <3>2, <3>3
  <2>4. Len(started) + 1 + Len(queue') = Len(tracker)
    <3>1. Len(started) + 0 + Len(queue) = Len(tracker)
      BY <1>2, <2>1 DEF CallsInOrder
    <3>2. Len(queue') = Len(queue) - 1 /\ Len(queue) \in Nat /\ Len(started) \in Nat
      BY <1>3, <1>4
    <3> QED
      BY <3>1, <3>2, OneMoved
  <2> QED
    BY <1>1, <1>2, <2>1, <2>2, <2>3, <2>4 DEF CallsInOrder
<1>7. Phases'
  BY <1>1, <1>2 DEF Phases, Stopped
<1>8. NotCalledYet'
  BY <1>1, <1>2 DEF NotCalledYet
<1>9. BodyAgrees'
  BY <1>1, <1>2 DEF BodyAgrees, CallsInOrder
<1> QED
  BY <1>5, <1>6, <1>7, <1>8, <1>9 DEF IInv

(* The worker leaves its loop. *)
LEMMA CompleteStep ==
  ASSUME IInv, CompletesAndWakes, Frame
  PROVE  IInv'
<1> USE DEF bodyVars, stageVars
<1>1. /\ worker = "loop" /\ worker' = "exited" /\ (queue = << >> \/ canceled)
      /\ completed' = TRUE
      /\ runner' = IF runner = "asleep" THEN "awake" ELSE runner
      /\ UNCHANGED <<queue, canceled, current, started, allowed, status, tracker, index,
                     quiet, handler, interrupt, verdict, bodyVars, stageVars>>
  BY DEF CompletesAndWakes, WorkerCompletes, Frame
<1>2. TypeOK /\ CallsInOrder /\ Phases /\ NotCalledYet /\ BodyAgrees
  BY DEF IInv
<1>3. TypeOK'
  BY <1>1, <1>2 DEF TypeOK, ReportTypeOK, SchedulerTypeOK, WorkerState, RunnerState
<1>4. CallsInOrder'
  BY <1>1, <1>2 DEF CallsInOrder, Popped
<1>5. Phases'
  BY <1>1, <1>2 DEF Phases, Stopped
<1>6. NotCalledYet' /\ BodyAgrees'
  BY <1>1, <1>2 DEF NotCalledYet, BodyAgrees
<1> QED
  BY <1>3, <1>4, <1>5, <1>6 DEF IInv

-----------------------------------------------------------------------------
(* Steps of the runner and of the user *)

(* The index moves over final statuses only. *)
LEMMA Advances ==
  ASSUME TypeOK, Phases, index # Len(tracker)
  PROVE  /\ AdvancedIndex \in index .. Len(tracker)
         /\ \A i \in (index + 1) .. AdvancedIndex : IsOver(status[tracker[i]])
<1>1. index \in Nat /\ Len(tracker) \in Nat /\ index < Len(tracker)
  BY DEF TypeOK, ReportTypeOK
<1>2. index + 1 \in index .. Len(tracker) /\ index \in index .. Len(tracker)
  BY <1>1
<1>3. ~quiet
  BY DEF Phases
<1> QED
  BY <1>1, <1>2, <1>3 DEF AdvancedIndex

(* What a step of the runner may change but for the worker and the index.  *)
LEMMA RunnerMoves ==
  ASSUME IInv, runner' \in RunnerState \ {"start"}, runner # "start",
         runner' = "joining" => index' = Len(tracker),
         runner' # "reported", runner # "reported",
         index' \in index .. Len(tracker),
         \A i \in (index + 1) .. index' : IsOver(status[tracker[i]]),
         UNCHANGED <<schedulerVars, status, tracker, quiet, handler, verdict, bodyVars,
                     stageVars>>, interrupt' \in BOOLEAN
  PROVE  IInv'
<1> USE DEF schedulerVars, bodyVars, stageVars
<1>1. TypeOK /\ CallsInOrder /\ Phases /\ NotCalledYet /\ BodyAgrees
  BY DEF IInv
<1>2. index \in Nat /\ Len(tracker) \in Nat /\ index' \in 0 .. Len(tracker)
  BY <1>1 DEF TypeOK, ReportTypeOK
<1>3. TypeOK'
  BY <1>1, <1>2 DEF TypeOK, ReportTypeOK, SchedulerTypeOK
<1>4. CallsInOrder' /\ NotCalledYet' /\ BodyAgrees'
  BY <1>1 DEF CallsInOrder, Popped, NotCalledYet, BodyAgrees
<1>5. Phases'
  <2>1. ~Stopped /\ ~Stopped'
    BY DEF Stopped
  <2>2. \A i \in 1 .. index' : i \in 1 .. index \/ i \in (index + 1) .. index'
    BY <1>2
  <2>3. \A i \in 1 .. index' : IsOver(status[tracker[i]])
    BY <1>1, <2>1, <2>2 DEF Phases
  <2> QED
    BY <1>1, <2>1, <2>3 DEF Phases
<1> QED
  BY <1>3, <1>4, <1>5 DEF IInv

(* The worker is started. *)
LEMMA StartStep ==
  ASSUME IInv, StartReporting, Frame
  PROVE  IInv'
<1> USE DEF bodyVars, stageVars
<1>1. /\ runner = "start" /\ runner' = "head" /\ worker' = "loop"
      /\ UNCHANGED <<queue, completed, canceled, current, started, allowed, status, tracker,
                     index, quiet, handler, interrupt, verdict, bodyVars, stageVars>>
  BY DEF StartReporting, ExecuteTasksAsync, Frame
<1>2. TypeOK /\ CallsInOrder /\ Phases /\ NotCalledYet /\ BodyAgrees
  BY DEF IInv
<1>3. worker = "none"
  BY <1>1, <1>2 DEF Phases
<1>4. TypeOK'
  BY <1>1, <1>2, <1>3 DEF TypeOK, ReportTypeOK, SchedulerTypeOK, WorkerState, RunnerState
<1>5. CallsInOrder' /\ NotCalledYet' /\ BodyAgrees'
  BY <1>1, <1>2, <1>3 DEF CallsInOrder, Popped, NotCalledYet, BodyAgrees
<1>6. Phases'
  BY <1>1, <1>2 DEF Phases, Stopped
<1> QED
  BY <1>4, <1>5, <1>6 DEF IInv

(* The runner joins the worker and reports TRUE. *)
LEMMA JoinStep ==
  ASSUME IInv, JoinAndReport, Frame
  PROVE  IInv'
<1> USE DEF bodyVars, stageVars
<1>1. /\ runner = "joining" /\ runner' = "reported" /\ verdict' = TRUE /\ ~WorkerActive
      /\ UNCHANGED <<schedulerVars, status, tracker, index, quiet, handler, interrupt,
                     bodyVars, stageVars>>
  BY DEF JoinAndReport, JoinReturns, Frame
<1>2. TypeOK /\ CallsInOrder /\ Phases /\ NotCalledYet /\ BodyAgrees
  BY DEF IInv
<1>3. worker = "exited"
  BY <1>1, <1>2 DEF WorkerActive, TypeOK, ReportTypeOK, SchedulerTypeOK, WorkerState, Phases
<1>4. TypeOK'
  BY <1>1, <1>2 DEF TypeOK, ReportTypeOK, SchedulerTypeOK, RunnerState, schedulerVars
<1>5. CallsInOrder' /\ NotCalledYet' /\ BodyAgrees'
  BY <1>1, <1>2 DEF CallsInOrder, Popped, NotCalledYet, BodyAgrees, schedulerVars
<1>6. Phases'
  BY <1>1, <1>2, <1>3 DEF Phases, Stopped, schedulerVars
<1> QED
  BY <1>4, <1>5, <1>6 DEF IInv

(* Every step of the runner in ReportProgress keeps IInv. *)
LEMMA ReportStep ==
  ASSUME IInv, RunnerStep \/ WaitTimesOut, Frame
  PROVE  IInv'
<1> USE DEF Frame
<1>1. /\ TypeOK /\ Phases /\ index \in Nat /\ Len(tracker) \in Nat /\ index <= Len(tracker)
      /\ interrupt \in BOOLEAN
  BY DEF IInv, TypeOK, ReportTypeOK
<1>2. index \in index .. Len(tracker) /\ (index + 1) .. index = {}
  BY <1>1
<1>3. AfterWait \in {"awake", "asleep"}
  BY DEF AfterWait
<1>4. CASE StartReporting
  BY <1>4, StartStep
<1>5. CASE LoopEnds
  BY <1>1, <1>2, <1>5, RunnerMoves DEF LoopEnds, TrackerFinished, RunnerState
<1>6. CASE UpdateAndWait
  <2>1. /\ index' \in index .. Len(tracker)
        /\ \A i \in (index + 1) .. index' : IsOver(status[tracker[i]])
    BY <1>1, <1>6, Advances DEF UpdateAndWait, TrackerFinished
  <2>2. /\ runner = "head" /\ runner' \in {"joining", "awake", "asleep"}
        /\ runner' = "joining" => index' = Len(tracker)
        /\ UNCHANGED <<schedulerVars, status, tracker, quiet, handler, interrupt, verdict>>
    BY <1>3, <1>6 DEF UpdateAndWait, TrackerFinished
  <2> QED
    BY <1>1, <2>1, <2>2, RunnerMoves DEF RunnerState
<1>7. CASE WaitWithoutHandler
  BY <1>1, <1>2, <1>3, <1>7, RunnerMoves DEF WaitWithoutHandler, RunnerState
<1>8. CASE TestInterrupt
  BY <1>1, <1>2, <1>8, RunnerMoves DEF TestInterrupt, RunnerState
<1>9. CASE JoinAndReport
  BY <1>9, JoinStep
<1>10. CASE WaitTimesOut
  BY <1>1, <1>2, <1>10, RunnerMoves DEF WaitTimesOut, RunnerState
<1> QED
  BY <1>4, <1>5, <1>6, <1>7, <1>8, <1>9, <1>10 DEF RunnerStep

(* Whatever the user does keeps IInv. *)
LEMMA UserMoves ==
  ASSUME IInv, UserStep, Frame
  PROVE  IInv'
<1> USE DEF bodyVars, stageVars, Frame
<1>1. TypeOK /\ CallsInOrder /\ Phases /\ NotCalledYet /\ BodyAgrees
  BY DEF IInv
<1>2. index \in index .. Len(tracker) /\ (index + 1) .. index = {}
  BY <1>1 DEF TypeOK, ReportTypeOK
<1>3. CASE UserInterrupts
  <2>1. TypeOK'
    BY <1>1, <1>3 DEF UserInterrupts, schedulerVars, TypeOK, ReportTypeOK, SchedulerTypeOK
  <2>2. CallsInOrder' /\ NotCalledYet' /\ BodyAgrees'
    BY <1>1, <1>3 DEF UserInterrupts, schedulerVars, CallsInOrder, Popped, NotCalledYet,
       BodyAgrees
  <2>3. Phases'
    BY <1>1, <1>3 DEF UserInterrupts, schedulerVars, Phases, Stopped
  <2> QED
    BY <2>1, <2>2, <2>3 DEF IInv
<1>4. CASE UserContinues
  BY <1>2, <1>4, RunnerMoves DEF UserContinues, RunnerState
<1>5. CASE UserStops
  <2>1. /\ runner = "asked" /\ runner' = "reported" /\ verdict' = FALSE /\ canceled' = TRUE
        /\ allowed' = Len(started) + (IF worker = "taken" THEN 1 ELSE 0)
        /\ UNCHANGED <<queue, completed, worker, current, started, status, tracker, index,
                       quiet, handler, interrupt>>
    BY <1>5 DEF UserStops, CancelTasks
  <2>2. allowed' \in Nat
    BY <1>1, <2>1 DEF TypeOK, ReportTypeOK, SchedulerTypeOK
  <2>3. TypeOK'
    BY <1>1, <2>1, <2>2 DEF TypeOK, ReportTypeOK, SchedulerTypeOK, RunnerState
  <2>4. CallsInOrder' /\ NotCalledYet' /\ BodyAgrees'
    BY <1>1, <2>1 DEF CallsInOrder, Popped, NotCalledYet, BodyAgrees
  <2>5. Phases'
    BY <1>1, <2>1 DEF Phases, Stopped
  <2> QED
    BY <2>3, <2>4, <2>5 DEF IInv
<1> QED
  BY <1>3, <1>4, <1>5 DEF UserStep

-----------------------------------------------------------------------------
(* Steps of the stage *)

(* The next group begins. *)
LEMMA NextGroupStep ==
  ASSUME IInv, NextGroup
  PROVE  IInv'
<1> USE DEF bodyVars, stageVars
<1> DEFINE tasks == Groups[group + 1]
<1>1. /\ stage = "reporting" /\ runner = "reported" /\ verdict /\ group < Len(Groups)
      /\ group' = group + 1 /\ ~WorkerActive
      /\ queue' = tasks /\ completed' = (tasks = << >>) /\ canceled' = FALSE
      /\ worker' = "none" /\ current' = NoTask /\ started' = << >> /\ allowed' = 0
      /\ tracker' = tasks /\ index' = 0 /\ runner' = "start" /\ verdict' = FALSE
      /\ UNCHANGED <<status, quiet, handler, interrupt, bodyVars, stage, victim, outcome>>
  BY DEF NextGroup, Reported, ReportNext, NewScheduler
<1>2. TypeOK /\ CallsInOrder /\ Phases /\ NotCalledYet /\ BodyAgrees
  BY DEF IInv
<1>3. /\ group \in DOMAIN Groups /\ group \in Nat /\ group + 1 \in DOMAIN Groups
      /\ tasks \in Seq(Task) /\ Len(tasks) \in Nat /\ DOMAIN tasks = 1 .. Len(tasks)
      /\ \A g \in DOMAIN Groups : g > group + 1 => g > group
  BY <1>1, <1>2, GroupFacts DEF TypeOK
<1> HIDE DEF tasks
<1>4. TypeOK'
  <2>1. started' \in Seq(Task) /\ completed' \in BOOLEAN /\ index' \in 0 .. Len(tracker')
    BY <1>1, <1>3
  <2> QED
    BY <1>1, <1>2, <1>3, <2>1 DEF TypeOK, ReportTypeOK, SchedulerTypeOK, WorkerState,
       RunnerState
<1>5. body = "none"
  BY <1>1, <1>2 DEF CallsInOrder, WorkerActive
<1>6. /\ Len(started') = 0 /\ Popped' = 0
      /\ Len(started') + Popped' + Len(queue') = Len(tracker')
  BY <1>1, <1>3 DEF Popped
<1>7. \A i \in 1 .. Len(queue') : queue'[i] = tracker'[Len(started') + Popped' + i]
  BY <1>1, <1>3, <1>6
<1>8. CallsInOrder'
  BY <1>1, <1>5, <1>6, <1>7 DEF CallsInOrder, tasks
<1>9. Phases'
  BY <1>1, <1>2 DEF Phases, Stopped
<1>10. NotCalledYet'
  <2>1. \A i \in 1 .. Len(tasks) : Unrun(status[tasks[i]])
    BY <1>2, <1>3 DEF NotCalledYet, tasks
  <2> QED
    BY <1>1, <1>2, <1>3, <1>6, <2>1 DEF NotCalledYet
<1>11. BodyAgrees'
  BY <1>1, <1>5 DEF BodyAgrees
<1> QED
  BY <1>4, <1>8, <1>9, <1>10, <1>11 DEF IInv

(* A cancellation is stored. *)
LEMMA CancelStep ==
  ASSUME IInv, CancelStores
  PROVE  IInv'
<1> USE DEF bodyVars, stageVars
<1> DEFINE t == tracker[victim]
<1>1. /\ stage = "storing" /\ stage' = "canceling" /\ victim' = victim + 1
      /\ status' = [status EXCEPT ![t] = "Canceled"]
      /\ UNCHANGED <<schedulerVars, tracker, index, quiet, handler, runner, interrupt,
                     verdict, bodyVars, group, outcome>>
  BY DEF CancelStores
<1>2. TypeOK /\ CallsInOrder /\ Phases /\ NotCalledYet /\ BodyAgrees
  BY DEF IInv
<1>3. t \in Task /\ status \in [Task -> Status] /\ victim' \in Nat /\ victim' > 0
  <2>1. victim \in 1 .. Len(tracker)
    BY <1>1, <1>2 DEF Phases
  <2> QED
    BY <1>1, <1>2, <2>1 DEF TypeOK, ReportTypeOK
<1> HIDE DEF t
<1>4. \A u \in Task : status'[u] \in {status[u], "Canceled"}
  BY <1>1, <1>3
<1>5. TypeOK'
  BY <1>1, <1>2, <1>3 DEF TypeOK, ReportTypeOK, SchedulerTypeOK, schedulerVars, Status,
     StageState
<1>6. CallsInOrder'
  BY <1>1, <1>2 DEF CallsInOrder, Popped, schedulerVars
<1>7. Phases'
  BY <1>1, <1>2, <1>3 DEF Phases, Stopped, schedulerVars
<1>8. NotCalledYet'
  <2>1. \A i \in (Len(started) + 1) .. Len(tracker) : tracker[i] \in Task
    BY <1>2 DEF TypeOK, ReportTypeOK, SchedulerTypeOK
  <2>2. \A g \in DOMAIN Groups : \A i \in DOMAIN Groups[g] : Groups[g][i] \in Task
    BY GroupFacts
  <2>3. started' = started /\ tracker' = tracker /\ group' = group
    BY <1>1 DEF schedulerVars
  <2> QED
    BY <1>2, <1>4, <2>1, <2>2, <2>3 DEF NotCalledYet, Unrun
<1>9. BodyAgrees'
  <2>1. CASE body = "none"
    BY <1>1, <2>1 DEF BodyAgrees
  <2>2. CASE body # "none"
    <3>1. current \in Task
      BY <1>2, <2>2 DEF CallsInOrder, TypeOK, ReportTypeOK, SchedulerTypeOK
    <3>2. status'[current] \in {status[current], "Canceled"} /\ current' = current
          /\ UNCHANGED bodyVars
      BY <1>1, <1>4, <3>1 DEF schedulerVars
    <3> QED
      BY <1>2, <3>2 DEF BodyAgrees, Unrun
  <2> QED
    BY <2>1, <2>2
<1> QED
  BY <1>5, <1>6, <1>7, <1>8, <1>9 DEF IInv

(* Every step of the stage keeps IInv. *)
LEMMA StageMoves ==
  ASSUME IInv, StageStep
  PROVE  IInv'
<1>1. TypeOK /\ CallsInOrder /\ Phases /\ NotCalledYet /\ BodyAgrees
  BY DEF IInv
<1>2. CASE NextGroup
  BY <1>2, NextGroupStep
<1>3. CASE CancelStores
  BY <1>3, CancelStep
<1>4. ASSUME UNCHANGED <<reportVars, bodyVars, group>>,
             stage' \in StageState, victim' \in Nat, outcome' \in BOOLEAN,
             stage' \in {"canceling", "storing", "unwinding"} => Stopped,
             stage' = "canceling" => victim' > 0,
             stage' = "storing" => victim' \in 1 .. Len(tracker)
      PROVE  IInv'
  <2>1. CallsInOrder' /\ NotCalledYet' /\ BodyAgrees'
    BY <1>1, <1>4 DEF reportVars, schedulerVars, bodyVars, CallsInOrder, Popped,
       NotCalledYet, BodyAgrees
  <2>2. TypeOK'
    BY <1>1, <1>4 DEF reportVars, schedulerVars, bodyVars, TypeOK, ReportTypeOK,
       SchedulerTypeOK
  <2>3. Phases'
    BY <1>1, <1>4 DEF reportVars, schedulerVars, Phases, Stopped
  <2> QED
    BY <2>1, <2>2, <2>3 DEF IInv
<1>5. /\ stage \in StageState /\ victim \in Nat /\ outcome \in BOOLEAN
      /\ executed \in BOOLEAN /\ Len(tracker) \in Nat
      /\ stage \in {"canceling", "storing", "unwinding"} => Stopped
      /\ stage = "canceling" => victim > 0
  BY <1>1 DEF TypeOK, ReportTypeOK, Phases
<1>6. CASE ReturnExecuted
  BY <1>4, <1>5, <1>6 DEF ReturnExecuted, StageState
<1>7. CASE BeginCanceling
  <2>1. Stopped
    BY <1>7 DEF BeginCanceling, Reported, Stopped
  <2> QED
    BY <1>4, <1>5, <1>7, <2>1 DEF BeginCanceling, StageState
<1>8. CASE CancelTests
  BY <1>4, <1>5, <1>8 DEF CancelTests, StageState
<1>9. CASE EndCanceling
  BY <1>4, <1>5, <1>9 DEF EndCanceling, StageState
<1>10. CASE DestructorJoins
  BY <1>4, <1>5, <1>10 DEF DestructorJoins, StageState
<1> QED
  BY <1>2, <1>3, <1>6, <1>7, <1>8, <1>9, <1>10 DEF StageStep

-----------------------------------------------------------------------------
(* The invariant of the stage *)

(* The stage begins with its first group. *)
LEMMA InitInv ==
  ASSUME Init
  PROVE  IInv
<1> DEFINE tasks == Groups[1]
<1>1. /\ queue = tasks /\ completed = (tasks = << >>) /\ canceled = FALSE /\ worker = "none"
      /\ current = NoTask /\ started = << >> /\ allowed = 0 /\ tracker = tasks /\ index = 0
      /\ runner = "start" /\ verdict = FALSE /\ status \in [Task -> {"Ready", "Failed"}]
      /\ quiet = FALSE /\ handler \in Handlers /\ interrupt = FALSE /\ body = "none"
      /\ left = 0 /\ success = FALSE /\ note = FALSE /\ results = << >> /\ executed = FALSE
      /\ stage = "reporting" /\ group = 1 /\ victim = 0 /\ outcome = FALSE
  BY DEF Init, ReadyToReport, SchedulerHolds
<1>2. /\ 1 \in DOMAIN Groups /\ tasks \in Seq(Task) /\ Len(tasks) \in Nat
      /\ DOMAIN tasks = 1 .. Len(tasks)
  BY GroupFacts
<1>3. \A g \in DOMAIN Groups : \A i \in DOMAIN Groups[g] : Groups[g][i] \in Task
  BY GroupFacts
<1> HIDE DEF tasks
<1>4. \A t \in Task : status[t] \in {"Ready", "Failed"}
  BY <1>1
<1>5. TypeOK
  <2>1. /\ status \in [Task -> Status] /\ started \in Seq(Task) /\ completed \in BOOLEAN
        /\ results \in Seq([task : Task, success : BOOLEAN, cancelled : BOOLEAN])
    BY <1>1 DEF Status
  <2>2. index \in 0 .. Len(tracker) /\ left \in 0 .. Prompts /\ victim \in Nat /\ allowed \in Nat
    BY <1>1, <1>2, BenchmarkAssumption
  <2> QED
    BY <1>1, <1>2, <2>1, <2>2, TaskAssumption DEF TypeOK, ReportTypeOK, SchedulerTypeOK,
       WorkerState, RunnerState, BodyState, StageState
<1>6. CallsInOrder
  <2>1. Popped = 0 /\ Len(started) = 0
    BY <1>1 DEF Popped
  <2>2. Len(started) + Popped + Len(queue) = Len(tracker)
    BY <1>1, <1>2, <2>1
  <2>3. \A i \in 1 .. Len(queue) : queue[i] = tracker[Len(started) + Popped + i]
    BY <1>1, <1>2, <2>1
  <2> QED
    BY <1>1, <2>1, <2>2, <2>3 DEF CallsInOrder, tasks
<1>7. Phases
  BY <1>1, <1>4 DEF Phases, Stopped
<1>8. NotCalledYet
  <2>1. Len(started) = 0
    BY <1>1
  <2>2. \A i \in 1 .. Len(tasks) : tasks[i] \in Task
    BY <1>2
  <2> QED
    BY <1>1, <1>2, <1>3, <1>4, <2>1, <2>2 DEF NotCalledYet, Unrun
<1>9. BodyAgrees
  BY <1>1 DEF BodyAgrees
<1> QED
  BY <1>5, <1>6, <1>7, <1>8, <1>9 DEF IInv

(* Every step keeps IInv. *)
LEMMA StepInv ==
  ASSUME IInv, [Next]_vars
  PROVE  IInv'
<1>1. CASE stage = "reporting" /\ RunnerStep /\ Frame
  BY <1>1, ReportStep
<1>2. CASE stage = "reporting" /\ WaitTimesOut /\ Frame
  BY <1>2, ReportStep
<1>3. CASE stage # "returned" /\ UserStep /\ Frame
  BY <1>3, UserMoves
<1>4. CASE WorkerLoopStep /\ Frame
  BY <1>4, TakeStep, CompleteStep DEF WorkerLoopStep
<1>5. CASE BodyStep
  BY <1>5, CallStep, ReturnStep, ExecutorStep DEF BodyStep
<1>6. CASE StageStep
  BY <1>6, StageMoves
<1>7. CASE UNCHANGED vars
  BY <1>7 DEF vars, reportVars, schedulerVars, bodyVars, stageVars, IInv, TypeOK,
     ReportTypeOK, SchedulerTypeOK, CallsInOrder, Popped, Phases, Stopped, NotCalledYet,
     BodyAgrees
<1> QED
  BY <1>1, <1>2, <1>3, <1>4, <1>5, <1>6, <1>7 DEF Next, Terminated

(* The inductive invariant of the stage. *)
LEMMA Invariant == Spec => []IInv
BY InitInv, StepInv, PTL DEF Spec

-----------------------------------------------------------------------------
(* The theorems about the stage *)

(* The types, for every number of models, executors and sessions.          *)
THEOREM TypeCorrect == Spec => []TypeOK
BY Invariant, PTL DEF IInv

(* However many executors a model has: when ReportProgress answers TRUE, it *)
(* has called each of them, in order, none is inside its call, and each has *)
(* a final status.                                                         *)
THEOREM ReportIsTrue == Spec => []ReportedMeansDone
<1>1. IInv => ReportedMeansDone
  <2> SUFFICES ASSUME IInv, runner = "reported", verdict
               PROVE  /\ started = tracker /\ ~WorkerActive
                      /\ \A i \in DOMAIN tracker : IsOver(status[tracker[i]])
    BY DEF ReportedMeansDone
  <2>1. /\ started \in Seq(Task) /\ tracker \in Seq(Task) /\ queue \in Seq(Task)
        /\ Len(started) \in Nat /\ Len(tracker) \in Nat
    BY DEF IInv, TypeOK, ReportTypeOK, SchedulerTypeOK
  <2>2. worker = "exited" /\ ~canceled /\ index = Len(tracker) /\ ~Stopped
    BY DEF IInv, Phases, Stopped
  <2>3. Popped = 0 /\ Len(queue) = 0
    BY <2>2 DEF IInv, Phases, Popped
  <2>4. Len(started) = Len(tracker)
    BY <2>1, <2>3 DEF IInv, CallsInOrder
  <2>5. started = tracker
    BY <2>1, <2>4, SeqEqual DEF IInv, CallsInOrder
  <2>6. \A i \in DOMAIN tracker : IsOver(status[tracker[i]])
    BY <2>1, <2>2 DEF IInv, Phases
  <2> QED
    BY <2>2, <2>5, <2>6 DEF WorkerActive
<1> QED
  BY Invariant, <1>1, PTL

(* However many sessions an executor has and wherever a cancellation falls: *)
(* a success has gone through all of them, an executor that is shown as    *)
(* completed is one, and one that is shown as failed all the same has an   *)
(* input file of the category "Overall", whatever the executors are.       *)
THEOREM SuccessNeedsAllSessions == Spec => SuccessIsEarned
<1> DEFINE Earned ==
      Len(results') > Len(results) =>
        LET r == results'[Len(results')] IN
        /\ r.success => left = 0 /\ status[r.task] # "Running"
        /\ r.success /\ status[r.task] = "Failed" => r.task \in Reserved
        /\ status[r.task] = "Completed" => r.success
<1>1. ASSUME IInv, Next PROVE Earned
  <2>1. Len(results) \in Nat
    BY <1>1 DEF IInv, TypeOK
  <2>2. CASE UNCHANGED results
    BY <2>1, <2>2
  <2>3. CASE AppendResult
    <3> DEFINE r == [task |-> current, success |-> success, cancelled |-> note]
    <3>1. results' = Append(results, r) /\ body = "append" /\ worker = "running"
      BY <2>3 DEF AppendResult, WorkerReturns
    <3>2. /\ r \in [task : Task, success : BOOLEAN, cancelled : BOOLEAN]
          /\ results \in Seq([task : Task, success : BOOLEAN, cancelled : BOOLEAN])
      BY <1>1, <3>1 DEF IInv, TypeOK, ReportTypeOK, SchedulerTypeOK
    <3>3. r.task = current /\ r.success = success
      OBVIOUS
    <3> HIDE DEF r
    <3>4. results'[Len(results')] = r
      BY <3>1, <3>2, Appended
    <3>5. /\ status[current] = "Completed" => success
          /\ success => status[current] # "Running" /\ left = 0
          /\ success /\ status[current] = "Failed" => current \in Reserved
      BY <1>1, <3>1 DEF IInv, BodyAgrees
    <3> QED
      BY <3>3, <3>4, <3>5
  <2>4. UNCHANGED results \/ AppendResult
    BY <1>1 DEF Next, Frame, BodyStep, StageStep, Terminated, vars, bodyVars, Inside,
       CallExecutor, TestReady, ValidationFails, ValidationPasses, CreationFails,
       CreationSucceeds, TestCanceled, BeginRunning, NextPrompt, PromptsUnusable,
       PromptDone, PromptFails, ExecutorThrows, TestRunning, CommitCompleted,
       RecordSuccess, AddOverall, OverallTaken, FinishRun,
       NextGroup, ReturnExecuted, BeginCanceling, CancelTests, CancelStores, EndCanceling,
       DestructorJoins
  <2> QED
    BY <2>2, <2>3, <2>4
<1> QED
  BY Invariant, <1>1, PTL DEF Spec, SuccessIsEarned

=============================================================================
