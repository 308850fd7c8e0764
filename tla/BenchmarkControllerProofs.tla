---------------------- MODULE BenchmarkControllerProofs ----------------------
(***************************************************************************)
(* Theorems about the graphical client.  BenchmarkController, for every    *)
(* number of configurations and of threads created: the client dies in its *)
(* thread handling only after the member was overwritten, and until then   *)
(* one worker runs; the enumeration's entries are found under their index; *)
(* a worker that was asked to stop begins no further configuration.        *)
(* ResultsHistory, for every number of results: the history page shows     *)
(* what the file holds, and only selected results are deleted.             *)
(***************************************************************************)
EXTENDS BenchmarkController, ResultsHistory, TLAPS, WellFoundedInduction

-----------------------------------------------------------------------------
(* The inductive invariant *)

(* The state the properties depend on, and the actions that leave it alone.*)
coreVars == <<gui, member, created, life, events, replaced, fatal>>

CoreTypeOK ==
  /\ gui \in {"loop", "startWait", "depsWait", "clearWait", "quitWait", "modal", "gone"}
  /\ created \in Thread
  /\ member \in 0 .. created
  /\ life \in [Thread -> {"none", "running", "ended", "deleted"}]
  /\ events \in Seq(Event)
  /\ replaced \in BOOLEAN
  /\ gui \in {"startWait", "depsWait", "clearWait"} => created < Threads

(* The member holds the only thread that runs, from its creation to its    *)
(* lambda; a thread has one lambda, queued when it has ended; only threads *)
(* that have left the member are deleted.                                  *)
Orderly ==
  /\ \A t \in Thread : life[t] = "running" => t = member
  /\ \A t \in Thread : t > created => life[t] = "none"
  /\ member # 0 => life[member] \in {"running", "ended"}
  /\ \A i \in 1 .. Len(events) :
       /\ events[i].tag = "finished" =>
            events[i].thread = member /\ life[events[i].thread] = "ended"
       /\ events[i].tag = "delete" =>
            /\ life[events[i].thread] # "running"
            /\ events[i].thread # member
            /\ events[i].thread <= created
  /\ \A i, j \in 1 .. Len(events) :
       events[i].tag = "finished" /\ events[j].tag = "finished" => i = j
  /\ gui = "gone" => member = 0 \/ life[member] # "running"
  /\ fatal = "no"

CoreInv == CoreTypeOK /\ (~replaced => Orderly)

-----------------------------------------------------------------------------
(* The queue of the event loop *)

(* What taking the first event leaves. *)
LEMMA Taken ==
  ASSUME NEW q \in Seq(Event), q # << >>
  PROVE  /\ Head(q) \in Event /\ Head(q) = q[1] /\ Len(q) > 0
         /\ Tail(q) \in Seq(Event) /\ Len(Tail(q)) = Len(q) - 1
         /\ \A i \in 1 .. Len(Tail(q)) : Tail(q)[i] = q[i + 1] /\ i + 1 \in 1 .. Len(q)
OBVIOUS

(* An index that is not the last has a successor. *)
LEMMA Between ==
  ASSUME NEW n \in Nat, n > 0, NEW i \in 1 .. n, i # n
  PROVE  /\ i \in 1 .. n - 1
         /\ i + 1 \in 1 .. n /\ i + 1 # 1
OBVIOUS

(* What posting an event makes of the queue. *)
LEMMA Posted ==
  ASSUME NEW q \in Seq(Event), NEW e \in Event
  PROVE  /\ Append(q, e) \in Seq(Event) /\ Len(Append(q, e)) = Len(q) + 1
         /\ Append(q, e)[Len(q) + 1] = e
         /\ \A i \in 1 .. Len(q) : Append(q, e)[i] = q[i] /\ i \in 1 .. Len(q) + 1
OBVIOUS

-----------------------------------------------------------------------------
(* Steps *)

(* A step of the GUI thread alone. *)
LEMMA GuiStep ==
  ASSUME CoreInv, gui # "gone",
         gui' \in {"loop", "startWait", "depsWait", "clearWait", "quitWait", "modal",
                   "gone"},
         gui' \in {"startWait", "depsWait", "clearWait"} => created < Threads,
         gui' = "gone" => ~Busy,
         UNCHANGED <<member, created, life, events, replaced, fatal>>
  PROVE  CoreInv'
BY DEF CoreInv, CoreTypeOK, Orderly, Busy

(* A call or a question is posted. *)
LEMMA PostStep ==
  ASSUME CoreInv, NEW tag \in {"call", "ask"}, NEW t \in Thread, Post(tag, t),
         UNCHANGED <<gui, member, created, life, replaced, fatal>>
  PROVE  CoreInv'
<1> DEFINE e == [tag |-> tag, thread |-> t]
<1>1. e \in Event /\ events \in Seq(Event) /\ e.tag \notin {"finished", "delete"}
  BY DEF Event, CoreInv, CoreTypeOK
<1>2. events' = Append(events, e)
  BY DEF Post
<1> HIDE DEF e
<1>3. /\ events' \in Seq(Event) /\ Len(events') = Len(events) + 1
      /\ events'[Len(events) + 1] = e
      /\ \A i \in 1 .. Len(events) : events'[i] = events[i]
  BY <1>1, <1>2, Posted
<1>4. Len(events) \in Nat
  BY <1>1
<1>5. \A i \in 1 .. Len(events') :
        \/ i \in 1 .. Len(events) /\ events'[i] = events[i]
        \/ i = Len(events) + 1 /\ events'[i].tag \notin {"finished", "delete"}
  BY <1>1, <1>3, <1>4
<1> QED
  BY <1>3, <1>5 DEF CoreInv, CoreTypeOK, Orderly

(* The first event is taken and has no effect on the threads. *)
LEMMA TakeStep ==
  ASSUME CoreInv, events # << >>, events' = Tail(events), gui = "loop",
         gui' \in {"loop", "modal"},
         UNCHANGED <<member, created, life, replaced, fatal>>
  PROVE  CoreInv'
<1>1. events \in Seq(Event)
  BY DEF CoreInv, CoreTypeOK
<1>2. /\ events' \in Seq(Event)
      /\ \A i \in 1 .. Len(events') : events'[i] = events[i + 1] /\ i + 1 \in 1 .. Len(events)
  BY <1>1, Taken
<1>3. CoreTypeOK'
  BY <1>2 DEF CoreInv, CoreTypeOK
<1>4. ASSUME ~replaced PROVE Orderly'
  BY <1>2, <1>4 DEF CoreInv, CoreTypeOK, Orderly
<1> QED
  BY <1>3, <1>4 DEF CoreInv

(* A thread is created when the one in the member, if any, has ended. *)
LEMMA CreateStep ==
  ASSUME CoreInv, NEW what, NEW place, Create(what, place), ~Busy,
         created < Threads, gui' = "loop", UNCHANGED <<events, fatal>>
  PROVE  CoreInv'
<1>1. /\ created' = created + 1 /\ member' = created + 1
      /\ life' = [life EXCEPT ![created + 1] = "running"]
      /\ replaced' = (replaced \/ member # 0)
  BY DEF Create
<1>2. created + 1 \in Thread /\ created \in Nat
  BY ControllerAssumption DEF CoreInv, CoreTypeOK, Thread
<1>3. CoreTypeOK'
  BY <1>1, <1>2 DEF CoreInv, CoreTypeOK
<1>4. ASSUME ~replaced' PROVE Orderly'
  <2>1. ~replaced /\ member = 0 /\ Orderly
    BY <1>1, <1>4 DEF CoreInv
  <2>2. \A i \in 1 .. Len(events) : events[i] \in Event
    BY DEF CoreInv, CoreTypeOK
  <2>3. \A i \in 1 .. Len(events) : events[i].thread \in Thread
    BY <2>2 DEF Event
  <2>4. \A i \in 1 .. Len(events) : events[i].tag # "finished"
    BY <2>1, <2>3 DEF Orderly, Thread
  <2>5. \A t \in Thread : t # created + 1 => life'[t] = life[t]
    BY <1>1, <1>2 DEF CoreInv, CoreTypeOK
  <2>6. life'[created + 1] = "running"
    BY <1>1, <1>2 DEF CoreInv, CoreTypeOK
  <2>7. \A t \in Thread : life'[t] = "running" => t = member'
    BY <1>1, <2>1, <2>5, ControllerAssumption DEF Orderly, Thread
  <2>8. \A t \in Thread : t > created' => life'[t] = "none"
    BY <1>1, <1>2, <2>1, <2>5 DEF Orderly, Thread
  <2>9. \A i \in 1 .. Len(events) : events[i].tag = "delete" =>
          /\ life'[events[i].thread] # "running"
          /\ events[i].thread # member'
          /\ events[i].thread <= created'
    <3> SUFFICES ASSUME NEW i \in 1 .. Len(events), events[i].tag = "delete"
                 PROVE  /\ life'[events[i].thread] # "running"
                        /\ events[i].thread # member'
                        /\ events[i].thread <= created'
      OBVIOUS
    <3>1. events[i].thread \in Thread /\ events[i].thread <= created
          /\ life[events[i].thread] # "running"
      BY <2>1, <2>3 DEF Orderly
    <3>2. events[i].thread \in Nat /\ events[i].thread # created + 1
          /\ events[i].thread <= created + 1
      BY <3>1, <1>2 DEF Thread
    <3> QED
      BY <1>1, <2>5, <3>1, <3>2
  <2> QED
    BY <1>1, <2>1, <2>4, <2>6, <2>7, <2>8, <2>9 DEF Orderly
<1> QED
  BY <1>3, <1>4 DEF CoreInv

(* The lambda of the thread in the member. *)
LEMMA FinishedStep ==
  ASSUME CoreInv, HandleFinished
  PROVE  CoreInv'
<1> DEFINE e == [tag |-> "delete", thread |-> member]
<1>1. /\ gui = "loop" /\ events # << >> /\ Head(events).tag = "finished"
      /\ member # 0 /\ events' = Append(Tail(events), e) /\ member' = 0
      /\ UNCHANGED <<gui, created, life, replaced, fatal>>
  BY DEF HandleFinished, Next1, threadVars, historyVars
<1>2. events \in Seq(Event) /\ member \in Thread /\ member <= created
      /\ created \in Nat
  BY <1>1, ControllerAssumption DEF CoreInv, CoreTypeOK, Thread
<1>3. e \in Event /\ e.tag = "delete" /\ e.thread = member
  BY <1>2 DEF Event
<1> HIDE DEF e
<1>4. /\ Head(events) = events[1] /\ Len(events) \in Nat /\ Len(events) > 0
      /\ Tail(events) \in Seq(Event) /\ Len(Tail(events)) = Len(events) - 1
      /\ \A i \in 1 .. Len(Tail(events)) : Tail(events)[i] = events[i + 1]
  BY <1>1, <1>2, Taken
<1>5. /\ events' \in Seq(Event) /\ Len(events') = Len(events)
      /\ events'[Len(events)] = e
      /\ \A i \in 1 .. Len(events) - 1 : events'[i] = Tail(events)[i]
  BY <1>1, <1>3, <1>4, Posted
<1>6. \A i \in 1 .. Len(events') :
        \/ i + 1 \in 1 .. Len(events) /\ events'[i] = events[i + 1] /\ i + 1 # 1
        \/ i = Len(events) /\ events'[i] = e
  <2> SUFFICES ASSUME NEW i \in 1 .. Len(events'), i # Len(events)
               PROVE  i + 1 \in 1 .. Len(events) /\ events'[i] = events[i + 1] /\ i + 1 # 1
    BY <1>5
  <2>1. /\ i \in 1 .. Len(events) - 1 /\ i \in 1 .. Len(Tail(events))
        /\ i + 1 \in 1 .. Len(events) /\ i + 1 # 1
    BY <1>4, <1>5, Between
  <2> QED
    BY <1>4, <1>5, <2>1
<1>7. CoreTypeOK'
  BY <1>1, <1>2, <1>5 DEF CoreInv, CoreTypeOK
<1>8. ASSUME ~replaced PROVE Orderly'
  <2>1. Orderly
    BY <1>8 DEF CoreInv
  <2>2. 1 \in 1 .. Len(events) /\ events[1].tag = "finished"
    BY <1>1, <1>4
  <2>3. life[member] = "ended"
    BY <2>1, <2>2 DEF Orderly
  <2>4. \A i \in 1 .. Len(events) : i # 1 => events[i].tag # "finished"
    BY <2>1, <2>2 DEF Orderly
  <2>5. \A i \in 1 .. Len(events') :
          /\ events'[i].tag # "finished"
          /\ events'[i].tag = "delete" =>
               /\ life[events'[i].thread] # "running"
               /\ events'[i].thread # 0
               /\ events'[i].thread <= created
    <3> SUFFICES ASSUME NEW i \in 1 .. Len(events')
                 PROVE  /\ events'[i].tag # "finished"
                        /\ events'[i].tag = "delete" =>
                             /\ life[events'[i].thread] # "running"
                             /\ events'[i].thread # 0
                             /\ events'[i].thread <= created
      OBVIOUS
    <3>1. events'[i] \in Event
      BY <1>5
    <3>2. events'[i].thread # 0
      BY <3>1 DEF Event, Thread
    <3>3. CASE i = Len(events) /\ events'[i] = e
      BY <3>2, <3>3, <1>2, <1>3, <2>3
    <3>4. CASE i + 1 \in 1 .. Len(events) /\ events'[i] = events[i + 1] /\ i + 1 # 1
      BY <3>2, <3>4, <2>1, <2>4 DEF Orderly
    <3> QED
      BY <1>6, <3>3, <3>4
  <2>6. \A t \in Thread : life[t] # "running"
    BY <2>1, <2>3 DEF Orderly
  <2> QED
    BY <1>1, <2>1, <2>5, <2>6 DEF Orderly
<1> QED
  BY <1>1, <1>7, <1>8 DEF CoreInv

(* A lambda that finds no thread: the member had been overwritten. *)
LEMMA NullStep ==
  ASSUME CoreInv, HandleFinishedNull
  PROVE  CoreInv'
<1>1. /\ gui = "loop" /\ events # << >> /\ Head(events).tag = "finished"
      /\ member = 0 /\ events' = Tail(events)
      /\ UNCHANGED <<gui, member, created, life, replaced>>
  BY DEF HandleFinishedNull, Next1, threadVars, userVars
<1>2. events \in Seq(Event)
  BY DEF CoreInv, CoreTypeOK
<1>3. /\ Head(events) \in Event /\ Head(events) = events[1] /\ 1 \in 1 .. Len(events)
      /\ events' \in Seq(Event)
  BY <1>1, <1>2, Taken
<1>4. events[1].thread # 0
  BY <1>3 DEF Event, Thread
<1>5. replaced
  BY <1>1, <1>3, <1>4 DEF CoreInv, Orderly
<1> QED
  BY <1>1, <1>3, <1>5 DEF CoreInv, CoreTypeOK

(* A thread is deleted. *)
LEMMA DeleteStep ==
  ASSUME CoreInv, HandleDelete
  PROVE  CoreInv'
<1> DEFINE d == Head(events).thread
<1>1. /\ gui = "loop" /\ events # << >> /\ Head(events).tag = "delete"
      /\ events' = Tail(events)
      /\ UNCHANGED <<gui, member, created, replaced>>
      /\ \/ life[d] = "running" /\ UNCHANGED life
         \/ life[d] # "running" /\ life' = [life EXCEPT ![d] = "deleted"]
            /\ UNCHANGED fatal
  BY DEF HandleDelete, Next1, userVars
<1>2. events \in Seq(Event)
  BY DEF CoreInv, CoreTypeOK
<1>3. /\ Head(events) \in Event /\ Head(events) = events[1] /\ 1 \in 1 .. Len(events)
      /\ events' \in Seq(Event)
      /\ \A i \in 1 .. Len(events') : events'[i] = events[i + 1] /\ i + 1 \in 1 .. Len(events)
  BY <1>1, <1>2, Taken
<1>4. d \in Thread
  BY <1>3 DEF Event
<1> HIDE DEF d
<1>5. CoreTypeOK'
  BY <1>1, <1>3, <1>4 DEF CoreInv, CoreTypeOK
<1>6. ASSUME ~replaced PROVE Orderly'
  <2>1. Orderly
    BY <1>6 DEF CoreInv
  <2>2. /\ life[d] # "running" /\ d # member /\ d <= created
    BY <1>1, <1>3, <2>1 DEF Orderly, d
  <2>3. life' = [life EXCEPT ![d] = "deleted"] /\ UNCHANGED fatal
    BY <1>1, <2>2
  <2>4. \A t \in Thread : t # d => life'[t] = life[t]
    BY <2>3 DEF CoreInv, CoreTypeOK
  <2>5. life'[d] = "deleted"
    BY <2>3, <1>4 DEF CoreInv, CoreTypeOK
  <2>6. \A i \in 1 .. Len(events) : events[i].thread \in Thread
    <3>1. \A i \in 1 .. Len(events) : events[i] \in Event
      BY <1>2
    <3> QED
      BY <3>1 DEF Event
  <2>7. \A i \in 1 .. Len(events') :
          /\ events'[i].tag = "finished" =>
               events'[i].thread = member /\ life'[events'[i].thread] = "ended"
          /\ events'[i].tag = "delete" =>
               /\ life'[events'[i].thread] # "running"
               /\ events'[i].thread # member
               /\ events'[i].thread <= created
    <3> SUFFICES ASSUME NEW i \in 1 .. Len(events')
                 PROVE  /\ events'[i].tag = "finished" =>
                             /\ events'[i].thread = member
                             /\ life'[events'[i].thread] = "ended"
                        /\ events'[i].tag = "delete" =>
                             /\ life'[events'[i].thread] # "running"
                             /\ events'[i].thread # member
                             /\ events'[i].thread <= created
      OBVIOUS
    <3>1. events'[i] = events[i + 1] /\ i + 1 \in 1 .. Len(events)
      BY <1>3
    <3>2. /\ events[i + 1].tag = "finished" =>
               /\ events[i + 1].thread = member
               /\ life[events[i + 1].thread] = "ended"
          /\ events[i + 1].tag = "delete" =>
               /\ life[events[i + 1].thread] # "running"
               /\ events[i + 1].thread # member
               /\ events[i + 1].thread <= created
      BY <2>1, <3>1 DEF Orderly
    <3>3. events[i + 1].thread \in Thread
      BY <2>6, <3>1
    <3> QED
      BY <3>1, <3>2, <3>3, <2>2, <2>4, <2>5
  <2>8. \A i, j \in 1 .. Len(events') :
          events'[i].tag = "finished" /\ events'[j].tag = "finished" => i = j
    <3> SUFFICES ASSUME NEW i \in 1 .. Len(events'), NEW j \in 1 .. Len(events'),
                        events'[i].tag = "finished", events'[j].tag = "finished"
                 PROVE  i = j
      OBVIOUS
    <3>1. i + 1 = j + 1
      BY <1>3, <2>1 DEF Orderly
    <3> QED
      BY <3>1
  <2>9. \A t \in Thread : life'[t] = "running" => t = member
    BY <2>1, <2>4, <2>5 DEF Orderly
  <2>10. \A t \in Thread : t > created => life'[t] = "none"
    BY <2>1, <2>2, <2>4, <1>4 DEF Orderly, CoreInv, CoreTypeOK, Thread
  <2>11. member # 0 => life'[member] \in {"running", "ended"}
    <3>1. member # 0 => member \in Thread
      BY ControllerAssumption DEF CoreInv, CoreTypeOK, Thread
    <3> QED
      BY <3>1, <2>1, <2>2, <2>4 DEF Orderly
  <2> QED
    BY <1>1, <2>1, <2>3, <2>7, <2>8, <2>9, <2>10, <2>11 DEF Orderly
<1> QED
  BY <1>1, <1>5, <1>6 DEF CoreInv

(* The thread in the member ends and posts its lambda. *)
LEMMA EndStep ==
  ASSUME CoreInv, NEW t \in Thread, EndThread(t)
  PROVE  CoreInv'
<1> DEFINE e == [tag |-> "finished", thread |-> t]
<1>1. /\ life[t] = "running" /\ life' = [life EXCEPT ![t] = "ended"]
      /\ events' = Append(events, e)
      /\ UNCHANGED <<gui, member, created, replaced, fatal>>
  BY DEF EndThread, At, Post, userVars, historyVars
<1>2. /\ e \in Event /\ events \in Seq(Event) /\ e.tag = "finished" /\ e.thread = t
      /\ Len(events) \in Nat
  BY DEF Event, CoreInv, CoreTypeOK
<1> HIDE DEF e
<1>3. /\ events' \in Seq(Event) /\ Len(events') = Len(events) + 1
      /\ events'[Len(events) + 1] = e
      /\ \A i \in 1 .. Len(events) : events'[i] = events[i]
  BY <1>1, <1>2, Posted
<1>4. CoreTypeOK'
  BY <1>1, <1>3 DEF CoreInv, CoreTypeOK
<1>5. ASSUME ~replaced PROVE Orderly'
  <2>1. Orderly
    BY <1>5 DEF CoreInv
  <2>2. t = member /\ t <= created
    BY <1>1, <2>1 DEF Orderly, CoreInv, CoreTypeOK, Thread
  <2>3. \A u \in Thread : u # t => life'[u] = life[u]
    BY <1>1 DEF CoreInv, CoreTypeOK
  <2>4. life'[t] = "ended"
    BY <1>1 DEF CoreInv, CoreTypeOK
  <2>5. \A i \in 1 .. Len(events) : events[i].tag # "finished" /\ events[i].thread \in Thread
    <3>1. \A i \in 1 .. Len(events) : events[i].tag # "finished"
      BY <1>1, <2>1, <2>2 DEF Orderly
    <3>2. \A i \in 1 .. Len(events) : events[i] \in Event
      BY <1>2
    <3> QED
      BY <3>1, <3>2 DEF Event
  <2>6. \A i \in 1 .. Len(events') :
          \/ i \in 1 .. Len(events) /\ events'[i] = events[i]
          \/ i = Len(events) + 1 /\ events'[i] = e
    BY <1>2, <1>3
  <2>7. \A i \in 1 .. Len(events') :
          /\ events'[i].tag = "finished" => i = Len(events) + 1 /\ events'[i].thread = t
          /\ events'[i].tag = "delete" =>
               /\ life'[events'[i].thread] # "running"
               /\ events'[i].thread # member
               /\ events'[i].thread <= created
    BY <1>2, <2>1, <2>3, <2>5, <2>6, <2>2, <2>4 DEF Orderly
  <2>8. \A u \in Thread : life'[u] # "running"
    BY <2>1, <2>2, <2>3, <2>4 DEF Orderly
  <2>9. \A u \in Thread : u > created => life'[u] = "none"
    BY <2>1, <2>2, <2>3 DEF Orderly, CoreInv, CoreTypeOK, Thread
  <2> QED
    BY <1>1, <2>1, <2>2, <2>4, <2>7, <2>8, <2>9 DEF Orderly
<1> QED
  BY <1>1, <1>4, <1>5 DEF CoreInv

-----------------------------------------------------------------------------
(* The invariant *)

(* A step that leaves the core of the state alone. *)
LEMMA OtherStep ==
  ASSUME CoreInv, UNCHANGED coreVars
  PROVE  CoreInv'
BY DEF CoreInv, CoreTypeOK, Orderly, coreVars

(* Every step of a worker keeps CoreInv. *)
LEMMA WorkerStep ==
  ASSUME CoreInv, NEW t \in Thread, Worker(t)
  PROVE  CoreInv'
<1> USE DEF userVars, historyVars, threadVars
<1>1. CASE SizeDownloads(t)
  BY <1>1, OtherStep DEF SizeDownloads, coreVars
<1>2. CASE FetchOne(t)
  BY <1>2, OtherStep DEF FetchOne, coreVars
<1>3. CASE PrepareOne(t)
  BY <1>3, OtherStep DEF PrepareOne, coreVars
<1>4. CASE EndPreparing(t)
  BY <1>4, OtherStep DEF EndPreparing, coreVars
<1>5. CASE CallPage(t)
  BY <1>5, PostStep DEF CallPage
<1>6. CASE CollectOne(t)
  BY <1>6, OtherStep DEF CollectOne, coreVars
<1>7. CASE EndCollecting(t)
  BY <1>7, PostStep DEF EndCollecting
<1>8. CASE AskUser(t)
  BY <1>8, PostStep DEF AskUser
<1>9. CASE BeginBenchmark(t)
  BY <1>9, OtherStep DEF BeginBenchmark, coreVars
<1>10. CASE NextConfig(t)
  BY <1>10, OtherStep DEF NextConfig, coreVars
<1>11. CASE RunConfig(t)
  BY <1>11, OtherStep DEF RunConfig, coreVars
<1>12. CASE ClearCache(t)
  BY <1>12, OtherStep DEF ClearCache, coreVars
<1>13. CASE EndThread(t)
  BY <1>13, EndStep
<1> QED
  BY <1>1, <1>2, <1>3, <1>4, <1>5, <1>6, <1>7, <1>8, <1>9, <1>10, <1>11, <1>12, <1>13 DEF Worker

(* Every step of the GUI thread keeps CoreInv. *)
LEMMA GuiThreadStep ==
  ASSUME CoreInv, Gui
  PROVE  CoreInv'
<1> USE DEF userVars, historyVars, threadVars
<1>1. CASE StartRun
  <2>1. PICK place \in {"call", "bench"} :
          Create(IF gui = "depsWait" THEN "deps" ELSE "run", place)
    BY <1>1 DEF StartRun
  <2>2. ~Busy /\ created < Threads /\ gui' = "loop" /\ UNCHANGED <<events, fatal>>
    BY <1>1 DEF StartRun, CoreInv, CoreTypeOK
  <2> QED
    BY <2>1, <2>2, CreateStep
<1>2. CASE StartClear
  <2>1. Create("clear", "clear")
    BY <1>2 DEF StartClear
  <2>2. ~Busy /\ created < Threads /\ gui' = "loop" /\ UNCHANGED <<events, fatal>>
    BY <1>2 DEF StartClear, CoreInv, CoreTypeOK
  <2> QED
    BY <2>1, <2>2, CreateStep
<1>3. CASE Quit
  BY <1>3, GuiStep DEF Quit
<1>4. CASE AnswerDownload
  BY <1>4, GuiStep DEF AnswerDownload
<1>5. CASE HandleFinished
  BY <1>5, FinishedStep
<1>6. CASE HandleFinishedNull
  BY <1>6, NullStep
<1>7. CASE DropFinished
  BY <1>7, TakeStep DEF DropFinished
<1>8. CASE HandleDelete
  BY <1>8, DeleteStep
<1>9. CASE HandleCall
  BY <1>9, TakeStep DEF HandleCall
<1>10. CASE HandleAsk
  BY <1>10, TakeStep DEF HandleAsk
<1> QED
  BY <1>1, <1>2, <1>3, <1>4, <1>5, <1>6, <1>7, <1>8, <1>9, <1>10 DEF Gui

(* Everything the user does keeps CoreInv. *)
LEMMA UserStep ==
  ASSUME CoreInv, User
  PROVE  CoreInv'
<1> USE DEF userVars, historyVars, threadVars
<1>1. CASE ClickStart
  BY <1>1, GuiStep DEF ClickStart
<1>2. CASE ClickCancel
  BY <1>2, OtherStep DEF ClickCancel, coreVars
<1>3. CASE ClickClear
  BY <1>3, GuiStep DEF ClickClear
<1>4. CASE ClickQuit
  BY <1>4, GuiStep DEF ClickQuit
<1> QED
  BY <1>1, <1>2, <1>3, <1>4 DEF User

(* The enumeration started by InitStartPage satisfies CoreInv. *)
LEMMA InitCore ==
  ASSUME Init
  PROVE  CoreInv
<1>1. 1 \in Thread /\ Threads \in Nat
  BY ControllerAssumption DEF Thread
<1>2. life \in [Thread -> {"none", "running", "ended", "deleted"}] /\ events \in Seq(Event)
  BY DEF Init
<1>3. /\ \A t \in Thread : life[t] = IF t = 1 THEN "running" ELSE "none"
      /\ Len(events) = 0 /\ member = 1 /\ created = 1 /\ gui = "loop"
      /\ replaced = FALSE /\ fatal = "no"
  BY DEF Init
<1>4. CoreTypeOK
  <2>1. member \in 0 .. created
    BY <1>3
  <2>2. created \in Thread
    BY <1>1, <1>3
  <2>3. gui \in {"loop", "startWait", "depsWait", "clearWait", "quitWait", "modal", "gone"}
    BY <1>3
  <2>4. ~(gui \in {"startWait", "depsWait", "clearWait"}) /\ replaced \in BOOLEAN
    BY <1>3
  <2> QED
    BY <1>2, <2>1, <2>2, <2>3, <2>4 DEF CoreTypeOK
<1>5. Orderly
  BY <1>1, <1>3 DEF Orderly, Thread
<1> QED
  BY <1>4, <1>5 DEF CoreInv

(* The inductive invariant of the client. *)
LEMMA CoreInvariant == Spec => []CoreInv
<1>1. CoreInv /\ [Next]_vars => CoreInv'
  <2> SUFFICES ASSUME CoreInv, [Next]_vars PROVE CoreInv'
    OBVIOUS
  <2>1. CASE \E t \in Thread : Worker(t)
    BY <2>1, WorkerStep
  <2>2. CASE Gui
    BY <2>2, GuiThreadStep
  <2>3. CASE User
    BY <2>3, UserStep
  <2>4. CASE UNCHANGED vars
    BY <2>4, OtherStep DEF vars, userVars, threadVars, historyVars, coreVars
  <2> QED
    BY <2>1, <2>2, <2>3, <2>4 DEF Next
<1> QED
  BY InitCore, <1>1, PTL DEF Spec

-----------------------------------------------------------------------------
(* The enumeration *)

(* The thread of InitStartPage is the only one that enumerates. What it has *)
(* prepared lags behind its index only by configurations that threw.       *)
Enumeration ==
  /\ pc \in [Thread -> Place]
  /\ config \in [Thread -> Nat]
  /\ prepared \in Seq(Nat)
  /\ skipped \in SUBSET Nat
  /\ created \in Nat /\ created > 0
  /\ \A t \in Thread : pc[t] \in {"sizes", "fetch", "prepare"} => t = 1
  /\ 1 \in Thread
  /\ pc[1] \in {"sizes", "fetch"} => prepared = << >>
  /\ pc[1] = "sizes" => config[1] = 1
  /\ pc[1] = "prepare" =>
       config[1] = Len(prepared) + 1 \/ \E j \in skipped : j < config[1]
  /\ DevicesAreItsOwn

(* A worker goes to a place that is not one of the enumeration's.          *)
LEMMA ElsewhereStep ==
  ASSUME Enumeration, NEW t, NEW place \in Place \ {"sizes", "fetch", "prepare"},
         GoesTo(t, place), t = 1 => pc[1] # "sizes" \/ config'[1] = 1,
         config' \in [Thread -> Nat], pc[1] = "prepare" /\ t # 1 => config'[1] = config[1],
         pc[1] = "sizes" => config'[1] = 1,
         created' \in Nat, created' > 0, UNCHANGED <<prepared, skipped>>
  PROVE  Enumeration'
<1>1. pc' \in [Thread -> Place] /\ \A u \in Thread : pc'[u] \in {pc[u], place}
  BY DEF GoesTo, Enumeration
<1>2. 1 \in Thread /\ pc'[1] \in {pc[1], place} /\ (t # 1 => pc'[1] = pc[1])
      /\ (t = 1 => pc'[1] = place)
  BY <1>1 DEF Enumeration, GoesTo
<1>3. DevicesAreItsOwn'
  BY DEF Enumeration, DevicesAreItsOwn
<1> QED
  BY <1>1, <1>2, <1>3 DEF Enumeration

(* A step that moves no worker.                                            *)
LEMMA StillStep ==
  ASSUME Enumeration, UNCHANGED <<pc, config, created, prepared, skipped>>
  PROVE  Enumeration'
BY DEF Enumeration, DevicesAreItsOwn

(* Every step of a worker keeps Enumeration.                               *)
LEMMA WorkerEnumerates ==
  ASSUME Enumeration, NEW t \in Thread, Worker(t)
  PROVE  Enumeration'
<1> USE DEF userVars, historyVars, threadVars
<1>1. /\ pc \in [Thread -> Place] /\ config \in [Thread -> Nat] /\ created \in Nat
      /\ created > 0 /\ Configs \in Nat /\ config[t] \in Nat
      /\ [config EXCEPT ![t] = @ + 1] \in [Thread -> Nat]
      /\ [config EXCEPT ![t] = 1] \in [Thread -> Nat]
  BY ControllerAssumption DEF Enumeration
<1>2. ASSUME pc[t] \in {"sizes", "fetch", "prepare"} PROVE t = 1
  BY <1>2 DEF Enumeration
<1>3. ASSUME pc[t] \notin {"sizes", "fetch", "prepare"}
      PROVE  pc[1] \in {"sizes", "fetch", "prepare"} => t # 1
  BY <1>3
<1>4. 1 \in Thread
  BY DEF Enumeration
<1>5. CASE SizeDownloads(t)
  <2>1. t = 1 /\ pc[1] = "sizes" /\ prepared = << >> /\ config[1] = 1
        /\ UNCHANGED <<config, prepared, skipped, created>>
    BY <1>2, <1>5 DEF SizeDownloads, At, Enumeration
  <2>2. PICK place \in {"prepare", "fetch", "end"} : pc' = [pc EXCEPT ![1] = place]
    BY <1>5, <2>1 DEF SizeDownloads, GoesTo
  <2>3. pc' \in [Thread -> Place] /\ pc'[1] = place
        /\ \A u \in Thread \ {1} : pc'[u] = pc[u]
    BY <1>1, <1>4, <2>2 DEF Place
  <2>4. Len(prepared) = 0
    BY <2>1
  <2> QED
    BY <2>1, <2>3, <2>4 DEF Enumeration, DevicesAreItsOwn
<1>6. CASE FetchOne(t)
  <2>1. t = 1 /\ pc[1] = "fetch" /\ prepared = << >> /\ Len(prepared) = 0
        /\ UNCHANGED <<prepared, skipped, created>>
    BY <1>2, <1>6 DEF FetchOne, At, Enumeration
  <2>2. CASE pc' = [pc EXCEPT ![1] = "prepare"] /\ config' = [config EXCEPT ![1] = 1]
    <3>1. pc' \in [Thread -> Place] /\ config'[1] = 1 /\ config' \in [Thread -> Nat]
          /\ pc'[1] = "prepare" /\ \A u \in Thread \ {1} : pc'[u] = pc[u]
      BY <1>1, <1>4, <2>1, <2>2 DEF Place
    <3> QED
      BY <2>1, <3>1 DEF Enumeration, DevicesAreItsOwn
  <2>3. CASE pc' = pc /\ config' = [config EXCEPT ![1] = @ + 1]
    BY <1>1, <2>1, <2>3 DEF Enumeration, DevicesAreItsOwn
  <2> QED
    BY <1>6, <2>1, <2>2, <2>3 DEF FetchOne, GoesTo
<1>7. CASE PrepareOne(t)
  <2>1. t = 1 /\ pc[1] = "prepare" /\ config[1] \in Nat /\ prepared \in Seq(Nat)
        /\ Len(prepared) \in Nat
        /\ config' = [config EXCEPT ![1] = @ + 1] /\ UNCHANGED <<pc, created>>
        /\ (config[1] = Len(prepared) + 1 \/ \E j \in skipped : j < config[1])
    BY <1>1, <1>2, <1>7 DEF PrepareOne, At, Enumeration
  <2>2. config' \in [Thread -> Nat] /\ config'[1] = config[1] + 1
    BY <1>1, <1>4, <2>1
  <2>3. CASE skipped' = skipped \cup {config[1]} /\ UNCHANGED prepared
    <3>1. DevicesAreItsOwn'
      BY <2>3 DEF Enumeration, DevicesAreItsOwn
    <3>2. config[1] \in skipped' /\ config[1] < config'[1]
      BY <2>1, <2>2, <2>3
    <3> QED
      BY <2>1, <2>2, <2>3, <3>1, <3>2 DEF Enumeration
  <2>4. CASE prepared' = Append(prepared, config[1]) /\ UNCHANGED skipped
    <3>1. /\ prepared' \in Seq(Nat) /\ Len(prepared') = Len(prepared) + 1
          /\ prepared'[Len(prepared) + 1] = config[1]
          /\ \A i \in 1 .. Len(prepared) : prepared'[i] = prepared[i]
      BY <2>1, <2>4
    <3>2. DevicesAreItsOwn'
      <4> SUFFICES ASSUME NEW i \in 1 .. Len(prepared'), prepared'[i] # i
                   PROVE  \E j \in skipped : j < prepared'[i]
        BY <2>4 DEF DevicesAreItsOwn
      <4>1. CASE i \in 1 .. Len(prepared)
        BY <3>1, <4>1 DEF Enumeration, DevicesAreItsOwn
      <4>2. CASE i = Len(prepared) + 1
        BY <2>1, <3>1, <4>2
      <4> QED
        BY <2>1, <3>1, <4>1, <4>2
    <3>3. config'[1] = Len(prepared') + 1 \/ \E j \in skipped : j < config'[1]
      <4>1. CASE config[1] = Len(prepared) + 1
        BY <2>2, <3>1, <4>1
      <4>2. CASE \E j \in skipped : j < config[1]
        <5>1. PICK j \in skipped : j < config[1]
          BY <4>2
        <5>2. j \in Nat
          BY <5>1 DEF Enumeration
        <5> QED
          BY <2>1, <2>2, <2>4, <5>1, <5>2
      <4> QED
        BY <2>1, <4>1, <4>2
    <3> QED
      BY <2>1, <2>2, <2>4, <3>1, <3>2, <3>3 DEF Enumeration
  <2> QED
    BY <1>7, <2>1, <2>3, <2>4 DEF PrepareOne
<1>8. CASE EndPreparing(t)
  BY <1>1, <1>2, <1>8, ElsewhereStep DEF EndPreparing, At, Place, Enumeration
<1>9. CASE CallPage(t)
  BY <1>1, <1>9, ElsewhereStep DEF CallPage, At, Place, Enumeration
<1>10. CASE CollectOne(t)
  BY <1>1, <1>10 DEF CollectOne, At, Enumeration, DevicesAreItsOwn
<1>11. CASE EndCollecting(t)
  BY <1>1, <1>11, ElsewhereStep DEF EndCollecting, At, Place, Enumeration
<1>12. CASE AskUser(t)
  BY <1>1, <1>12, ElsewhereStep DEF AskUser, At, Place, Enumeration
<1>13. CASE BeginBenchmark(t)
  BY <1>1, <1>4, <1>13, ElsewhereStep DEF BeginBenchmark, At, Place, Enumeration
<1>14. CASE NextConfig(t)
  BY <1>1, <1>14, ElsewhereStep DEF NextConfig, At, Place, Enumeration
<1>15. CASE RunConfig(t)
  BY <1>1, <1>4, <1>15, ElsewhereStep DEF RunConfig, At, Place, Enumeration
<1>16. CASE ClearCache(t)
  BY <1>1, <1>16, ElsewhereStep DEF ClearCache, At, Place, Enumeration
<1>17. CASE EndThread(t)
  BY <1>17, StillStep DEF EndThread
<1> QED
  BY <1>5, <1>6, <1>7, <1>8, <1>9, <1>10, <1>11, <1>12, <1>13, <1>14, <1>15, <1>16, <1>17
     DEF Worker

(* Every step of the GUI thread and of the user keeps Enumeration.         *)
LEMMA GuiEnumerates ==
  ASSUME Enumeration, Gui \/ User
  PROVE  Enumeration'
<1> USE DEF userVars, historyVars, threadVars
<1>1. /\ pc \in [Thread -> Place] /\ config \in [Thread -> Nat] /\ created \in Nat
      /\ created > 0 /\ created + 1 # 1 /\ created + 1 \in Nat /\ created + 1 > 0
      /\ 1 \in Thread /\ (pc[1] = "sizes" => config[1] = 1)
  BY DEF Enumeration
<1>2. ASSUME NEW what, NEW place \in {"call", "bench", "clear"}, Create(what, place),
             UNCHANGED <<prepared, skipped>>
      PROVE  Enumeration'
  BY <1>1, <1>2, ElsewhereStep DEF Create, Place
<1>3. CASE StartRun
  BY <1>2, <1>3 DEF StartRun
<1>4. CASE StartClear
  BY <1>2, <1>4 DEF StartClear
<1>5. CASE Quit
  BY <1>5, StillStep DEF Quit
<1>6. CASE AnswerDownload
  <2>1. PICK t \in Thread, place \in {"bench", "end"} :
          pc[t] = "asking" /\ GoesTo(t, place)
    BY <1>6 DEF AnswerDownload, At
  <2>2. UNCHANGED <<created, config, prepared, skipped>>
    BY <1>6 DEF AnswerDownload
  <2> QED
    BY <1>1, <2>1, <2>2, ElsewhereStep DEF Place
<1>7. CASE HandleFinished
  BY <1>7, StillStep DEF HandleFinished
<1>8. CASE HandleFinishedNull
  BY <1>8, StillStep DEF HandleFinishedNull
<1>9. CASE DropFinished
  BY <1>9, StillStep DEF DropFinished
<1>10. CASE HandleDelete
  BY <1>10, StillStep DEF HandleDelete
<1>11. CASE HandleCall
  <2> DEFINE t == Next1.thread
  <2>1. PICK place \in {"collect", "bench", "ask", "end"} : GoesTo(t, place)
    BY <1>11 DEF HandleCall
  <2>2. pc[t] \in {"calling", "reporting", "failing"}
    BY <1>11 DEF HandleCall
  <2>3. UNCHANGED <<created, config, prepared, skipped>>
    BY <1>11 DEF HandleCall
  <2> HIDE DEF t
  <2> QED
    BY <1>1, <2>1, <2>2, <2>3, ElsewhereStep DEF Place
<1>12. CASE HandleAsk
  BY <1>12, StillStep DEF HandleAsk
<1>13. CASE ClickStart
  BY <1>13, StillStep DEF ClickStart
<1>14. CASE ClickCancel
  BY <1>14, StillStep DEF ClickCancel
<1>15. CASE ClickClear
  BY <1>15, StillStep DEF ClickClear
<1>16. CASE ClickQuit
  BY <1>16, StillStep DEF ClickQuit
<1> QED
  BY <1>3, <1>4, <1>5, <1>6, <1>7, <1>8, <1>9, <1>10, <1>11, <1>12, <1>13, <1>14, <1>15,
     <1>16 DEF Gui, User

(* The invariant of the enumeration. *)
LEMMA EnumerationInvariant == Spec => []Enumeration
<1>1. ASSUME Init PROVE Enumeration
  <2>1. /\ 1 \in Thread /\ prepared = << >> /\ skipped = {} /\ created = 1
        /\ pc \in [Thread -> Place] /\ config \in [Thread -> Nat]
        /\ pc[1] = "sizes" /\ config[1] = 1
        /\ \A t \in Thread : t # 1 => pc[t] = "none"
    BY <1>1, ControllerAssumption DEF Init, Thread, Place
  <2>2. Len(prepared) = 0 /\ prepared \in Seq(Nat)
    BY <2>1
  <2> QED
    BY <2>1, <2>2 DEF Enumeration, DevicesAreItsOwn
<1>2. ASSUME Enumeration, [Next]_vars PROVE Enumeration'
  <2>1. CASE UNCHANGED vars
    BY <1>2, <2>1, StillStep DEF vars, threadVars, historyVars
  <2> QED
    BY <1>2, <2>1, WorkerEnumerates, GuiEnumerates DEF Next
<1> QED
  BY <1>1, <1>2, PTL DEF Spec

-----------------------------------------------------------------------------
(* The interrupt *)

Runs == {"run", "deps"}
Asked == asked \cap Running

(* The finished lambda of a thread is queued. *)
Reports(u) ==
  \E i \in 1 .. Len(events) : events[i].tag = "finished" /\ events[i].thread = u

(* A thread has one lambda, queued when it has ended. *)
Born ==
  /\ \A t \in Thread : t > created => life[t] = "none"
  /\ \A t \in asked : t \in Thread /\ t <= created
  /\ \A i \in 1 .. Len(events) :
       /\ events[i].thread <= created
       /\ events[i].tag = "finished" => life[events[i].thread] # "running"
  /\ \A i, j \in 1 .. Len(events) :
       /\ events[i].tag = "finished" /\ events[j].tag = "finished"
       /\ events[i].thread = events[j].thread
       => i = j

(* The window shows its tabs when no run is at work or still to be reported; *)
(* otherwise the run it shows is that of the last thread.                  *)
Settled ==
  /\ gui \in {"startWait", "depsWait", "clearWait"} => page = "tabs"
  /\ \A u \in Thread : kind[u] \in Runs /\ (page = "realtime" => u # created) =>
       life[u] # "running" /\ ~Reports(u)
  /\ page = "realtime" => kind[created] \in Runs /\ member \in {0, created}

(* As long as a worker that was asked to stop runs, the interrupt is set,  *)
(* and the window is not where a click would clear it.                     *)
Heard ==
  /\ Asked # {} => interrupt
  /\ page = "tabs" /\ gui \in {"loop", "modal", "startWait", "depsWait"} => Asked = {}
  /\ gui = "clearWait" => Asked \subseteq {member}
  /\ page = "realtime" /\ gui \in {"loop", "modal"} => Asked \subseteq {created}

KindsOK == /\ kind \in [Thread -> {"none", "enumerate", "run", "deps", "clear"}]
           /\ page \in {"tabs", "realtime"}

StopInv == KindsOK /\ Born /\ Settled /\ Heard

stopVars == <<gui, page, member, created, kind, life, events, interrupt, asked>>

(* A step that leaves alone what the interrupt depends on. *)
LEMMA ApartStep ==
  ASSUME StopInv, UNCHANGED stopVars
  PROVE  StopInv'
BY DEF StopInv, KindsOK, Born, Settled, Heard, Reports, Asked, Running, stopVars

(* No lambda is added to the queue, and k events have left it. *)
LEMMA NoNewLambda ==
  ASSUME Born, created \in Nat, NEW k \in {0, 1}, Len(events) \in Nat, Len(events') \in Nat,
         \A i \in 1 .. Len(events') : events'[i].tag = "finished" =>
           i + k \in 1 .. Len(events) /\ events'[i] = events[i + k],
         \A i \in 1 .. Len(events') : events'[i].thread <= created,
         created' = created, asked' = asked,
         \A t \in Thread : life'[t] = life[t] \/ (life'[t] = "deleted" /\ t <= created),
         \A i \in 1 .. Len(events) : events[i].thread \in Thread
  PROVE  /\ Born'
         /\ \A u : Reports(u)' => Reports(u)
         /\ Asked' \subseteq Asked
<1>1. \A u : Reports(u)' => Reports(u)
  BY DEF Reports
<1>2. \A i \in 1 .. Len(events') : events'[i].tag = "finished" =>
        /\ events'[i].thread <= created'
        /\ life'[events'[i].thread] # "running"
  BY DEF Born
<1>3. \A i, j \in 1 .. Len(events') :
        /\ events'[i].tag = "finished" /\ events'[j].tag = "finished"
        /\ events'[i].thread = events'[j].thread
        => i = j
  <2> SUFFICES ASSUME NEW i \in 1 .. Len(events'), NEW j \in 1 .. Len(events'),
                      events'[i].tag = "finished", events'[j].tag = "finished",
                      events'[i].thread = events'[j].thread
               PROVE  i = j
    OBVIOUS
  <2>1. /\ i + k \in 1 .. Len(events) /\ events[i + k] = events'[i]
        /\ j + k \in 1 .. Len(events) /\ events[j + k] = events'[j]
    OBVIOUS
  <2>2. i + k = j + k
    BY <2>1 DEF Born
  <2> QED
    BY <2>2
<1>4. \A t \in Thread : t > created' => life'[t] = "none"
  <2> SUFFICES ASSUME NEW t \in Thread, t > created PROVE life'[t] = "none"
    OBVIOUS
  <2>1. life[t] = "none"
    BY DEF Born
  <2> QED
    BY <2>1 DEF Thread
<1>5. Asked' \subseteq Asked
  BY DEF Asked, Running
<1> QED
  BY <1>1, <1>2, <1>3, <1>4, <1>5 DEF Born

(* What is left to show of a step that adds no lambda and starts nothing.  *)
LEMMA QuietStep ==
  ASSUME StopInv, Born', \A u : Reports(u)' => Reports(u), Asked' \subseteq Asked,
         \A t \in Thread : life'[t] = "running" => life[t] = "running",
         UNCHANGED <<page, member, created, kind, interrupt>>,
         gui' = gui \/ (gui \in {"loop", "modal"} /\ gui' \in {"loop", "modal"})
  PROVE  StopInv'
<1>1. KindsOK'
  BY DEF StopInv, KindsOK
<1>2. Settled'
  BY DEF StopInv, Settled
<1>3. Heard'
  BY DEF StopInv, Heard
<1> QED
  BY <1>1, <1>2, <1>3 DEF StopInv

(* An event names a thread. *)
LEMMA Named ==
  ASSUME NEW q \in Seq(Event)
  PROVE  \A i \in 1 .. Len(q) : q[i] \in Event /\ q[i].thread \in Thread
<1>1. \A i \in 1 .. Len(q) : q[i] \in Event
  OBVIOUS
<1> QED
  BY <1>1 DEF Event

(* A worker posts a call or a question. *)
LEMMA PostHeard ==
  ASSUME CoreInv, StopInv, NEW tag \in {"call", "ask"}, NEW t \in Thread, Post(tag, t),
         t <= created,
         UNCHANGED <<gui, page, member, created, kind, life, interrupt, asked>>
  PROVE  StopInv'
<1>1. events \in Seq(Event) /\ created \in Nat
  BY DEF CoreInv, CoreTypeOK, Thread
<1> DEFINE e == [tag |-> tag, thread |-> t]
<1>2. e \in Event /\ e.tag = tag /\ e.thread = t /\ events' = Append(events, e)
  BY DEF Event, Post
<1> HIDE DEF e
<1>3. /\ Len(events) \in Nat /\ Len(events') = Len(events) + 1
      /\ events'[Len(events) + 1] = e
      /\ \A i \in 1 .. Len(events) : events'[i] = events[i]
  BY <1>1, <1>2, Posted
<1>4. \A i \in 1 .. Len(events') : events'[i].tag = "finished" =>
        i + 0 \in 1 .. Len(events) /\ events'[i] = events[i + 0]
  BY <1>2, <1>3
<1>7. \A i \in 1 .. Len(events') : events'[i].thread <= created
  BY <1>2, <1>3 DEF StopInv, Born
<1>5. \A i \in 1 .. Len(events) : events[i].thread \in Thread
  BY <1>1, Named
<1>6. Born' /\ (\A u : Reports(u)' => Reports(u)) /\ Asked' \subseteq Asked
  <2>1. Born /\ \A u \in Thread : life'[u] = life[u]
    BY DEF StopInv
  <2>2. Len(events') \in Nat /\ 0 \in {0, 1}
    BY <1>3
  <2> QED
    BY <1>1, <1>3, <1>4, <1>5, <1>7, <2>1, <2>2, NoNewLambda
<1> QED
  BY <1>6, QuietStep

(* The GUI thread takes an event, and may delete a thread. *)
LEMMA TakeHeard ==
  ASSUME CoreInv, StopInv, events # << >>, events' = Tail(events),
         gui = "loop", gui' \in {"loop", "modal"},
         \A t \in Thread : life'[t] = life[t] \/ (life'[t] = "deleted" /\ t <= created),
         UNCHANGED <<page, member, created, kind, interrupt, asked>>
  PROVE  StopInv'
<1>1. events \in Seq(Event) /\ created \in Nat
  BY DEF CoreInv, CoreTypeOK, Thread
<1>2. /\ Len(events) \in Nat /\ Len(events') = Len(events) - 1 /\ Len(events) > 0
      /\ \A i \in 1 .. Len(events') : events'[i] = events[i + 1] /\ i + 1 \in 1 .. Len(events)
  BY <1>1, Taken
<1>3. \A i \in 1 .. Len(events) : events[i].thread \in Thread
  BY <1>1, Named
<1>5. \A i \in 1 .. Len(events') : events'[i].thread <= created
  BY <1>2 DEF StopInv, Born
<1>4. Born' /\ (\A u : Reports(u)' => Reports(u)) /\ Asked' \subseteq Asked
  BY <1>1, <1>2, <1>3, <1>5, NoNewLambda, 1 \in {0, 1} DEF StopInv
<1> QED
  BY <1>4, QuietStep

(* A thread that is deleted has been created. *)
LEMMA DeleteHeard ==
  ASSUME CoreInv, StopInv, HandleDelete
  PROVE  StopInv'
<1> DEFINE d == events[1].thread
<1>1. events \in Seq(Event) /\ created \in Nat
      /\ life \in [Thread -> {"none", "running", "ended", "deleted"}]
  BY DEF CoreInv, CoreTypeOK, Thread
<1>2. events # << >> /\ gui = "loop" /\ events' = Tail(events)
      /\ (life' = life \/ life' = [life EXCEPT ![Next1.thread] = "deleted"])
      /\ UNCHANGED <<gui, page, member, created, kind, interrupt, asked>>
  BY DEF HandleDelete, userVars
<1>3. Head(events) = events[1] /\ Len(events) > 0
  BY <1>1, <1>2, Taken
<1>4. d \in Thread /\ Next1.thread = d
  BY <1>1, <1>3, Named DEF Next1
<1>5. d <= created
  BY <1>3 DEF StopInv, Born
<1> HIDE DEF d
<1>6. \A t \in Thread : life'[t] = life[t] \/ (life'[t] = "deleted" /\ t <= created)
  <2>1. CASE life' = life
    BY <2>1
  <2>2. CASE life' = [life EXCEPT ![d] = "deleted"]
    BY <1>1, <1>4, <1>5, <2>2
  <2>3. life' = life \/ life' = [life EXCEPT ![d] = "deleted"]
    BY <1>2, <1>4, Zenon
  <2> QED
    BY <2>1, <2>2, <2>3
<1> QED
  BY <1>2, <1>6, TakeHeard

(* The lambda of a thread that ends is its only one, and of the last run   *)
(* if it is a run's.                                                       *)
LEMMA EndHeard ==
  ASSUME CoreInv, StopInv, NEW t \in Thread, EndThread(t)
  PROVE  StopInv'
<1>1. /\ events \in Seq(Event) /\ created \in Nat
      /\ life \in [Thread -> {"none", "running", "ended", "deleted"}]
  BY DEF CoreInv, CoreTypeOK, Thread
<1>2. /\ life[t] = "running" /\ life' = [life EXCEPT ![t] = "ended"]
      /\ Post("finished", t)
      /\ UNCHANGED <<gui, page, member, created, kind, interrupt, asked>>
  BY DEF EndThread, At, userVars, historyVars
<1> DEFINE e == [tag |-> "finished", thread |-> t]
<1>3. e \in Event /\ e.tag = "finished" /\ e.thread = t /\ events' = Append(events, e)
  BY <1>2 DEF Event, Post
<1> HIDE DEF e
<1>4. /\ Len(events) \in Nat /\ Len(events') = Len(events) + 1
      /\ events'[Len(events) + 1] = e
      /\ \A i \in 1 .. Len(events) : events'[i] = events[i]
  BY <1>1, <1>3, Posted
<1>5. \A i \in 1 .. Len(events') :
        \/ i \in 1 .. Len(events) /\ events'[i] = events[i]
        \/ i = Len(events) + 1 /\ events'[i] = e
  BY <1>4
<1>6. \A u \in Thread : life'[u] = IF u = t THEN "ended" ELSE life[u]
  BY <1>1, <1>2
<1>7. t <= created
  BY <1>1, <1>2 DEF StopInv, Born, Thread
<1>8. \A i \in 1 .. Len(events) : events[i].thread \in Thread
  BY <1>1, Named
<1>9. \A i \in 1 .. Len(events) : events[i].tag = "finished" => events[i].thread # t
  BY <1>2 DEF StopInv, Born
<1>10. Born'
  <2>1. /\ \A u \in Thread : u > created' => life'[u] = "none"
        /\ \A u \in asked' : u \in Thread /\ u <= created'
    BY <1>1, <1>2, <1>6, <1>7 DEF StopInv, Born, Thread
  <2>2. \A i \in 1 .. Len(events') :
          /\ events'[i].thread <= created'
          /\ events'[i].tag = "finished" => life'[events'[i].thread] # "running"
    BY <1>2, <1>3, <1>5, <1>6, <1>7, <1>8 DEF StopInv, Born
  <2>3. \A i, j \in 1 .. Len(events') :
          /\ events'[i].tag = "finished" /\ events'[j].tag = "finished"
          /\ events'[i].thread = events'[j].thread
          => i = j
    BY <1>3, <1>5, <1>9 DEF StopInv, Born
  <2> QED
    BY <2>1, <2>2, <2>3 DEF Born
<1>11. \A u : Reports(u)' => Reports(u) \/ u = t
  BY <1>3, <1>5 DEF Reports
<1>12. Asked' \subseteq Asked
  BY <1>2, <1>6 DEF Asked, Running
<1>13. Settled'
  BY <1>2, <1>6, <1>11 DEF StopInv, Settled
<1>14. KindsOK' /\ Heard'
  BY <1>2, <1>12 DEF StopInv, KindsOK, Heard
<1> QED
  BY <1>10, <1>13, <1>14 DEF StopInv

(* The lambda of a run brings the tabs back when no run is left. *)
LEMMA FinishedHeard ==
  ASSUME CoreInv, StopInv, HandleFinished
  PROVE  StopInv'
<1>0. PICK f : f = events[1].thread
  OBVIOUS
<1> DEFINE e == [tag |-> "delete", thread |-> member]
<1>1. /\ events \in Seq(Event) /\ created \in Nat /\ created \in Thread
      /\ member \in 0 .. created
  BY DEF CoreInv, CoreTypeOK, Thread
<1>2. /\ events # << >> /\ gui = "loop" /\ member # 0 /\ member' = 0
      /\ events' = Append(Tail(events), e) /\ Next1.tag = "finished"
      /\ IF kind[Next1.thread] \in Runs THEN page' = "tabs" ELSE page' = page
      /\ UNCHANGED <<gui, created, kind, life, interrupt, asked>>
  BY DEF HandleFinished, Finished, Runs, threadVars, historyVars
<1>3. /\ Head(events) = events[1] /\ Len(events) \in Nat /\ Len(events) > 0
      /\ Tail(events) \in Seq(Event) /\ Len(Tail(events)) = Len(events) - 1
      /\ \A i \in 1 .. Len(Tail(events)) :
           Tail(events)[i] = events[i + 1] /\ i + 1 \in 1 .. Len(events)
  BY <1>1, <1>2, Taken
<1>4. Next1.thread = f /\ events[1].tag = "finished" /\ f \in Thread
  BY <1>0, <1>1, <1>2, <1>3, Named DEF Next1
<1>5. member \in Thread /\ member <= created
  BY <1>1, <1>2, ControllerAssumption DEF Thread
<1>6. e \in Event /\ e.tag = "delete" /\ e.thread = member
  BY <1>5 DEF Event
<1> HIDE DEF e
<1>7. /\ Len(events') = Len(events) /\ events'[Len(events)] = e
      /\ \A i \in 1 .. Len(events) - 1 : events'[i] = Tail(events)[i]
  BY <1>2, <1>3, <1>6, Posted
<1>8. \A i \in 1 .. Len(events') :
        \/ i + 1 \in 1 .. Len(events) /\ events'[i] = events[i + 1]
        \/ i = Len(events) /\ events'[i] = e
  <2>0. Len(events') = Len(events) /\ Len(events) \in Nat
    BY <1>3, <1>7
  <2>1. \A i \in 1 .. Len(events') : i \in 1 .. Len(events) - 1 \/ i = Len(events)
    BY <2>0
  <2>2. \A i \in 1 .. Len(events) - 1 : i \in 1 .. Len(Tail(events))
    BY <1>3
  <2>3. \A i \in 1 .. Len(events) - 1 :
          i + 1 \in 1 .. Len(events) /\ events'[i] = events[i + 1]
    BY <1>3, <1>7, <2>2
  <2> QED
    BY <1>7, <2>1, <2>3
<1>9. /\ Born /\ \A i \in 1 .. Len(events') : events'[i].tag = "finished" =>
                   i + 1 \in 1 .. Len(events) /\ events'[i] = events[i + 1]
      /\ \A i \in 1 .. Len(events') : events'[i].thread <= created
      /\ \A i \in 1 .. Len(events) : events[i].thread \in Thread
  <2>1. Born
    BY DEF StopInv
  <2>2. \A i \in 1 .. Len(events') : events'[i].tag = "finished" =>
          i + 1 \in 1 .. Len(events) /\ events'[i] = events[i + 1]
    BY <1>6, <1>8
  <2>3. \A i \in 1 .. Len(events') : events'[i].thread <= created
    BY <1>5, <1>6, <1>8 DEF StopInv, Born
  <2>4. \A i \in 1 .. Len(events) : events[i].thread \in Thread
    BY <1>1, Named
  <2> QED
    BY <2>1, <2>2, <2>3, <2>4
<1>10. Born' /\ (\A u : Reports(u)' => Reports(u)) /\ Asked' \subseteq Asked
  <2>1. \A t \in Thread : life'[t] = life[t]
    BY <1>2
  <2>2. Len(events') \in Nat /\ 1 \in {0, 1}
    BY <1>3, <1>7
  <2> QED
    BY <1>1, <1>2, <1>3, <1>9, <2>1, <2>2, NoNewLambda
<1>11. ~Reports(f)' /\ Reports(f) /\ life[f] # "running"
  <2>1. 1 \in 1 .. Len(events)
    BY <1>3
  <2>2. Reports(f) /\ life[f] # "running"
    BY <1>0, <1>4, <2>1 DEF Reports, StopInv, Born
  <2>3. \A i \in 1 .. Len(events') :
          ~(events'[i].tag = "finished" /\ events'[i].thread = f)
    <3> SUFFICES ASSUME NEW i \in 1 .. Len(events'), events'[i].tag = "finished",
                        events'[i].thread = f
                 PROVE  FALSE
      OBVIOUS
    <3>1. i + 1 \in 1 .. Len(events) /\ events[i + 1].tag = "finished"
          /\ events[i + 1].thread = f
      BY <1>9
    <3>2. events[1].thread = f
      BY <1>0
    <3>3. \A a, b \in 1 .. Len(events) :
            /\ events[a].tag = "finished" /\ events[b].tag = "finished"
            /\ events[a].thread = events[b].thread
            => a = b
      BY DEF StopInv, Born
    <3>4. i + 1 = 1
      BY <1>4, <2>1, <3>1, <3>2, <3>3, Zenon
    <3>5. i \in 1 .. Len(events)
      BY <1>7
    <3> QED
      BY <1>3, <3>4, <3>5
  <2> QED
    BY <2>2, <2>3 DEF Reports
<1>12. KindsOK' /\ page \in {"tabs", "realtime"}
  BY <1>2 DEF StopInv, KindsOK
<1>13. CASE kind[f] \in Runs
  <2>1. page = "realtime" /\ f = created /\ page' = "tabs"
    BY <1>2, <1>4, <1>11, <1>12, <1>13 DEF StopInv, Settled
  <2>2. Asked = {}
    BY <1>2, <1>11, <2>1 DEF StopInv, Heard, Asked, Running
  <2>3. Settled'
    <3>1. gui' = "loop" /\ page' = "tabs" /\ kind' = kind /\ life' = life
      BY <1>2, <2>1
    <3>2. \A u \in Thread : kind[u] \in Runs /\ u # f =>
            life[u] # "running" /\ ~Reports(u)'
      BY <1>10, <2>1 DEF StopInv, Settled
    <3>3. \A u \in Thread : kind[u] \in Runs => life[u] # "running" /\ ~Reports(u)'
      BY <1>11, <3>2
    <3> QED
      BY <3>1, <3>3 DEF Settled
  <2>4. Heard'
    BY <1>2, <1>10, <2>2 DEF Heard
  <2> QED
    BY <1>10, <1>12, <2>3, <2>4 DEF StopInv
<1>14. CASE kind[f] \notin Runs
  <2>1. page' = page
    BY <1>2, <1>4, <1>14
  <2>2. Settled'
    BY <1>2, <1>10, <2>1 DEF StopInv, Settled
  <2>3. Heard'
    BY <1>2, <1>10, <2>1 DEF StopInv, Heard
  <2> QED
    BY <1>10, <1>12, <2>2, <2>3 DEF StopInv
<1> QED
  BY <1>13, <1>14

(* What a new thread makes of the threads and their lambdas. *)
LEMMA CreateBorn ==
  ASSUME CoreInv, StopInv, created < Threads,
         NEW what \in {"run", "deps", "clear"}, NEW place, Create(what, place),
         UNCHANGED <<events, asked>>
  PROVE  /\ created' = created + 1 /\ created' \in Thread /\ member' = created'
         /\ kind' = [kind EXCEPT ![created'] = what]
         /\ kind' \in [Thread -> {"none", "enumerate", "run", "deps", "clear"}]
         /\ Born' /\ (\A u : Reports(u)' = Reports(u))
         /\ Asked' = Asked
         /\ \A u \in Thread : u # created' => life'[u] = life[u]
         /\ ~Reports(created')
<1>1. /\ events \in Seq(Event) /\ created \in Nat
      /\ life \in [Thread -> {"none", "running", "ended", "deleted"}]
      /\ kind \in [Thread -> {"none", "enumerate", "run", "deps", "clear"}]
  BY DEF CoreInv, CoreTypeOK, Thread, StopInv, KindsOK
<1>2. /\ created' = created + 1 /\ member' = created'
      /\ kind' = [kind EXCEPT ![created'] = what]
      /\ life' = [life EXCEPT ![created'] = "running"]
  BY DEF Create
<1>3. created + 1 \in Thread /\ created' \in Thread
  BY <1>1, <1>2, ControllerAssumption DEF Thread
<1>4. /\ \A u \in Thread : u # created' => life'[u] = life[u]
      /\ kind' \in [Thread -> {"none", "enumerate", "run", "deps", "clear"}]
  BY <1>1, <1>2, <1>3
<1>5. \A u : Reports(u)' = Reports(u)
  BY DEF Reports
<1>6. \A i \in 1 .. Len(events) : /\ events[i].thread \in Thread
                                  /\ events[i].thread <= created
                                  /\ events[i].thread # created'
  <2>1. \A i \in 1 .. Len(events) : events[i].thread \in Thread
    BY <1>1, Named
  <2>2. \A i \in 1 .. Len(events) : events[i].thread <= created
    BY DEF StopInv, Born
  <2>3. \A u \in Thread : u <= created => u # created'
    BY <1>1, <1>2 DEF Thread
  <2> QED
    BY <2>1, <2>2, <2>3
<1>7. ~Reports(created')
  BY <1>6 DEF Reports
<1>8. \A u \in Thread : u > created' => u > created /\ u # created'
  BY <1>1, <1>2 DEF Thread
<1>9. \A u \in Thread : u <= created => u <= created' /\ u # created'
  BY <1>1, <1>2 DEF Thread
<1>10. Born'
  <2>1. \A u \in Thread : u > created' => life'[u] = "none"
    BY <1>4, <1>8 DEF StopInv, Born
  <2>2. \A u \in asked' : u \in Thread /\ u <= created'
    BY <1>9 DEF StopInv, Born
  <2>3. \A i \in 1 .. Len(events') :
          /\ events'[i].thread <= created'
          /\ events'[i].tag = "finished" => life'[events'[i].thread] # "running"
    BY <1>4, <1>6, <1>9 DEF StopInv, Born
  <2> QED
    BY <2>1, <2>2, <2>3 DEF StopInv, Born
<1>11. Asked' = Asked
  <2>1. \A u \in asked : u \in Thread /\ u # created'
    BY <1>9 DEF StopInv, Born
  <2> QED
    BY <1>4, <2>1 DEF Asked, Running
<1> QED
  BY <1>2, <1>3, <1>4, <1>5, <1>7, <1>10, <1>11

(* RunBenchmark clears the interrupt when nobody is left that it was for. *)
LEMMA StartRunHeard ==
  ASSUME CoreInv, StopInv, StartRun
  PROVE  StopInv'
<1>1. /\ gui \in {"startWait", "depsWait"} /\ created < Threads
      /\ gui' = "loop" /\ page' = "realtime" /\ interrupt' = FALSE
      /\ UNCHANGED <<events, asked>>
  BY DEF StartRun, CoreInv, CoreTypeOK
<1>2. PICK what \in Runs : \E place \in {"call", "bench"} : Create(what, place)
  BY Zenon DEF StartRun, Runs
<1>3. PICK place \in {"call", "bench"} : Create(what, place)
  BY <1>2
<1>4. what \in {"run", "deps", "clear"}
  BY DEF Runs
<1>5. /\ created' = created + 1 /\ created' \in Thread /\ member' = created'
      /\ kind' = [kind EXCEPT ![created'] = what]
      /\ kind' \in [Thread -> {"none", "enumerate", "run", "deps", "clear"}]
      /\ Born' /\ (\A u : Reports(u)' = Reports(u))
      /\ Asked' = Asked
      /\ \A u \in Thread : u # created' => life'[u] = life[u]
  BY <1>1, <1>3, <1>4, CreateBorn
<1>6. page = "tabs" /\ Asked = {}
  BY <1>1 DEF StopInv, Settled, Heard
<1>7. kind'[created'] = what /\ \A u \in Thread : u # created' => kind'[u] = kind[u]
  BY <1>5 DEF StopInv, KindsOK
<1>8. Settled'
  BY <1>1, <1>5, <1>6, <1>7 DEF StopInv, Settled
<1>9. Heard' /\ KindsOK'
  BY <1>1, <1>5, <1>6 DEF Heard, KindsOK
<1> QED
  BY <1>5, <1>8, <1>9 DEF StopInv

(* ClearCache waits for the worker it asked to stop. *)
LEMMA StartClearHeard ==
  ASSUME CoreInv, StopInv, StartClear
  PROVE  StopInv'
<1>1. /\ gui = "clearWait" /\ created < Threads /\ ~Busy
      /\ gui' = "loop" /\ Create("clear", "clear")
      /\ UNCHANGED <<page, interrupt, events, asked>>
  BY DEF StartClear, CoreInv, CoreTypeOK
<1>2. /\ created' = created + 1 /\ created' \in Thread /\ member' = created'
      /\ kind' = [kind EXCEPT ![created'] = "clear"]
      /\ kind' \in [Thread -> {"none", "enumerate", "run", "deps", "clear"}]
      /\ Born' /\ (\A u : Reports(u)' = Reports(u))
      /\ Asked' = Asked
      /\ \A u \in Thread : u # created' => life'[u] = life[u]
  BY <1>1, CreateBorn
<1>3. page = "tabs"
  BY <1>1 DEF StopInv, Settled
<1>4. Asked = {}
  BY <1>1, ControllerAssumption DEF StopInv, Heard, Asked, Running, Busy, Thread
<1>5. kind'[created'] = "clear" /\ \A u \in Thread : u # created' => kind'[u] = kind[u]
  BY <1>2 DEF StopInv, KindsOK
<1>6. Settled'
  BY <1>1, <1>2, <1>3, <1>5 DEF StopInv, Settled, Runs
<1>7. Heard' /\ KindsOK'
  BY <1>1, <1>2, <1>3, <1>4 DEF Heard, KindsOK
<1> QED
  BY <1>2, <1>6, <1>7 DEF StopInv

(* The user asks the worker in the member, if it runs, to stop. *)
LEMMA AskHeard ==
  ASSUME CoreInv, StopInv, AskToStop, gui = "loop",
         \/ gui' = "loop" /\ page = "realtime"
         \/ gui' = "clearWait" /\ page = "tabs"
         \/ gui' = "quitWait",
         UNCHANGED <<page, member, created, kind, life, events>>
  PROVE  StopInv'
<1>1. /\ created \in Nat /\ member \in 0 .. created /\ created \in Thread
  BY DEF CoreInv, CoreTypeOK, Thread
<1>2. member # 0 => member \in Thread /\ member <= created
  BY <1>1, ControllerAssumption DEF Thread
<1>3. /\ interrupt' = (interrupt \/ Busy)
      /\ asked' = IF Busy THEN asked \cup {member} ELSE asked
  BY DEF AskToStop
<1>4. Running' = Running /\ (\A u : Reports(u)' = Reports(u)) /\ Runs = Runs
  BY DEF Running, Reports
<1>5. Born'
  <2>1. \A u \in asked' : u \in Thread /\ u <= created
    BY <1>2, <1>3 DEF StopInv, Born, Busy
  <2> QED
    BY <2>1 DEF StopInv, Born
<1>6. Asked' = Asked \/ (Busy /\ Asked' = Asked \cup {member})
  <2>1. CASE Busy
    <3>1. member \in Running
      BY <1>2, <2>1 DEF Busy, Running
    <3> QED
      BY <1>3, <1>4, <2>1, <3>1 DEF Asked
  <2>2. CASE ~Busy
    BY <1>3, <1>4, <2>2 DEF Asked
  <2> QED
    BY <2>1, <2>2
<1>7. Settled' /\ KindsOK'
  BY <1>4 DEF StopInv, Settled, KindsOK
<1>8. Heard'
  <2>1. Asked' # {} => interrupt'
    BY <1>3, <1>6 DEF StopInv, Heard
  <2>2. page = "realtime" /\ Busy => member = created
    BY DEF StopInv, Settled, Busy
  <2>3. gui' = "loop" => page = "realtime" /\ Asked' \subseteq {created}
    BY <1>6, <2>2 DEF StopInv, Heard
  <2>4. gui' = "clearWait" => Asked' \subseteq {member}
    BY <1>6 DEF StopInv, Heard
  <2> QED
    BY <2>1, <2>3, <2>4 DEF Heard
<1> QED
  BY <1>5, <1>7, <1>8 DEF StopInv

(* Every step of a worker. *)
LEMMA WorkerHeard ==
  ASSUME CoreInv, StopInv, NEW t \in Thread, Worker(t)
  PROVE  StopInv'
<1>1. CASE SizeDownloads(t) \/ FetchOne(t) \/ PrepareOne(t) \/ EndPreparing(t)
  BY <1>1, ApartStep DEF SizeDownloads, FetchOne, PrepareOne, EndPreparing, stopVars,
     userVars, historyVars
<1>2. CASE CollectOne(t) \/ BeginBenchmark(t) \/ NextConfig(t) \/ RunConfig(t)
           \/ ClearCache(t)
  BY <1>2, ApartStep DEF CollectOne, BeginBenchmark, NextConfig, RunConfig, ClearCache,
     stopVars, userVars, historyVars
<1>3. life[t] = "running" => t <= created
  BY DEF StopInv, Born, CoreInv, CoreTypeOK, Thread
<1>4. CASE CallPage(t) \/ EndCollecting(t)
  <2>1. /\ Post("call", t) /\ life[t] = "running"
        /\ UNCHANGED <<gui, page, member, created, kind, life, interrupt, asked>>
    BY <1>4 DEF CallPage, EndCollecting, At, userVars, historyVars
  <2> QED
    BY <1>3, <2>1, PostHeard
<1>5. CASE AskUser(t)
  <2>1. /\ Post("ask", t) /\ life[t] = "running"
        /\ UNCHANGED <<gui, page, member, created, kind, life, interrupt, asked>>
    BY <1>5 DEF AskUser, At, userVars, historyVars
  <2> QED
    BY <1>3, <2>1, PostHeard
<1>6. CASE EndThread(t)
  BY <1>6, EndHeard
<1> QED
  BY <1>1, <1>2, <1>4, <1>5, <1>6 DEF Worker

(* Every step of the GUI thread and of the user. *)
LEMMA GuiHeard ==
  ASSUME CoreInv, StopInv, Gui \/ User
  PROVE  StopInv'
<1>1. CASE StartRun
  BY <1>1, StartRunHeard
<1>2. CASE StartClear
  BY <1>2, StartClearHeard
<1>3. CASE Quit
  BY <1>3 DEF Quit, StopInv, KindsOK, Born, Settled, Heard, Reports, Asked, Running,
     threadVars, historyVars
<1>4. CASE AnswerDownload
  <2>1. /\ gui = "modal" /\ gui' = "loop"
        /\ UNCHANGED <<page, member, created, kind, life, events, interrupt, asked>>
    BY <1>4 DEF AnswerDownload, historyVars
  <2> QED
    BY <2>1 DEF StopInv, KindsOK, Born, Settled, Heard, Reports, Asked, Running
<1>5. CASE HandleFinished
  BY <1>5, FinishedHeard
<1>6. CASE HandleFinishedNull \/ DropFinished \/ HandleCall \/ HandleAsk
  <2>1. /\ events # << >> /\ events' = Tail(events) /\ gui = "loop"
        /\ gui' \in {"loop", "modal"}
        /\ UNCHANGED <<page, member, created, kind, life, interrupt, asked>>
    BY <1>6 DEF HandleFinishedNull, DropFinished, HandleCall, HandleAsk, userVars,
       threadVars, historyVars
  <2> QED
    BY <2>1, TakeHeard
<1>7. CASE HandleDelete
  BY <1>7, DeleteHeard
<1>8. CASE ClickStart
  <2>1. /\ gui = "loop" /\ page = "tabs" /\ gui' \in {"startWait", "depsWait"}
        /\ interrupt' = FALSE
        /\ UNCHANGED <<page, member, created, kind, life, events, asked>>
    BY <1>8 DEF ClickStart, threadVars, historyVars
  <2> QED
    BY <2>1 DEF StopInv, KindsOK, Born, Settled, Heard, Reports, Asked, Running
<1>9. CASE ClickCancel
  BY <1>9, AskHeard DEF ClickCancel, userVars, threadVars
<1>10. CASE ClickClear
  BY <1>10, AskHeard DEF ClickClear, threadVars
<1>11. CASE ClickQuit
  BY <1>11, AskHeard DEF ClickQuit, threadVars
<1> QED
  BY <1>1, <1>2, <1>3, <1>4, <1>5, <1>6, <1>7, <1>8, <1>9, <1>10, <1>11 DEF Gui, User

LEMMA StopInvariant == Spec => []StopInv
<1>1. ASSUME Init PROVE StopInv
  <2>1. /\ 1 \in Thread /\ asked = {} /\ page = "tabs" /\ gui = "loop" /\ created = 1
        /\ events = << >> /\ Len(events) = 0
        /\ kind = [t \in Thread |-> IF t = 1 THEN "enumerate" ELSE "none"]
        /\ life = [t \in Thread |-> IF t = 1 THEN "running" ELSE "none"]
    BY <1>1, ControllerAssumption DEF Init, Thread
  <2>2. KindsOK
    BY <2>1 DEF KindsOK
  <2>3. Born
    BY <2>1 DEF Born, Thread
  <2>4. Settled /\ Heard
    BY <2>1 DEF Settled, Runs, Heard, Asked
  <2> QED
    BY <2>2, <2>3, <2>4 DEF StopInv
<1>2. ASSUME CoreInv, StopInv, [Next]_vars PROVE StopInv'
  <2>1. CASE UNCHANGED vars
    BY <1>2, <2>1, ApartStep DEF vars, userVars, threadVars, historyVars, stopVars
  <2> QED
    BY <1>2, <2>1, WorkerHeard, GuiHeard DEF Next
<1> QED
  BY <1>1, <1>2, CoreInvariant, PTL DEF Spec

-----------------------------------------------------------------------------
(* The theorems *)

(* However many threads are created, the client destroys a running thread, *)
(* or runs a lambda without a thread, only after StartRun or StartClear    *)
(* has overwritten a member whose lambda had not run.                      *)
THEOREM CrashOnlyByOverlap == Spec => []CrashNeedsOverlap
<1>1. CoreInv => CrashNeedsOverlap
  BY DEF CoreInv, Orderly, CrashNeedsOverlap
<1> QED
  BY CoreInvariant, <1>1, PTL

(* However many threads are created, until that happens the thread in the  *)
(* member is the only one that runs, and none runs after ~AppController.   *)
THEOREM OneWorkerAtATime == Spec => []OneWorker
<1>1. CoreInv => OneWorker
  BY DEF CoreInv, CoreTypeOK, Orderly, OneWorker, Running, Thread
<1> QED
  BY CoreInvariant, <1>1, PTL

(* However many configurations there are: the entry that is looked up by   *)
(* the index of an EP is its own, unless an earlier configuration threw.   *)
THEOREM EntriesAreTheirOwn == Spec => []DevicesAreItsOwn
BY EnumerationInvariant, PTL DEF Enumeration

(* However many threads are created and however often the user asks: a     *)
(* worker that was asked to stop begins no further configuration, neither  *)
(* of the enumeration nor of a run, as the interrupt is not cleared before *)
(* it has ended.                                                           *)
THEOREM StopRequestsAreObeyed == Spec => StopIsObeyed
<1>1. ASSUME CoreInv, StopInv, Enumeration, [Next]_vars
      PROVE  [\A t \in asked \cap Running :
                /\ Len(prepared') > Len(prepared) => kind[t] # "enumerate"
                /\ ~(pc[t] = "next" /\ pc'[t] = "run")]_vars
  <2> SUFFICES ASSUME Next, NEW t \in Thread, t \in Asked
               PROVE  /\ ~(Len(prepared') > Len(prepared))
                      /\ ~(pc[t] = "next" /\ pc'[t] = "run")
    BY <1>1 DEF Asked, Running
  <2>1. interrupt /\ pc \in [Thread -> Place] /\ Len(prepared) \in Nat
    BY <1>1 DEF StopInv, Heard, Enumeration
  <2>2. ASSUME NEW u \in Thread, NEW place, place # "run", GoesTo(u, place)
        PROVE  ~(pc[t] = "next" /\ pc'[t] = "run")
    BY <2>1, <2>2 DEF GoesTo
  <2>3. ASSUME UNCHANGED pc PROVE ~(pc[t] = "next" /\ pc'[t] = "run")
    BY <2>3
  <2>4. ASSUME UNCHANGED prepared PROVE ~(Len(prepared') > Len(prepared))
    BY <2>1, <2>4
  <2>5. ASSUME NEW u \in Thread, Worker(u)
        PROVE  /\ ~(Len(prepared') > Len(prepared))
               /\ ~(pc[t] = "next" /\ pc'[t] = "run")
    <3>1. CASE SizeDownloads(u)
      <4>1. PICK place \in {"prepare", "fetch", "end"} : GoesTo(u, place)
        BY <3>1 DEF SizeDownloads
      <4> QED
        BY <2>2, <2>4, <3>1, <4>1 DEF SizeDownloads
    <3>2. CASE FetchOne(u)
      BY <2>2, <2>3, <2>4, <3>2 DEF FetchOne
    <3>3. CASE PrepareOne(u)
      BY <2>1, <3>3 DEF PrepareOne
    <3>4. CASE EndPreparing(u) \/ ClearCache(u) \/ BeginBenchmark(u)
      BY <2>2, <2>4, <3>4 DEF EndPreparing, ClearCache, BeginBenchmark
    <3>5. CASE CallPage(u) \/ EndCollecting(u) \/ AskUser(u)
      BY <2>2, <2>4, <3>5 DEF CallPage, EndCollecting, AskUser
    <3>6. CASE CollectOne(u) \/ EndThread(u)
      BY <2>3, <2>4, <3>6 DEF CollectOne, EndThread
    <3>7. CASE NextConfig(u)
      <4>1. GoesTo(u, "end")
        BY <2>1, <3>7 DEF NextConfig
      <4> QED
        BY <2>2, <2>4, <3>7, <4>1 DEF NextConfig
    <3>8. CASE RunConfig(u)
      BY <2>2, <2>4, <3>8 DEF RunConfig
    <3> QED
      BY <2>5, <3>1, <3>2, <3>3, <3>4, <3>5, <3>6, <3>7, <3>8 DEF Worker
  <2>6. ASSUME Gui \/ User
        PROVE  /\ ~(Len(prepared') > Len(prepared))
               /\ ~(pc[t] = "next" /\ pc'[t] = "run")
    <3>1. UNCHANGED prepared
      BY <2>6, Zenon DEF Gui, User, StartRun, StartClear, Quit, AnswerDownload,
         HandleFinished, HandleFinishedNull, DropFinished, HandleDelete, HandleCall,
         HandleAsk, ClickStart, ClickCancel, ClickClear, ClickQuit
    <3>2. created < Threads => created + 1 \in Thread
      BY <1>1, ControllerAssumption DEF CoreInv, CoreTypeOK, Thread
    <3>3. CASE StartRun
      <4>1. created < Threads
        BY <1>1, <3>3 DEF StartRun, CoreInv, CoreTypeOK
      <4>2. PICK place \in {"call", "bench"} : GoesTo(created + 1, place)
        BY <3>3 DEF StartRun, Create
      <4> QED
        BY <2>2, <2>4, <3>1, <3>2, <4>1, <4>2
    <3>4. CASE StartClear
      <4>1. created < Threads /\ GoesTo(created + 1, "clear")
        BY <1>1, <3>4 DEF StartClear, CoreInv, CoreTypeOK, Create
      <4> QED
        BY <2>2, <2>4, <3>1, <3>2, <4>1
    <3>5. CASE AnswerDownload
      <4>1. PICK u \in Thread, accepted \in BOOLEAN :
              GoesTo(u, IF accepted THEN "bench" ELSE "end")
        BY <3>5 DEF AnswerDownload
      <4> QED
        BY <2>2, <2>4, <3>1, <4>1
    <3>6. CASE HandleCall
      <4>1. Next1.thread \in Thread
        <5>1. events \in Seq(Event) /\ events # << >>
          BY <1>1, <3>6 DEF CoreInv, CoreTypeOK, HandleCall
        <5>2. Head(events) \in Event
          BY <5>1, Taken
        <5> QED
          BY <5>2 DEF Next1, Event
      <4>2. \E place : place # "run" /\ GoesTo(Next1.thread, place)
        <5>1. \/ GoesTo(Next1.thread, "collect") \/ GoesTo(Next1.thread, "bench")
              \/ GoesTo(Next1.thread, "ask") \/ GoesTo(Next1.thread, "end")
          BY <3>6 DEF HandleCall
        <5> QED
          BY <5>1
      <4> QED
        BY <2>2, <2>4, <3>1, <4>1, <4>2
    <3>7. CASE Quit \/ ClickStart \/ ClickCancel \/ ClickClear \/ ClickQuit
      BY <2>3, <2>4, <3>1, <3>7 DEF Quit, ClickStart, ClickCancel, ClickClear,
         ClickQuit, threadVars
    <3>8. CASE HandleFinished \/ HandleFinishedNull \/ DropFinished \/ HandleDelete
               \/ HandleAsk
      BY <2>3, <2>4, <3>1, <3>8 DEF HandleFinished, HandleFinishedNull, DropFinished,
         HandleDelete, HandleAsk, threadVars
    <3> QED
      BY <2>6, <3>3, <3>4, <3>5, <3>6, <3>7, <3>8 DEF Gui, User
  <2> QED
    BY <2>5, <2>6 DEF Next
<1> QED
  BY <1>1, CoreInvariant, StopInvariant, EnumerationInvariant, PTL DEF Spec, StopIsObeyed

-----------------------------------------------------------------------------
(* ResultsHistory: places in order *)

(* A set of numbers has a smallest one. *)
LEMMA SmallestExists ==
  ASSUME NEW S \in SUBSET Nat, S # {}
  PROVE  \E m \in S : \A k \in S : m <= k
<1>1. PICK m \in S : \A k \in S : <<k, m>> \notin OpToRel(<, Nat)
  BY NatLessThanWellFounded, WFMin
<1>2. \A k \in S : k \in Nat /\ m \in Nat /\ ~(k < m)
  BY <1>1 DEF OpToRel
<1> QED
  BY <1>2

(* No place comes before its number. *)
LEMMA PlacesAreAhead ==
  ASSUME NEW k \in Nat, NEW n \in Nat, NEW line \in [1 .. k -> 1 .. n],
         NEW places, InOrder(line, k, places)
  PROVE  \A a \in 1 .. k : a <= line[a]
<1> DEFINE behind == {a \in 1 .. k : line[a] < a}
<1> SUFFICES ASSUME behind # {} PROVE FALSE
  OBVIOUS
<1>1. behind \in SUBSET Nat
  OBVIOUS
<1>2. PICK a \in behind : \A b \in behind : a <= b
  <2> HIDE DEF behind
  <2> QED
    BY <1>1, SmallestExists
<1>3. a \in 1 .. k /\ line[a] \in 1 .. n /\ line[a] < a
  OBVIOUS
<1>4. a - 1 \in 1 .. k /\ a - 1 < a
  BY <1>3
<1>5. line[a - 1] < line[a] /\ line[a - 1] \in 1 .. n
  BY <1>3, <1>4 DEF InOrder
<1>6. a - 1 \in behind
  BY <1>3, <1>4, <1>5
<1> QED
  BY <1>2, <1>3, <1>4, <1>6

(* If all places up to r are taken, each is that of its own number. *)
LEMMA FirstPlacesAreTheirOwn ==
  ASSUME NEW k \in Nat, NEW n \in Nat, NEW line \in [1 .. k -> 1 .. n],
         NEW places, InOrder(line, k, places)
  PROVE  \A r \in Nat : 1 .. r \subseteq places =>
           \A i \in 1 .. r : i \in 1 .. k /\ line[i] = i
<1> SUFFICES ASSUME NEW r \in Nat, 1 .. r \subseteq places
             PROVE  \A i \in 1 .. r : i \in 1 .. k /\ line[i] = i
  OBVIOUS
<1> DEFINE off == {i \in 1 .. r : ~(i \in 1 .. k /\ line[i] = i)}
<1> SUFFICES ASSUME off # {} PROVE FALSE
  OBVIOUS
<1>1. off \in SUBSET Nat
  OBVIOUS
<1>2. PICK i \in off : \A j \in off : i <= j
  <2> HIDE DEF off
  <2> QED
    BY <1>1, SmallestExists
<1>3. i \in 1 .. r /\ ~(i \in 1 .. k /\ line[i] = i)
  OBVIOUS
<1>4. PICK a \in 1 .. k : line[a] = i
  BY <1>3 DEF InOrder
<1>5. a <= i /\ a # i
  BY <1>3, <1>4, PlacesAreAhead
<1>6. a \in 1 .. r /\ line[a] # a
  BY <1>3, <1>4, <1>5
<1>7. a \in off
  BY <1>6
<1> QED
  BY <1>2, <1>3, <1>5, <1>7

(* One more place, after all others. *)
LEMMA OneMorePlace ==
  ASSUME NEW k \in Nat, NEW n \in Nat, NEW line \in [1 .. k -> 1 .. n],
         NEW places, InOrder(line, k, places)
  PROVE  LET longer == [a \in 1 .. k + 1 |-> IF a = k + 1 THEN n + 1 ELSE line[a]] IN
         /\ longer \in [1 .. k + 1 -> 1 .. n + 1]
         /\ InOrder(longer, k + 1, places \cup {n + 1})
<1> DEFINE longer == [a \in 1 .. k + 1 |-> IF a = k + 1 THEN n + 1 ELSE line[a]]
<1>1. \A a \in 1 .. k + 1 : a \in 1 .. k \/ a = k + 1
  OBVIOUS
<1>2. k + 1 \in 1 .. k + 1 /\ k + 1 \notin 1 .. k /\ \A a \in 1 .. k : a \in 1 .. k + 1
  OBVIOUS
<1>3. longer[k + 1] = n + 1 /\ \A a \in 1 .. k : longer[a] = line[a] /\ line[a] \in 1 .. n
  BY <1>2
<1>4. longer \in [1 .. k + 1 -> 1 .. n + 1]
  BY <1>1, <1>3
<1> HIDE DEF longer
<1>5. \A a, b \in 1 .. k + 1 : a < b => longer[a] < longer[b]
  <2> SUFFICES ASSUME NEW a \in 1 .. k + 1, NEW b \in 1 .. k + 1, a < b
               PROVE  longer[a] < longer[b]
    OBVIOUS
  <2>1. a \in 1 .. k
    OBVIOUS
  <2>2. CASE b = k + 1
    <3>1. longer[a] \in 1 .. n
      BY <2>1, <1>3
    <3> QED
      BY <3>1, <1>3, <2>2
  <2>3. CASE b \in 1 .. k
    BY <2>1, <2>3, <1>3 DEF InOrder
  <2> QED
    BY <1>1, <2>2, <2>3
<1>6. {longer[a] : a \in 1 .. k + 1} = places \cup {n + 1}
  BY <1>1, <1>2, <1>3 DEF InOrder
<1> QED
  BY <1>4, <1>5, <1>6 DEF InOrder, longer

(* shorter is line without its place r. *)
IsWithout(shorter, line, k, r) ==
  \A a \in 1 .. k - 1 : shorter[a] = IF a < r THEN line[a] ELSE line[a + 1]

OneLess(line, k, n, r, places) ==
  \E shorter \in [1 .. k - 1 -> 1 .. n] :
    InOrder(shorter, k - 1, places \ {line[r]}) /\ IsWithout(shorter, line, k, r)

(* One place less. *)
LEMMA OnePlaceLess ==
  ASSUME NEW k \in Nat, NEW n \in Nat, NEW line \in [1 .. k -> 1 .. n],
         NEW places, InOrder(line, k, places)
  PROVE  \A r \in 1 .. k : OneLess(line, k, n, r, places)
<1> SUFFICES ASSUME NEW r \in 1 .. k
             PROVE  \E shorter \in [1 .. k - 1 -> 1 .. n] :
                      /\ InOrder(shorter, k - 1, places \ {line[r]})
                      /\ \A a \in 1 .. k - 1 :
                           shorter[a] = IF a < r THEN line[a] ELSE line[a + 1]
  BY DEF OneLess, IsWithout
<1> DEFINE shorter == [a \in 1 .. k - 1 |-> IF a < r THEN line[a] ELSE line[a + 1]]
           at(a) == IF a < r THEN a ELSE a + 1
<1>1. \A a \in 1 .. k - 1 : at(a) \in 1 .. k /\ at(a) # r /\ shorter[a] = line[at(a)]
  OBVIOUS
<1>2. \A a, b \in 1 .. k - 1 : a < b => at(a) < at(b)
  OBVIOUS
<1>3. \A b \in 1 .. k : b # r => \E a \in 1 .. k - 1 : at(a) = b
  <2> SUFFICES ASSUME NEW b \in 1 .. k, b # r PROVE \E a \in 1 .. k - 1 : at(a) = b
    OBVIOUS
  <2>1. CASE b < r
    <3>1. b \in 1 .. k - 1
      BY <2>1
    <3> QED
      BY <2>1, <3>1
  <2>2. CASE b > r
    <3>1. b - 1 \in 1 .. k - 1 /\ ~(b - 1 < r) /\ (b - 1) + 1 = b
      BY <2>2
    <3>2. at(b - 1) = b
      BY <3>1
    <3> QED
      BY <3>1, <3>2
  <2> QED
    BY <2>1, <2>2
<1>4. /\ shorter \in [1 .. k - 1 -> 1 .. n]
      /\ \A a \in 1 .. k - 1 : shorter[a] = IF a < r THEN line[a] ELSE line[a + 1]
  BY <1>1
<1> HIDE DEF shorter, at
<1>5. \A a, b \in 1 .. k - 1 : a < b => shorter[a] < shorter[b]
  BY <1>1, <1>2 DEF InOrder
<1>6. \A a, b \in 1 .. k : a # b => line[a] # line[b]
  <2> SUFFICES ASSUME NEW a \in 1 .. k, NEW b \in 1 .. k, a # b PROVE line[a] # line[b]
    OBVIOUS
  <2>1. a < b \/ b < a
    OBVIOUS
  <2>2. line[a] \in 1 .. n /\ line[b] \in 1 .. n
    OBVIOUS
  <2> QED
    BY <2>1, <2>2 DEF InOrder
<1>7. {shorter[a] : a \in 1 .. k - 1} = places \ {line[r]}
  <2>1. \A a \in 1 .. k - 1 : shorter[a] \in places \ {line[r]}
    BY <1>1, <1>6 DEF InOrder
  <2>2. ASSUME NEW p \in places, p # line[r]
        PROVE  \E a \in 1 .. k - 1 : shorter[a] = p
    <3>1. PICK b \in 1 .. k : line[b] = p
      BY DEF InOrder
    <3> QED
      BY <2>2, <3>1, <1>1, <1>3
  <2> QED
    BY <2>1, <2>2
<1> QED
  BY <1>4, <1>5, <1>7 DEF InOrder

(* The places of line, as numbers of those of copy. *)
IsThrough(back, copy, line, k) == \A a \in 1 .. k : copy[back[a]] = line[a]

Through(copy, m, line, k, places) ==
  \E back \in [1 .. k -> 1 .. m] :
    /\ InOrder(back, k, {b \in 1 .. m : copy[b] \in places})
    /\ IsThrough(back, copy, line, k)

(* Places among places. *)
LEMMA PlacesAmongPlaces ==
  ASSUME NEW k \in Nat, NEW m \in Nat, NEW n \in Nat,
         NEW copy \in [1 .. m -> 1 .. n], NEW kept, InOrder(copy, m, kept)
  PROVE  \A line \in [1 .. k -> 1 .. n], places \in SUBSET kept :
           InOrder(line, k, places) => Through(copy, m, line, k, places)
<1> SUFFICES ASSUME NEW line \in [1 .. k -> 1 .. n], NEW places \in SUBSET kept,
                    InOrder(line, k, places)
             PROVE  \E back \in [1 .. k -> 1 .. m] :
                      /\ InOrder(back, k, {b \in 1 .. m : copy[b] \in places})
                      /\ \A a \in 1 .. k : copy[back[a]] = line[a]
  BY DEF Through, IsThrough
<1> DEFINE back == [a \in 1 .. k |-> CHOOSE b \in 1 .. m : copy[b] = line[a]]
<1>1. ASSUME NEW a \in 1 .. k
      PROVE  back[a] \in 1 .. m /\ copy[back[a]] = line[a]
  <2>1. line[a] \in kept
    BY DEF InOrder
  <2>2. \E b \in 1 .. m : copy[b] = line[a]
    BY <2>1 DEF InOrder
  <2> QED
    BY <2>2
<1>2. back \in [1 .. k -> 1 .. m]
  BY <1>1
<1> HIDE DEF back
<1>3. ASSUME NEW a \in 1 .. k, NEW b \in 1 .. k, a < b
      PROVE  back[a] < back[b]
  <2>1. line[a] < line[b] /\ line[a] \in 1 .. n /\ line[b] \in 1 .. n
    BY <1>3 DEF InOrder
  <2>2. copy[back[a]] < copy[back[b]] /\ back[a] \in 1 .. m /\ back[b] \in 1 .. m
    BY <2>1, <1>1
  <2>3. ~(copy[back[b]] < copy[back[a]]) /\ back[a] # back[b]
    BY <2>1, <1>1
  <2>4. ~(back[b] < back[a])
    BY <2>2, <2>3 DEF InOrder
  <2> QED
    BY <2>2, <2>3, <2>4
<1>4. {back[a] : a \in 1 .. k} = {b \in 1 .. m : copy[b] \in places}
  <2>1. \A a \in 1 .. k : back[a] \in 1 .. m /\ copy[back[a]] \in places
    BY <1>1 DEF InOrder
  <2>2. ASSUME NEW b \in 1 .. m, copy[b] \in places
        PROVE  \E a \in 1 .. k : back[a] = b
    <3>1. PICK a \in 1 .. k : line[a] = copy[b]
      BY <2>2 DEF InOrder
    <3>2. copy[back[a]] = copy[b] /\ back[a] \in 1 .. m /\ copy[b] \in 1 .. n
      BY <3>1, <1>1
    <3>3. ~(back[a] < b) /\ ~(b < back[a])
      BY <3>2 DEF InOrder
    <3> QED
      BY <3>2, <3>3
  <2> QED
    BY <2>1, <2>2
<1> QED
  BY <1>1, <1>2, <1>3, <1>4 DEF InOrder

-----------------------------------------------------------------------------
(* ResultsHistory: the inductive invariant *)

HistoryTypes ==
  /\ file \in Seq(Line) /\ lines \in Seq(Line)
  /\ open \in BOOLEAN
  /\ phase \in {"down", "loading", "idle", "running", "erasing", "read", "writing"}
  /\ shown \in Seq(Result)
  /\ rows \in SUBSET Nat /\ left \in SUBSET (1 .. Len(shown))
  /\ stored \in 0 .. MaxResults
  /\ open => file # << >>

(* A line that parses is one result. *)
OneResult(f) == \A i \in 1 .. Len(f) : f[i].parses => \E id \in Result : f[i].ids = {id}

(* The lines before those of the rows all have rows. *)
RowsAreLines ==
  \A r \in rows : r \in 1 .. Len(file) /\ \A i \in 1 .. r : file[i].parses

(* Where the loops are. *)
Loops ==
  /\ phase = "loading" => next \in 1 .. Len(file) + 1
  /\ phase = "writing" => next \in 1 .. Len(lines) + 1
  /\ phase \notin {"loading", "writing"} => next = 1
  /\ phase = "read" => lines = file
  /\ phase # "erasing" => left = {}

(* What is written so far are the lines before the loop's, without those to *)
(* delete.                                                                  *)
Copied ==
  phase = "writing" =>
    \E line \in [1 .. Len(file) -> 1 .. next - 1] :
      /\ InOrder(line, Len(file), {j \in 1 .. next - 1 : j \notin rows})
      /\ \A a \in 1 .. Len(file) : file[a] = lines[line[a]]

(* The page against the lines, at each place of a load and of a deletion.  *)
PageAgrees ==
  "stale" \notin damage =>
    /\ phase = "loading" => Lists(shown, file, next - 1, {})
    /\ phase = "idle" => Lists(shown, file, Len(file), {})
    /\ phase = "erasing" =>
         /\ Lists(shown, file, Len(file), rows \ left)
         /\ left \subseteq rows /\ RowsAreLines
         /\ \A q \in rows \ left, r \in left : r < q
    /\ phase = "read" => Lists(shown, file, Len(file), rows)
    /\ phase = "writing" => Lists(shown, lines, Len(lines), rows)

(* A result that was not selected is in the file or still to be written.   *)
NoOtherLost ==
  damage \cap {"shifted", "rewrite"} = {} =>
    /\ \A r \in 1 .. stored :
         r \notin selected =>
           \/ \E i \in 1 .. Len(file) : r \in file[i].ids
           \/ phase = "writing" /\ \E k \in next .. Len(lines) :
                                     k \notin rows /\ r \in lines[k].ids
    /\ phase \in {"erasing", "read"} =>
         \A k \in rows : k \in 1 .. Len(file) => file[k].ids \subseteq selected

HistoryInv ==
  /\ HistoryTypes
  /\ OneResult(file) /\ OneResult(lines)
  /\ Loops
  /\ Copied
  /\ PageAgrees
  /\ NoOtherLost

-----------------------------------------------------------------------------
(* What the operations on sequences do *)

(* A result goes to the end of the file, and nothing goes from it. *)
LEMMA ExtendedFile ==
  ASSUME file \in Seq(Line), OneResult(file), open => file # << >>,
         NEW r \in Result, NEW whole \in BOOLEAN
  PROVE  LET f == Extended(file, [ids |-> {r}, parses |-> whole]) IN
         /\ f \in Seq(Line) /\ f # << >> /\ OneResult(f)
         /\ \A i \in 1 .. Len(file) : i \in 1 .. Len(f) /\ file[i].ids \subseteq f[i].ids
         /\ \E i \in 1 .. Len(f) : r \in f[i].ids
<1> DEFINE line == [ids |-> {r}, parses |-> whole]
           f == Extended(file, line)
           torn == [ids |-> Last(file).ids \cup line.ids, parses |-> FALSE]
<1>1. line \in Line /\ r \in line.ids
  BY DEF Line
<1>2. CASE ~open
  <2>1. f = Append(file, line)
    BY <1>2 DEF Extended
  <2> HIDE DEF line
  <2>2. /\ f \in Seq(Line) /\ Len(f) = Len(file) + 1 /\ f[Len(file) + 1] = line
        /\ \A i \in 1 .. Len(file) : f[i] = file[i] /\ i \in 1 .. Len(f)
        /\ f # << >> /\ Len(f) \in 1 .. Len(f)
    BY <1>1, <2>1
  <2> HIDE DEF f
  <2>3. \A i \in 1 .. Len(f) : i \in 1 .. Len(file) \/ i = Len(file) + 1
    BY <2>2
  <2>4. line.parses => \E id \in Result : line.ids = {id}
    BY DEF line
  <2>5. OneResult(f)
    BY <2>2, <2>3, <2>4 DEF OneResult
  <2>6. \E i \in 1 .. Len(f) : r \in f[i].ids
    BY <1>1, <2>2
  <2> QED
    BY <2>2, <2>5, <2>6 DEF f, line
<1>3. CASE open
  <2>1. f = Append(Front(file), torn)
    BY <1>3 DEF Extended
  <2>2. Len(file) \in Nat /\ Len(file) > 0 /\ Last(file) = file[Len(file)]
        /\ Last(file) \in Line
    BY <1>3 DEF Last
  <2>3. torn \in Line /\ ~torn.parses /\ Last(file).ids \subseteq torn.ids /\ r \in torn.ids
    BY <1>1, <2>2 DEF Line
  <2>4. /\ Front(file) \in Seq(Line) /\ Len(Front(file)) = Len(file) - 1
        /\ \A i \in 1 .. Len(file) - 1 : Front(file)[i] = file[i]
    <3>1. Front(file) = SubSeq(file, 1, Len(file) - 1)
      BY DEF Front
    <3>2. \A n \in 1 .. Len(file) :
            /\ SubSeq(file, 1, n - 1) \in Seq(Line) /\ Len(SubSeq(file, 1, n - 1)) = n - 1
            /\ \A i \in 1 .. n - 1 : SubSeq(file, 1, n - 1)[i] = file[i]
      OBVIOUS
    <3>3. Len(file) \in 1 .. Len(file)
      BY <2>2
    <3> QED
      BY <3>1, <3>2, <3>3
  <2> HIDE DEF torn, line
  <2>5. /\ f \in Seq(Line) /\ Len(f) = Len(file) /\ f[Len(file)] = torn /\ f # << >>
        /\ \A i \in 1 .. Len(file) - 1 : f[i] = file[i]
    BY <2>1, <2>2, <2>3, <2>4
  <2> HIDE DEF f
  <2>6. \A i \in 1 .. Len(file) : i \in 1 .. Len(file) - 1 \/ i = Len(file)
    BY <2>2
  <2>7. OneResult(f)
    BY <2>3, <2>5, <2>6 DEF OneResult
  <2>8. \A i \in 1 .. Len(file) : file[i].ids \subseteq f[i].ids
    BY <2>2, <2>3, <2>5, <2>6
  <2>9. \E i \in 1 .. Len(f) : r \in f[i].ids
    BY <2>2, <2>3, <2>5
  <2> QED
    BY <2>5, <2>7, <2>8, <2>9 DEF f, line
<1> QED
  BY <1>2, <1>3

(* A line goes to the end of the file that is being rewritten. *)
LEMMA AppendedLine ==
  ASSUME file \in Seq(Line), OneResult(file), NEW line \in Line,
         line.parses => \E id \in Result : line.ids = {id}
  PROVE  LET f == Append(file, line) IN
         /\ f \in Seq(Line) /\ f # << >> /\ OneResult(f)
         /\ Len(f) = Len(file) + 1 /\ f[Len(f)] = line
         /\ \A i \in 1 .. Len(file) : i \in 1 .. Len(f) /\ f[i] = file[i]
<1> DEFINE f == Append(file, line)
<1>1. /\ f \in Seq(Line) /\ Len(f) = Len(file) + 1 /\ f[Len(f)] = line
      /\ \A i \in 1 .. Len(file) : f[i] = file[i] /\ i \in 1 .. Len(f)
      /\ f # << >>
  OBVIOUS
<1>2. \A i \in 1 .. Len(f) : i \in 1 .. Len(file) \/ i = Len(f)
  BY <1>1
<1> HIDE DEF f
<1>3. OneResult(f)
  BY <1>1, <1>2 DEF OneResult
<1> QED
  BY <1>1, <1>3 DEF f

(* A row is erased. *)
LEMMA ErasedRow ==
  ASSUME NEW s \in Seq(Result), NEW r \in 1 .. Len(s)
  PROVE  /\ RemoveAt(s, r) \in Seq(Result) /\ Len(RemoveAt(s, r)) = Len(s) - 1
         /\ \A a \in 1 .. Len(s) - 1 :
              RemoveAt(s, r)[a] = IF a < r THEN s[a] ELSE s[a + 1]
<1> DEFINE before == SubSeq(s, 1, r - 1)
           after == SubSeq(s, r + 1, Len(s))
<1>1. /\ before \in Seq(Result) /\ Len(before) = r - 1
      /\ \A a \in 1 .. r - 1 : before[a] = s[a]
  OBVIOUS
<1>2. /\ after \in Seq(Result) /\ Len(after) = Len(s) - r
      /\ \A a \in 1 .. Len(s) - r : after[a] = s[r + a]
  OBVIOUS
<1>3. RemoveAt(s, r) = before \o after
  BY DEF RemoveAt
<1> HIDE DEF before, after
<1>4. RemoveAt(s, r) \in Seq(Result) /\ Len(RemoveAt(s, r)) = Len(s) - 1
  BY <1>1, <1>2, <1>3
<1>5. ASSUME NEW a \in 1 .. Len(s) - 1
      PROVE  RemoveAt(s, r)[a] = IF a < r THEN s[a] ELSE s[a + 1]
  <2>1. CASE a < r
    BY <1>1, <1>2, <1>3, <2>1
  <2>2. CASE ~(a < r)
    <3>1. a - (r - 1) \in 1 .. Len(s) - r /\ r + (a - (r - 1)) = a + 1
      BY <2>2
    <3>2. (before \o after)[a] = after[a - (r - 1)]
      BY <1>1, <1>2, <2>2
    <3> QED
      BY <1>2, <1>3, <2>2, <3>1, <3>2
  <2> QED
    BY <2>1, <2>2
<1> QED
  BY <1>4, <1>5

(* The result of a line that parses. *)
LEMMA TheResult ==
  ASSUME NEW f, OneResult(f), NEW i \in 1 .. Len(f), f[i].parses
  PROVE  IdOf(f[i]) \in Result /\ f[i].ids = {IdOf(f[i])}
<1>1. PICK id \in Result : f[i].ids = {id}
  BY DEF OneResult
<1> QED
  BY <1>1 DEF IdOf

-----------------------------------------------------------------------------
(* Steps: types, lines and loops *)

LEMMA AppendKeepsLines ==
  ASSUME HistoryInv, AppendBenchmarkResult \/ CrashInAppend
  PROVE  /\ stored' = stored + 1 /\ stored + 1 \in Result
         /\ file' \in Seq(Line) /\ file' # << >> /\ OneResult(file')
         /\ \A i \in 1 .. Len(file) : i \in 1 .. Len(file') /\ file[i].ids \subseteq file'[i].ids
         /\ \E i \in 1 .. Len(file') : stored + 1 \in file'[i].ids
<1>1. stored' = stored + 1 /\ stored \in 0 .. MaxResults /\ stored < MaxResults /\ MaxResults \in Nat
  BY HistoryAssumption DEF HistoryInv, HistoryTypes, AppendBenchmarkResult, CrashInAppend
<1>2. stored + 1 \in Result
  BY <1>1 DEF Result
<1>3. PICK whole \in BOOLEAN : file' = Extended(file, [ids |-> {stored + 1}, parses |-> whole])
  BY DEF AppendBenchmarkResult, CrashInAppend
<1> QED
  BY <1>1, <1>2, <1>3, ExtendedFile DEF HistoryInv, HistoryTypes

LEMMA HistoryTypesKept ==
  ASSUME HistoryInv, [HistoryNext]_resultsVars
  PROVE  HistoryTypes' /\ OneResult(file)' /\ OneResult(lines)' /\ Loops'
<1>1. HistoryTypes /\ OneResult(file) /\ OneResult(lines) /\ Loops /\ MaxResults \in Nat
  BY HistoryAssumption DEF HistoryInv
<1>2. OneResult(<< >>) /\ << >> \in Seq(Line) /\ << >> \in Seq(Result) /\ Len(<< >>) = 0
  BY DEF OneResult
<1>3. CASE AppendBenchmarkResult \/ CrashInAppend
  <2>1. stored' \in 0 .. MaxResults
    BY <1>1, <1>3, AppendKeepsLines DEF Result
  <2> QED
    BY <1>1, <1>3, <2>1, AppendKeepsLines
    DEF AppendBenchmarkResult, CrashInAppend, HistoryTypes, Loops, OneResult, pageVars
<1>4. CASE LoadHistory \/ LoadFails \/ EndLoad \/ Close
  <2>1. Len(file) \in Nat /\ 1 \in 1 .. Len(file) + 1
    BY <1>1 DEF HistoryTypes
  <2>2. left = {} /\ left' = left /\ left' \in SUBSET (1 .. Len(shown'))
    BY <1>1, <1>4 DEF LoadHistory, LoadFails, EndLoad, Close, Loops, pageVars
  <2>3. UNCHANGED <<file, open, rows, lines, stored>>
    BY <1>4 DEF LoadHistory, LoadFails, EndLoad, Close, pageVars
  <2>4. shown' \in Seq(Result) /\ phase' \in {"down", "loading", "idle"}
    BY <1>1, <1>2, <1>4 DEF LoadHistory, LoadFails, EndLoad, Close, HistoryTypes, pageVars
  <2>5. next' = 1
    BY <1>1, <1>4 DEF LoadHistory, LoadFails, EndLoad, Close, Loops
  <2>6. HistoryTypes'
    BY <1>1, <2>2, <2>3, <2>4 DEF HistoryTypes
  <2>7. OneResult(file)' /\ OneResult(lines)'
    BY <1>1, <2>3 DEF OneResult
  <2>8. Loops'
    BY <1>1, <2>1, <2>2, <2>3, <2>4, <2>5 DEF Loops
  <2> QED
    BY <2>6, <2>7, <2>8
<1>5. CASE ReadLine
  <2>1. next \in 1 .. Len(file) /\ next + 1 \in 1 .. Len(file) + 1
    BY <1>1, <1>5 DEF ReadLine, Loops, HistoryTypes
  <2>2. shown' \in Seq(Result) /\ left = {}
    BY <1>1, <1>5, <2>1, TheResult DEF ReadLine, HistoryTypes, Loops
  <2> QED
    BY <1>1, <1>5, <2>1, <2>2 DEF ReadLine, HistoryTypes, Loops, OneResult
<1>6. CASE DeleteRows
  <2>1. rows' \in SUBSET Nat /\ left' \in SUBSET (1 .. Len(shown))
    BY <1>1, <1>6 DEF DeleteRows, HistoryTypes
  <2> QED
    BY <1>1, <1>6, <2>1 DEF DeleteRows, HistoryTypes, Loops, OneResult
<1>7. CASE EraseRow
  <2>1. PICK r \in left : /\ \A q \in left : q <= r
                          /\ shown' = RemoveAt(shown, r) /\ left' = left \ {r}
    BY <1>7 DEF EraseRow
  <2>2. r \in 1 .. Len(shown) /\ left \in SUBSET (1 .. Len(shown)) /\ shown \in Seq(Result)
    BY <1>1 DEF HistoryTypes
  <2>3. shown' \in Seq(Result) /\ Len(shown') = Len(shown) - 1
    BY <2>1, <2>2, ErasedRow
  <2>4. left' \in SUBSET (1 .. Len(shown'))
    BY <2>1, <2>2, <2>3
  <2> QED
    BY <1>1, <1>7, <2>3, <2>4 DEF EraseRow, HistoryTypes, Loops, OneResult
<1>8. CASE ReadLines
  BY <1>1, <1>8 DEF ReadLines, AllErased, HistoryTypes, Loops, OneResult, pageVars
<1>9. CASE OpenFails
  BY <1>1, <1>2, <1>9 DEF OpenFails, AllErased, HistoryTypes, Loops, OneResult
<1>10. CASE Truncate
  <2>1. next = 1 /\ Len(lines) \in Nat
    BY <1>1, <1>10 DEF Truncate, Loops, HistoryTypes
  <2>2. next \in 1 .. Len(lines) + 1
    BY <2>1
  <2> QED
    BY <1>1, <1>2, <1>10, <2>2 DEF Truncate, HistoryTypes, Loops, OneResult, pageVars
<1>11. CASE WriteLine
  <2>1. next \in 1 .. Len(lines) /\ next + 1 \in 1 .. Len(lines) + 1
    BY <1>1, <1>11 DEF WriteLine, Loops, HistoryTypes
  <2>2. lines[next] \in Line /\ (lines[next].parses => \E id \in Result : lines[next].ids = {id})
    <3>1. lines \in Seq(Line) /\ OneResult(lines)
      BY <1>1 DEF HistoryTypes
    <3> QED
      BY <2>1, <3>1 DEF OneResult
  <2>3. file' \in Seq(Line) /\ OneResult(file') /\ (file # << >> => file' # << >>)
    BY <1>1, <1>11, <2>2, AppendedLine DEF WriteLine, HistoryTypes
  <2> QED
    BY <1>1, <1>11, <2>1, <2>3 DEF WriteLine, HistoryTypes, Loops, OneResult, pageVars
<1>12. CASE EndDelete
  BY <1>1, <1>2, <1>12 DEF EndDelete, DeletionEnds, HistoryTypes, Loops, OneResult
<1>13. CASE CrashInDelete
  <2>1. file' \in Seq(Line) /\ OneResult(file') /\ (open' => file' # << >>) /\ open' \in BOOLEAN
    <3>1. CASE UNCHANGED <<file, open>>
      BY <1>1, <3>1 DEF HistoryTypes
    <3>2. CASE ~UNCHANGED <<file, open>>
      <4>1. PICK whole \in BOOLEAN :
              /\ phase = "writing" /\ next \in ToWrite /\ open' = TRUE
              /\ file' = Append(file, [lines[next] EXCEPT !.parses = @ /\ whole])
        BY <1>13, <3>2 DEF CrashInDelete
      <4> DEFINE line == [lines[next] EXCEPT !.parses = @ /\ whole]
      <4>2. next \in 1 .. Len(lines)
        BY <1>1, <4>1 DEF ToWrite, Loops, HistoryTypes
      <4>3. lines[next] \in Line /\ (lines[next].parses => \E id \in Result : lines[next].ids = {id})
        BY <1>1, <4>2 DEF HistoryTypes, OneResult
      <4>4. line \in Line /\ line.ids = lines[next].ids /\ (line.parses => lines[next].parses)
        BY <4>3 DEF Line
      <4> HIDE DEF line
      <4>5. file' = Append(file, line)
        BY <4>1 DEF line
      <4> QED
        BY <1>1, <4>1, <4>3, <4>4, <4>5, AppendedLine DEF HistoryTypes
    <3> QED
      BY <3>1, <3>2
  <2> QED
    BY <1>1, <1>2, <1>13, <2>1
    DEF CrashInDelete, DeletionEnds, HistoryTypes, Loops, OneResult
<1>14. CASE UNCHANGED resultsVars
  BY <1>1, <1>14 DEF resultsVars, pageVars, HistoryTypes, Loops, OneResult
<1> QED
  BY <1>3, <1>4, <1>5, <1>6, <1>7, <1>8, <1>9, <1>10, <1>11, <1>12, <1>13, <1>14
  DEF HistoryNext

-----------------------------------------------------------------------------
(* Steps: what is copied, and the page *)

(* Of no lines there are no results, and no copy. *)
LEMMA NoPlaces ==
  ASSUME NEW places, places = {}
  PROVE  [a \in 1 .. 0 |-> a] \in [1 .. 0 -> 1 .. 0] /\ InOrder([a \in 1 .. 0 |-> a], 0, places)
  BY DEF InOrder

LEMMA CopiedKept ==
  ASSUME HistoryInv, [HistoryNext]_resultsVars
  PROVE  Copied'
<1>1. HistoryTypes /\ Loops /\ Copied
  BY DEF HistoryInv
<1> SUFFICES ASSUME phase' = "writing"
             PROVE  \E line \in [1 .. Len(file') -> 1 .. next' - 1] :
                      /\ InOrder(line, Len(file'), {j \in 1 .. next' - 1 : j \notin rows'})
                      /\ \A a \in 1 .. Len(file') : file'[a] = lines'[line[a]]
  BY DEF Copied, InOrder
<1>2. CASE Truncate
  <2>1. next' = 1 /\ file' = << >> /\ Len(file') = 0 /\ next' - 1 = 0
    BY <1>1, <1>2 DEF Truncate, Loops
  <2>2. {j \in 1 .. 0 : j \notin rows'} = {}
    OBVIOUS
  <2>3. /\ [a \in 1 .. 0 |-> a] \in [1 .. 0 -> 1 .. 0]
        /\ InOrder([a \in 1 .. 0 |-> a], 0, {j \in 1 .. 0 : j \notin rows'})
    BY <2>2, NoPlaces
  <2>4. \A a \in 1 .. 0 : FALSE
    OBVIOUS
  <2> QED
    BY <2>1, <2>3, <2>4
<1>3. CASE WriteLine
  <2>1. /\ next \in 1 .. Len(lines) /\ next' = next + 1 /\ phase = "writing"
        /\ lines' = lines /\ rows' = rows /\ file \in Seq(Line) /\ lines \in Seq(Line)
    BY <1>1, <1>3 DEF WriteLine, Loops, HistoryTypes, pageVars
  <2> DEFINE n == next - 1
             kept == {j \in 1 .. n : j \notin rows}
  <2>2. n \in Nat /\ n + 1 = next /\ next' - 1 = next /\ 1 .. next = 1 .. n + 1
    BY <2>1
  <2>3. PICK line \in [1 .. Len(file) -> 1 .. n] :
          /\ InOrder(line, Len(file), kept)
          /\ \A a \in 1 .. Len(file) : file[a] = lines[line[a]]
    BY <1>1, <2>1 DEF Copied
  <2>4. CASE next \in rows
    <3>1. {j \in 1 .. next' - 1 : j \notin rows'} = kept
      BY <2>1, <2>2, <2>4
    <3>2. line \in [1 .. Len(file) -> 1 .. next' - 1] /\ file' = file
      BY <1>3, <2>2, <2>4 DEF WriteLine
    <3> QED
      BY <2>1, <2>3, <3>1, <3>2
  <2>5. CASE next \notin rows
    <3>1. {j \in 1 .. next' - 1 : j \notin rows'} = kept \cup {n + 1}
      BY <2>1, <2>2, <2>5
    <3>2. /\ file' = Append(file, lines[next]) /\ Len(file) \in Nat
          /\ Len(file') = Len(file) + 1 /\ file'[Len(file) + 1] = lines[next]
          /\ \A a \in 1 .. Len(file) : file'[a] = file[a]
      BY <1>3, <2>1, <2>5 DEF WriteLine
    <3> DEFINE longer == [a \in 1 .. Len(file) + 1 |->
                            IF a = Len(file) + 1 THEN n + 1 ELSE line[a]]
    <3>3. longer \in [1 .. Len(file) + 1 -> 1 .. n + 1]
          /\ InOrder(longer, Len(file) + 1, kept \cup {n + 1})
      BY <2>2, <2>3, <3>2, OneMorePlace
    <3>4. \A a \in 1 .. Len(file) + 1 : file'[a] = lines[longer[a]]
      <4>1. \A a \in 1 .. Len(file) + 1 : a \in 1 .. Len(file) \/ a = Len(file) + 1
        BY <3>2
      <4>2. Len(file) + 1 \notin 1 .. Len(file)
        BY <3>2
      <4> QED
        BY <2>2, <2>3, <3>2, <4>1, <4>2
    <3>5. /\ longer \in [1 .. Len(file') -> 1 .. next' - 1]
          /\ InOrder(longer, Len(file'), {j \in 1 .. next' - 1 : j \notin rows'})
      BY <2>2, <3>1, <3>2, <3>3
    <3>6. \A a \in 1 .. Len(file') : file'[a] = lines'[longer[a]]
      BY <2>1, <3>2, <3>4
    <3> HIDE DEF longer
    <3> QED
      BY <3>5, <3>6
  <2> QED
    BY <2>4, <2>5
<1>4. CASE UNCHANGED resultsVars
  BY <1>1, <1>4 DEF resultsVars, pageVars, Copied
<1> QED
  BY <1>2, <1>3, <1>4
  DEF HistoryNext, AppendBenchmarkResult, CrashInAppend, LoadHistory, LoadFails, ReadLine,
      EndLoad, DeleteRows, EraseRow, ReadLines, OpenFails, EndDelete, Close, CrashInDelete,
      AllErased

(* A line is read: its result has the last row, if it has one. *)
LEMMA ReadLineLists ==
  ASSUME HistoryInv, ReadLine, Lists(shown, file, next - 1, {})
  PROVE  Lists(shown', file, next, {})
<1>1. /\ next \in 1 .. Len(file) /\ file \in Seq(Line) /\ shown \in Seq(Result)
      /\ Len(shown) \in Nat
  BY DEF HistoryInv, HistoryTypes, Loops, ReadLine
<1> DEFINE n == next - 1
           good(m) == {j \in 1 .. m : file[j].parses /\ j \notin {}}
<1>2. n \in Nat /\ n + 1 = next /\ 1 .. next = 1 .. n + 1
  BY <1>1
<1>3. PICK line \in [1 .. Len(shown) -> 1 .. n] :
        /\ InOrder(line, Len(shown), good(n))
        /\ \A a \in 1 .. Len(shown) : shown[a] = IdOf(file[line[a]])
  BY DEF Lists
<1>4. CASE ~file[next].parses
  <2>1. good(next) = good(n)
    BY <1>2, <1>4
  <2>2. shown' = shown /\ line \in [1 .. Len(shown) -> 1 .. next]
    BY <1>2, <1>4 DEF ReadLine
  <2> QED
    BY <1>3, <2>1, <2>2 DEF Lists
<1>5. CASE file[next].parses
  <2>1. good(next) = good(n) \cup {n + 1}
    BY <1>2, <1>5
  <2>2. IdOf(file[next]) \in Result
    BY <1>1, <1>5, TheResult DEF HistoryInv
  <2>3. /\ Len(shown') = Len(shown) + 1 /\ shown'[Len(shown) + 1] = IdOf(file[next])
        /\ \A a \in 1 .. Len(shown) : shown'[a] = shown[a]
    BY <1>1, <1>5, <2>2 DEF ReadLine
  <2> DEFINE longer == [a \in 1 .. Len(shown) + 1 |->
                          IF a = Len(shown) + 1 THEN n + 1 ELSE line[a]]
  <2>4. longer \in [1 .. Len(shown) + 1 -> 1 .. n + 1]
        /\ InOrder(longer, Len(shown) + 1, good(n) \cup {n + 1})
    BY <1>1, <1>2, <1>3, OneMorePlace
  <2>5. \A a \in 1 .. Len(shown) + 1 : shown'[a] = IdOf(file[longer[a]])
    <3>1. \A a \in 1 .. Len(shown) + 1 : a \in 1 .. Len(shown) \/ a = Len(shown) + 1
      BY <1>1
    <3>2. Len(shown) + 1 \notin 1 .. Len(shown)
      BY <1>1
    <3> QED
      BY <1>2, <1>3, <2>3, <3>1, <3>2
  <2>6. longer \in [1 .. Len(shown') -> 1 .. next] /\ InOrder(longer, Len(shown'), good(next))
    BY <1>2, <2>1, <2>3, <2>4
  <2>7. \A a \in 1 .. Len(shown') : shown'[a] = IdOf(file[longer[a]])
    BY <2>3, <2>5
  <2> HIDE DEF longer
  <2> QED
    BY <2>6, <2>7 DEF Lists
<1> QED
  BY <1>4, <1>5

(* The user's rows are on lines of the file. *)
LEMMA RowsHaveLines ==
  ASSUME HistoryTypes, Lists(shown, file, Len(file), {}),
         NEW r \in 1 .. Len(shown), \A i \in 1 .. r : i \in DOMAIN file => file[i].parses
  PROVE  /\ r \in 1 .. Len(file) /\ \A i \in 1 .. r : file[i].parses
         /\ shown[r] = IdOf(file[r])
<1>1. file \in Seq(Line) /\ Len(file) \in Nat /\ DOMAIN file = 1 .. Len(file) /\ Len(shown) \in Nat
  BY DEF HistoryTypes
<1> DEFINE good == {j \in 1 .. Len(file) : file[j].parses /\ j \notin {}}
<1>2. PICK line \in [1 .. Len(shown) -> 1 .. Len(file)] :
        /\ InOrder(line, Len(shown), good)
        /\ \A a \in 1 .. Len(shown) : shown[a] = IdOf(file[line[a]])
  BY DEF Lists
<1>3. r <= line[r] /\ line[r] \in 1 .. Len(file) /\ r \in Nat
  <2>1. InOrder(line, Len(shown), good)
    BY <1>2
  <2> HIDE DEF good
  <2>2. \A a \in 1 .. Len(shown) : a <= line[a]
    BY <1>1, <2>1, PlacesAreAhead
  <2> QED
    BY <1>1, <2>2
<1>4. r \in 1 .. Len(file) /\ \A i \in 1 .. r : i \in 1 .. Len(file) /\ file[i].parses
  BY <1>1, <1>3
<1>5. 1 .. r \subseteq good
  BY <1>4
<1>6. line[r] = r
  <2>1. r \in 1 .. r /\ InOrder(line, Len(shown), good)
    BY <1>2, <1>3
  <2> HIDE DEF good
  <2>2. \A q \in Nat : 1 .. q \subseteq good =>
          \A i \in 1 .. q : i \in 1 .. Len(shown) /\ line[i] = i
    BY <1>1, <2>1, FirstPlacesAreTheirOwn
  <2> QED
    BY <1>3, <1>5, <2>1, <2>2
<1> QED
  BY <1>2, <1>4, <1>6

(* A row is erased, and stood for the line of its index. *)
LEMMA EraseRowLists ==
  ASSUME HistoryTypes, NEW r \in 1 .. Len(shown), NEW gone,
         Lists(shown, file, Len(file), gone),
         r \in 1 .. Len(file), \A i \in 1 .. r : file[i].parses /\ i \notin gone
  PROVE  Lists(RemoveAt(shown, r), file, Len(file), gone \cup {r})
<1>1. file \in Seq(Line) /\ Len(file) \in Nat /\ shown \in Seq(Result) /\ Len(shown) \in Nat
  BY DEF HistoryTypes
<1> DEFINE good == {j \in 1 .. Len(file) : file[j].parses /\ j \notin gone}
<1>2. PICK line \in [1 .. Len(shown) -> 1 .. Len(file)] :
        /\ InOrder(line, Len(shown), good)
        /\ \A a \in 1 .. Len(shown) : shown[a] = IdOf(file[line[a]])
  BY DEF Lists
<1>3. 1 .. r \subseteq good /\ r \in 1 .. r
  BY <1>1
<1>4. line[r] = r
  <2>1. InOrder(line, Len(shown), good) /\ r \in Nat
    BY <1>1, <1>2
  <2> HIDE DEF good
  <2>2. \A q \in Nat : 1 .. q \subseteq good =>
          \A i \in 1 .. q : i \in 1 .. Len(shown) /\ line[i] = i
    BY <1>1, <2>1, FirstPlacesAreTheirOwn
  <2> QED
    BY <1>3, <2>1, <2>2
<1>5. PICK shorter \in [1 .. Len(shown) - 1 -> 1 .. Len(file)] :
        /\ InOrder(shorter, Len(shown) - 1, good \ {r})
        /\ \A a \in 1 .. Len(shown) - 1 : shorter[a] = IF a < r THEN line[a] ELSE line[a + 1]
  <2>1. InOrder(line, Len(shown), good)
    BY <1>2
  <2> HIDE DEF good
  <2>2. PICK k \in Nat, n \in Nat : k = Len(shown) /\ n = Len(file)
    BY <1>1
  <2>3. line \in [1 .. k -> 1 .. n] /\ InOrder(line, k, good) /\ r \in 1 .. k
    BY <2>1, <2>2
  <2>4. OneLess(line, k, n, r, good)
    BY <2>3, OnePlaceLess
  <2> QED
    BY <1>4, <2>2, <2>4 DEF OneLess, IsWithout
<1>6. good \ {r} = {j \in 1 .. Len(file) : file[j].parses /\ j \notin gone \cup {r}}
  OBVIOUS
<1>7. /\ Len(RemoveAt(shown, r)) = Len(shown) - 1
      /\ \A a \in 1 .. Len(shown) - 1 :
           RemoveAt(shown, r)[a] = IF a < r THEN shown[a] ELSE shown[a + 1]
  BY <1>1, ErasedRow
<1>8. \A a \in 1 .. Len(shown) - 1 : RemoveAt(shown, r)[a] = IdOf(file[shorter[a]])
  <2>1. \A a \in 1 .. Len(shown) - 1 : a \in 1 .. Len(shown) /\ a + 1 \in 1 .. Len(shown)
    BY <1>1
  <2> QED
    BY <1>2, <1>5, <1>7, <2>1
<1> HIDE DEF good
<1> QED
  BY <1>5, <1>6, <1>7, <1>8 DEF Lists

(* The rows that are left are those of the lines that were copied. *)
LEMMA CopyLists ==
  ASSUME HistoryInv, phase = "writing", next > Len(lines),
         Lists(shown, lines, Len(lines), rows)
  PROVE  Lists(shown, file, Len(file), {})
<1>1. /\ file \in Seq(Line) /\ lines \in Seq(Line) /\ Len(file) \in Nat /\ Len(lines) \in Nat
      /\ Len(shown) \in Nat /\ next - 1 = Len(lines)
  BY DEF HistoryInv, HistoryTypes, Loops
<1> DEFINE kept == {j \in 1 .. Len(lines) : j \notin rows}
           good == {j \in 1 .. Len(lines) : lines[j].parses /\ j \notin rows}
           left_ == {b \in 1 .. Len(file) : file[b].parses /\ b \notin {}}
<1>2. PICK copy \in [1 .. Len(file) -> 1 .. Len(lines)] :
        /\ InOrder(copy, Len(file), kept)
        /\ \A b \in 1 .. Len(file) : file[b] = lines[copy[b]]
  BY <1>1 DEF HistoryInv, Copied
<1>3. PICK line \in [1 .. Len(shown) -> 1 .. Len(lines)] :
        /\ InOrder(line, Len(shown), good)
        /\ \A a \in 1 .. Len(shown) : shown[a] = IdOf(lines[line[a]])
  BY DEF Lists
<1>4. good \subseteq kept
  OBVIOUS
<1>5. PICK back \in [1 .. Len(shown) -> 1 .. Len(file)] :
        /\ InOrder(back, Len(shown), {b \in 1 .. Len(file) : copy[b] \in good})
        /\ \A a \in 1 .. Len(shown) : copy[back[a]] = line[a]
  <2>1. InOrder(copy, Len(file), kept) /\ InOrder(line, Len(shown), good)
    BY <1>2, <1>3
  <2> HIDE DEF kept, good
  <2>2. PICK k \in Nat, m \in Nat, n \in Nat :
          k = Len(shown) /\ m = Len(file) /\ n = Len(lines)
    BY <1>1
  <2>3. /\ copy \in [1 .. m -> 1 .. n] /\ InOrder(copy, m, kept)
        /\ line \in [1 .. k -> 1 .. n] /\ InOrder(line, k, good) /\ good \in SUBSET kept
    BY <1>4, <2>1, <2>2
  <2>4. Through(copy, m, line, k, good)
    BY <2>3, PlacesAmongPlaces
  <2> QED
    BY <2>2, <2>4 DEF Through, IsThrough
<1>6. {b \in 1 .. Len(file) : copy[b] \in good} = left_
  <2>1. \A b \in 1 .. Len(file) : copy[b] \in kept
    <3> HIDE DEF kept
    <3> QED
      BY <1>2 DEF InOrder
  <2> QED
    BY <1>2, <2>1
<1>7. \A a \in 1 .. Len(shown) : shown[a] = IdOf(file[back[a]])
  BY <1>2, <1>3, <1>5
<1> QED
  BY <1>5, <1>6, <1>7 DEF Lists

(* The page and the file agree wherever the page is read or deleted from. *)
LEMMA PageKept ==
  ASSUME HistoryInv, [HistoryNext]_resultsVars
  PROVE  PageAgrees'
<1>1. HistoryTypes /\ Loops /\ PageAgrees /\ Len(file) \in Nat /\ Len(lines) \in Nat
  BY DEF HistoryInv, HistoryTypes
<1> SUFFICES ASSUME "stale" \notin damage' PROVE PageAgrees'
  BY DEF PageAgrees
<1>2. CASE AppendBenchmarkResult \/ CrashInAppend \/ Close \/ CrashInDelete
  <2>1. phase' \in {"running", "down"}
    BY <1>2 DEF AppendBenchmarkResult, CrashInAppend, Close, CrashInDelete
  <2> QED
    BY <2>1 DEF PageAgrees
<1>3. CASE LoadHistory
  <2>1. phase' = "loading" /\ shown' = << >> /\ next' - 1 = 0 /\ file' = file
    BY <1>1, <1>3 DEF LoadHistory, Loops
  <2>2. Len(shown') = 0
    BY <2>1
  <2>3. {j \in 1 .. 0 : file[j].parses /\ j \notin {}} = {}
    OBVIOUS
  <2>4. \A a \in 1 .. 0 : FALSE
    OBVIOUS
  <2>5. Lists(shown', file, 0, {})
    BY <2>2, <2>3, <2>4, NoPlaces DEF Lists
  <2> QED
    BY <2>1, <2>5 DEF PageAgrees
<1>4. CASE LoadFails \/ OpenFails
  BY <1>4 DEF LoadFails, OpenFails
<1>5. CASE ReadLine
  <2>1. phase = "loading" /\ phase' = "loading" /\ damage' = damage /\ file' = file
        /\ next' - 1 = next
    BY <1>1, <1>5 DEF ReadLine, Loops
  <2>2. Lists(shown', file, next, {})
    BY <1>1, <1>5, <2>1, ReadLineLists DEF PageAgrees
  <2> QED
    BY <2>1, <2>2 DEF PageAgrees
<1>6. CASE EndLoad
  <2>1. /\ phase = "loading" /\ phase' = "idle" /\ next - 1 = Len(file)
        /\ damage' = damage /\ file' = file /\ shown' = shown
    BY <1>1, <1>6 DEF EndLoad, Loops, pageVars
  <2> QED
    BY <1>1, <2>1 DEF PageAgrees
<1>7. CASE DeleteRows
  <2>1. PICK chosen \in SUBSET (1 .. Len(shown)) :
          /\ rows' = chosen /\ left' = chosen
          /\ damage' = IF Shifts(chosen) \/ "stale" \in damage
                       THEN damage \cup {"shifted", "stale"} ELSE damage
    BY <1>7 DEF DeleteRows
  <2>2. /\ phase = "idle" /\ phase' = "erasing" /\ "stale" \notin damage /\ ~Shifts(chosen)
        /\ file' = file /\ shown' = shown
    BY <1>7, <2>1 DEF DeleteRows
  <2>3. Lists(shown, file, Len(file), {})
    BY <1>1, <2>2 DEF PageAgrees
  <2>4. \A r \in chosen : r \in 1 .. Len(file) /\ \A i \in 1 .. r : file[i].parses
    <3> SUFFICES ASSUME NEW r \in chosen
                 PROVE  r \in 1 .. Len(file) /\ \A i \in 1 .. r : file[i].parses
      OBVIOUS
    <3>1. r \in 1 .. Len(shown) /\ \A i \in 1 .. r : i \in DOMAIN file => file[i].parses
      BY <2>1, <2>2 DEF Shifts
    <3> QED
      BY <1>1, <2>3, <3>1, RowsHaveLines
  <2>5. RowsAreLines'
    BY <2>1, <2>2, <2>4 DEF RowsAreLines
  <2>6. rows' \ left' = {}
    BY <2>1
  <2> QED
    BY <2>1, <2>2, <2>3, <2>5, <2>6 DEF PageAgrees
<1>8. CASE EraseRow
  <2>1. PICK r \in left : /\ \A q \in left : q <= r
                          /\ shown' = RemoveAt(shown, r) /\ left' = left \ {r}
    BY <1>8 DEF EraseRow
  <2> DEFINE gone == rows \ left
  <2>2. /\ phase = "erasing" /\ phase' = "erasing" /\ damage' = damage
        /\ file' = file /\ rows' = rows
    BY <1>8 DEF EraseRow
  <2>3. /\ Lists(shown, file, Len(file), gone) /\ left \subseteq rows /\ RowsAreLines
        /\ \A q \in gone, l \in left : l < q
    BY <1>1, <2>2 DEF PageAgrees
  <2>4. /\ r \in 1 .. Len(shown) /\ r \in Nat /\ left \in SUBSET Nat /\ rows \in SUBSET Nat
        /\ r \in 1 .. Len(file) /\ \A i \in 1 .. r : file[i].parses
    BY <1>1, <2>3 DEF HistoryTypes, RowsAreLines
  <2>5. \A i \in 1 .. r : i \notin gone
    BY <2>3, <2>4
  <2>6. rows' \ left' = gone \cup {r}
    BY <2>1, <2>2, <2>3
  <2>7. \A q \in gone \cup {r}, l \in left' : l < q
    BY <2>1, <2>3, <2>4
  <2> HIDE DEF gone
  <2>8. Lists(shown', file, Len(file), gone \cup {r})
    BY <1>1, <2>1, <2>3, <2>4, <2>5, EraseRowLists
  <2>9. RowsAreLines' /\ left' \subseteq rows'
    BY <2>1, <2>2, <2>3 DEF RowsAreLines
  <2> QED
    BY <2>2, <2>6, <2>7, <2>8, <2>9 DEF PageAgrees
<1>9. CASE ReadLines
  <2>1. /\ phase = "erasing" /\ phase' = "read" /\ damage' = damage /\ file' = file
        /\ rows' = rows /\ shown' = shown /\ rows \ left = rows
    BY <1>9 DEF ReadLines, AllErased, pageVars
  <2> QED
    BY <1>1, <2>1 DEF PageAgrees
<1>10. CASE Truncate
  <2>1. /\ phase = "read" /\ phase' = "writing" /\ damage' = damage /\ lines' = file
        /\ rows' = rows /\ shown' = shown
    BY <1>1, <1>10 DEF Truncate, Loops, pageVars
  <2> QED
    BY <1>1, <2>1 DEF PageAgrees
<1>11. CASE WriteLine
  <2>1. /\ phase = "writing" /\ phase' = "writing" /\ damage' = damage /\ lines' = lines
        /\ rows' = rows /\ shown' = shown
    BY <1>11 DEF WriteLine, pageVars
  <2> QED
    BY <1>1, <2>1 DEF PageAgrees
<1>12. CASE EndDelete
  <2>1. /\ phase = "writing" /\ phase' = "idle" /\ damage' = damage /\ file' = file
        /\ shown' = shown /\ next > Len(lines)
    BY <1>12 DEF EndDelete
  <2>2. Lists(shown, file, Len(file), {})
    BY <1>1, <2>1, CopyLists DEF PageAgrees
  <2> QED
    BY <2>1, <2>2 DEF PageAgrees
<1>13. CASE UNCHANGED resultsVars
  BY <1>1, <1>13 DEF resultsVars, pageVars, PageAgrees, RowsAreLines
<1> QED
  BY <1>2, <1>3, <1>4, <1>5, <1>6, <1>7, <1>8, <1>9, <1>10, <1>11, <1>12, <1>13
  DEF HistoryNext

(* What was not selected stays in the file, or in what is still to be written. *)
LEMMA LostKept ==
  ASSUME HistoryInv, [HistoryNext]_resultsVars
  PROVE  NoOtherLost'
<1>1. /\ HistoryTypes /\ OneResult(file) /\ Loops /\ PageAgrees /\ NoOtherLost
      /\ Len(file) \in Nat /\ Len(lines) \in Nat /\ stored \in Nat
  BY DEF HistoryInv, HistoryTypes
<1> SUFFICES ASSUME damage' \cap {"shifted", "rewrite"} = {} PROVE NoOtherLost'
  BY DEF NoOtherLost
<1> DEFINE InFile(r) == \E i \in 1 .. Len(file) : r \in file[i].ids
           Ahead(r) == phase = "writing" /\ \E k \in next .. Len(lines) :
                                              k \notin rows /\ r \in lines[k].ids
<1>2. /\ damage \cap {"shifted", "rewrite"} = {}
      /\ \A r \in 1 .. stored : r \notin selected => InFile(r) \/ Ahead(r)
  <2>1. damage \cap {"shifted", "rewrite"} = {}
    BY DEF HistoryNext, AppendBenchmarkResult, CrashInAppend, LoadHistory, LoadFails, ReadLine,
           EndLoad, DeleteRows, EraseRow, ReadLines, OpenFails, Truncate, WriteLine, EndDelete,
           Close, CrashInDelete, resultsVars
  <2> QED
    BY <1>1, <2>1 DEF NoOtherLost
<1>3. CASE AppendBenchmarkResult \/ CrashInAppend
  <2>1. phase \in {"idle", "running"} /\ phase' \in {"running", "down"} /\ selected' = selected
    BY <1>3 DEF AppendBenchmarkResult, CrashInAppend, pageVars
  <2>2. \A r \in 1 .. stored' : r \in 1 .. stored \/ r = stored + 1
    BY <1>1, <1>3, AppendKeepsLines
  <2>3. \A r \in 1 .. stored' : r \notin selected => \E i \in 1 .. Len(file') : r \in file'[i].ids
    BY <1>2, <1>3, <2>1, <2>2, AppendKeepsLines
  <2> QED
    BY <2>1, <2>3 DEF NoOtherLost
<1>4. CASE LoadHistory \/ LoadFails \/ ReadLine \/ EndLoad \/ OpenFails \/ Close
  <2>1. /\ UNCHANGED <<file, stored, selected>>
        /\ phase \in {"down", "loading", "running", "idle", "erasing", "read"}
        /\ phase' \in {"down", "loading", "running", "idle"}
    BY <1>4 DEF LoadHistory, LoadFails, ReadLine, EndLoad, OpenFails, Close, AllErased, pageVars
  <2> QED
    BY <1>2, <2>1 DEF NoOtherLost
<1>5. CASE DeleteRows
  <2>1. PICK chosen \in SUBSET (1 .. Len(shown)) :
          /\ rows' = chosen /\ selected' = selected \cup {shown[r] : r \in chosen}
          /\ damage' = IF Shifts(chosen) \/ "stale" \in damage
                       THEN damage \cup {"shifted", "stale"} ELSE damage
    BY <1>5 DEF DeleteRows
  <2>2. /\ phase = "idle" /\ phase' = "erasing" /\ "stale" \notin damage /\ ~Shifts(chosen)
        /\ file' = file /\ stored' = stored
    BY <1>5, <2>1 DEF DeleteRows
  <2>3. Lists(shown, file, Len(file), {})
    BY <1>1, <2>2 DEF PageAgrees
  <2>4. \A r \in chosen : file[r].ids \subseteq selected'
    <3> SUFFICES ASSUME NEW r \in chosen PROVE file[r].ids \subseteq selected'
      OBVIOUS
    <3>1. r \in 1 .. Len(shown) /\ \A i \in 1 .. r : i \in DOMAIN file => file[i].parses
      BY <2>1, <2>2 DEF Shifts
    <3>2. /\ r \in 1 .. Len(file) /\ \A i \in 1 .. r : file[i].parses
          /\ shown[r] = IdOf(file[r])
      BY <1>1, <2>3, <3>1, RowsHaveLines
    <3>3. r \in 1 .. r
      BY <3>2
    <3>4. file[r].ids = {shown[r]}
      BY <1>1, <3>2, <3>3, TheResult
    <3> QED
      BY <2>1, <3>4
  <2>5. \A r \in 1 .. stored' : r \notin selected' => \E i \in 1 .. Len(file') : r \in file'[i].ids
    BY <1>2, <2>1, <2>2
  <2> QED
    BY <2>1, <2>2, <2>4, <2>5 DEF NoOtherLost
<1>6. CASE EraseRow \/ ReadLines
  <2>1. /\ phase = "erasing" /\ phase' \in {"erasing", "read"}
        /\ UNCHANGED <<file, rows, stored, selected>>
    BY <1>6 DEF EraseRow, ReadLines, AllErased, pageVars
  <2> QED
    BY <1>1, <1>2, <2>1 DEF NoOtherLost
<1>7. CASE Truncate
  <2>1. /\ phase = "read" /\ phase' = "writing" /\ next' = 1 /\ lines' = file
        /\ UNCHANGED <<rows, stored, selected>>
    BY <1>1, <1>7 DEF Truncate, Loops, pageVars
  <2>2. \A k \in rows : k \in 1 .. Len(file) => file[k].ids \subseteq selected
    BY <1>1, <1>2, <2>1 DEF NoOtherLost
  <2>3. \A r \in 1 .. stored' : r \notin selected' =>
          \E k \in next' .. Len(lines') : k \notin rows' /\ r \in lines'[k].ids
    BY <1>2, <2>1, <2>2
  <2> QED
    BY <2>1, <2>3 DEF NoOtherLost
<1>8. CASE WriteLine
  <2>1. /\ phase = "writing" /\ phase' = "writing" /\ next' = next + 1
        /\ next \in 1 .. Len(lines) /\ lines \in Seq(Line) /\ file \in Seq(Line)
        /\ file' = IF next \in rows THEN file ELSE Append(file, lines[next])
        /\ UNCHANGED <<rows, lines, stored, selected>>
    BY <1>1, <1>8 DEF WriteLine, Loops, HistoryTypes, pageVars
  <2>2. /\ \A i \in 1 .. Len(file) : i \in 1 .. Len(file') /\ file'[i] = file[i]
        /\ next \notin rows => Len(file') \in 1 .. Len(file') /\ file'[Len(file')] = lines[next]
    BY <2>1
  <2>3. \A k \in next .. Len(lines) : k = next \/ k \in next' .. Len(lines')
    BY <1>1, <2>1
  <2>4. ASSUME NEW r \in 1 .. stored, r \notin selected
        PROVE  \/ \E i \in 1 .. Len(file') : r \in file'[i].ids
               \/ \E k \in next' .. Len(lines') : k \notin rows' /\ r \in lines'[k].ids
    <3>1. CASE InFile(r)
      BY <2>2, <3>1
    <3>2. CASE Ahead(r)
      <4>1. PICK k \in next .. Len(lines) : k \notin rows /\ r \in lines[k].ids
        BY <3>2
      <4>2. CASE k = next
        BY <2>2, <4>1, <4>2
      <4>3. CASE k \in next' .. Len(lines')
        BY <2>1, <4>1, <4>3
      <4> QED
        BY <2>3, <4>2, <4>3
    <3> QED
      BY <1>2, <2>4, <3>1, <3>2
  <2> QED
    BY <2>1, <2>4 DEF NoOtherLost
<1>9. CASE EndDelete
  <2>1. /\ next > Len(lines) /\ next \in Nat /\ phase' = "idle"
        /\ UNCHANGED <<file, stored, selected>>
    BY <1>1, <1>9 DEF EndDelete, Loops
  <2>2. \A r : ~Ahead(r)
    BY <1>1, <2>1
  <2> QED
    BY <1>2, <2>1, <2>2 DEF NoOtherLost
<1>10. CASE CrashInDelete
  <2>1. phase' = "down" /\ UNCHANGED <<file, stored, selected>> /\ \A r : ~Ahead(r)
    BY <1>10 DEF CrashInDelete, ToWrite
  <2> QED
    BY <1>2, <2>1 DEF NoOtherLost
<1>11. CASE UNCHANGED resultsVars
  BY <1>1, <1>11 DEF resultsVars, pageVars, NoOtherLost
<1> QED
  BY <1>3, <1>4, <1>5, <1>6, <1>7, <1>8, <1>9, <1>10, <1>11 DEF HistoryNext

-----------------------------------------------------------------------------
(* ResultsHistory: the theorems *)

(* A client that was never started has no results. *)
LEMMA HistoryInvInitially ==
  ASSUME HistoryInit
  PROVE  HistoryInv
<1>1. /\ Len(<< >>) = 0 /\ << >> \in Seq(Line) /\ << >> \in Seq(Result)
      /\ MaxResults \in Nat /\ \A a \in 1 .. 0 : FALSE
  BY HistoryAssumption
<1>2. HistoryTypes
  <2>1. file = << >> /\ lines = << >> /\ shown = << >> /\ phase = "down" /\ open = FALSE
    BY DEF HistoryInit
  <2>2. /\ rows \in SUBSET Nat /\ left \in SUBSET (1 .. Len(shown))
    BY DEF HistoryInit
  <2>3. stored \in 0 .. MaxResults
    BY <1>1 DEF HistoryInit
  <2>4. file \in Seq(Line) /\ lines \in Seq(Line) /\ shown \in Seq(Result)
    BY <1>1, <2>1
  <2> QED
    BY <2>1, <2>2, <2>3, <2>4 DEF HistoryTypes
<1>3. OneResult(file) /\ OneResult(lines) /\ Loops /\ Copied
  BY <1>1 DEF HistoryInit, OneResult, Loops, Copied
<1>4. PageAgrees
  BY DEF HistoryInit, PageAgrees
<1>5. NoOtherLost
  BY DEF HistoryInit, NoOtherLost
<1> QED
  BY <1>2, <1>3, <1>4, <1>5 DEF HistoryInv

LEMMA HistoryInvHolds == HistorySpec => []HistoryInv
<1>1. HistoryInit => HistoryInv
  BY HistoryInvInitially
<1>2. HistoryInv /\ [HistoryNext]_resultsVars => HistoryInv'
  <2> SUFFICES ASSUME HistoryInv, [HistoryNext]_resultsVars PROVE HistoryInv'
    OBVIOUS
  <2>1. HistoryTypes' /\ OneResult(file)' /\ OneResult(lines)' /\ Loops'
    BY HistoryTypesKept
  <2>2. Copied'
    BY CopiedKept
  <2>3. PageAgrees'
    BY PageKept
  <2>4. NoOtherLost'
    BY LostKept
  <2> QED
    BY <2>1, <2>2, <2>3, <2>4 DEF HistoryInv
<1> QED
  BY <1>1, <1>2, PTL DEF HistorySpec

(* The rows of the history page are the results of the file, in the order of *)
(* its lines, however often results were appended, loaded and deleted, until  *)
(* the file cannot be opened or a line without a row shifts a deletion, and   *)
(* from the next load of the page again.                                      *)
THEOREM ShownRowsAreStored == HistorySpec => []ShownIsStored
<1>1. HistoryInv => ShownIsStored
  BY DEF HistoryInv, PageAgrees, ShownIsStored
<1> QED
  BY <1>1, HistoryInvHolds, PTL

(* No deletion that counts the right lines and is not cut short, no append    *)
(* and no crash of an append loses a result that the user did not select.     *)
THEOREM UnselectedAreKept == HistorySpec => []OnlySelectedAreLost
<1>1. HistoryInv => OnlySelectedAreLost
  BY DEF HistoryInv, NoOtherLost, OnlySelectedAreLost
<1> QED
  BY <1>1, HistoryInvHolds, PTL

=============================================================================
