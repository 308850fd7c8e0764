------------------------- MODULE IHVSubprocessProofs -------------------------
(***************************************************************************)
(* Theorems about IHVSubprocess, for both transports, every user of a      *)
(* handler, any number of commands and any room in the log channel: no     *)
(* answer is lost, repeated or overtaken, and Stop leaves nothing behind.  *)
(***************************************************************************)
EXTENDS IHVSubprocess, TLAPS

-----------------------------------------------------------------------------
(* The inductive invariant *)

Response == [number : Nat, ok : BOOLEAN]

(* What the properties depend on. *)
CoreTypeOK ==
  /\ caller \in OwnerState
  /\ running \in BOOLEAN
  /\ reader \in {"none", "polling", "gone"}
  /\ child \in ChildState
  /\ handled \in Command /\ result \in BOOLEAN
  /\ commands \in Seq(Command)
  /\ responses \in Seq(Response)
  /\ sent \in Nat /\ late \in Nat /\ taken \in Nat

AtWork == child \in {"library", "blocked", "answering"}

(* The commands that are not answered yet, or whose answer nobody took.    *)
Working == IF AtWork THEN 1 ELSE 0

Open == Len(responses) + Working + Len(commands)

InCall == IF caller = "waiting" THEN 1 ELSE 0

(* While the child lives, the commands not yet answered and the answers not*)
(* yet taken are the last ones sent, one by one; between two calls there   *)
(* are as many as calls have timed out.                                    *)
Numbered ==
  Alive =>
    /\ \A i \in 1 .. Len(responses) : responses[i].number = sent - Open + i
    /\ AtWork => handled.number = sent - Len(commands)
    /\ \A i \in 1 .. Len(commands) : commands[i].number = sent - Len(commands) + i
    /\ caller \in {"ready", "waiting"} => Open = late + InCall

(* The answers that are there stay in their order when the child has gone. *)
Answered ==
  /\ caller \in {"ready", "waiting"} =>
       \A i \in 1 .. Len(responses) : responses[i].number = (sent - (late + InCall)) + i
  /\ caller = "ready" /\ taken # 0 => taken = sent - late

(* Where the owner, the reader and the child can be at the same time.      *)
Places ==
  /\ caller = "start" => child = "none"
  /\ caller \in {"ready", "waiting"} /\ ~running => child = "none"
  /\ child = "none" =>
       /\ caller \in {"start", "ready", "done", "dead"}
       /\ ~running
       /\ caller # "dead" => reader = "none"
       /\ commands = <<>> /\ responses = <<>>
       /\ sent = 0 /\ late = 0 /\ taken = 0
  /\ caller \in {"grace", "terminating", "second grace", "killing", "last wait", "closing"}
       => reader = "gone"
  /\ caller = "done" => child \in {"none", "reaped"} /\ reader \in {"none", "gone"}

IInv == CoreTypeOK /\ Numbered /\ Answered /\ Places

-----------------------------------------------------------------------------
(* The channels *)

(* What taking the first message of a channel leaves. *)
LEMMA Taken ==
  ASSUME NEW S, NEW q \in Seq(S), q # <<>>
  PROVE  /\ Head(q) \in S /\ Head(q) = q[1] /\ Len(q) \in Nat /\ Len(q) > 0
         /\ Tail(q) \in Seq(S) /\ Len(Tail(q)) = Len(q) - 1
         /\ \A i \in 1 .. Len(Tail(q)) : Tail(q)[i] = q[i + 1] /\ i + 1 \in 1 .. Len(q)
OBVIOUS

(* What writing a message makes of a channel. *)
LEMMA Written ==
  ASSUME NEW S, NEW q \in Seq(S), NEW e \in S
  PROVE  /\ Append(q, e) \in Seq(S) /\ Len(q) \in Nat /\ Len(Append(q, e)) = Len(q) + 1
         /\ Append(q, e)[Len(q) + 1] = e
         /\ \A i \in 1 .. Len(q) : Append(q, e)[i] = q[i]
         /\ \A i \in 1 .. Len(q) + 1 : i \in 1 .. Len(q) \/ i = Len(q) + 1
OBVIOUS

(* The lengths of the channels are numbers. *)
LEMMA Lengths ==
  ASSUME CoreTypeOK
  PROVE  Len(responses) \in Nat /\ Len(commands) \in Nat /\ Open \in Nat
BY DEF CoreTypeOK, Open, Working

-----------------------------------------------------------------------------
(* Steps that change neither the channels nor where the call stands *)

callVars2 == <<caller, sent, late, taken, commands, responses, handled>>

(* The child moves between two calls, within the library, or to its end.   *)
LEMMA ChildMoves ==
  ASSUME IInv, UNCHANGED <<callVars2, running, reader>>,
         child # "none", child' \in ChildState \ {"none"},
         Alive' => Alive /\ (AtWork' <=> AtWork), result' \in BOOLEAN,
         caller = "done" => child' = "reaped"
  PROVE  IInv'
<1>1. CoreTypeOK'
  BY DEF IInv, CoreTypeOK, callVars2
<1>2. Numbered'
  <2>1. CASE Alive'
    <3>1. Open' = Open /\ InCall' = InCall /\ Alive
      BY <2>1 DEF Open, Working, InCall, callVars2
    <3> QED
      BY <2>1, <3>1 DEF IInv, Numbered, callVars2
  <2>2. CASE ~Alive'
    BY <2>2 DEF Numbered
  <2> QED
    BY <2>1, <2>2
<1>3. Answered'
  BY DEF IInv, Answered, InCall, callVars2
<1>4. Places'
  BY DEF IInv, Places, callVars2
<1> QED
  BY <1>1, <1>2, <1>3, <1>4 DEF IInv

(* The owner moves on within Stop, and the child may end.                  *)
LEMMA StopMoves ==
  ASSUME IInv, UNCHANGED <<running, sent, late, taken, commands, responses, handled,
                           reader, result>>,
         caller \in OwnerState \ {"start", "waiting", "dead", "done"},
         caller' \in OwnerState \ {"start", "ready", "waiting", "dead"},
         child' \in ChildState, child = "none" => child' = "none" \/ caller' # "done",
         child # "none" => child' # "none",
         child' # "none" \/ caller' = "done",
         Alive' => child' = child,
         caller' = "done" => child' \in {"none", "reaped"} /\ reader # "polling",
         caller' \in {"grace", "terminating", "second grace", "killing", "last wait",
                      "closing"} => reader = "gone"
  PROVE  IInv'
<1>1. CoreTypeOK'
  BY DEF IInv, CoreTypeOK
<1>2. Numbered'
  <2>1. CASE Alive'
    <3>1. Open' = Open /\ Alive
      BY <2>1 DEF Open, Working, AtWork, Alive
    <3> QED
      BY <2>1, <3>1 DEF IInv, Numbered, AtWork
  <2>2. CASE ~Alive'
    BY <2>2 DEF Numbered
  <2> QED
    BY <2>1, <2>2
<1>3. Answered'
  BY DEF Answered
<1>4. Places'
  BY DEF IInv, Places, CoreTypeOK
<1> QED
  BY <1>1, <1>2, <1>3, <1>4 DEF IInv

(* A call that is not answered returns to the executor.                    *)
LEMMA CallFails ==
  ASSUME IInv, UNCHANGED <<running, sent, commands, responses, handled, reader, result>>,
         caller \in {"ready", "waiting"}, caller' = "ready", taken' = 0,
         \/ /\ caller = "ready" /\ late' = late
            /\ child' = child \/ (child = "zombie" /\ child' = "reaped")
         \/ /\ caller = "waiting" /\ responses = <<>> /\ late' = late + 1 /\ Alive
            /\ child' = child
         \/ /\ caller = "waiting" /\ responses = <<>> /\ late' = late
            /\ child \in {"zombie", "reaped"} /\ child' \in {"zombie", "reaped"}
  PROVE  IInv'
<1>1. CoreTypeOK'
  <2>1. late' \in Nat /\ child' \in ChildState
    BY DEF IInv, CoreTypeOK, ChildState
  <2> QED
    BY <2>1 DEF IInv, CoreTypeOK, OwnerState
<1>2. /\ Len(responses) \in Nat /\ Len(commands) \in Nat /\ Open \in Nat
      /\ responses = <<>> => Len(responses) = 0
      /\ late \in Nat /\ sent \in Nat
  BY Lengths DEF IInv, CoreTypeOK
<1>3. Numbered'
  <2> SUFFICES ASSUME Alive' PROVE Numbered'
    BY DEF Numbered
  <2>1. child' = child /\ Alive
    BY DEF Alive
  <2>2. Open' = Open /\ (AtWork' <=> AtWork)
    BY <2>1 DEF Open, Working, AtWork
  <2>3. Open' = late' + InCall'
    BY <1>2, <2>1, <2>2 DEF IInv, Numbered, InCall, Alive
  <2> QED
    BY <2>1, <2>2, <2>3 DEF IInv, Numbered
<1>4. Answered'
  <2>1. CASE caller = "ready"
    BY <2>1 DEF IInv, Answered, InCall
  <2>2. CASE caller = "waiting"
    BY <1>2, <2>2 DEF Answered
  <2> QED
    BY <2>1, <2>2
<1>5. Places'
  BY DEF IInv, Places
<1> QED
  BY <1>1, <1>3, <1>4, <1>5 DEF IInv

-----------------------------------------------------------------------------
(* Steps of the channels *)

LEMMA SendKeeps ==
  ASSUME IInv, NEW m \in Method, SendCommand(m)
  PROVE  IInv'
<1> DEFINE e == [method |-> m, number |-> sent + 1]
<1>1. /\ caller = "ready" /\ caller' = "waiting" /\ running /\ Connected
      /\ sent' = sent + 1 /\ commands' = Append(commands, e)
      /\ UNCHANGED <<running, late, taken, reader, child, handled, result, responses>>
  BY DEF SendCommand, MayCall, childVars, workVars
<1>2. /\ sent \in Nat /\ late \in Nat /\ commands \in Seq(Command) /\ Len(responses) \in Nat
      /\ Open \in Nat
  BY Lengths DEF IInv, CoreTypeOK
<1>3. e \in Command /\ e.number = sent + 1
  BY <1>2 DEF Command
<1> HIDE DEF e
<1>4. /\ commands' \in Seq(Command) /\ Len(commands) \in Nat /\ Len(commands') = Len(commands) + 1
      /\ commands'[Len(commands) + 1] = e
      /\ \A i \in 1 .. Len(commands) : commands'[i] = commands[i]
      /\ \A i \in 1 .. Len(commands') : i \in 1 .. Len(commands) \/ i = Len(commands) + 1
  BY <1>1, <1>2, <1>3, Written
<1>5. CoreTypeOK'
  BY <1>1, <1>2, <1>4 DEF IInv, CoreTypeOK, OwnerState
<1>6. Alive /\ Alive' /\ (AtWork' <=> AtWork) /\ Open' = Open + 1
  <2>1. Alive /\ Alive' /\ (AtWork' <=> AtWork)
    BY <1>1 DEF Connected, Alive, AtWork
  <2>2. Working' = Working /\ Working \in Nat
    BY <1>1 DEF Working, AtWork
  <2> QED
    BY <1>1, <1>2, <1>4, <2>1, <2>2 DEF Open
<1>7. Numbered'
  <2>1. Open = late
    BY <1>1, <1>2, <1>6 DEF IInv, Numbered, InCall
  <2>2. Open' = late' + InCall'
    BY <1>1, <1>6, <2>1 DEF InCall
  <2>3. \A i \in 1 .. Len(responses') : responses'[i].number = sent' - Open' + i
    BY <1>1, <1>2, <1>6 DEF IInv, Numbered
  <2>4. AtWork' => handled'.number = sent' - Len(commands')
    BY <1>1, <1>2, <1>4, <1>6 DEF IInv, Numbered
  <2>5. \A i \in 1 .. Len(commands') : commands'[i].number = sent' - Len(commands') + i
    BY <1>1, <1>2, <1>3, <1>4, <1>6 DEF IInv, Numbered
  <2> QED
    BY <2>2, <2>3, <2>4, <2>5 DEF Numbered
<1>8. Answered'
  BY <1>1, <1>2 DEF IInv, Answered, InCall
<1>9. Places'
  BY <1>1, <1>6 DEF IInv, Places, Alive
<1> QED
  BY <1>5, <1>7, <1>8, <1>9 DEF IInv

LEMMA TakeKeeps ==
  ASSUME IInv, TakeResponse
  PROVE  IInv'
<1>1. /\ caller = "waiting" /\ caller' = "ready" /\ responses # <<>>
      /\ taken' = Head(responses).number /\ responses' = Tail(responses)
      /\ UNCHANGED <<running, sent, late, reader, child, handled, result, commands>>
  BY DEF TakeResponse, Outcome, childVars, workVars
<1>2. /\ sent \in Nat /\ late \in Nat /\ responses \in Seq(Response) /\ Len(commands) \in Nat
      /\ Open \in Nat
  BY Lengths DEF IInv, CoreTypeOK
<1>3. /\ Head(responses) \in Response /\ Head(responses) = responses[1]
      /\ Len(responses) \in Nat /\ Len(responses) > 0
      /\ responses' \in Seq(Response) /\ Len(responses') = Len(responses) - 1
      /\ \A i \in 1 .. Len(responses') :
           responses'[i] = responses[i + 1] /\ i + 1 \in 1 .. Len(responses)
  BY <1>1, <1>2, Taken
<1>4. Head(responses).number \in Nat
  BY <1>3 DEF Response
<1>5. CoreTypeOK'
  BY <1>1, <1>3, <1>4 DEF IInv, CoreTypeOK, OwnerState
<1>6. Open' = Open - 1 /\ (AtWork' <=> AtWork) /\ (Alive' <=> Alive)
  BY <1>1, <1>2, <1>3 DEF Open, Working, AtWork, Alive
<1>7. Numbered'
  <2> SUFFICES ASSUME Alive PROVE Numbered'
    BY <1>6 DEF Numbered
  <2>1. Open' = late' + InCall'
    BY <1>1, <1>2, <1>6 DEF IInv, Numbered, InCall
  <2>2. \A i \in 1 .. Len(responses') : responses'[i].number = sent' - Open' + i
    BY <1>1, <1>2, <1>3, <1>6 DEF IInv, Numbered
  <2> QED
    BY <1>1, <1>6, <2>1, <2>2 DEF IInv, Numbered
<1>8. Answered'
  <2>1. \A i \in 1 .. Len(responses) : responses[i].number = (sent - (late + 1)) + i
    BY <1>1 DEF IInv, Answered, InCall
  <2>2. 1 \in 1 .. Len(responses)
    BY <1>3
  <2>3. responses[1].number = sent - late
    BY <1>2, <2>1, <2>2
  <2>4. \A i \in 1 .. Len(responses') : responses'[i].number = (sent - (late + 0)) + i
    BY <1>2, <1>3, <2>1
  <2> QED
    BY <1>1, <1>3, <2>3, <2>4 DEF Answered, InCall
<1>9. Places'
  BY <1>1 DEF IInv, Places
<1> QED
  BY <1>5, <1>7, <1>8, <1>9 DEF IInv

(* kShutdown is written, or nobody is there to read it. *)
LEMMA JoinKeeps ==
  ASSUME IInv, JoinReader
  PROVE  IInv'
<1> DEFINE e == [method |-> "Shutdown", number |-> sent + 1]
<1>1. /\ caller = "joining" /\ caller' = "grace" /\ reader = "gone"
      /\ UNCHANGED <<running, late, taken, reader, child, handled, result, responses>>
  BY DEF JoinReader, callVars, childVars, workVars
<1>2. /\ sent \in Nat /\ commands \in Seq(Command) /\ Len(responses) \in Nat /\ Open \in Nat
  BY Lengths DEF IInv, CoreTypeOK
<1>3. CASE UNCHANGED <<sent, commands>>
  <2>1. child # "none"
    BY <1>1 DEF IInv, Places
  <2> QED
    BY <1>1, <1>3, <2>1, StopMoves DEF IInv, CoreTypeOK, OwnerState
<1>4. CASE Connected /\ commands' = Append(commands, e) /\ sent' = sent + 1
  <2>1. e \in Command /\ e.number = sent + 1
    BY <1>2 DEF Command, Method
  <2> HIDE DEF e
  <2>2. /\ commands' \in Seq(Command) /\ Len(commands) \in Nat
        /\ Len(commands') = Len(commands) + 1
        /\ commands'[Len(commands) + 1] = e
        /\ \A i \in 1 .. Len(commands) : commands'[i] = commands[i]
        /\ \A i \in 1 .. Len(commands') : i \in 1 .. Len(commands) \/ i = Len(commands) + 1
    BY <1>2, <1>4, <2>1, Written
  <2>3. CoreTypeOK'
    BY <1>1, <1>2, <1>4, <2>2 DEF IInv, CoreTypeOK, OwnerState
  <2>4. Alive /\ (AtWork' <=> AtWork) /\ Open' = Open + 1
    <3>1. Alive /\ (AtWork' <=> AtWork)
      BY <1>1, <1>4 DEF Connected, Alive, AtWork
    <3>2. Working' = Working /\ Working \in Nat
      BY <1>1 DEF Working, AtWork
    <3> QED
      BY <1>1, <1>2, <2>2, <3>1, <3>2 DEF Open
  <2>5. Numbered'
    <3>1. \A i \in 1 .. Len(responses') : responses'[i].number = sent' - Open' + i
      BY <1>1, <1>2, <1>4, <2>4 DEF IInv, Numbered
    <3>2. AtWork' => handled'.number = sent' - Len(commands')
      BY <1>1, <1>2, <1>4, <2>2, <2>4 DEF IInv, Numbered
    <3>3. \A i \in 1 .. Len(commands') : commands'[i].number = sent' - Len(commands') + i
      BY <1>2, <1>4, <2>1, <2>2, <2>4 DEF IInv, Numbered
    <3> QED
      BY <1>1, <3>1, <3>2, <3>3 DEF Numbered
  <2>6. Answered'
    BY <1>1 DEF Answered
  <2>7. Places'
    BY <1>1, <2>4 DEF IInv, Places, Alive
  <2> QED
    BY <2>3, <2>5, <2>6, <2>7 DEF IInv
<1> QED
  BY <1>3, <1>4 DEF JoinReader

(* The child takes the next command. *)
LEMMA ReadKeeps ==
  ASSUME IInv, ReadCommand
  PROVE  IInv'
<1>1. /\ child = "reading" /\ commands # <<>> /\ child' \in {"answering", "library"}
      /\ result' \in BOOLEAN
      /\ handled' = Head(commands) /\ commands' = Tail(commands)
      /\ UNCHANGED <<caller, running, reader, sent, late, taken, responses>>
  BY DEF ReadCommand, ownerVars, callVars, IInv, CoreTypeOK
<1>2. /\ sent \in Nat /\ late \in Nat /\ commands \in Seq(Command) /\ Len(responses) \in Nat
  BY Lengths DEF IInv, CoreTypeOK
<1>3. /\ Head(commands) \in Command /\ Head(commands) = commands[1]
      /\ Len(commands) \in Nat /\ Len(commands) > 0
      /\ commands' \in Seq(Command) /\ Len(commands') = Len(commands) - 1
      /\ \A i \in 1 .. Len(commands') :
           commands'[i] = commands[i + 1] /\ i + 1 \in 1 .. Len(commands)
  BY <1>1, <1>2, Taken
<1>4. CoreTypeOK'
  BY <1>1, <1>3 DEF IInv, CoreTypeOK, ChildState
<1>5. Alive /\ ~AtWork /\ AtWork' /\ Open' = Open
  BY <1>1, <1>2, <1>3 DEF Alive, AtWork, Open, Working
<1>6. Numbered'
  <2>1. \A i \in 1 .. Len(commands) : commands[i].number = sent - Len(commands) + i
    BY <1>5 DEF IInv, Numbered
  <2>2. 1 \in 1 .. Len(commands)
    BY <1>3
  <2>3. handled'.number = sent' - Len(commands')
    BY <1>1, <1>2, <1>3, <2>1, <2>2
  <2>4. \A i \in 1 .. Len(commands') : commands'[i].number = sent' - Len(commands') + i
    BY <1>1, <1>2, <1>3, <2>1
  <2>5. InCall' = InCall
    BY <1>1 DEF InCall
  <2> QED
    BY <1>1, <1>5, <2>3, <2>4, <2>5 DEF IInv, Numbered
<1>7. Answered' /\ Places'
  BY <1>1 DEF IInv, Answered, Places, InCall
<1> QED
  BY <1>4, <1>6, <1>7 DEF IInv

(* Its answer goes to the end of the channel, or nowhere.                  *)
LEMMA AnswerKeeps ==
  ASSUME IInv, Answer
  PROVE  IInv'
<1> DEFINE e == [number |-> handled.number, ok |-> result]
<1>1. /\ child = "answering" /\ child' \in {"leaving", "reading"}
      /\ responses' = IF caller = "dead" THEN <<>> ELSE Append(responses, e)
      /\ UNCHANGED <<caller, running, reader, sent, late, taken, handled, result, commands>>
  BY DEF Answer, ownerVars, callVars, workVars
<1>2. /\ sent \in Nat /\ late \in Nat /\ responses \in Seq(Response) /\ Len(commands) \in Nat
      /\ handled.number \in Nat /\ result \in BOOLEAN
  BY Lengths DEF IInv, CoreTypeOK, Command
<1>3. Alive /\ AtWork /\ ~AtWork' /\ child' \in ChildState
  BY <1>1 DEF Alive, AtWork, ChildState
<1>4. CASE caller = "dead"
  <2>1. responses' = <<>> /\ responses' \in Seq(Response) /\ Len(responses') = 0
    BY <1>1, <1>4
  <2>2. CoreTypeOK'
    BY <1>1, <1>3, <2>1 DEF IInv, CoreTypeOK
  <2>3. Numbered' /\ Answered'
    BY <1>1, <1>3, <1>4, <2>1 DEF IInv, Numbered, Answered
  <2>4. Places'
    BY <1>1, <1>4 DEF IInv, Places
  <2> QED
    BY <2>2, <2>3, <2>4 DEF IInv
<1>5. CASE caller # "dead"
  <2>1. e \in Response /\ e.number = handled.number /\ responses' = Append(responses, e)
    BY <1>1, <1>2, <1>5 DEF Response
  <2> HIDE DEF e
  <2>2. /\ responses' \in Seq(Response) /\ Len(responses) \in Nat
        /\ Len(responses') = Len(responses) + 1
        /\ responses'[Len(responses) + 1] = e
        /\ \A i \in 1 .. Len(responses) : responses'[i] = responses[i]
        /\ \A i \in 1 .. Len(responses') :
             i \in 1 .. Len(responses) \/ i = Len(responses) + 1
    BY <1>2, <2>1, Written
  <2>3. CoreTypeOK'
    BY <1>1, <1>3, <2>2 DEF IInv, CoreTypeOK
  <2>4. Open' = Open /\ Open = Len(responses) + 1 + Len(commands) /\ InCall' = InCall
    BY <1>1, <1>2, <1>3, <2>2 DEF Open, Working, InCall
  <2>5. handled.number = sent - Len(commands)
    BY <1>3 DEF IInv, Numbered
  <2>6. \A i \in 1 .. Len(responses') : responses'[i].number = sent' - Open' + i
    <3>1. \A i \in 1 .. Len(responses) : responses[i].number = sent - Open + i
      BY <1>3 DEF IInv, Numbered
    <3> QED
      BY <1>1, <1>2, <2>1, <2>2, <2>4, <2>5, <3>1
  <2>7. Numbered'
    BY <1>1, <1>3, <2>4, <2>6 DEF IInv, Numbered
  <2>8. Answered'
    BY <1>1, <1>3, <2>4, <2>6 DEF IInv, Numbered, Answered
  <2>9. Places'
    BY <1>1 DEF IInv, Places
  <2> QED
    BY <2>3, <2>7, <2>8, <2>9 DEF IInv
<1> QED
  BY <1>4, <1>5

-----------------------------------------------------------------------------
(* The rest of the steps *)

LEMMA StartKeeps ==
  ASSUME IInv, Start \/ StartFails
  PROVE  IInv'
<1>1. /\ child = "none" /\ caller = "start" /\ ~running /\ reader = "none"
      /\ commands = <<>> /\ responses = <<>> /\ sent = 0 /\ late = 0 /\ taken = 0
      /\ Len(commands) = 0 /\ Len(responses) = 0
  BY DEF IInv, Places, Start, StartFails
<1>2. UNCHANGED <<sent, late, taken, handled, result, commands, responses>>
  BY DEF Start, StartFails, callVars, childVars, workVars, channels
<1>3. CASE Start
  <2>1. /\ caller' = "ready" /\ running' = TRUE /\ reader' = "polling"
        /\ child' \in {"reading", "connecting"}
    BY <1>3 DEF Start, WaitForClientConnection
  <2>2. CoreTypeOK'
    BY <1>1, <1>2, <2>1 DEF IInv, CoreTypeOK, OwnerState, ChildState
  <2>3. Open' = 0 /\ InCall' = 0 /\ ~AtWork'
    BY <1>1, <1>2, <2>1 DEF Open, Working, InCall, AtWork
  <2>4. Numbered' /\ Answered'
    BY <1>1, <1>2, <2>1, <2>3 DEF Numbered, Answered
  <2>5. Places'
    BY <2>1 DEF Places
  <2> QED
    BY <2>2, <2>4, <2>5 DEF IInv
<1>4. CASE StartFails
  <2>1. caller' \in {"ready", "done"} /\ UNCHANGED <<running, reader, child>>
    BY <1>4 DEF StartFails, childVars
  <2>2. CoreTypeOK'
    BY <1>2, <2>1 DEF IInv, CoreTypeOK, OwnerState
  <2>3. Numbered' /\ Answered'
    BY <1>1, <1>2, <2>1 DEF Numbered, Answered, Alive
  <2>4. Places'
    BY <1>1, <1>2, <2>1 DEF Places
  <2> QED
    BY <2>2, <2>3, <2>4 DEF IInv
<1> QED
  BY <1>3, <1>4

(* The benchmark's process takes what it knew, and the answers, with it.   *)
LEMMA DeathKeeps ==
  ASSUME IInv, OwnerDies
  PROVE  IInv'
<1>1. /\ caller' = "dead" /\ running' = FALSE /\ reader' = "gone"
      /\ taken' = 0 /\ late' = 0 /\ responses' = <<>> /\ Len(responses') = 0
      /\ UNCHANGED <<sent, child, handled, result, commands>>
  BY DEF OwnerDies, childVars, workVars
<1>2. CoreTypeOK'
  <2>1. responses' \in Seq(Response)
    BY <1>1
  <2>2. caller' \in OwnerState /\ 0 \in Nat
    BY <1>1 DEF OwnerState
  <2>3. child' \in ChildState /\ handled' \in Command /\ result' \in BOOLEAN
        /\ commands' \in Seq(Command) /\ sent' \in Nat
    BY <1>1 DEF IInv, CoreTypeOK
  <2> QED
    BY <1>1, <2>1, <2>2, <2>3 DEF CoreTypeOK
<1>3. Numbered' /\ Answered'
  <2>1. Answered' /\ \A i \in 1 .. Len(responses') : FALSE
    BY <1>1 DEF Answered
  <2>2. Alive =>
          /\ AtWork => handled.number = sent - Len(commands)
          /\ \A i \in 1 .. Len(commands) : commands[i].number = sent - Len(commands) + i
    BY DEF IInv, Numbered
  <2> QED
    BY <1>1, <2>1, <2>2 DEF Numbered, AtWork, Alive
<1>4. Places'
  BY <1>1 DEF IInv, Places
<1> QED
  BY <1>2, <1>3, <1>4 DEF IInv

LEMMA StopKeeps ==
  ASSUME IInv, StopStep
  PROVE  IInv'
<1>1. /\ caller \in OwnerState /\ child \in ChildState
      /\ \A c \in {"joining", "grace", "terminating", "second grace", "killing",
                   "last wait", "closing", "done"} :
           c \in OwnerState \ {"start", "ready", "waiting", "dead"}
  BY DEF IInv, CoreTypeOK, OwnerState
<1>2. CASE BeginStop
  <2>1. /\ caller = "ready" /\ running' = FALSE
        /\ caller' = IF running THEN "joining" ELSE "done"
        /\ UNCHANGED <<sent, late, taken, reader, child, handled, result, commands,
                       responses>>
    BY <1>2 DEF BeginStop, NoMoreCalls, callVars, childVars, workVars, channels
  <2>2. CoreTypeOK'
    BY <2>1 DEF IInv, CoreTypeOK, OwnerState
  <2>3. Numbered'
    BY <2>1 DEF IInv, Numbered, Open, Working, AtWork, Alive
  <2>4. Answered' /\ Places'
    BY <2>1 DEF IInv, Answered, Places
  <2> QED
    BY <2>2, <2>3, <2>4 DEF IInv
<1>3. CASE JoinReader
  BY <1>3, JoinKeeps
<1>4. ASSUME NEW from \in {"grace", "terminating", "second grace", "killing", "last wait",
                          "closing"},
             NEW to \in {"terminating", "second grace", "killing", "last wait", "closing",
                        "done"},
             Stopping(from, to),
             child' \in {child, "zombie", "reaped"},
             to = "done" => child' = "reaped",
             Alive' => child' = child
      PROVE  IInv'
  <2>1. /\ caller = from /\ caller' = to
        /\ UNCHANGED <<running, sent, late, taken, reader, handled, result, commands,
                       responses>>
    BY <1>4 DEF Stopping, callVars, workVars, channels
  <2>2. child # "none" /\ reader = "gone"
    BY <2>1 DEF IInv, Places
  <2>3. child' \in ChildState /\ child' # "none"
    BY <1>1, <1>4, <2>2 DEF ChildState
  <2> QED
    BY <1>1, <1>4, <2>1, <2>2, <2>3, StopMoves
<1>5. CASE ReapInGrace
  BY <1>4, <1>5 DEF ReapInGrace, Alive
<1>6. CASE GraceEnds
  BY <1>4, <1>6 DEF GraceEnds
<1>7. CASE TerminateProcess
  BY <1>4, <1>7 DEF TerminateProcess, Alive
<1>8. CASE Terminate
  BY <1>4, <1>8 DEF Terminate, Alive
<1>9. CASE Kill
  BY <1>4, <1>9 DEF Kill, Alive
<1>10. CASE ReapAtLast
  BY <1>4, <1>10 DEF ReapAtLast, Alive
<1>11. CASE ClosePipes
  BY <1>4, <1>11 DEF ClosePipes, Alive
<1> QED
  BY <1>2, <1>3, <1>5, <1>6, <1>7, <1>8, <1>9, <1>10, <1>11 DEF StopStep

(* The steps of the child and of its library. *)
LEMMA ChildKeeps ==
  ASSUME IInv, ChildStep \/ CommandsEnd \/ ChildLogs \/ LibraryReturns \/ Crash
  PROVE  IInv'
<1>1. /\ \A c \in {"reading", "leaving", "library", "blocked", "answering", "zombie"} :
           c \in ChildState \ {"none"}
      /\ result \in BOOLEAN
  BY DEF ChildState, IInv, CoreTypeOK
<1>2. CASE ReadCommand
  BY <1>2, ReadKeeps
<1>3. CASE Answer
  BY <1>3, AnswerKeeps
<1>4. CASE \/ Connect \/ CommandsEnd \/ Leave \/ LogCloses \/ ChildLogs \/ LibraryReturns
           \/ Crash
  <2>1. UNCHANGED <<callVars2, running, reader>> /\ result' \in BOOLEAN
    BY <1>1, <1>4 DEF Connect, CommandsEnd, Leave, LogCloses, ChildLogs, LibraryReturns,
       Crash, callVars2, ownerVars, callVars, workVars, channels
  <2>2. /\ Alive
        /\ child' \in ChildState \ {"none"}
        /\ Alive' => (AtWork' <=> AtWork)
    BY <1>1, <1>4 DEF Connect, CommandsEnd, Leave, LogCloses, ChildLogs, LibraryReturns,
       Crash, Alive, AtWork
  <2>3. child # "none" /\ caller # "done"
    BY <2>2 DEF Alive, IInv, Places
  <2> QED
    BY <2>1, <2>2, <2>3, ChildMoves
<1> QED
  BY <1>2, <1>3, <1>4 DEF ChildStep

LEMMA CallKeeps ==
  ASSUME IInv, \/ \E m \in Method : NotRunning(m) \/ SendFails(m)
               \/ EndOfFile \/ TimesOut
  PROVE  IInv'
<1>1. CASE \E m \in Method : NotRunning(m)
  <2>1. /\ caller = "ready" /\ caller' = "ready" /\ taken' = 0 /\ late' = late
        /\ child' = child \/ (child = "zombie" /\ child' = "reaped")
        /\ UNCHANGED <<running, sent, commands, responses, handled, reader, result>>
    BY <1>1 DEF NotRunning, MayCall, Outcome, AfterIsRunning, workVars, channels
  <2> QED
    BY <2>1, CallFails
<1>2. CASE \E m \in Method : SendFails(m)
  <2>1. /\ caller = "ready" /\ caller' = "ready" /\ taken' = 0
        /\ UNCHANGED <<late, child, running, sent, commands, responses, handled, reader,
                       result>>
    BY <1>2 DEF SendFails, MayCall, Outcome, childVars, workVars, channels
  <2> QED
    BY <2>1, CallFails
<1>3. CASE EndOfFile
  <2>1. /\ caller = "waiting" /\ caller' = "ready" /\ taken' = 0 /\ responses = <<>>
        /\ late' = late
        /\ child \in {"zombie", "reaped"} /\ child' \in {"zombie", "reaped"}
        /\ UNCHANGED <<running, sent, commands, responses, handled, reader, result>>
    BY <1>3 DEF EndOfFile, NothingToRead, Outcome, AfterIsRunning, workVars, channels
  <2> QED
    BY <2>1, CallFails
<1>4. CASE TimesOut
  <2>1. /\ caller = "waiting" /\ caller' = "ready" /\ taken' = 0 /\ responses = <<>>
        /\ late' = late + 1 /\ Alive /\ child' = child
        /\ UNCHANGED <<running, sent, commands, responses, handled, reader, result>>
    BY <1>4 DEF TimesOut, NothingToRead, Outcome, childVars, workVars, channels
  <2> QED
    BY <2>1, CallFails
<1> QED
  BY <1>1, <1>2, <1>3, <1>4

(* The log reader reads a message, or ends when it is told. *)
LEMMA ReaderKeeps ==
  ASSUME IInv, ReaderStep
  PROVE  IInv'
<1>1. /\ reader' = reader \/ (reader = "polling" /\ reader' = "gone")
      /\ UNCHANGED <<caller, running, sent, late, taken, child, handled, result, commands,
                     responses>>
  BY DEF ReaderStep, ReadLog, ReaderEnds, ownerVars, callVars, childVars, workVars, channels
<1>2. CoreTypeOK' /\ Places'
  BY <1>1 DEF IInv, CoreTypeOK, Places
<1>3. Numbered' /\ Answered'
  BY <1>1 DEF IInv, Numbered, Answered, Open, Working, AtWork, Alive, InCall
<1> QED
  BY <1>2, <1>3 DEF IInv

LEMMA StillStep ==
  ASSUME IInv, UNCHANGED vars
  PROVE  IInv'
BY DEF IInv, CoreTypeOK, Numbered, Answered, Places, Open, Working, AtWork, Alive, InCall, vars,
   ownerVars, callVars, childVars, workVars, channels

LEMMA InductiveInvariant == Spec => []IInv
<1>1. ASSUME Init PROVE IInv
  <2>1. /\ child = "none" /\ caller = "start" /\ running = FALSE /\ reader = "none"
        /\ commands = <<>> /\ responses = <<>> /\ sent = 0 /\ late = 0 /\ taken = 0
        /\ result = FALSE /\ handled = [method |-> "Shutdown", number |-> 0]
    BY <1>1 DEF Init
  <2>2. handled \in Command
    BY <2>1 DEF Command, Method
  <2>3. commands \in Seq(Command) /\ responses \in Seq(Response)
    BY <2>1
  <2>4. CoreTypeOK
    BY <2>1, <2>2, <2>3 DEF CoreTypeOK, OwnerState, ChildState
  <2>5. Numbered /\ Answered /\ Places
    BY <2>1 DEF Numbered, Answered, Places, Alive
  <2> QED
    BY <2>4, <2>5 DEF IInv
<1>2. ASSUME IInv, [Next]_vars PROVE IInv'
  <2>1. CASE UNCHANGED vars
    BY <1>2, <2>1, StillStep
  <2>2. CASE \E m \in Method : SendCommand(m)
    BY <1>2, <2>2, SendKeeps
  <2>3. CASE Start \/ StartFails
    BY <1>2, <2>3, StartKeeps
  <2>4. CASE TakeResponse
    BY <1>2, <2>4, TakeKeeps
  <2> QED
    BY <1>2, <2>1, <2>2, <2>3, <2>4, CallKeeps, StopKeeps, DeathKeeps, ReaderKeeps,
       ChildKeeps DEF Next
<1> QED
  BY <1>1, <1>2, PTL DEF Spec

-----------------------------------------------------------------------------
(* The theorems *)

(* A function on an initial segment is a sequence.                         *)
LEMMA Functional ==
  ASSUME NEW n \in Nat, NEW f \in [1 .. n -> Nat]
  PROVE  f \in Seq(Nat) /\ Len(f) = n
OBVIOUS

(* The numbers of three sequences put one behind the other.                *)
LEMMA Joined ==
  ASSUME NEW p \in Seq(Nat), NEW q \in Seq(Nat), NEW r \in Seq(Nat), NEW s \in Nat,
         \A i \in 1 .. Len(p) : p[i] = s - (Len(p) + Len(q) + Len(r)) + i,
         \A i \in 1 .. Len(q) : q[i] = s - (Len(q) + Len(r)) + i,
         \A i \in 1 .. Len(r) : r[i] = s - Len(r) + i
  PROVE  \A i \in DOMAIN (p \o q \o r) :
           (p \o q \o r)[i] = s - Len(p \o q \o r) + i
<1>1. /\ p \o q \in Seq(Nat) /\ Len(p \o q) = Len(p) + Len(q)
      /\ \A i \in 1 .. Len(p) + Len(q) :
           (p \o q)[i] = IF i <= Len(p) THEN p[i] ELSE q[i - Len(p)]
  OBVIOUS
<1> DEFINE pq == p \o q
<1>3. pq \in Seq(Nat) /\ Len(pq) = Len(p) + Len(q)
  BY <1>1
<1>4. \A i \in 1 .. Len(pq) : pq[i] = s - (Len(pq) + Len(r)) + i
  <2> SUFFICES ASSUME NEW i \in 1 .. Len(pq)
               PROVE  pq[i] = s - (Len(pq) + Len(r)) + i
    OBVIOUS
  <2>1. CASE i <= Len(p)
    BY <1>1, <2>1
  <2>2. CASE i > Len(p)
    <3>1. i - Len(p) \in 1 .. Len(q) /\ pq[i] = q[i - Len(p)]
      BY <1>1, <2>2
    <3> QED
      BY <1>1, <3>1
  <2> QED
    BY <1>1, <2>1, <2>2
<1> HIDE DEF pq
<1>5. /\ Len(pq \o r) = Len(pq) + Len(r) /\ DOMAIN (pq \o r) = 1 .. Len(pq) + Len(r)
      /\ \A i \in 1 .. Len(pq) + Len(r) :
           (pq \o r)[i] = IF i <= Len(pq) THEN pq[i] ELSE r[i - Len(pq)]
  BY <1>3
<1>6. ASSUME NEW i \in 1 .. Len(pq) + Len(r)
      PROVE  (pq \o r)[i] = s - (Len(pq) + Len(r)) + i
  <2>1. CASE i <= Len(pq)
    BY <1>3, <1>4, <1>5, <2>1
  <2>2. CASE i > Len(pq)
    <3>1. i - Len(pq) \in 1 .. Len(r) /\ (pq \o r)[i] = r[i - Len(pq)]
      BY <1>3, <1>5, <2>2
    <3> QED
      BY <1>3, <3>1
  <2> QED
    BY <1>3, <2>1, <2>2
<1> QED
  BY <1>5, <1>6 DEF pq

(* Whatever is lost with a process, times out or waits in a channel, for    *)
(* any number of commands: while the child lives, the answers in the       *)
(* response channel, the command at work and those in the command channel  *)
(* are the last ones sent, in their order; the answer a method takes is as *)
(* many commands back as calls have timed out.                             *)
THEOREM AnswersStayInOrder == Spec => []AnswersInOrder
<1>1. ASSUME IInv PROVE AnswersInOrder
  <2> DEFINE atWork == IF child \in {"library", "blocked", "answering"}
                       THEN <<handled.number>> ELSE <<>>
             numbers == [i \in DOMAIN responses |-> responses[i].number]
             queued == [i \in DOMAIN commands |-> commands[i].number]
             open == numbers \o atWork \o queued
  <2>1. /\ numbers \in Seq(Nat) /\ Len(numbers) = Len(responses)
        /\ queued \in Seq(Nat) /\ Len(queued) = Len(commands)
        /\ atWork \in Seq(Nat) /\ Len(atWork) = Working
    <3>1. /\ responses \in Seq(Response) /\ commands \in Seq(Command)
          /\ handled.number \in Nat
      BY <1>1 DEF IInv, CoreTypeOK, Command
    <3>2. /\ DOMAIN responses = 1 .. Len(responses) /\ Len(responses) \in Nat
          /\ \A i \in 1 .. Len(responses) : responses[i].number \in Nat
      <4>1. /\ DOMAIN responses = 1 .. Len(responses) /\ Len(responses) \in Nat
            /\ \A i \in 1 .. Len(responses) : responses[i] \in Response
        BY <3>1
      <4>2. \A r \in Response : r.number \in Nat
        BY DEF Response
      <4> QED
        BY <4>1, <4>2
    <3>3. numbers \in Seq(Nat) /\ Len(numbers) = Len(responses)
      <4>1. numbers \in [1 .. Len(responses) -> Nat]
        BY <3>2
      <4> HIDE DEF numbers
      <4> QED
        BY <3>2, <4>1, Functional
    <3>4. /\ DOMAIN commands = 1 .. Len(commands) /\ Len(commands) \in Nat
          /\ \A i \in 1 .. Len(commands) : commands[i].number \in Nat
      <4>1. /\ DOMAIN commands = 1 .. Len(commands) /\ Len(commands) \in Nat
            /\ \A i \in 1 .. Len(commands) : commands[i] \in Command
        BY <3>1
      <4>2. \A r \in Command : r.number \in Nat
        BY DEF Command
      <4> QED
        BY <4>1, <4>2
    <3>5. queued \in Seq(Nat) /\ Len(queued) = Len(commands)
      <4>1. queued \in [1 .. Len(commands) -> Nat]
        BY <3>4
      <4> HIDE DEF queued
      <4> QED
        BY <3>4, <4>1, Functional
    <3> QED
      BY <3>1, <3>3, <3>5 DEF Working, AtWork
  <2>2. Alive => \A i \in DOMAIN open : open[i] = sent - Len(open) + i
    <3> SUFFICES ASSUME Alive PROVE \A i \in DOMAIN open : open[i] = sent - Len(open) + i
      OBVIOUS
    <3>1. sent \in Nat /\ Len(responses) \in Nat /\ Len(commands) \in Nat
      BY <1>1, Lengths DEF IInv, CoreTypeOK
    <3>2. Open = Len(numbers) + Len(atWork) + Len(queued)
      BY <2>1 DEF Open
    <3>3. \A i \in 1 .. Len(numbers) : numbers[i] = sent - Open + i
      BY <1>1, <2>1 DEF IInv, Numbered, CoreTypeOK
    <3>4. \A i \in 1 .. Len(queued) : queued[i] = sent - Len(queued) + i
      <4>1. \A i \in 1 .. Len(commands) : queued[i] = commands[i].number
        BY <1>1 DEF IInv, CoreTypeOK
      <4>2. \A i \in 1 .. Len(commands) : commands[i].number = sent - Len(commands) + i
        BY <1>1 DEF IInv, Numbered
      <4> QED
        BY <2>1, <4>1, <4>2
    <3>5. \A i \in 1 .. Len(atWork) : atWork[i] = sent - (Len(atWork) + Len(queued)) + i
      <4>1. CASE AtWork
        <5>1. handled.number = sent - Len(commands) /\ handled.number \in Nat
          BY <1>1, <4>1 DEF IInv, Numbered, CoreTypeOK, Command
        <5>2. Len(atWork) = 1 /\ atWork[1] = handled.number
          BY <4>1 DEF AtWork
        <5>3. Len(queued) = Len(commands)
          BY <2>1
        <5> HIDE DEF atWork, queued
        <5> QED
          BY <3>1, <5>1, <5>2, <5>3
      <4>2. CASE ~AtWork
        BY <2>1, <4>2 DEF Working
      <4> QED
        BY <4>1, <4>2
    <3> HIDE DEF atWork, numbers, queued
    <3> QED
      BY <2>1, <3>1, <3>2, <3>3, <3>4, <3>5, Joined
  <2>3. taken # 0 /\ caller = "ready" => taken = sent - late
    BY <1>1 DEF IInv, Answered
  <2> QED
    BY <2>2, <2>3 DEF AnswersInOrder
<1> QED
  BY <1>1, InductiveInvariant, PTL

(* However the child ended and wherever the calls stopped, for either      *)
(* transport: a handler that has been destroyed leaves neither a process,  *)
(* nor a zombie, nor the thread that reads the log.                        *)
THEOREM StopLeavesNothing == Spec => []NothingIsLeft
<1>1. IInv => NothingIsLeft
  BY DEF IInv, Places, NothingIsLeft
<1> QED
  BY <1>1, InductiveInvariant, PTL

=============================================================================
