---------------------------- MODULE IHVSubprocess ----------------------------
(***************************************************************************)
(* An API_Handler that runs its IHV library in a subprocess: the Server in *)
(* the benchmark's process (api_handler_ipc.cpp), the Client in the child  *)
(* that serves its commands, and the transport between them, of POSIX or   *)
(* of Windows (api_handler_ipc_posix.cpp, api_handler_ipc_win.cpp), from   *)
(* the construction of the handler to its destruction. The thread that     *)
(* owns the handler calls it in the order of its three users:              *)
(* API_Handler::CanBeLoaded, API_Handler::EnumerateDevices and an          *)
(* executor's inference (txt2txt_executor.cpp).                            *)
(*                                                                         *)
(* Commands carry no number and answers name no command: the numbers below *)
(* are there for the properties.  Tokens are collected in the child, by    *)
(* the CallbackAdapter of both scenarios, and come with the answer.        *)
(***************************************************************************)
EXTENDS Naturals, Sequences, SequencesExt

CONSTANTS
  Platforms, (* the transports to consider                                  *)
  Usages,   (* the users of a handler to consider                           *)
  MaxSent,  (* bound: commands after which no new round begins              *)
  LogRoom   (* messages that fit the buffer of the log channel              *)

ASSUME SubprocessAssumption ==
  /\ Platforms \subseteq {"posix", "windows"}
  /\ Usages \subseteq {"probe", "enumeration", "inference"}
  /\ MaxSent \in Nat
  /\ LogRoom \in Nat \ {0}

VARIABLES
  platform,  (* which transport                                             *)
  usage,     (* which user                                                  *)
  caller,    (* where the owner thread is                                   *)
  command,   (* the last method called                                      *)
  clean,     (* no method has failed since the last Prepare, or since the   *)
             (* last of the other methods                                   *)
  loaded,    (* model_initialized                                           *)
  running,   (* running_                                                    *)
  reader,    (* log_reader_thread_                                          *)
  child,     (* where the child process is                                  *)
  handled,   (* the command it handles                                      *)
  library,   (* the library behind local_handler_                           *)
  result,    (* of the library's call                                       *)
  commands,  (* in the command channel                                      *)
  responses, (* in the response channel                                     *)
  logs,      (* messages in the log channel                                 *)
  logOpen,   (* the child's end of it                                       *)
  sent,      (* history: how many commands have been written                *)
  late,      (* history: how many calls have timed out                      *)
  taken      (* history: the command whose answer was taken, 0 for none     *)

callVars == <<platform, usage, command, clean, loaded, late, taken>>
ownerVars == <<callVars, caller, running, sent>>
workVars == <<handled, library, result, logOpen>>
childVars == <<child, workVars>>
channels == <<commands, responses, logs>>
vars == <<ownerVars, reader, childVars, channels>>

Method == {"CanBeLoaded", "Setup", "EnumerateDevices", "Init", "Prepare", "Infer",
           "Reset", "Deinit", "Release", "Shutdown"}

Command == [method : Method, number : Nat]

(* "ready": between two calls; "waiting": in ReadMessage; the rest, up to   *)
(* "done", is Stop; "dead": the benchmark's process has gone.               *)
OwnerState == {"start", "ready", "waiting", "joining", "grace", "terminating",
               "second grace", "killing", "last wait", "closing", "done", "dead"}

(* "connecting": it has not opened its ends of the pipes of Windows yet.    *)
ChildState == {"none", "connecting", "reading", "library", "blocked", "answering", "leaving",
               "zombie", "reaped"}

Alive == child \notin {"none", "zombie", "reaped"}

TypeOK ==
  /\ platform \in Platforms
  /\ usage \in Usages
  /\ caller \in OwnerState
  /\ command \in Method \cup {"none"}
  /\ {clean, loaded, running, result, logOpen} \subseteq BOOLEAN
  /\ reader \in {"none", "polling", "gone"}
  /\ child \in ChildState
  /\ handled \in Command
  /\ library \in {"none", "setup", "initialized", "released"}
  /\ commands \in Seq(Command)
  /\ responses \in Seq([number : Nat, ok : BOOLEAN])
  /\ logs \in 0 .. LogRoom
  /\ {sent, late, taken} \subseteq Nat

Init ==
  /\ platform \in Platforms
  /\ usage \in Usages
  /\ caller = "start"
  /\ command = "none"
  /\ clean = TRUE
  /\ loaded = FALSE
  /\ running = FALSE
  /\ reader = "none"
  /\ child = "none"
  /\ handled = [method |-> "Shutdown", number |-> 0]
  /\ library = "none"
  /\ result = FALSE
  /\ commands = <<>>
  /\ responses = <<>>
  /\ logs = 0
  /\ logOpen = FALSE
  /\ sent = 0
  /\ late = 0
  /\ taken = 0

-----------------------------------------------------------------------------
(* What the two transports do differently *)

Posix == platform = "posix"

(* waitpid takes a child that has gone away; GetExitCodeProcess does not.   *)
AfterIsRunning == IF Posix /\ child = "zombie" THEN "reaped" ELSE child

(* A named pipe nobody has opened refuses the message.                      *)
Connected == Alive /\ child # "connecting"

(* The child opens its end of the log pipe without FILE_FLAG_OVERLAPPED: a  *)
(* write that waits for room waits without a limit.                         *)
LogWriteIsBounded == Posix

(* PeekNamedPipe shows the whole message.                                   *)
MessageIsThere == logs > 0

(* ReadFile is pending.                                                     *)
NothingToRead == responses = <<>>

-----------------------------------------------------------------------------
(* The owner: which method may follow *)

(* The executor and its inference.  A cancellation, a failed prompt and an  *)
(* output that cannot be used lead to Deinit; a prompt that is skipped and  *)
(* another model_config to Deinit and Init; a cancellation between two      *)
(* input files to the destruction of the inference.                         *)
AfterCall ==
  CASE command = "none"    -> {"Setup"}
    [] command = "Setup"   -> {"Release"} \cup (IF clean THEN {"Init"} ELSE {})
    [] command = "Init"    -> {"Release"} \cup (IF clean THEN {"Prepare"} ELSE {})
                                         \cup (IF loaded THEN {"Deinit"} ELSE {})
    [] command = "Prepare" -> IF clean THEN {"Infer"} ELSE {"Deinit"}
    [] command = "Infer"   -> {"Reset", "Deinit"}
    [] command = "Reset"   -> {"Deinit"} \cup (IF clean THEN {"Prepare", "Release"}
                                                       ELSE {})
    [] command = "Deinit"  -> {"Init", "Release"}
    [] OTHER               -> {}

Following ==
  CASE usage = "probe" ->
         CASE command = "none"        -> {"CanBeLoaded"}
           [] command = "CanBeLoaded" -> {"Shutdown"}
           [] OTHER                   -> {}
    [] usage = "enumeration" ->
         CASE command = "none"             -> {"Setup"}
           [] command = "Setup" /\ clean -> {"EnumerateDevices"}
           [] OTHER                        -> {}
    [] usage = "inference" -> AfterCall

(* A further prompt and a further model begin while the bound allows it. *)
MayCall(m) ==
  /\ caller = "ready"
  /\ m \in Following
  /\ m \in {"Prepare", "Init"} => sent < MaxSent

(* The method returns. *)
Outcome(m, ok) ==
  /\ caller' = "ready"
  /\ clean' = IF m \in {"Infer", "Reset"} THEN clean /\ ok ELSE ok
  /\ loaded' = (loaded \/ (m = "Init" /\ ok))

-----------------------------------------------------------------------------
(* The owner: Start and the calls *)

(* WaitForSingleObject leaves the last error at that of ConnectNamedPipe,   *)
(* so that the wait succeeds too when nobody came.                          *)
WaitForClientConnection ==
  child' \in IF Posix THEN {"reading"} ELSE {"reading", "connecting"}

Start ==
  /\ caller = "start"
  /\ caller' = "ready"
  /\ running' = TRUE
  /\ reader' = "polling"
  /\ WaitForClientConnection
  /\ logOpen' = TRUE
  /\ UNCHANGED <<callVars, sent, handled, library, result, channels>>

(* No sockets, or no process: there is no Server, and CanBeLoaded returns. *)
StartFails ==
  /\ caller = "start"
  /\ caller' = IF usage = "probe" THEN "done" ELSE "ready"
  /\ UNCHANGED <<callVars, running, sent, reader, childVars, channels>>

(* IsLoaded and IsRunning hold, and the command is written. *)
SendCommand(m) ==
  /\ MayCall(m)
  /\ running /\ Connected
  /\ command' = m
  /\ sent' = sent + 1
  /\ commands' = Append(commands, [method |-> m, number |-> sent + 1])
  /\ caller' = "waiting"
  /\ UNCHANGED <<platform, usage, clean, loaded, running, late, taken, reader, childVars,
                 responses, logs>>

(* IsRunning finds the child gone, and the method fails. *)
NotRunning(m) ==
  /\ MayCall(m)
  /\ ~(running /\ Alive)
  /\ command' = m
  /\ taken' = 0
  /\ Outcome(m, FALSE)
  /\ child' = IF running THEN AfterIsRunning ELSE child
  /\ UNCHANGED <<platform, usage, running, sent, late, reader, workVars, channels>>

(* The child has gone after IsRunning, or has never come: the command      *)
(* cannot be written.                                                      *)
SendFails(m) ==
  /\ MayCall(m)
  /\ running /\ child \in {"zombie", "connecting"}
  /\ command' = m
  /\ taken' = 0
  /\ Outcome(m, FALSE)
  /\ UNCHANGED <<platform, usage, running, sent, late, reader, childVars, channels>>

(* Whatever comes out of the response channel is the answer. *)
TakeResponse ==
  /\ caller = "waiting"
  /\ responses # <<>>
  /\ taken' = Head(responses).number
  /\ responses' = Tail(responses)
  /\ Outcome(command, Head(responses).ok)
  /\ UNCHANGED <<platform, usage, command, running, sent, late, reader, childVars,
                 commands, logs>>

(* Nothing will come any more; Infer asks IsRunning why. *)
EndOfFile ==
  /\ caller = "waiting"
  /\ NothingToRead
  /\ child \in {"zombie", "reaped"}
  /\ child' = IF command = "Infer" THEN AfterIsRunning ELSE child
  /\ taken' = 0
  /\ Outcome(command, FALSE)
  /\ UNCHANGED <<platform, usage, command, running, sent, late, reader, workVars,
                 channels>>

(* kIPCTimeout or kIPCTimeoutLong passes.  Infer, after it, reads again for *)
(* as long as the child runs.                                               *)
TimesOut ==
  /\ caller = "waiting"
  /\ NothingToRead
  /\ Alive
  /\ command # "Infer"
  /\ late' = late + 1
  /\ taken' = 0
  /\ Outcome(command, FALSE)
  /\ UNCHANGED <<platform, usage, command, running, sent, reader, childVars, channels>>

-----------------------------------------------------------------------------
(* The owner: Stop *)

NoMoreCalls == caller = "ready" /\ Following = {}

(* Mutant: a child that has gone needs no Stop. *)
BeginStop_IfAlive ==
  /\ NoMoreCalls
  /\ running' = FALSE
  /\ caller' = IF running /\ Alive THEN "joining" ELSE "done"
  /\ UNCHANGED <<callVars, sent, reader, childVars, channels>>

(* Mutant: the log reader is not told. *)
BeginStop_Silent ==
  /\ NoMoreCalls
  /\ caller' = IF running THEN "joining" ELSE "done"
  /\ UNCHANGED <<callVars, running, sent, reader, childVars, channels>>

BeginStop ==
  /\ NoMoreCalls
  /\ running' = FALSE
  /\ caller' = IF running THEN "joining" ELSE "done"
  /\ UNCHANGED <<callVars, sent, reader, childVars, channels>>

(* The log reader is joined first, then kShutdown is written, as far as     *)
(* there is somebody to read it.                                            *)
JoinReader ==
  /\ caller = "joining"
  /\ reader = "gone"
  /\ caller' = "grace"
  /\ IF Connected
     THEN /\ commands' = Append(commands,
                               [method |-> "Shutdown", number |-> sent + 1])
          /\ sent' = sent + 1
     ELSE UNCHANGED <<commands, sent>>
  /\ UNCHANGED <<callVars, running, reader, childVars, responses, logs>>

Stopping(from, to) ==
  /\ caller = from
  /\ caller' = to
  /\ UNCHANGED <<callVars, running, sent, reader, workVars, channels>>

(* The child can be reaped, or has been. *)
Gone == child \in {"zombie", "reaped"}

ReapInGrace ==
  /\ Stopping("grace", "closing") \/ Stopping("second grace", "closing")
  /\ Gone
  /\ child' = "reaped"

GraceEnds ==
  /\ Posix
  /\ Stopping("grace", "terminating") \/ Stopping("second grace", "killing")
  /\ ~Gone
  /\ UNCHANGED child

(* Windows ends the process, and does not say when; the join of the thread *)
(* that drains its output waits for it.                                    *)
TerminateProcess ==
  /\ ~Posix
  /\ Stopping("grace", "closing")
  /\ ~Gone
  /\ child' = "zombie"

(* SIGTERM; a library may have a handler for it. *)
Terminate ==
  /\ Stopping("terminating", "second grace")
  /\ child' \in {child, "zombie"}

Kill ==
  /\ Stopping("killing", "last wait")
  /\ child' = IF Alive THEN "zombie" ELSE child

ReapAtLast ==
  /\ Stopping("last wait", "closing")
  /\ child' = "reaped"

(* The thread that reads what the process prints, on Windows.              *)
StdoutReaderHasEnded == Posix \/ Gone

(* On Windows the handle of the process has been closed too.               *)
ClosePipes ==
  /\ Stopping("closing", "done")
  /\ StdoutReaderHasEnded
  /\ child' = "reaped"

StopStep ==
  \/ BeginStop
  \/ JoinReader
  \/ ReapInGrace
  \/ GraceEnds
  \/ TerminateProcess
  \/ Terminate
  \/ Kill
  \/ ReapAtLast
  \/ ClosePipes

(* The benchmark's process dies: what it knew is gone, and its ends of the  *)
(* channels are closed, with what nobody will take from them.               *)
OwnerDies ==
  /\ caller \notin {"start", "done", "dead"}
  /\ caller' = "dead"
  /\ running' = FALSE /\ reader' = "gone"
  /\ command' = "none" /\ clean' = TRUE /\ loaded' = FALSE
  /\ taken' = 0 /\ late' = 0
  /\ responses' = <<>> /\ logs' = 0
  /\ UNCHANGED <<platform, usage, sent, childVars, commands>>

-----------------------------------------------------------------------------
(* The log reader *)

ReadLog ==
  /\ reader = "polling"
  /\ running
  /\ MessageIsThere
  /\ logs' = logs - 1
  /\ UNCHANGED <<ownerVars, reader, childVars, commands, responses>>

(* What is left in the channel is lost. *)
ReaderEnds ==
  /\ reader = "polling"
  /\ ~running
  /\ reader' = "gone"
  /\ UNCHANGED <<ownerVars, childVars, channels>>

ReaderStep == ReadLog \/ ReaderEnds

-----------------------------------------------------------------------------
(* The child *)

(* On Windows, later than the benchmark waited for it.                      *)
Connect ==
  /\ child = "connecting"
  /\ child' = "reading"
  /\ UNCHANGED <<ownerVars, reader, workVars, channels>>

(* Every method but these asks for a handler that has been set up. *)
NeedsNoHandler == {"CanBeLoaded", "Setup", "Shutdown"}

ReadCommand ==
  /\ child = "reading"
  /\ commands # <<>>
  /\ handled' = Head(commands)
  /\ commands' = Tail(commands)
  /\ IF \/ Head(commands).method = "Shutdown"
        \/ library = "none" /\ Head(commands).method \notin NeedsNoHandler
     THEN /\ child' = "answering"
          /\ result' = (Head(commands).method = "Shutdown")
     ELSE /\ child' = "library"
          /\ UNCHANGED result
  /\ UNCHANGED <<ownerVars, reader, library, logOpen, responses, logs>>

(* Mutant: the loop goes on after the end of the channel. *)
CommandsEnd_Retries ==
  /\ child = "reading"
  /\ commands = <<>>
  /\ caller # "dead"
  /\ child' = "leaving"
  /\ UNCHANGED <<ownerVars, reader, workVars, channels>>

(* 45 minutes without a command, or the end of the channel. *)
CommandsEnd ==
  /\ child = "reading"
  /\ commands = <<>>
  /\ child' = "leaving"
  /\ UNCHANGED <<ownerVars, reader, workVars, channels>>

(* The library logs; with the buffer full, the write waits. *)
ChildLogs ==
  /\ child \in {"library", "blocked"}
  /\ logOpen
  /\ caller # "dead"
  /\ IF logs < LogRoom
     THEN logs' = logs + 1 /\ child' = "library"
     ELSE child = "library" /\ child' = "blocked" /\ UNCHANGED logs
  /\ UNCHANGED <<ownerVars, reader, workVars, commands, responses>>

(* The write fails, for good: nothing is logged any more. *)
LogCloses ==
  /\ \/ child = "blocked" /\ (LogWriteIsBounded \/ caller = "dead")
     \/ child = "library" /\ logOpen /\ caller = "dead"
  /\ child' = "library"
  /\ logOpen' = FALSE
  /\ UNCHANGED <<ownerVars, reader, handled, library, result, channels>>

(* What a call that succeeded or failed makes of the library. *)
LibraryAfter(ok) ==
  CASE handled.method = "Setup" -> IF ok THEN "setup" ELSE "none"
    [] handled.method = "Init" /\ ok -> "initialized"
    [] handled.method = "Deinit" /\ ok -> "setup"
    [] handled.method = "Release" -> IF ok THEN "released" ELSE library
    [] OTHER -> library

LibraryReturns ==
  /\ child = "library"
  /\ \E ok \in BOOLEAN :
       /\ handled.method = "Release" /\ library = "released" => ~ok
       /\ result' = ok
       /\ library' = LibraryAfter(ok)
  /\ child' = "answering"
  /\ UNCHANGED <<ownerVars, reader, handled, logOpen, channels>>

(* Mutant: a refused command is answered, and then handled after all. *)
Answer_Twice ==
  /\ child = "answering"
  /\ responses' = IF caller = "dead" THEN <<>>
                  ELSE Append(responses, [number |-> handled.number, ok |-> result])
  /\ child' = IF handled.method = "Shutdown" THEN "leaving"
              ELSE IF library = "none" /\ ~result THEN "library"
              ELSE "reading"
  /\ UNCHANGED <<ownerVars, reader, workVars, commands, logs>>

Answer ==
  /\ child = "answering"
  /\ responses' = IF caller = "dead" THEN <<>>
                  ELSE Append(responses, [number |-> handled.number, ok |-> result])
  /\ child' = IF handled.method = "Shutdown" THEN "leaving" ELSE "reading"
  /\ UNCHANGED <<ownerVars, reader, workVars, commands, logs>>

(* The handler is destroyed, which releases the library, and main returns. *)
Leave ==
  /\ child = "leaving"
  /\ child' = "zombie"
  /\ library' = "none"
  /\ UNCHANGED <<ownerVars, reader, handled, result, logOpen, channels>>

(* The library brings the process down. *)
Crash ==
  /\ Alive
  /\ child' = "zombie"
  /\ UNCHANGED <<ownerVars, reader, workVars, channels>>

ChildStep == Connect \/ ReadCommand \/ Answer \/ Leave \/ LogCloses

-----------------------------------------------------------------------------
Next ==
  \/ Start
  \/ StartFails
  \/ \E m \in Method : SendCommand(m)
  \/ \E m \in Method : NotRunning(m)
  \/ \E m \in Method : SendFails(m)
  \/ TakeResponse
  \/ EndOfFile
  \/ TimesOut
  \/ StopStep
  \/ OwnerDies
  \/ ReaderStep
  \/ ChildStep
  \/ CommandsEnd
  \/ ChildLogs
  \/ LibraryReturns
  \/ Crash
  \/ caller \in {"done", "dead"} /\ ~Alive /\ UNCHANGED vars

Spec == Init /\ [][Next]_vars

(* Threads and processes run, and a wait with a timeout comes to an end;    *)
(* nothing is asked of the library, nor that the user calls another method. *)
Fairness ==
  /\ WF_vars(TakeResponse)
  /\ WF_vars(EndOfFile)
  /\ WF_vars(TimesOut)
  /\ WF_vars(StopStep)
  /\ WF_vars(ReadLog)
  /\ WF_vars(ReaderEnds)
  /\ WF_vars(ChildStep)
  /\ WF_vars(CommandsEnd)

FairSpec == Spec /\ Fairness

-----------------------------------------------------------------------------
(* Properties *)

(* No answer is lost, repeated or overtaken while the child lives: what is  *)
(* in the response channel, at work in the child and in the command channel *)
(* are the commands not yet answered, one by one and in order.  The answer  *)
(* a method takes is therefore that of the command as many places back as   *)
(* calls have timed out, and its own as long as none has.                   *)
AnswersInOrder ==
  LET atWork == IF child \in {"library", "blocked", "answering"}
                THEN <<handled.number>> ELSE <<>>
      open == [i \in DOMAIN responses |-> responses[i].number] \o atWork
                \o [i \in DOMAIN commands |-> commands[i].number]
  IN  /\ Alive => \A i \in DOMAIN open : open[i] = sent - Len(open) + i
      /\ taken # 0 /\ caller = "ready" => taken = sent - late

(* A handler that has been destroyed leaves no process, no zombie and no    *)
(* log reader, however the child ended and wherever the calls stopped.      *)
NothingIsLeft ==
  caller = "done" => child \in {"none", "reaped"} /\ reader \in {"none", "gone"}

(* Stop ends, whatever the library does and whatever it logs.               *)
StopEnds == (caller = "joining") ~> caller \in {"done", "dead"}

(* A child whose parent has died ends too, unless its library never returns.*)
OrphanEnds == <>[](caller = "dead" /\ Alive) => <>[](child = "library")

=============================================================================
