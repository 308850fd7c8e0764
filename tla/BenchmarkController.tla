------------------------- MODULE BenchmarkController -------------------------
(***************************************************************************)
(* The graphical client: the GUI thread with its event loop, and the       *)
(* threads BenchmarkController creates to enumerate devices, to run the    *)
(* benchmark (or only its downloads) and to clear the cache.               *)
(*                                                                         *)
(* Two mechanisms of Qt carry the protocol. QThread::finished is emitted   *)
(* in the worker and queued to the GUI thread, where a lambda deletes the  *)
(* thread in the member benchmark_thread_, which need not be the one that  *)
(* finished. A blocking queued call makes the worker wait until the GUI    *)
(* thread is back in its event loop, which it is not while it waits for    *)
(* the worker.                                                             *)
(***************************************************************************)
EXTENDS Naturals, Sequences

CONSTANTS
  Configs,  (* number of configurations                                    *)
  Threads   (* bound: number of thread objects created in a session        *)

ASSUME ControllerAssumption ==
  /\ Configs \in Nat \ {0}
  /\ Threads \in Nat \ {0}

VARIABLES
  gui,       (* what the GUI thread is doing                               *)
  page,      (* "realtime", or "tabs" for the pages the tabs lead to       *)
  loaded,    (* the start page has its EPs                                 *)
  member,    (* benchmark_thread_, 0 for nullptr                           *)
  created,   (* thread objects created so far                              *)
  kind,      (* what each was created for                                  *)
  life,      (* "none", "running", "ended" or "deleted"                    *)
  pc,        (* where each worker is                                       *)
  config,    (* the index of its loop                                      *)
  events,    (* events posted to the GUI thread                            *)
  interrupt, (* interrupt_                                                 *)
  status,    (* benchmark_status_                                          *)
  prepared,  (* the configurations that pushed to prepared_eps_configs_    *)
  skipped,   (* configurations whose enumeration threw                     *)
  asked,     (* workers that have been asked to stop                       *)
  replaced,  (* benchmark_thread_ was overwritten before its lambda ran    *)
  fatal      (* what ended the program, or "no"                            *)

threadVars == <<created, kind, life, pc, config>>
userVars == <<gui, page, loaded>>
historyVars == <<skipped, asked, replaced, fatal>>
vars == <<userVars, member, threadVars, events, interrupt, status, prepared,
          historyVars>>

Thread == 1 .. Threads
Event == [tag : {"finished", "delete", "call", "ask"}, thread : Thread]

Place == {"none", "sizes", "fetch", "prepare", "call", "calling", "collect",
          "reporting", "failing", "ask", "asking", "bench", "next", "run", "clear",
          "end"}

TypeOK ==
  /\ gui \in {"loop", "startWait", "depsWait", "clearWait", "quitWait", "modal", "gone"}
  /\ page \in {"tabs", "realtime"}
  /\ loaded \in BOOLEAN
  /\ member \in 0 .. created
  /\ created \in Thread
  /\ kind \in [Thread -> {"none", "enumerate", "run", "deps", "clear"}]
  /\ life \in [Thread -> {"none", "running", "ended", "deleted"}]
  /\ pc \in [Thread -> Place]
  /\ config \in [Thread -> 1 .. Configs + 1]
  /\ events \in Seq(Event)
  /\ interrupt \in BOOLEAN
  /\ status \in [success : BOOLEAN, collected : BOOLEAN, accepted : BOOLEAN,
                 cancelled : BOOLEAN, done : Seq(BOOLEAN)]
  /\ prepared \in Seq(1 .. Configs)
  /\ skipped \subseteq 1 .. Configs /\ asked \subseteq Thread /\ replaced \in BOOLEAN
  /\ fatal \in {"no", "destroyed running", "null thread"}

NewStatus == [success |-> FALSE, collected |-> FALSE, accepted |-> FALSE,
              cancelled |-> FALSE, done |-> << >>]

(* InitStartPage has just started the enumeration, on the only call.       *)
Init ==
  /\ gui = "loop" /\ page = "tabs" /\ loaded = FALSE
  /\ member = 1 /\ created = 1
  /\ kind = [t \in Thread |-> IF t = 1 THEN "enumerate" ELSE "none"]
  /\ life = [t \in Thread |-> IF t = 1 THEN "running" ELSE "none"]
  /\ pc = [t \in Thread |-> IF t = 1 THEN "sizes" ELSE "none"]
  /\ config = [t \in Thread |-> 1]
  /\ events = << >>
  /\ interrupt = FALSE
  /\ status = [NewStatus EXCEPT !.success = TRUE]
  /\ prepared = << >>
  /\ skipped = {} /\ asked = {} /\ replaced = FALSE /\ fatal = "no"

-----------------------------------------------------------------------------
(* Helpers *)

Busy == member # 0 /\ life[member] = "running"

Post(tag, t) == events' = Append(events, [tag |-> tag, thread |-> t])

At(t, place) == life[t] = "running" /\ pc[t] = place
GoesTo(t, place) == pc' = [pc EXCEPT ![t] = place]

(* A new thread object in the member, started at once.                     *)
Create(what, place) ==
  LET t == created + 1 IN
  /\ created' = t
  /\ member' = t
  /\ kind' = [kind EXCEPT ![t] = what]
  /\ life' = [life EXCEPT ![t] = "running"]
  /\ GoesTo(t, place)
  /\ replaced' = (replaced \/ member # 0)
  /\ UNCHANGED config

-----------------------------------------------------------------------------
(* What the user does while the event loop runs *)

(* AppController::RunBenchmark clears the interrupt for the new execution; *)
(* BenchmarkController::RunBenchmark then waits for an earlier thread.     *)
ClickStart ==
  /\ gui = "loop" /\ page = "tabs" /\ loaded /\ created < Threads
  /\ gui' \in {"startWait", "depsWait"}
  /\ interrupt' = FALSE
  /\ UNCHANGED <<page, loaded, member, threadVars, events, status, prepared,
                 historyVars>>

(* With the question about the download, or without.                       *)
StartRun ==
  /\ gui \in {"startWait", "depsWait"}
  /\ ~Busy
  /\ \E place \in {"call", "bench"} :
       Create(IF gui = "depsWait" THEN "deps" ELSE "run", place)
  /\ status' = NewStatus
  /\ interrupt' = FALSE
  /\ gui' = "loop" /\ page' = "realtime"
  /\ UNCHANGED <<loaded, events, prepared, skipped, asked, fatal>>

(* BenchmarkController::StopBenchmark up to its wait.                      *)
AskToStop ==
  /\ interrupt' = (interrupt \/ Busy)
  /\ asked' = IF Busy THEN asked \cup {member} ELSE asked

(* Mutant: stopping also deletes the thread. *)
ClickCancel_Deletes ==
  /\ gui = "loop" /\ page = "realtime"
  /\ AskToStop
  /\ Post("delete", member)
  /\ UNCHANGED <<userVars, member, threadVars, status, prepared, skipped, replaced,
                 fatal>>

ClickCancel ==
  /\ gui = "loop" /\ page = "realtime"
  /\ AskToStop
  /\ UNCHANGED <<userVars, member, threadVars, events, status, prepared, skipped,
                 replaced, fatal>>

ClickClear ==
  /\ gui = "loop" /\ page = "tabs" /\ created < Threads
  /\ AskToStop
  /\ gui' = "clearWait"
  /\ UNCHANGED <<page, loaded, member, threadVars, events, status, prepared,
                 skipped, replaced, fatal>>

StartClear ==
  /\ gui = "clearWait"
  /\ ~Busy
  /\ Create("clear", "clear")
  /\ gui' = "loop"
  /\ UNCHANGED <<page, loaded, events, interrupt, status, prepared, skipped, asked,
                 fatal>>

(* The window is closed: the event loop ends, then ~AppController.         *)
ClickQuit ==
  /\ gui = "loop"
  /\ AskToStop
  /\ gui' = "quitWait"
  /\ UNCHANGED <<page, loaded, member, threadVars, events, status, prepared,
                 skipped, replaced, fatal>>

(* Mutant: the destructor does not wait. *)
Quit_NoWait ==
  /\ gui = "quitWait"
  /\ gui' = "gone"
  /\ UNCHANGED <<page, loaded, member, threadVars, events, interrupt, status,
                 prepared, historyVars>>

Quit ==
  /\ gui = "quitWait"
  /\ ~Busy
  /\ gui' = "gone"
  /\ UNCHANGED <<page, loaded, member, threadVars, events, interrupt, status,
                 prepared, historyVars>>

(* The modal question of RequestDownload. Other events wait until it is    *)
(* answered.                                                               *)
AnswerDownload ==
  /\ gui = "modal"
  /\ gui' = "loop"
  /\ \E t \in Thread, accepted \in BOOLEAN :
       /\ At(t, "asking")
       /\ status' = [status EXCEPT !.accepted = accepted, !.cancelled = @ \/ ~accepted]
       /\ GoesTo(t, IF accepted THEN "bench" ELSE "end")
  /\ UNCHANGED <<page, loaded, member, created, kind, life, config, events,
                 interrupt, prepared, historyVars>>

-----------------------------------------------------------------------------
(* The events of the GUI thread *)

Next1 == Head(events)

(* Mutant: only complete runs lead back to the start page. *)
Finished_OnlyRuns(what) ==
  /\ loaded' = (loaded \/ what = "enumerate")
  /\ IF what = "run"
     THEN /\ status' = [status EXCEPT !.cancelled = @ \/ interrupt]
          /\ page' = "tabs"
     ELSE UNCHANGED <<status, page>>

(* What the finished lambdas do beyond the thread: the start page gets its *)
(* EPs, or the run is reported and the start page shown.                   *)
Finished(what) ==
  /\ loaded' = (loaded \/ what = "enumerate")
  /\ IF what \in {"run", "deps"}
     THEN /\ status' = [status EXCEPT !.cancelled = @ \/ interrupt]
          /\ page' = "tabs"
     ELSE UNCHANGED <<status, page>>

HandleFinished ==
  /\ gui = "loop" /\ events # << >> /\ Next1.tag = "finished"
  /\ life[Next1.thread] # "deleted" /\ member # 0
  /\ events' = Append(Tail(events), [tag |-> "delete", thread |-> member])
  /\ member' = 0
  /\ Finished(kind[Next1.thread])
  /\ UNCHANGED <<gui, threadVars, interrupt, prepared, historyVars>>

(* The lambda of a thread whose place in the member another lambda has     *)
(* cleared.                                                                *)
HandleFinishedNull ==
  /\ gui = "loop" /\ events # << >> /\ Next1.tag = "finished"
  /\ life[Next1.thread] # "deleted" /\ member = 0
  /\ events' = Tail(events)
  /\ fatal' = "null thread"
  /\ UNCHANGED <<userVars, member, threadVars, interrupt, status, prepared, skipped,
                 asked, replaced>>

(* The context object is gone, and its events with it.                     *)
DropFinished ==
  /\ gui = "loop" /\ events # << >> /\ Next1.tag = "finished"
  /\ life[Next1.thread] = "deleted"
  /\ events' = Tail(events)
  /\ UNCHANGED <<userVars, member, threadVars, interrupt, status, prepared,
                 historyVars>>

(* Deleting a QThread that runs is fatal.                                  *)
HandleDelete ==
  /\ gui = "loop" /\ events # << >> /\ Next1.tag = "delete"
  /\ events' = Tail(events)
  /\ IF life[Next1.thread] = "running"
     THEN fatal' = "destroyed running" /\ UNCHANGED life
     ELSE life' = [life EXCEPT ![Next1.thread] = "deleted"] /\ UNCHANGED fatal
  /\ UNCHANGED <<userVars, member, created, kind, pc, config, interrupt, status,
                 prepared, skipped, asked, replaced>>

(* A blocking queued call is done and releases its worker.                 *)
HandleCall ==
  /\ gui = "loop" /\ events # << >> /\ Next1.tag = "call"
  /\ events' = Tail(events)
  /\ LET t == Next1.thread IN
     \/ pc[t] = "calling" /\ GoesTo(t, "collect") /\ UNCHANGED status
     \/ pc[t] = "reporting"
        /\ status' = [status EXCEPT !.collected = TRUE]
        /\ \E place \in {"bench", "ask"} : GoesTo(t, place)
     \/ pc[t] = "failing"
        /\ status' = [status EXCEPT !.collected = FALSE]
        /\ GoesTo(t, "end")
  /\ UNCHANGED <<userVars, member, created, kind, life, config, interrupt, prepared,
                 historyVars>>

HandleAsk ==
  /\ gui = "loop" /\ events # << >> /\ Next1.tag = "ask"
  /\ events' = Tail(events)
  /\ gui' = "modal"
  /\ UNCHANGED <<page, loaded, member, threadVars, interrupt, status, prepared,
                 historyVars>>

-----------------------------------------------------------------------------
(* EnumerateDevicesWorker *)

(* CollectEnumerationDownloadSize leaves nothing to fetch, more than the   *)
(* volume holds, or something to fetch. The failure is for the user.       *)
SizeDownloads(t) ==
  /\ At(t, "sizes")
  /\ \E place \in {"prepare", "fetch", "end"} :
       /\ GoesTo(t, place)
       /\ status' = [status EXCEPT !.success = @ /\ place # "end"]
  /\ UNCHANGED <<userVars, member, created, kind, life, config, events, interrupt,
                 prepared, historyVars>>

(* Mutant: the preparation goes on from the index of the download. *)
FetchOne_SharedIndex(t) ==
  /\ At(t, "fetch")
  /\ IF interrupt \/ config[t] >= Configs
     THEN GoesTo(t, "prepare") /\ UNCHANGED <<config, status>>
     ELSE /\ config' = [config EXCEPT ![t] = @ + 1]
          /\ \E ok \in BOOLEAN : status' = [status EXCEPT !.success = @ /\ ok]
          /\ UNCHANGED pc
  /\ UNCHANGED <<userVars, member, created, kind, life, events, interrupt, prepared,
                 historyVars>>

(* The download loop. A configuration that fails does not end it.          *)
FetchOne(t) ==
  /\ At(t, "fetch")
  /\ IF interrupt \/ config[t] > Configs
     THEN /\ GoesTo(t, "prepare")
          /\ config' = [config EXCEPT ![t] = 1]
          /\ UNCHANGED status
     ELSE /\ config' = [config EXCEPT ![t] = @ + 1]
          /\ \E ok \in BOOLEAN : status' = [status EXCEPT !.success = @ /\ ok]
          /\ UNCHANGED pc
  /\ UNCHANGED <<userVars, member, created, kind, life, events, interrupt, prepared,
                 historyVars>>

(* The preparation loop. A run that fails still has a list of prepared EPs *)
(* to push to prepared_eps_configs_, one that throws has none.             *)
PrepareOne(t) ==
  /\ At(t, "prepare")
  /\ ~interrupt /\ config[t] <= Configs
  /\ config' = [config EXCEPT ![t] = @ + 1]
  /\ \E outcome \in {"ok", "fails", "throws"} :
       /\ status' = [status EXCEPT !.success = @ /\ outcome = "ok"]
       /\ IF outcome = "throws"
          THEN skipped' = skipped \cup {config[t]} /\ UNCHANGED prepared
          ELSE prepared' = Append(prepared, config[t]) /\ UNCHANGED skipped
  /\ UNCHANGED <<userVars, member, created, kind, life, pc, events, interrupt, asked,
                 replaced, fatal>>

EndPreparing(t) ==
  /\ At(t, "prepare")
  /\ interrupt \/ config[t] > Configs
  /\ GoesTo(t, "end")
  /\ UNCHANGED <<userVars, member, created, kind, life, config, events, interrupt,
                 status, prepared, historyVars>>

-----------------------------------------------------------------------------
(* CollectRemoteSizesWorker *)

(* The first blocking call prepares the page.                              *)
CallPage(t) ==
  /\ At(t, "call")
  /\ Post("call", t)
  /\ GoesTo(t, "calling")
  /\ UNCHANGED <<userVars, member, created, kind, life, config, interrupt, status,
                 prepared, historyVars>>

CollectOne(t) ==
  /\ At(t, "collect")
  /\ ~interrupt /\ config[t] <= Configs
  /\ config' = [config EXCEPT ![t] = @ + 1]
  /\ UNCHANGED <<userVars, member, created, kind, life, pc, events, interrupt,
                 status, prepared, historyVars>>

(* The loop ends with the last size, an interrupt or a failure, and the    *)
(* second blocking call is made.                                           *)
EndCollecting(t) ==
  /\ At(t, "collect")
  /\ Post("call", t)
  /\ \/ config[t] > Configs /\ GoesTo(t, "reporting")
     \/ config[t] <= Configs /\ GoesTo(t, "failing")
  /\ UNCHANGED <<userVars, member, created, kind, life, config, interrupt, status,
                 prepared, historyVars>>

(* The third asks the user, when there is something to download.           *)
AskUser(t) ==
  /\ At(t, "ask")
  /\ Post("ask", t)
  /\ GoesTo(t, "asking")
  /\ UNCHANGED <<userVars, member, created, kind, life, config, interrupt, status,
                 prepared, historyVars>>

-----------------------------------------------------------------------------
(* BenchmarkWorker *)

BeginBenchmark(t) ==
  /\ At(t, "bench")
  /\ status' = [status EXCEPT !.success = TRUE]
  /\ config' = [config EXCEPT ![t] = 1]
  /\ GoesTo(t, "next")
  /\ UNCHANGED <<userVars, member, created, kind, life, events, interrupt, prepared,
                 historyVars>>

(* Mutant: the loop does not look at the interrupt. *)
NextConfig_Deaf(t) ==
  /\ At(t, "next")
  /\ GoesTo(t, IF config[t] > Configs THEN "end" ELSE "run")
  /\ UNCHANGED <<userVars, member, created, kind, life, config, events, interrupt,
                 status, prepared, historyVars>>

NextConfig(t) ==
  /\ At(t, "next")
  /\ GoesTo(t, IF config[t] > Configs \/ interrupt THEN "end" ELSE "run")
  /\ UNCHANGED <<userVars, member, created, kind, life, config, events, interrupt,
                 status, prepared, historyVars>>

(* BenchmarkRunner::Run of one configuration, ended by its stages, by the  *)
(* interrupt or by an exception; its status is recorded in every case. The *)
(* download alone fails only with a failed stage.                          *)
RunConfig(t) ==
  /\ At(t, "run")
  /\ \E ok \in BOOLEAN :
       status' = [status EXCEPT !.done = Append(@, ok), !.success = @ /\ ok]
  /\ config' = [config EXCEPT ![t] = @ + 1]
  /\ GoesTo(t, "next")
  /\ UNCHANGED <<userVars, member, created, kind, life, events, interrupt, prepared,
                 historyVars>>

-----------------------------------------------------------------------------
(* ClearCache, and the end of every thread *)

ClearCache(t) ==
  /\ At(t, "clear")
  /\ GoesTo(t, "end")
  /\ UNCHANGED <<userVars, member, created, kind, life, config, events, interrupt,
                 status, prepared, historyVars>>

EndThread(t) ==
  /\ At(t, "end")
  /\ life' = [life EXCEPT ![t] = "ended"]
  /\ Post("finished", t)
  /\ UNCHANGED <<userVars, member, created, kind, pc, config, interrupt, status,
                 prepared, historyVars>>

-----------------------------------------------------------------------------
Worker(t) ==
  /\ fatal = "no"
  /\ \/ SizeDownloads(t) \/ FetchOne(t) \/ PrepareOne(t) \/ EndPreparing(t)
     \/ CallPage(t) \/ CollectOne(t) \/ EndCollecting(t) \/ AskUser(t)
     \/ BeginBenchmark(t) \/ NextConfig(t) \/ RunConfig(t)
     \/ ClearCache(t) \/ EndThread(t)

(* What the GUI thread does of itself.                                     *)
Gui ==
  /\ fatal = "no"
  /\ \/ StartRun \/ StartClear \/ Quit \/ AnswerDownload
     \/ HandleFinished \/ HandleFinishedNull \/ DropFinished \/ HandleDelete
     \/ HandleCall \/ HandleAsk

User ==
  /\ fatal = "no"
  /\ \/ ClickStart \/ ClickCancel \/ ClickClear \/ ClickQuit

Next == (\E t \in Thread : Worker(t)) \/ Gui \/ User

Spec == Init /\ [][Next]_vars

(* Threads are scheduled, the event loop runs, and the user answers the    *)
(* question that blocks the window. Nothing else is asked of the user.     *)
FairSpec == Spec /\ WF_vars(Gui) /\ \A t \in Thread : WF_vars(Worker(t))

-----------------------------------------------------------------------------
(* Properties *)

Running == {t \in Thread : life[t] = "running"}

(* The client dies in its thread handling (a thread object destroyed while *)
(* it runs, or a lambda that finds no thread: the three finished lambdas   *)
(* use the member and not the thread they belong to) only when the member  *)
(* was overwritten by StartRun or StartClear before the lambda of the      *)
(* thread it held had run.                                                 *)
CrashNeedsOverlap == fatal # "no" => replaced

(* While no lambda has been overtaken, the only thread that runs is the    *)
(* one in the member: RunBenchmark and ClearCache wait for it, so no two   *)
(* threads share benchmark_status_ and the data directory, and             *)
(* ~AppController leaves no thread that uses the controller.               *)
OneWorker ==
  ~replaced => /\ Running \subseteq {member}
               /\ gui = "gone" => Running = {}

(* A worker that was asked to stop begins no further configuration: the    *)
(* interrupt is only cleared for a new run, and by then the worker it was  *)
(* meant for has ended.                                                    *)
StopIsObeyed ==
  [][\A t \in asked \cap Running :
       /\ Len(prepared') > Len(prepared) => kind[t] # "enumerate"
       /\ ~(pc[t] = "next" /\ pc'[t] = "run")]_vars

(* The entry of an EP in prepared_eps_configs_, which the finished lambda  *)
(* and AppController::RunBenchmark look up by the index of the EP, is its  *)
(* own unless the enumeration of an earlier configuration threw.           *)
DevicesAreItsOwn ==
  \A i \in 1 .. Len(prepared) :
    prepared[i] # i => \E j \in skipped : j < prepared[i]

(* A run that was begun ends and the window comes back to its tabs,        *)
(* whatever the user cancels, unless a lambda was overtaken (then the one  *)
(* that shows the tabs can be lost with its thread), or the window waits   *)
(* for a worker that waits for the window.                                 *)
Stuck ==
  /\ gui \in {"clearWait", "quitWait", "startWait", "depsWait"}
  /\ \E t \in Running : pc[t] \in {"calling", "reporting", "failing", "ask", "asking"}

RunComesBack ==
  page = "realtime" ~> (page = "tabs" \/ gui = "gone" \/ replaced \/ Stuck)

=============================================================================
