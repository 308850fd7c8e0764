------------------------------ MODULE FileProofs ------------------------------
(***************************************************************************)
(* Theorems about the two ways in which a file arrives.  Of Downloader,    *)
(* for every number of chunks, pieces, attempts and every length of an     *)
(* answer: what is published has no range that a thread gave up and said    *)
(* so.  Of Unpacker, for every archive, every number of calls and    *)
(* editions: what is named as unpacked is whole, unless one of the three   *)
(* mishaps that go unnoticed has happened.                                 *)
(***************************************************************************)
EXTENDS Downloader, Unpacker, TLAPS

-----------------------------------------------------------------------------
(* The inductive invariant *)

(* The types but that of the counter: that it is never less than zero takes *)
(* a sum over the threads.                                                 *)
CoreTypeOK ==
  /\ pc \in [Chunk -> ChunkState]
  /\ try \in [Chunk -> 0 .. Retries - 1]
  /\ got \in [Chunk -> 0 .. Body]
  /\ hasFailed \in BOOLEAN
  /\ stop \in BOOLEAN
  /\ watcher \in {"none", "testing", "sleeping", "gone"}
  /\ caller \in {"start", "stream", "joining", "watching", "true", "false"}
  /\ file \in {"absent", "partial", "published"}

(* A thread that gave its range up has told the others, or gave it up after *)
(* another had; the file is published after the threads are joined, and    *)
(* only without a failure.                                                 *)
Accounted ==
  /\ \A c \in Chunk : pc[c] = "dropped" => hasFailed
  /\ caller \in {"start", "stream"} => ~hasFailed /\ \A c \in Chunk : pc[c] = "idle"
  /\ caller \in {"joining", "watching"} => \A c \in Chunk : pc[c] # "idle"
  /\ caller \in {"watching", "true", "false"} =>
       \/ \A c \in Chunk : pc[c] = "idle"
       \/ \A c \in Chunk : ChunkReturned(c)
  /\ file = "published" => caller = "true" /\ ~hasFailed
  /\ caller = "true" => ~hasFailed

IInv == CoreTypeOK /\ Accounted

(* Steps that leave the threads alone. *)
LEMMA CallerKeeps ==
  ASSUME IInv, UNCHANGED <<pc, try, got, hasFailed>>, stop' \in BOOLEAN,
         watcher' \in {"none", "testing", "sleeping", "gone"},
         caller' \in {"start", "stream", "joining", "watching", "true", "false"},
         file' \in {"absent", "partial", "published"},
         caller' = "start" => caller = "start",
         caller' = "stream" => caller \in {"start", "stream"},
         caller' = "joining" => caller = "joining",
         caller' \in {"watching", "true", "false"} =>
           \/ caller \in {"start", "stream", "watching"}
           \/ caller = caller'
           \/ caller = "joining" /\ \A c \in Chunk : ChunkReturned(c),
         caller' = "watching" => caller \in {"joining", "watching"},
         file' = "published" => caller' = "true",
         caller' = "true" => ~hasFailed
  PROVE  IInv'
BY DEF IInv, CoreTypeOK, Accounted, ChunkReturned

(* A step of a chunk thread keeps IInv: only a thread that has not returned *)
(* takes one, so the caller is still joining.                              *)
LEMMA ChunkKeeps ==
  ASSUME IInv, NEW c \in Chunk, ChunkStep(c)
  PROVE  IInv'
<1> USE DEF ByChunk
<1>1. CoreTypeOK /\ Accounted /\ Retries \in Nat /\ Retries > 0 /\ Pieces \in Nat
      /\ Body \in Nat
  BY DownloaderAssumption DEF IInv
<1>2. pc[c] \in {"attempt", "receiving"}
  BY DEF ChunkStep, FailFast, SendRequest, OpenFails, Receive, Succeeds, AttemptFails, DiskFull
<1>3. caller = "joining" /\ file # "published"
  BY <1>1, <1>2 DEF CoreTypeOK, Accounted, ChunkReturned
<1>4. ASSUME UNCHANGED <<stop, watcher, caller, file>>,
             got' \in [Chunk -> 0 .. Body], try' \in [Chunk -> 0 .. Retries - 1],
             hasFailed' \in BOOLEAN, hasFailed => hasFailed',
             \A d \in Chunk \ {c} : got'[d] = got[d] /\ pc'[d] = pc[d],
             pc' \in [Chunk -> ChunkState], pc'[c] # "idle",
             pc'[c] = "dropped" => hasFailed'
      PROVE  IInv'
  BY <1>1, <1>3, <1>4 DEF IInv, CoreTypeOK, Accounted
<1>5. ASSUME ~LastTry(c), NextTry(c)
      PROVE  /\ pc' = [pc EXCEPT ![c] = "attempt"]
             /\ try' \in [Chunk -> 0 .. Retries - 1]
  BY <1>1, <1>5 DEF NextTry, LastTry, CoreTypeOK
<1>6. ASSUME Revert(c)
      PROVE  got' \in [Chunk -> 0 .. Body] /\ \A d \in Chunk \ {c} : got'[d] = got[d]
  BY <1>1, <1>6 DEF Revert, CoreTypeOK
<1>7. /\ pc \in [Chunk -> ChunkState] /\ try \in [Chunk -> 0 .. Retries - 1]
      /\ got \in [Chunk -> 0 .. Body] /\ hasFailed \in BOOLEAN
  BY <1>1 DEF CoreTypeOK
<1>8. ASSUME NEW s \in ChunkState, pc' = [pc EXCEPT ![c] = s]
      PROVE  /\ pc' \in [Chunk -> ChunkState] /\ pc'[c] = s
             /\ \A d \in Chunk \ {c} : pc'[d] = pc[d]
  BY <1>7, <1>8
<1>9. /\ "attempt" \in ChunkState /\ "receiving" \in ChunkState /\ "complete" \in ChunkState
      /\ "dropped" \in ChunkState /\ "exhausted" \in ChunkState /\ "short" \in ChunkState
  BY DEF ChunkState
<1>10. CASE FailFast(c)
  <2>1. pc' = [pc EXCEPT ![c] = "dropped"]
    BY <1>10 DEF FailFast
  <2>2. /\ pc' \in [Chunk -> ChunkState] /\ pc'[c] = "dropped"
        /\ \A d \in Chunk \ {c} : pc'[d] = pc[d]
    BY <1>8, <1>9, <2>1
  <2> QED
    BY <1>4, <1>7, <1>10, <2>2 DEF FailFast
<1>11. CASE SendRequest(c)
  <2>1. pc' = [pc EXCEPT ![c] = "receiving"]
    BY <1>11 DEF SendRequest
  <2>2. /\ pc' \in [Chunk -> ChunkState] /\ pc'[c] = "receiving"
        /\ \A d \in Chunk \ {c} : pc'[d] = pc[d]
    BY <1>8, <1>9, <2>1
  <2> QED
    BY <1>4, <1>7, <1>11, <2>2 DEF SendRequest
<1>12. CASE OpenFails(c)
  <2>1. CASE LastTry(c)
    <3>1. pc' = [pc EXCEPT ![c] = "dropped"] /\ UNCHANGED try
      BY <1>12, <2>1 DEF OpenFails
    <3>2. /\ pc' \in [Chunk -> ChunkState] /\ pc'[c] = "dropped"
          /\ \A d \in Chunk \ {c} : pc'[d] = pc[d]
      BY <1>8, <1>9, <3>1
    <3> QED
      BY <1>4, <1>7, <1>12, <2>1, <3>1, <3>2 DEF OpenFails
  <2>2. CASE ~LastTry(c)
    <3>1. pc' = [pc EXCEPT ![c] = "attempt"] /\ try' \in [Chunk -> 0 .. Retries - 1]
      BY <1>5, <1>12, <2>2 DEF OpenFails
    <3>2. /\ pc' \in [Chunk -> ChunkState] /\ pc'[c] = "attempt"
          /\ \A d \in Chunk \ {c} : pc'[d] = pc[d]
      BY <1>8, <1>9, <3>1
    <3> QED
      BY <1>4, <1>7, <1>12, <2>2, <3>1, <3>2 DEF OpenFails
  <2> QED
    BY <2>1, <2>2
<1>13. CASE Receive(c)
  <2>1. got' \in [Chunk -> 0 .. Body] /\ \A d \in Chunk \ {c} : got'[d] = got[d]
    BY <1>1, <1>7, <1>13 DEF Receive
  <2>2. pc[c] = "receiving" /\ UNCHANGED <<pc, try, hasFailed, stop, watcher, caller, file>>
    BY <1>13 DEF Receive
  <2> QED
    BY <1>4, <1>7, <2>1, <2>2
<1>14. CASE Succeeds(c)
  <2>1. PICK end \in {"complete", "short"} : pc' = [pc EXCEPT ![c] = end]
    BY <1>14 DEF Succeeds
  <2>2. /\ pc' \in [Chunk -> ChunkState] /\ pc'[c] = end
        /\ \A d \in Chunk \ {c} : pc'[d] = pc[d]
    BY <1>8, <1>9, <2>1
  <2> QED
    BY <1>4, <1>7, <1>14, <2>2 DEF Succeeds
<1>15. CASE AttemptFails(c)
  <2>1. CASE LastTry(c)
    <3>1. pc' = [pc EXCEPT ![c] = "exhausted"] /\ UNCHANGED try
      BY <1>15, <2>1 DEF AttemptFails
    <3>2. /\ pc' \in [Chunk -> ChunkState] /\ pc'[c] = "exhausted"
          /\ \A d \in Chunk \ {c} : pc'[d] = pc[d]
      BY <1>8, <1>9, <3>1
    <3> QED
      BY <1>4, <1>6, <1>7, <1>15, <2>1, <3>1, <3>2 DEF AttemptFails
  <2>2. CASE ~LastTry(c)
    <3>1. pc' = [pc EXCEPT ![c] = "attempt"] /\ try' \in [Chunk -> 0 .. Retries - 1]
      BY <1>5, <1>15, <2>2 DEF AttemptFails
    <3>2. /\ pc' \in [Chunk -> ChunkState] /\ pc'[c] = "attempt"
          /\ \A d \in Chunk \ {c} : pc'[d] = pc[d]
      BY <1>8, <1>9, <3>1
    <3> QED
      BY <1>4, <1>6, <1>7, <1>15, <2>2, <3>1, <3>2 DEF AttemptFails
  <2> QED
    BY <2>1, <2>2
<1>16. CASE DiskFull(c)
  <2>1. pc' = [pc EXCEPT ![c] = "dropped"]
    BY <1>16 DEF DiskFull
  <2>2. /\ pc' \in [Chunk -> ChunkState] /\ pc'[c] = "dropped"
        /\ \A d \in Chunk \ {c} : pc'[d] = pc[d]
    BY <1>8, <1>9, <2>1
  <2> QED
    BY <1>4, <1>6, <1>7, <1>16, <2>2 DEF DiskFull
<1> QED
  BY <1>10, <1>11, <1>12, <1>13, <1>14, <1>15, <1>16 DEF ChunkStep

(* Every step keeps IInv. *)
LEMMA StepInv ==
  ASSUME IInv, [Next]_vars
  PROVE  IInv'
<1> USE DEF chunkVars
<1>1. CoreTypeOK /\ Accounted
  BY DEF IInv
<1>2. CASE \E c \in Chunk : ChunkStep(c)
  BY <1>2, ChunkKeeps
<1>3. CASE WatcherTests \/ WatcherSleeps
  BY <1>1, <1>3, CallerKeeps DEF WatcherTests, WatcherSleeps, CoreTypeOK, Accounted
<1>4. CASE PreparationFails \/ StartStream
  BY <1>1, <1>4, CallerKeeps DEF PreparationFails, StartStream, GiveUp, CoreTypeOK
<1>5. CASE StreamEnds
  BY <1>1, <1>5, CallerKeeps DEF StreamEnds, GiveUp, Publish, RenameFails, CoreTypeOK, Accounted
<1>6. CASE StartChunks
  BY <1>1, <1>6 DEF StartChunks, IInv, CoreTypeOK, Accounted, ChunkState, ChunkReturned
<1>7. CASE JoinChunks
  BY <1>1, <1>7, CallerKeeps DEF JoinChunks, CoreTypeOK, Accounted
<1>8. CASE JoinWatcher
  BY <1>1, <1>8, CallerKeeps DEF JoinWatcher, GiveUp, Publish, RenameFails, CoreTypeOK, Accounted
<1>9. CASE StopDownload
  BY <1>1, <1>9, CallerKeeps DEF StopDownload, CoreTypeOK, Accounted
<1>10. CASE UNCHANGED vars
  BY <1>1, <1>10, CallerKeeps DEF vars, CoreTypeOK, Accounted
<1> QED
  BY <1>2, <1>3, <1>4, <1>5, <1>6, <1>7, <1>8, <1>9, <1>10 DEF Next, CallerStep

(* The inductive invariant of a download. *)
LEMMA Invariant == Spec => []IInv
<1>1. ASSUME Init PROVE IInv
  <2>1. /\ Retries \in Nat /\ Retries > 0 /\ Body \in Nat
    BY DownloaderAssumption
  <2>2. /\ pc \in [Chunk -> ChunkState] /\ try \in [Chunk -> 0 .. Retries - 1]
        /\ got \in [Chunk -> 0 .. Body] /\ \A c \in Chunk : pc[c] = "idle"
    BY <1>1, <2>1 DEF Init, ChunkState
  <2> QED
    BY <1>1, <2>2 DEF Init, IInv, CoreTypeOK, Accounted
<1> QED
  BY <1>1, StepInv, PTL DEF Spec

-----------------------------------------------------------------------------
(* The theorems *)

(* For every number of chunks and attempts and answers of any length: a    *)
(* chunked file is never published when a thread found the disk full, could *)
(* not open the file or dropped its range because another had; only what   *)
(* no thread reports can be missing.                                       *)
THEOREM ReportedIsNotPublished == Spec => []PartialOnlyIfUnreported
<1>1. IInv => PartialOnlyIfUnreported
  BY DEF IInv, Accounted, PartialOnlyIfUnreported, ChunkReturned
<1> QED
  BY Invariant, <1>1, PTL

-----------------------------------------------------------------------------
(* Unpacker: the inductive invariant *)

(* The pieces of a file that are there are of one edition.                 *)
OfEdition(contents, ed) == \A i \in 1 .. Len(contents) : contents[i] = ed

(* The file is one that edition ed has.                                    *)
WholeAs(e, ed) == \E x \in Edition : files[e] = Whole(e, x) /\ Size(e, x) = Size(e, ed)

UnpackTypes ==
  /\ files \in [Entry -> Seq(Nat)]
  /\ edition \in Edition
  /\ workers \in [Thread -> Worker]
  /\ \A w \in Thread : workers[w].pc \in {"open", "write"} => Here(w) \in Entry
  /\ \A w \in Thread : workers[w].piece > 0
  /\ calls \in 0 .. MaxCalls
  /\ client \in {"down", "idle", "sizing", "waiting", "asset"}
  /\ client = "sizing" => calls < MaxCalls
  /\ client = "waiting" => calls \in Thread
  /\ client = "down" => answer # "files"
  /\ asset \in Seq({1})

(* As long as every piece could be written: a listed asset has its size.   *)
AssetHas ==
  "full" \notin mishaps =>
    /\ listed \/ delivered => Len(asset) = AssetParts
    /\ client = "asset" => Len(asset) < AssetParts /\ ~listed /\ ~delivered

(* The thread has opened the archive, and reads it.                        *)
Reading(w) == workers[w].pc \in {"check", "open", "write"}

(* Only the thread of the last call works.                                 *)
Threads ==
  \A w \in Thread :
    /\ workers[w].pc # "copying" /\ ~workers[w].bad
    /\ AtWork(w) => w = calls

(* A file that is not whole is shorter than the edition it is of: no       *)
(* edition but those up to the worker's is on the disk.                    *)
Begun ==
  \A e \in Entry : \E ed \in Edition :
    /\ OfEdition(files[e], ed) /\ Len(files[e]) <= Size(e, ed)
    /\ ed <= edition
    /\ \A w \in Thread : Reading(w) => ed <= workers[w].edition

(* The worker has the files before the current one whole, and of the       *)
(* current one what it has written.                                        *)
HasRead(w) ==
  /\ workers[w].edition <= edition
  /\ \A e \in Entry : e < Here(w) => WholeAs(e, workers[w].edition)
  /\ workers[w].pc \in {"check", "open"} => workers[w].piece = 1
  /\ workers[w].pc = "write" =>
       /\ OfEdition(files[Here(w)], workers[w].edition)
       /\ workers[w].piece = Len(files[Here(w)]) + 1
       /\ Len(files[Here(w)]) <= Size(Here(w), workers[w].edition)

Unpacked ==
  \A w \in Thread :
    /\ workers[w].pc = "start" => Here(w) = 1 /\ workers[w].piece = 1
    /\ Reading(w) => HasRead(w)

(* The answer, and the one the client is waiting for.                      *)
Told ==
  /\ client \in {"idle", "asset"} /\ answer = "files" =>
       /\ \A w \in Thread : ~AtWork(w)
       /\ \A e \in Entry : WholeAs(e, edition)
  /\ client = "waiting" =>
       /\ Reading(calls) => workers[calls].edition = edition
       /\ AtWork(calls) \/ workers[calls].pc = "done"
       /\ workers[calls].pc = "done" /\ workers[calls].result = "files" =>
            \A e \in Entry : WholeAs(e, edition)

UnpackGood == mishaps = {} => Threads /\ Begun /\ Unpacked /\ Told

UnpackInv == UnpackTypes /\ AssetHas /\ UnpackGood

(* Sizes are numbers, and no later edition is smaller.                     *)
LEMMA Sizes ==
  ASSUME NEW e \in Entry, NEW ed \in Edition
  PROVE  /\ Size(e, ed) \in Nat
         /\ \A later \in Edition : ed <= later => Size(e, ed) <= Size(e, later)
<1>1. MaxEditions \in Nat
  BY UnpackerAssumption
<1>2. \A x \in Edition : x \in Nat
  BY <1>1 DEF Edition
<1> QED
  BY <1>2 DEF Size

(* A file of one edition that has its size is whole.                       *)
LEMMA FullIsWhole ==
  ASSUME NEW e \in Entry, NEW ed \in Edition, NEW contents \in Seq(Nat),
         OfEdition(contents, ed), Len(contents) = Size(e, ed)
  PROVE  contents = Whole(e, ed)
<1>1. contents = [i \in 1 .. Len(contents) |-> contents[i]]
  OBVIOUS
<1>2. \A i \in 1 .. Len(contents) : contents[i] = ed
  BY DEF OfEdition
<1> QED
  BY <1>1, <1>2 DEF Whole

(* A file taken for its size is one of the worker's edition, or of an      *)
(* earlier one of the same size.                                           *)
LEMMA RightSize ==
  ASSUME UnpackInv, mishaps = {}, NEW w \in Thread, Reading(w), NEW e \in Entry,
         Len(files[e]) = Size(e, workers[w].edition)
  PROVE  WholeAs(e, workers[w].edition)
<1>1. /\ workers[w].edition \in Edition /\ files[e] \in Seq(Nat)
  BY DEF UnpackInv, UnpackTypes, Worker
<1>2. PICK ed \in Edition :
        OfEdition(files[e], ed) /\ Len(files[e]) <= Size(e, ed) /\ ed <= workers[w].edition
  BY DEF UnpackInv, UnpackGood, Begun
<1>3. Size(e, ed) <= Size(e, workers[w].edition) /\ Size(e, ed) \in Nat
      /\ Size(e, workers[w].edition) \in Nat
  BY <1>1, <1>2, Sizes
<1>4. Len(files[e]) = Size(e, ed) /\ Size(e, ed) = Size(e, workers[w].edition)
  BY <1>2, <1>3
<1> QED
  BY <1>1, <1>2, <1>4, FullIsWhole DEF WholeAs

(* A step of the one worker, which leaves the files it has done alone.     *)
LEMMA WorkerGoesOn ==
  ASSUME UnpackInv, mishaps = {}, NEW w \in Thread, Reading(w), WorkerStays,
         \A v \in Thread : v # w => workers'[v] = workers[v],
         workers'[w].edition = workers[w].edition, ~workers'[w].bad,
         AtWork(w)' \/ workers'[w].pc = "done", workers'[w].pc # "start",
         \A e \in Entry : \/ files'[e] = files[e]
                          \/ /\ e = workers[w].entry
                             /\ OfEdition(files'[e], workers[w].edition)
                             /\ Len(files'[e]) <= Size(e, workers[w].edition),
         Reading(w)' =>
           /\ \A e \in Entry : e < workers'[w].entry =>
                e < workers[w].entry \/ WholeAs(e, workers[w].edition)'
           /\ workers'[w].pc \in {"check", "open"} => workers'[w].piece = 1
           /\ workers'[w].pc = "write" =>
                /\ OfEdition(files'[workers'[w].entry], workers[w].edition)
                /\ workers'[w].piece = Len(files'[workers'[w].entry]) + 1
                /\ Len(files'[workers'[w].entry])
                     <= Size(workers'[w].entry, workers[w].edition),
         workers'[w].pc = "done" /\ workers'[w].result = "files" =>
           \A e \in Entry : e < workers[w].entry
  PROVE  Threads' /\ Begun' /\ Unpacked' /\ Told'
<1>1. /\ UnpackTypes /\ Threads /\ Begun /\ Unpacked /\ Told
      /\ UNCHANGED <<edition, calls, client, answer>>
  BY DEF UnpackInv, UnpackGood, WorkerStays
<1>2. /\ AtWork(w) /\ w = calls /\ workers[w].edition <= edition
      /\ workers[w].edition \in Edition /\ workers[w].entry \in Nat
      /\ \A v \in Thread : AtWork(v) => v = w
  <2>1. \A n \in 1 .. Entries + 1 : n \in Nat
    OBVIOUS
  <2>2. workers[w] \in Worker
    BY <1>1 DEF UnpackTypes
  <2> QED
    BY <1>1, <2>1, <2>2 DEF Threads, Unpacked, HasRead, Worker, AtWork, Reading
<1>3. \A v \in Thread : (AtWork(v)' => v = w) /\ (Reading(v)' => v = w)
  BY <1>2 DEF AtWork, Reading
<1>4. \A e \in Entry : e \in Nat
  BY UnpackerAssumption DEF Entry
<1>5. \A e \in Entry : e < workers[w].entry => WholeAs(e, workers[w].edition)'
  <2> SUFFICES ASSUME NEW e \in Entry, e < workers[w].entry
               PROVE  WholeAs(e, workers[w].edition)'
    OBVIOUS
  <2>1. e # workers[w].entry
    BY <1>2, <1>4
  <2>2. files'[e] = files[e]
    BY <2>1
  <2>3. WholeAs(e, workers[w].edition)
    BY <1>1 DEF Unpacked, HasRead, Here
  <2>4. PICK x \in Edition : files[e] = Whole(e, x) /\ Size(e, x) = Size(e, workers[w].edition)
    BY <2>3 DEF WholeAs
  <2> QED
    BY <2>2, <2>4 DEF WholeAs
<1>6. Threads'
  BY <1>1, <1>2, <1>3 DEF Threads, AtWork
<1>7. Begun'
  <2> SUFFICES ASSUME NEW e \in Entry
               PROVE  \E ed \in Edition :
                        /\ OfEdition(files'[e], ed) /\ Len(files'[e]) <= Size(e, ed)
                        /\ ed <= edition
                        /\ ed <= workers[w].edition
    BY <1>1, <1>3 DEF Begun
  <2>1. CASE files'[e] = files[e]
    BY <1>1, <2>1 DEF Begun
  <2>2. CASE OfEdition(files'[e], workers[w].edition)
             /\ Len(files'[e]) <= Size(e, workers[w].edition)
    <3>1. workers[w].edition \in Nat
      BY <1>2, UnpackerAssumption DEF Edition
    <3> QED
      BY <1>2, <2>2, <3>1
  <2> QED
    BY <2>1, <2>2
<1>8. Unpacked'
  <2>1. Reading(w)' => \A e \in Entry : e < workers'[w].entry => WholeAs(e, workers[w].edition)'
    BY <1>5
  <2>2. workers'[w].edition = workers[w].edition
    OBVIOUS
  <2>3. Reading(w)' => HasRead(w)'
    BY <1>1, <1>2, <2>1, <2>2 DEF HasRead, Here
  <2>4. \A v \in Thread : v # w => workers'[v].pc # "start"
    BY <1>2 DEF AtWork
  <2> QED
    BY <1>3, <2>3, <2>4 DEF Unpacked
<1>9. Told'
  <2>1. ~(client \in {"idle", "asset"} /\ answer = "files")
    BY <1>1, <1>2 DEF Told
  <2>2. client = "waiting" => workers[w].edition = edition
    BY <1>1, <1>2 DEF Told
  <2>3. client = "waiting" /\ workers'[w].pc = "done" /\ workers'[w].result = "files"
          => \A e \in Entry : WholeAs(e, edition)'
    BY <1>1, <1>5, <2>2 DEF WholeAs
  <2> QED
    BY <1>1, <1>2, <2>1, <2>2, <2>3 DEF Told
<1> QED
  BY <1>6, <1>7, <1>8, <1>9

(* A worker that ends without files, or goes over to the shell.            *)
LEMMA WorkerGivesUp ==
  ASSUME UnpackInv, mishaps = {}, NEW w \in Thread, AtWork(w), WorkerStays, UNCHANGED files,
         \A v \in Thread : v # w => workers'[v] = workers[v],
         workers'[w].pc \in {"shell", "done"}, ~workers'[w].bad,
         workers'[w].result = "nothing"
  PROVE  Threads' /\ Begun' /\ Unpacked' /\ Told'
<1>1. /\ Threads /\ Begun /\ Unpacked /\ Told
      /\ UNCHANGED <<edition, calls, client, answer>>
  BY DEF UnpackInv, UnpackGood, WorkerStays
<1>2. w = calls /\ \A v \in Thread : AtWork(v) => v = w
  BY <1>1 DEF Threads
<1>3. \A v \in Thread : (AtWork(v)' => v = w) /\ ~Reading(v)' /\ workers'[v].pc # "start"
  BY <1>2 DEF AtWork, Reading
<1>4. Threads'
  BY <1>1, <1>2, <1>3 DEF Threads
<1>5. Begun'
  BY <1>1, <1>3 DEF Begun
<1>6. Unpacked'
  BY <1>3 DEF Unpacked
<1>7. ~(client \in {"idle", "asset"} /\ answer = "files")
  BY <1>1 DEF Told
<1>8. AtWork(calls)' \/ workers'[calls].pc = "done"
  BY <1>1, <1>2 DEF AtWork
<1>9. Told'
  BY <1>1, <1>2, <1>3, <1>7, <1>8 DEF Told
<1> QED
  BY <1>4, <1>5, <1>6, <1>9

(* The worker opens the archive that is there.                             *)
LEMMA OpeningKeeps ==
  ASSUME UnpackInv, NEW w \in Thread, OpenArchive(w)
  PROVE  UnpackInv'
<1> DEFINE new == [workers[w] EXCEPT !.pc = "check", !.edition = edition]
<1>1. /\ workers[w].pc = "start"
      /\ UNCHANGED <<files, edition, calls, client, answer, asset, listed, delivered, mishaps>>
  BY DEF OpenArchive, WorkerStays, assets
<1>2. /\ UnpackTypes /\ AssetHas /\ workers \in [Thread -> Worker] /\ workers[w] \in Worker
      /\ edition \in Edition /\ \A ed \in Edition : ed \in Nat
  BY UnpackerAssumption DEF UnpackInv, UnpackTypes, Edition
<1>3. /\ new \in Worker
      /\ new.pc = "check" /\ new.edition = edition /\ new.entry = workers[w].entry
      /\ new.piece = workers[w].piece /\ new.bad = workers[w].bad
  BY <1>2 DEF Worker
<1>4. workers' = [workers EXCEPT ![w] = new]
  BY <1>2 DEF OpenArchive, Worker
<1> HIDE DEF new
<1>5. /\ workers' \in [Thread -> Worker] /\ workers'[w] = new
      /\ \A v \in Thread : v # w => workers'[v] = workers[v]
  BY <1>2, <1>3, <1>4
<1>6. UnpackTypes'
  BY <1>1, <1>2, <1>3, <1>5 DEF UnpackTypes, Here
<1>7. AssetHas'
  BY <1>1, <1>2 DEF AssetHas
<1>8. ASSUME mishaps' = {} PROVE Threads' /\ Begun' /\ Unpacked' /\ Told'
  <2>1. Threads /\ Begun /\ Unpacked /\ Told
    BY <1>1, <1>8 DEF UnpackInv, UnpackGood
  <2>2. w = calls /\ \A v \in Thread : AtWork(v) => v = w
    BY <1>1, <2>1 DEF Threads, AtWork
  <2>3. \A v \in Thread : (AtWork(v)' => v = w) /\ (Reading(v)' => v = w)
    BY <1>5, <2>2 DEF AtWork, Reading
  <2>4. Threads'
    BY <1>1, <1>3, <1>5, <2>1, <2>2, <2>3 DEF Threads
  <2>5. Begun'
    BY <1>1, <1>3, <1>5, <2>1, <2>3 DEF Begun
  <2>6. \A e \in Entry : ~(e < 1)
    BY UnpackerAssumption DEF Entry
  <2>7. HasRead(w)'
    BY <1>1, <1>2, <1>3, <1>5, <2>1, <2>6 DEF HasRead, Unpacked, Here
  <2>8. \A v \in Thread : workers'[v].pc # "start"
    BY <1>3, <1>5, <2>2 DEF AtWork
  <2>9. Unpacked'
    BY <2>3, <2>7, <2>8 DEF Unpacked
  <2>10. AtWork(w) /\ AtWork(w)'
    BY <1>1, <1>3, <1>5 DEF AtWork
  <2>11. Told'
    BY <1>1, <1>3, <1>5, <2>1, <2>2, <2>10 DEF Told
  <2> QED
    BY <2>4, <2>5, <2>9, <2>11
<1> QED
  BY <1>6, <1>7, <1>8 DEF UnpackInv, UnpackGood

(* What the steps make of the worker.                                      *)
LEMMA WorkerBecomes ==
  ASSUME UnpackTypes, NEW w \in Thread, AtWork(w)
  PROVE  /\ NextEntry(w) /\ Here(w) \in Entry =>
              /\ workers' \in [Thread -> Worker]
              /\ \A v \in Thread : v # w => workers'[v] = workers[v]
              /\ workers'[w].pc = "check" /\ workers'[w].entry = workers[w].entry + 1
              /\ workers'[w].piece = 1 /\ workers'[w].bad = FALSE
              /\ workers'[w].edition = workers[w].edition
         /\ \A pc1 \in {"shell", "copying", "done"}, result \in {"nothing", "files"} :
              Ends(w, pc1, result) =>
                /\ workers' \in [Thread -> Worker]
                /\ \A v \in Thread : v # w => workers'[v] = workers[v]
                /\ workers'[w].pc = pc1 /\ workers'[w].result = result
                /\ workers'[w].edition = workers[w].edition
                /\ workers'[w].bad = FALSE /\ workers'[w].entry = 1
                /\ workers'[w].piece = 1
<1>1. /\ workers \in [Thread -> Worker] /\ workers[w] \in Worker /\ Entries \in Nat
      /\ Entries > 0
  BY UnpackerAssumption DEF UnpackTypes
<1>2. ASSUME NextEntry(w), Here(w) \in Entry
      PROVE  /\ workers' \in [Thread -> Worker]
             /\ \A v \in Thread : v # w => workers'[v] = workers[v]
             /\ workers'[w].pc = "check" /\ workers'[w].entry = workers[w].entry + 1
             /\ workers'[w].piece = 1 /\ workers'[w].bad = FALSE
             /\ workers'[w].edition = workers[w].edition
  <2> DEFINE next == [workers[w] EXCEPT !.pc = "check", !.entry = @ + 1,
                                        !.piece = 1, !.bad = FALSE]
  <2>1. workers[w].entry + 1 \in 1 .. Entries + 1
    BY <1>1, <1>2 DEF Here, Entry
  <2>2. next \in Worker
    BY <1>1, <2>1 DEF Worker
  <2>3. workers' = [workers EXCEPT ![w] = next]
    BY <1>1, <1>2 DEF NextEntry, Worker
  <2>4. /\ next.pc = "check" /\ next.entry = workers[w].entry + 1
        /\ next.piece = 1 /\ next.bad = FALSE /\ next.edition = workers[w].edition
    BY <1>1 DEF Worker
  <2> HIDE DEF next
  <2>5. workers' \in [Thread -> Worker] /\ workers'[w] = next
        /\ \A v \in Thread : v # w => workers'[v] = workers[v]
    BY <1>1, <2>2, <2>3
  <2> QED
    BY <2>4, <2>5
<1>3. ASSUME NEW pc1 \in {"shell", "copying", "done"}, NEW result \in {"nothing", "files"},
             Ends(w, pc1, result)
      PROVE  /\ workers' \in [Thread -> Worker]
             /\ \A v \in Thread : v # w => workers'[v] = workers[v]
             /\ workers'[w].pc = pc1 /\ workers'[w].result = result
             /\ workers'[w].edition = workers[w].edition
             /\ workers'[w].bad = FALSE /\ workers'[w].entry = 1
             /\ workers'[w].piece = 1
  <2> DEFINE last == [NoWorker EXCEPT !.pc = pc1, !.result = result,
                                      !.edition = workers[w].edition]
  <2>2. /\ 1 \in 1 .. Entries + 1 /\ 1 \in Nat /\ workers[w].edition \in Edition
        /\ FALSE \in BOOLEAN
        /\ pc1 \in {"none", "start", "check", "open", "write", "shell", "copying", "done"}
    BY <1>1 DEF Worker
  <2>3. last \in Worker
    BY <2>2 DEF Worker, NoWorker
  <2>4. workers' = [workers EXCEPT ![w] = last]
    BY <1>3 DEF Ends
  <2>5. /\ last.pc = pc1 /\ last.result = result /\ last.edition = workers[w].edition
        /\ last.bad = FALSE /\ last.entry = 1 /\ last.piece = 1
    BY DEF NoWorker
  <2> HIDE DEF last
  <2> QED
    BY <1>1, <2>3, <2>4, <2>5
<1> QED
  BY <1>2, <1>3

(* A piece put behind those that are there.                                *)
LEMMA PieceIsPut ==
  ASSUME NEW contents \in Seq(Nat), NEW i \in Nat, i > 0, NEW ed \in Nat
  PROVE  /\ Put(contents, i, ed) \in Seq(Nat)
         /\ i = Len(contents) + 1 =>
              /\ Len(Put(contents, i, ed)) = i
              /\ OfEdition(contents, ed) => OfEdition(Put(contents, i, ed), ed)
<1> DEFINE n == IF i > Len(contents) THEN i ELSE Len(contents)
<1>1. n \in Nat /\ Len(contents) \in Nat
  OBVIOUS
<1>2. \A j \in 1 .. Len(contents) : contents[j] \in Nat
  OBVIOUS
<1>3. \A j \in 1 .. n : j \in Nat /\ (j <= Len(contents) => j \in 1 .. Len(contents))
  BY <1>1
<1> DEFINE value(j) == IF j = i THEN ed ELSE IF j <= Len(contents) THEN contents[j] ELSE 0
<1>4. \A j \in 1 .. n : value(j) \in Nat
  BY <1>2, <1>3
<1>5. Put(contents, i, ed) = [j \in 1 .. n |-> value(j)]
  BY DEF Put
<1>6. i = Len(contents) + 1 => n = i /\ \A j \in 1 .. n : j = i \/ j \in 1 .. Len(contents)
  BY <1>1
<1>7. i = Len(contents) + 1 /\ OfEdition(contents, ed) => \A j \in 1 .. n : value(j) = ed
  BY <1>3, <1>6 DEF OfEdition
<1> HIDE DEF n, value
<1>8. [j \in 1 .. n |-> value(j)] \in Seq(Nat) /\ Len([j \in 1 .. n |-> value(j)]) = n
  BY <1>1, <1>4
<1>9. i = Len(contents) + 1 /\ OfEdition(contents, ed) => OfEdition(Put(contents, i, ed), ed)
  BY <1>5, <1>7, <1>8 DEF OfEdition
<1> QED
  BY <1>5, <1>6, <1>8, <1>9

(* The files of the archive, and what the shell copies of them.            *)
LEMMA CopiesAreFiles ==
  ASSUME NEW e \in Entry, NEW ed \in Edition, NEW i \in 1 .. Size(e, ed)
  PROVE  SubSeq(Whole(e, ed), 1, i) \in Seq(Nat)
<1>1. Size(e, ed) \in Nat /\ ed \in Nat
  BY Sizes, UnpackerAssumption DEF Edition
<1>2. Whole(e, ed) \in Seq(Nat) /\ Len(Whole(e, ed)) = Size(e, ed)
  BY <1>1 DEF Whole
<1>3. i \in Nat /\ i <= Size(e, ed)
  BY <1>1
<1> QED
  BY <1>2, <1>3

(* The worker has looked at its next step, or written a piece.             *)
LEMMA PcChanges ==
  ASSUME UnpackTypes, NEW w \in Thread, NEW pc1 \in {"open", "write"},
         workers' = [workers EXCEPT ![w].pc = pc1]
  PROVE  /\ workers' \in [Thread -> Worker]
         /\ \A v \in Thread : v # w => workers'[v] = workers[v]
         /\ workers'[w].pc = pc1 /\ workers'[w].entry = workers[w].entry
         /\ workers'[w].piece = workers[w].piece /\ workers'[w].bad = workers[w].bad
         /\ workers'[w].edition = workers[w].edition
<1> DEFINE next == [workers[w] EXCEPT !.pc = pc1]
<1>1. workers \in [Thread -> Worker] /\ workers[w] \in Worker
  BY DEF UnpackTypes
<1>2. next \in Worker
  BY <1>1 DEF Worker
<1>3. /\ next.pc = pc1 /\ next.entry = workers[w].entry /\ next.piece = workers[w].piece
      /\ next.bad = workers[w].bad /\ next.edition = workers[w].edition
  BY <1>1 DEF Worker
<1>4. workers' = [workers EXCEPT ![w] = next]
  BY <1>1 DEF Worker
<1> HIDE DEF next
<1> QED
  BY <1>1, <1>2, <1>3, <1>4

LEMMA PieceRead ==
  ASSUME UnpackTypes, NEW w \in Thread, WritePiece(w)
  PROVE  /\ workers' \in [Thread -> Worker]
         /\ \A v \in Thread : v # w => workers'[v] = workers[v]
         /\ workers'[w].pc = "write" /\ workers'[w].entry = workers[w].entry
         /\ workers'[w].piece = workers[w].piece + 1 /\ workers'[w].piece > 0
         /\ workers'[w].edition = workers[w].edition
         /\ workers'[w].bad = workers[w].bad \/ mishaps' = mishaps \cup {"full"}
<1>1. workers \in [Thread -> Worker] /\ workers[w] \in Worker /\ workers[w].pc = "write"
  BY DEF UnpackTypes, WritePiece
<1> DEFINE next == [workers[w] EXCEPT !.piece = @ + 1]
           worse == [workers[w] EXCEPT !.piece = @ + 1, !.bad = TRUE]
<1>2. workers[w].piece \in Nat
  BY <1>1 DEF Worker
<1>3. next \in Worker /\ worse \in Worker
  <2>1. next \in Worker
    BY <1>1, <1>2 DEF Worker
  <2>2. \A worker \in Worker : [worker EXCEPT !.bad = TRUE] \in Worker
    BY DEF Worker
  <2>3. worse = [next EXCEPT !.bad = TRUE]
    BY <1>1 DEF Worker
  <2> HIDE DEF next, worse
  <2> QED
    BY <2>1, <2>2, <2>3
<1>4. \A worker \in {next, worse} :
        /\ worker.pc = "write" /\ worker.entry = workers[w].entry
        /\ worker.piece = workers[w].piece + 1
        /\ worker.edition = workers[w].edition
  BY <1>1 DEF Worker
<1>5. next.bad = workers[w].bad
  BY <1>1 DEF Worker
<1>6. \/ workers' = [workers EXCEPT ![w] = next]
      \/ /\ workers' = [workers EXCEPT ![w] = worse]
         /\ mishaps' = mishaps \cup {"full"}
  BY <1>1 DEF Worker, WritePiece
<1> HIDE DEF next, worse
<1>7. PICK worker \in {next, worse} :
        /\ workers' = [workers EXCEPT ![w] = worker]
        /\ worker.bad = workers[w].bad \/ mishaps' = mishaps \cup {"full"}
  BY <1>5, <1>6
<1>8. worker \in Worker /\ workers[w].piece + 1 > 0
  BY <1>2, <1>3
<1> QED
  BY <1>1, <1>4, <1>7, <1>8

(* The steps of the thread keep the types and what is said of the asset.   *)
LEMMA WorkerTypes ==
  ASSUME UnpackTypes, AssetHas, NEW w \in Thread,
         \/ CheckEntry(w) \/ OpenEntry(w) \/ WritePiece(w) \/ EntryWritten(w)
         \/ UnZipFails(w) \/ AllUnpacked(w) \/ ShellAnswers(w) \/ ShellCopies(w)
  PROVE  UnpackTypes' /\ AssetHas'
<1>1. /\ UNCHANGED <<edition, calls, client, answer, asset, listed, delivered>>
      /\ mishaps \subseteq mishaps'
  BY DEF CheckEntry, OpenEntry, WritePiece, EntryWritten, UnZipFails, AllUnpacked,
         ShellAnswers, ShellCopies, WorkerStays, assets
<1>2. AssetHas'
  BY <1>1 DEF AssetHas
<1>3. /\ workers[w] \in Worker /\ workers[w].edition \in Edition /\ workers[w].piece \in Nat
      /\ workers[w].entry \in Nat
      /\ files \in [Entry -> Seq(Nat)]
  <2>1. \A n \in 1 .. Entries + 1 : n \in Nat
    OBVIOUS
  <2> QED
    BY <2>1 DEF UnpackTypes, Worker
<1>4. files' \in [Entry -> Seq(Nat)]
  <2>1. CASE OpenEntry(w)
    <3>1. <<>> \in Seq(Nat)
      OBVIOUS
    <3> QED
      BY <1>3, <2>1, <3>1 DEF OpenEntry
  <2>2. CASE WritePiece(w)
    <3>1. Here(w) \in Entry /\ workers[w].piece > 0 /\ workers[w].edition \in Nat
      BY <1>3, <2>2, UnpackerAssumption DEF UnpackTypes, WritePiece, Edition
    <3>2. files[Here(w)] \in Seq(Nat)
      BY <1>3, <3>1
    <3>3. Put(files[Here(w)], workers[w].piece, workers[w].edition) \in Seq(Nat)
      BY <1>3, <3>1, <3>2, PieceIsPut
    <3> QED
      BY <1>3, <2>2, <3>3 DEF WritePiece
  <2>3. CASE ShellCopies(w)
    BY <1>3, <2>3, CopiesAreFiles DEF ShellCopies
  <2>4. CASE UNCHANGED files
    BY <1>3, <2>4
  <2> QED
    BY <2>1, <2>2, <2>3, <2>4 DEF CheckEntry, EntryWritten, UnZipFails, AllUnpacked, ShellAnswers
<1>5. /\ workers' \in [Thread -> Worker]
      /\ \A v \in Thread : workers'[v].pc \in {"open", "write"} => workers'[v].entry \in Entry
      /\ \A v \in Thread : workers'[v].piece > 0
  <2> DEFINE Fine == /\ workers' \in [Thread -> Worker]
                     /\ \A v \in Thread : v # w => workers'[v] = workers[v]
                     /\ workers'[w].pc \in {"open", "write"} => workers'[w].entry \in Entry
                     /\ workers'[w].piece > 0
  <2>1. ASSUME NextEntry(w) /\ AtWork(w) /\ Here(w) \in Entry
        PROVE  Fine
    <3>1. /\ workers' \in [Thread -> Worker]
          /\ \A v \in Thread : v # w => workers'[v] = workers[v]
          /\ workers'[w].pc = "check" /\ workers'[w].piece = 1
      BY <2>1, WorkerBecomes
    <3> QED
      BY <3>1
  <2>2. ASSUME NEW pc1 \in {"shell", "copying", "done"}, NEW result \in {"nothing", "files"},
               Ends(w, pc1, result), AtWork(w)
        PROVE  Fine
    <3>1. /\ workers' \in [Thread -> Worker]
          /\ \A v \in Thread : v # w => workers'[v] = workers[v]
          /\ workers'[w].pc = pc1 /\ workers'[w].piece = 1
      BY <2>2, WorkerBecomes
    <3> QED
      BY <3>1
  <2>3. ASSUME WritePiece(w)
        PROVE  Fine
    <3>1. Here(w) \in Entry
      BY <2>3 DEF UnpackTypes, WritePiece
    <3> QED
      BY <2>3, <3>1, PieceRead DEF Here
  <2>4. ASSUME OpenEntry(w) \/ (workers' = [workers EXCEPT ![w].pc = "open"] /\ Here(w) \in Entry)
        PROVE  Fine
    <3>1. Here(w) \in Entry
      BY <2>4 DEF UnpackTypes, OpenEntry
    <3> QED
      BY <2>4, <3>1, PcChanges DEF OpenEntry, Here, UnpackTypes
  <2>5. ASSUME UNCHANGED workers
        PROVE  Fine
    BY <2>5 DEF UnpackTypes, Here
  <2>6. Fine
    <3>1. CASE CheckEntry(w) \/ EntryWritten(w)
      BY <2>1, <2>4, <3>1 DEF CheckEntry, EntryWritten, AtWork, UnpackTypes
    <3>2. CASE UnZipFails(w) \/ AllUnpacked(w) \/ ShellAnswers(w)
      <4> DEFINE copying == [NoWorker EXCEPT !.pc = "copying", !.result = "files",
                                             !.edition = edition]
      <4>1. CASE workers' = [workers EXCEPT ![w] = copying]
        <5>1. 1 \in 1 .. Entries + 1 /\ 1 \in Nat
          BY UnpackerAssumption
        <5>2. copying \in Worker /\ copying.pc = "copying" /\ copying.piece = 1
          BY <5>1 DEF Worker, NoWorker, UnpackTypes
        <5> HIDE DEF copying
        <5> QED
          BY <4>1, <5>2 DEF UnpackTypes
      <4>2. CASE \E pc1 \in {"shell", "done"}, result \in {"nothing", "files"} :
                   Ends(w, pc1, result)
        BY <2>2, <3>2, <4>2 DEF UnZipFails, AllUnpacked, ShellAnswers, AtWork
      <4> QED
        BY <3>2, <4>1, <4>2 DEF UnZipFails, AllUnpacked, ShellAnswers
    <3> QED
      BY <2>3, <2>4, <2>5, <3>1, <3>2 DEF ShellCopies
  <2> QED
    BY <2>6 DEF UnpackTypes, Here
<1> QED
  BY <1>1, <1>2, <1>4, <1>5 DEF UnpackTypes, Here

(* The steps of the thread keep the invariant.                             *)
LEMMA WorkerKeeps ==
  ASSUME UnpackInv, NEW w \in Thread,
         \/ CheckEntry(w) \/ OpenEntry(w) \/ WritePiece(w) \/ EntryWritten(w)
         \/ UnZipFails(w) \/ AllUnpacked(w) \/ ShellAnswers(w) \/ ShellCopies(w)
  PROVE  UnpackInv'
<1>1. UnpackTypes' /\ AssetHas'
  BY WorkerTypes DEF UnpackInv
<1>2. ASSUME mishaps' = {} PROVE Threads' /\ Begun' /\ Unpacked' /\ Told'
  <2>1. mishaps = {} /\ WorkerStays /\ UnpackTypes
    BY <1>2 DEF UnpackInv, CheckEntry, OpenEntry, WritePiece, EntryWritten, UnZipFails,
       AllUnpacked, ShellAnswers, ShellCopies
  <2>2. /\ Threads /\ Begun /\ Unpacked /\ Told
        /\ workers[w].pc # "copying" /\ workers[w].bad = FALSE
    <3>1. Threads /\ Begun /\ Unpacked /\ Told
      BY <2>1 DEF UnpackInv, UnpackGood
    <3>2. workers[w].bad \in BOOLEAN
      BY <2>1 DEF UnpackTypes, Worker
    <3> QED
      BY <3>1, <3>2 DEF Threads
  <2>3. /\ AtWork(w)
        /\ Reading(w) \/ UnZipFails(w) \/ ShellAnswers(w)
    BY <2>2 DEF AtWork, Reading, CheckEntry, OpenEntry, WritePiece, EntryWritten, UnZipFails,
       AllUnpacked, ShellAnswers, ShellCopies
  <2>4. /\ workers[w].edition \in Edition /\ workers[w].piece \in Nat
        /\ workers[w].entry \in Nat /\ files \in [Entry -> Seq(Nat)]
        /\ \A e \in Entry : e \in Nat /\ 1 <= e /\ e <= Entries
        /\ Entries \in Nat
    <3>1. \A n \in 1 .. Entries + 1 : n \in Nat
      OBVIOUS
    <3> QED
      BY <2>1, <3>1, UnpackerAssumption DEF UnpackTypes, Worker, Entry
  <2>5. ASSUME Reading(w), NextEntry(w), Here(w) \in Entry, UNCHANGED files,
               WholeAs(Here(w), workers[w].edition)
        PROVE  Threads' /\ Begun' /\ Unpacked' /\ Told'
    <3>1. /\ \A v \in Thread : v # w => workers'[v] = workers[v]
          /\ workers'[w].pc = "check" /\ workers'[w].entry = workers[w].entry + 1
          /\ workers'[w].piece = 1 /\ workers'[w].bad = FALSE
          /\ workers'[w].edition = workers[w].edition
      BY <2>1, <2>3, <2>5, WorkerBecomes
    <3>2. AtWork(w)' /\ workers'[w].pc \notin {"open", "write", "start", "done"}
      BY <3>1 DEF AtWork
    <3>3. \A e \in Entry : e < workers'[w].entry =>
            e < workers[w].entry \/ WholeAs(e, workers[w].edition)'
      <4> SUFFICES ASSUME NEW e \in Entry, e < workers[w].entry + 1, ~(e < workers[w].entry)
                   PROVE  WholeAs(e, workers[w].edition)'
        BY <3>1
      <4>1. e = Here(w)
        BY <2>4 DEF Here
      <4> QED
        BY <2>5, <3>1, <4>1 DEF WholeAs
    <3> QED
      BY <2>1, <2>3, <2>5, <3>1, <3>2, <3>3, WorkerGoesOn
  <2>6. ASSUME NEW pc1 \in {"shell", "done"}, Ends(w, pc1, "nothing"), UNCHANGED files
        PROVE  Threads' /\ Begun' /\ Unpacked' /\ Told'
    <3>1. /\ \A v \in Thread : v # w => workers'[v] = workers[v]
          /\ workers'[w].pc = pc1 /\ workers'[w].result = "nothing"
          /\ workers'[w].bad = FALSE
      BY <2>1, <2>3, <2>6, WorkerBecomes
    <3> QED
      BY <2>1, <2>3, <2>6, <3>1, WorkerGivesUp
  <2>7. CASE CheckEntry(w)
    <3>1. Here(w) \in Entry /\ UNCHANGED files /\ workers[w].pc = "check"
      BY <2>7 DEF CheckEntry
    <3>2. CASE Len(files[Here(w)]) = Size(Here(w), workers[w].edition)
      <4>1. NextEntry(w)
        BY <2>7, <3>2 DEF CheckEntry
      <4>2. Reading(w)
        BY <3>1 DEF Reading
      <4> QED
        BY <2>1, <2>5, <3>1, <3>2, <4>1, <4>2, RightSize
    <3>3. CASE workers' = [workers EXCEPT ![w].pc = "open"]
      <4>1. /\ \A v \in Thread : v # w => workers'[v] = workers[v]
            /\ workers'[w].pc = "open" /\ workers'[w].entry = workers[w].entry
            /\ workers'[w].piece = workers[w].piece /\ workers'[w].bad = FALSE
            /\ workers'[w].edition = workers[w].edition
        BY <2>1, <2>2, <3>3, PcChanges
      <4>2. Reading(w) /\ AtWork(w)' /\ workers[w].piece = 1
        BY <2>2, <3>1, <4>1 DEF AtWork, Reading, Unpacked, HasRead
      <4> QED
        BY <2>1, <3>1, <4>1, <4>2, WorkerGoesOn
    <3> QED
      BY <2>7, <3>2, <3>3 DEF CheckEntry
  <2>8. CASE OpenEntry(w)
    <3>1. /\ workers[w].pc = "open" /\ files' = [files EXCEPT ![Here(w)] = <<>>]
          /\ workers' = [workers EXCEPT ![w].pc = "write"]
      BY <2>8 DEF OpenEntry
    <3>2. /\ \A v \in Thread : v # w => workers'[v] = workers[v]
          /\ workers'[w].pc = "write" /\ workers'[w].entry = workers[w].entry
          /\ workers'[w].piece = workers[w].piece /\ workers'[w].bad = FALSE
          /\ workers'[w].edition = workers[w].edition
      BY <2>1, <2>2, <3>1, PcChanges
    <3>3. Reading(w) /\ AtWork(w)' /\ workers[w].piece = 1 /\ Here(w) \in Entry
      BY <2>1, <2>2, <3>1, <3>2 DEF AtWork, Reading, Unpacked, HasRead, UnpackTypes
    <3>4. /\ files'[Here(w)] = <<>> /\ Len(files'[Here(w)]) = 0
          /\ \A e \in Entry : e # Here(w) => files'[e] = files[e]
          /\ Size(Here(w), workers[w].edition) \in Nat
      BY <2>4, <3>1, <3>3, Sizes
    <3>5. OfEdition(files'[Here(w)], workers[w].edition)
      BY <3>4 DEF OfEdition
    <3> QED
      BY <2>1, <3>2, <3>3, <3>4, <3>5, WorkerGoesOn DEF Here
  <2>9. CASE WritePiece(w)
    <3>1. /\ workers[w].pc = "write" /\ workers[w].piece <= Size(Here(w), workers[w].edition)
          /\ files' = [files EXCEPT ![Here(w)] = Put(@, workers[w].piece, workers[w].edition)]
      BY <1>2, <2>9 DEF WritePiece
    <3>2. /\ \A v \in Thread : v # w => workers'[v] = workers[v]
          /\ workers'[w].pc = "write" /\ workers'[w].entry = workers[w].entry
          /\ workers'[w].piece = workers[w].piece + 1
          /\ workers'[w].edition = workers[w].edition /\ workers'[w].bad = FALSE
      BY <1>2, <2>1, <2>2, <2>9, PieceRead
    <3>3. /\ Reading(w) /\ AtWork(w)' /\ Here(w) \in Entry /\ workers[w].piece > 0
          /\ OfEdition(files[Here(w)], workers[w].edition)
          /\ workers[w].piece = Len(files[Here(w)]) + 1
      BY <2>1, <2>2, <3>1, <3>2 DEF AtWork, Reading, Unpacked, HasRead, UnpackTypes
    <3>4. workers[w].edition \in Nat
      BY <2>4, UnpackerAssumption DEF Edition
    <3>5. files[Here(w)] \in Seq(Nat)
      BY <2>4, <3>3
    <3> DEFINE put == Put(files[Here(w)], workers[w].piece, workers[w].edition)
    <3>6. OfEdition(put, workers[w].edition) /\ Len(put) = workers[w].piece
      BY <2>4, <3>3, <3>4, <3>5, PieceIsPut
    <3>7. files'[Here(w)] = put /\ \A e \in Entry : e # Here(w) => files'[e] = files[e]
      BY <2>4, <3>1, <3>3
    <3> HIDE DEF put
    <3> QED
      BY <2>1, <3>1, <3>2, <3>3, <3>6, <3>7, WorkerGoesOn DEF Here
  <2>10. CASE EntryWritten(w)
    <3>1. /\ workers[w].pc = "write" /\ workers[w].piece > Size(Here(w), workers[w].edition)
          /\ NextEntry(w) /\ UNCHANGED files
      BY <2>10 DEF EntryWritten
    <3>2. /\ Reading(w) /\ Here(w) \in Entry /\ workers[w].piece = Len(files[Here(w)]) + 1
          /\ Len(files[Here(w)]) <= Size(Here(w), workers[w].edition)
      BY <2>1, <2>2, <3>1 DEF Reading, Unpacked, HasRead, UnpackTypes
    <3>3. Size(Here(w), workers[w].edition) \in Nat /\ Len(files[Here(w)]) \in Nat
      BY <2>4, <3>2, Sizes
    <3>4. Len(files[Here(w)]) = Size(Here(w), workers[w].edition)
      BY <3>1, <3>2, <3>3
    <3> QED
      BY <2>1, <2>5, <3>1, <3>2, <3>4, RightSize
  <2>11. CASE UnZipFails(w)
    BY <2>6, <2>11 DEF UnZipFails
  <2>12. CASE AllUnpacked(w)
    <3>1. /\ \A v \in Thread : v # w => workers'[v] = workers[v]
          /\ workers'[w].pc = "done" /\ workers'[w].result = "files"
          /\ workers'[w].edition = workers[w].edition
          /\ workers'[w].bad = FALSE
          /\ UNCHANGED files /\ Here(w) = Entries + 1 /\ workers[w].pc = "check"
      BY <2>1, <2>3, <2>12, WorkerBecomes DEF AllUnpacked
    <3>2. \A e \in Entry : e < workers[w].entry
      BY <2>4, <3>1 DEF Here
    <3>3. Reading(w) /\ ~Reading(w)'
      BY <3>1 DEF Reading
    <3> QED
      BY <2>1, <3>1, <3>2, <3>3, WorkerGoesOn
  <2>13. CASE ShellAnswers(w)
    BY <1>2, <2>6, <2>13 DEF ShellAnswers
  <2>14. CASE ShellCopies(w)
    BY <2>2, <2>14 DEF ShellCopies
  <2> QED
    BY <2>7, <2>8, <2>9, <2>10, <2>11, <2>12, <2>13, <2>14
<1> QED
  BY <1>1, <1>2 DEF UnpackInv, UnpackGood

(* The steps of the client that leave the threads and the files alone.     *)
LEMMA ClientKeeps ==
  ASSUME UnpackInv, UNCHANGED <<files, edition, workers, calls>>, UnpackTypes', AssetHas',
         mishaps \subseteq mishaps',
         client' = "waiting" => client = "waiting",
         client' \in {"idle", "asset"} /\ answer' = "files" =>
           \/ client \in {"idle", "asset"} /\ answer = "files"
           \/ /\ client = "waiting" /\ workers[calls].result = "files"
              /\ workers[calls].pc \in {"copying", "done"}
  PROVE  UnpackInv'
<1> SUFFICES ASSUME mishaps' = {} PROVE Threads' /\ Begun' /\ Unpacked' /\ Told'
  BY DEF UnpackInv, UnpackGood
<1>1. Threads /\ Begun /\ Unpacked /\ Told /\ UnpackTypes
  BY DEF UnpackInv, UnpackGood
<1>2. Threads' /\ Begun' /\ Unpacked'
  BY <1>1 DEF Threads, Begun, Unpacked, HasRead, Reading, AtWork, Here, WholeAs
<1>3. \A e : WholeAs(e, edition)' <=> WholeAs(e, edition)
  BY DEF WholeAs
<1>4. \A w : AtWork(w)' <=> AtWork(w)
  BY DEF AtWork
<1>5. client = "waiting" /\ workers[calls].pc \in {"copying", "done"} =>
        /\ workers[calls].pc = "done"
        /\ \A w \in Thread : ~AtWork(w)
  BY <1>1 DEF Threads, UnpackTypes, AtWork
<1>6. Told'
  BY <1>1, <1>3, <1>4, <1>5 DEF Told, Reading
<1> QED
  BY <1>2, <1>6

(* A call starts a thread: no other is at work, and it has done nothing.   *)
LEMMA StartingKeeps ==
  ASSUME UnpackInv, StartWorker
  PROVE  UnpackInv'
<1> DEFINE new == [NoWorker EXCEPT !.pc = "start"]
<1>1. /\ client = "sizing" /\ client' = "waiting" /\ calls' = calls + 1
      /\ workers' = [workers EXCEPT ![calls + 1] = new]
      /\ UNCHANGED <<files, edition, answer, asset, listed, delivered>>
  BY DEF StartWorker, assets
<1>2. /\ UnpackTypes /\ calls \in 0 .. MaxCalls /\ calls < MaxCalls
      /\ MaxCalls \in Nat /\ Entries \in Nat /\ Entries > 0 /\ edition \in Edition
      /\ MaxEditions \in Nat
  BY <1>1, UnpackerAssumption DEF UnpackInv, UnpackTypes
<1>3. calls + 1 \in Thread /\ calls' \in 0 .. MaxCalls
  BY <1>1, <1>2 DEF Thread
<1>4. new \in Worker
  <2>1. 1 \in 1 .. Entries + 1 /\ 1 \in Nat /\ 1 \in Edition
    BY <1>2, UnpackerAssumption DEF Edition
  <2> QED
    BY <2>1 DEF Worker, NoWorker
<1>5. new.pc = "start" /\ new.entry = 1 /\ new.piece = 1 /\ new.bad = FALSE
  BY DEF NoWorker
<1> HIDE DEF new
<1>6. /\ workers' \in [Thread -> Worker] /\ workers'[calls + 1] = new
      /\ \A v \in Thread : v # calls + 1 => workers'[v] = workers[v]
  BY <1>1, <1>2, <1>3, <1>4 DEF UnpackTypes
<1>7. UnpackTypes'
  BY <1>1, <1>2, <1>3, <1>5, <1>6 DEF UnpackTypes, Here
<1>8. AssetHas'
  <2>1. "full" \in mishaps => "full" \in mishaps'
    BY DEF StartWorker
  <2> QED
    BY <1>1, <2>1 DEF UnpackInv, AssetHas
<1>9. ASSUME mishaps' = {} PROVE Threads' /\ Begun' /\ Unpacked' /\ Told'
  <2>1. /\ mishaps = {}
        /\ \A w \in Thread : ~AtWork(w) /\ workers[w].pc # "copying"
    BY <1>9 DEF StartWorker
  <2>2. Threads /\ Begun
    BY <2>1 DEF UnpackInv, UnpackGood
  <2>3. /\ \A w \in Thread : AtWork(w)' => w = calls + 1
        /\ \A w \in Thread : ~Reading(w)'
        /\ \A w \in Thread : workers'[w].pc = "start" => w = calls + 1
    BY <1>5, <1>6, <2>1 DEF AtWork, Reading
  <2>4. Threads'
    BY <1>1, <1>5, <1>6, <2>2, <2>3 DEF Threads
  <2>5. Begun'
    BY <1>1, <2>2, <2>3 DEF Begun
  <2>6. Unpacked'
    BY <1>5, <1>6, <2>3 DEF Unpacked, Here
  <2>7. AtWork(calls)' /\ ~Reading(calls)'
    BY <1>1, <1>5, <1>6 DEF AtWork, Reading
  <2>8. Told'
    BY <1>1, <1>5, <1>6, <2>7 DEF Told
  <2> QED
    BY <2>4, <2>5, <2>6, <2>8
<1> QED
  BY <1>7, <1>8, <1>9 DEF UnpackInv, UnpackGood

(* The process dies with its threads, or the archive comes anew.           *)
LEMMA WorldKeeps ==
  ASSUME UnpackInv, Die \/ Republish
  PROVE  UnpackInv'
<1>1. /\ UnpackTypes /\ MaxEditions \in Nat /\ Entries \in Nat /\ Entries > 0
  BY UnpackerAssumption DEF UnpackInv
<1>2. CASE Die
  <2> DEFINE gone == [NoWorker EXCEPT !.pc = "done"]
  <2>1. /\ client' = "down" /\ workers' = [w \in Thread |-> gone] /\ answer' = "none"
        /\ UNCHANGED <<files, edition, calls, asset, mishaps>>
        /\ listed' = FALSE /\ delivered' = FALSE
    BY <1>2 DEF Die
  <2>2. gone \in Worker
    <3>1. 1 \in 1 .. Entries + 1 /\ 1 \in Nat /\ 1 \in Edition
      BY <1>1, UnpackerAssumption DEF Edition
    <3> QED
      BY <3>1 DEF Worker, NoWorker
  <2>3. gone.pc = "done" /\ gone.piece = 1 /\ gone.bad = FALSE
    BY DEF NoWorker
  <2> HIDE DEF gone
  <2>4. workers' \in [Thread -> Worker] /\ \A w \in Thread : workers'[w] = gone
    BY <2>1, <2>2
  <2>5. UnpackTypes'
    BY <1>1, <2>1, <2>3, <2>4 DEF UnpackTypes
  <2>6. AssetHas'
    BY <2>1 DEF AssetHas
  <2>7. ASSUME mishaps' = {} PROVE Threads' /\ Begun' /\ Unpacked' /\ Told'
    <3>1. \A w \in Thread : ~AtWork(w)' /\ ~Reading(w)'
      BY <2>3, <2>4 DEF AtWork, Reading
    <3>2. Begun
      BY <2>1, <2>7 DEF UnpackInv, UnpackGood
    <3>3. Threads' /\ Unpacked' /\ Told'
      BY <2>1, <2>3, <2>4, <3>1 DEF Threads, Unpacked, Told
    <3>4. Begun'
      BY <2>1, <3>1, <3>2 DEF Begun
    <3> QED
      BY <3>3, <3>4
  <2> QED
    BY <2>5, <2>6, <2>7 DEF UnpackInv, UnpackGood
<1>3. CASE Republish
  <2>1. /\ client \in {"down", "idle"} /\ edition' = edition + 1 /\ edition < MaxEditions
        /\ answer' = "none"
        /\ UNCHANGED <<files, workers, calls, client, asset, listed, delivered, mishaps>>
    BY <1>3 DEF Republish, assets
  <2>2. /\ edition \in Nat /\ edition' \in Edition
        /\ \A ed \in Edition : ed \in Nat
    BY <1>1, <2>1 DEF UnpackTypes, Edition
  <2>3. UnpackTypes' /\ AssetHas'
    BY <1>1, <2>1, <2>2 DEF UnpackInv, UnpackTypes, AssetHas, Here
  <2>4. ASSUME mishaps' = {} PROVE Threads' /\ Begun' /\ Unpacked' /\ Told'
    <3>1. Threads /\ Begun /\ Unpacked
      BY <2>1, <2>4 DEF UnpackInv, UnpackGood
    <3>2. \A ed \in Edition : ed <= edition => ed <= edition'
      BY <2>1, <2>2
    <3>3. \A w : (AtWork(w)' <=> AtWork(w)) /\ (Reading(w)' <=> Reading(w))
      BY <2>1 DEF AtWork, Reading
    <3>4. \A w \in Thread : workers[w].edition \in Edition
      BY <1>1 DEF UnpackTypes, Worker
    <3>5. Threads'
      BY <2>1, <3>1, <3>2, <3>3, <3>4 DEF Threads
    <3>6. Begun'
      BY <2>1, <3>1, <3>2, <3>3 DEF Begun
    <3>7. Unpacked'
      <4>1. \A w \in Thread : HasRead(w) => HasRead(w)'
        BY <2>1, <3>2, <3>4 DEF HasRead, Here, WholeAs
      <4> QED
        BY <2>1, <3>1, <3>3, <4>1 DEF Unpacked, Here
    <3>8. Told'
      BY <2>1 DEF Told
    <3> QED
      BY <3>5, <3>6, <3>7, <3>8
  <2> QED
    BY <2>3, <2>4 DEF UnpackInv, UnpackGood
<1> QED
  BY <1>2, <1>3

(* The asset is unpacked in the client's own thread.                       *)
LEMMA AssetKeeps ==
  ASSUME UnpackInv,
         (\E forced \in BOOLEAN : UnpackAsset(forced) \/ AssetFails(forced)) \/ WriteAsset
  PROVE  UnpackInv'
<1>1. /\ UnpackTypes /\ AssetHas
      /\ UNCHANGED <<files, edition, workers, calls, answer>>
      /\ mishaps \subseteq mishaps' /\ client \in {"idle", "asset"}
      /\ client' \in {"idle", "asset"}
  BY DEF UnpackInv, UnpackAsset, WriteAsset, AssetFails, AssetDelivered, zip
<1>2. asset \in Seq({1}) /\ Len(asset) \in Nat
  BY <1>1 DEF UnpackTypes
<1>3. /\ Append(asset, 1) \in Seq({1}) /\ Len(Append(asset, 1)) = Len(asset) + 1
      /\ <<>> \in Seq({1}) /\ Len(<<>>) = 0
  BY <1>2
<1>4. asset' \in Seq({1})
  BY <1>2, <1>3 DEF UnpackAsset, WriteAsset, AssetFails, assets
<1>5. AssetHas'
  <2>1. CASE \E forced \in BOOLEAN : UnpackAsset(forced)
    BY <1>1, <1>2, <1>3, <2>1 DEF UnpackAsset, AssetHas, AssetDelivered, AssetIsThere, AssetParts
  <2>2. CASE WriteAsset
    <3>1. CASE asset' = Append(asset, 1)
      BY <1>1, <1>2, <1>3, <2>2, <3>1 DEF WriteAsset, AssetHas, AssetDelivered, AssetParts
    <3>2. CASE mishaps' = mishaps \cup {"full"}
      BY <3>2 DEF AssetHas
    <3> QED
      BY <2>2, <3>1, <3>2 DEF WriteAsset
  <2>3. CASE \E forced \in BOOLEAN : AssetFails(forced)
    BY <1>1, <2>3 DEF AssetFails, AssetHas, AssetIsThere
  <2> QED
    BY <2>1, <2>2, <2>3
<1>6. UnpackTypes'
  BY <1>1, <1>4 DEF UnpackTypes, Here
<1> QED
  BY <1>1, <1>5, <1>6, ClientKeeps

LEMMA UnpackInit == UnpackerInit => UnpackInv
<1> SUFFICES ASSUME UnpackerInit PROVE UnpackInv
  OBVIOUS
<1>1. Entries \in Nat /\ Entries > 0 /\ MaxEditions \in Nat /\ MaxEditions > 0 /\ MaxCalls \in Nat
      /\ 1 \in 1 .. Entries + 1 /\ 1 \in Edition /\ 1 \in Nat /\ 0 \in 0 .. MaxCalls
  BY UnpackerAssumption DEF Edition
<1>2. /\ NoWorker \in Worker /\ NoWorker.pc = "none" /\ NoWorker.piece = 1
      /\ NoWorker.bad = FALSE
  BY <1>1 DEF NoWorker, Worker
<1>3. workers \in [Thread -> Worker] /\ \A w \in Thread : workers[w] = NoWorker
  BY <1>2 DEF UnpackerInit
<1>4. /\ files \in [Entry -> Seq(Nat)] /\ \A e \in Entry : files[e] = <<>> /\ Len(files[e]) = 0
      /\ asset \in Seq({1}) /\ <<>> \in Seq(Nat)
  BY DEF UnpackerInit
<1>5. UnpackTypes
  BY <1>1, <1>2, <1>3, <1>4 DEF UnpackerInit, UnpackTypes
<1>6. AssetHas
  BY DEF UnpackerInit, AssetHas
<1>7. \A w \in Thread : ~AtWork(w)
  BY <1>2, <1>3 DEF AtWork
<1>8. Threads /\ Unpacked /\ Told
  BY <1>2, <1>3, <1>7 DEF UnpackerInit, Threads, Unpacked, Told, Reading, AtWork
<1>9. Begun
  <2> SUFFICES ASSUME NEW e \in Entry
               PROVE  OfEdition(files[e], 1) /\ Len(files[e]) <= Size(e, 1) /\ 1 <= edition
    BY <1>1, <1>7 DEF Begun, Reading, AtWork
  <2>1. Size(e, 1) \in Nat
    BY <1>1, Sizes
  <2> QED
    BY <1>4, <2>1 DEF OfEdition, UnpackerInit
<1> QED
  BY <1>5, <1>6, <1>8, <1>9 DEF UnpackInv, UnpackGood

LEMMA UnpackStep == UnpackInv /\ [UnpackerNext]_unpackerVars => UnpackInv'
<1> SUFFICES ASSUME UnpackInv, [UnpackerNext]_unpackerVars PROVE UnpackInv'
  OBVIOUS
<1>1. CASE \E w \in Thread :
             \/ CheckEntry(w) \/ OpenEntry(w) \/ WritePiece(w) \/ EntryWritten(w)
             \/ UnZipFails(w) \/ AllUnpacked(w) \/ ShellAnswers(w) \/ ShellCopies(w)
  BY <1>1, WorkerKeeps
<1>2. CASE StartWorker
  BY <1>2, StartingKeeps
<1>3. CASE Die \/ Republish
  BY <1>3, WorldKeeps
<1>4. CASE (\E forced \in BOOLEAN : UnpackAsset(forced) \/ AssetFails(forced)) \/ WriteAsset
  BY <1>4, AssetKeeps
<1>5. CASE Start \/ Unpack \/ Refuse \/ TimesOut \/ Answered \/ UNCHANGED unpackerVars
  <2>1. /\ UNCHANGED <<files, edition, workers, calls, asset, listed, delivered, mishaps>>
        /\ client' \in {"idle", "sizing"} \/ UNCHANGED client
        /\ client' = "asset" => client = "asset"
        /\ client' = "waiting" => client = "waiting"
        /\ client' = "down" => client = "down" /\ UNCHANGED answer
        /\ client' = "sizing" /\ client # "sizing" => calls < MaxCalls
    BY <1>5 DEF Start, Unpack, Refuse, TimesOut, Answered, Returns, unpackerVars, zip, assets
  <2>2. UnpackTypes'
    BY <2>1 DEF UnpackInv, UnpackTypes, Here
  <2>3. AssetHas'
    BY <2>1 DEF UnpackInv, AssetHas
  <2>4. client' \in {"idle", "asset"} /\ answer' = "files" =>
           \/ client \in {"idle", "asset"} /\ answer = "files"
           \/ /\ client = "waiting" /\ workers[calls].result = "files"
              /\ workers[calls].pc \in {"copying", "done"}
    BY <1>5 DEF UnpackInv, UnpackTypes, Start, Unpack, Refuse, TimesOut, Answered, Returns, unpackerVars, zip
  <2> QED
    BY <2>1, <2>2, <2>3, <2>4, ClientKeeps
<1>6. CASE \E w \in Thread : OpenArchive(w)
  BY <1>6, OpeningKeeps
<1> QED
  BY <1>1, <1>2, <1>3, <1>4, <1>5, <1>6 DEF UnpackerNext

LEMMA UnpackInvariant == UnpackerSpec => []UnpackInv
BY UnpackInit, UnpackStep, PTL DEF UnpackerSpec

(* The files a call names as unpacked are whole, after any sequence of     *)
(* calls that failed or timed out, deaths and new editions, unless one of  *)
(* the three mishaps that nobody notices has happened                      *)
(* (unpacker.cpp:445-457, 1057-1101).                                      *)
THEOREM NamedIsWhole == UnpackerSpec => []UnpackedIsWhole
<1>1. UnpackInv => UnpackedIsWhole
  <2> SUFFICES ASSUME UnpackInv PROVE UnpackedIsWhole
    OBVIOUS
  <2>1. answer = "files" /\ client = "idle" /\ mishaps = {} =>
          \A e \in Entry : WholeAs(e, edition)
    BY DEF UnpackInv, UnpackGood, Told
  <2>2. delivered /\ "full" \notin mishaps => Len(asset) = AssetParts
    BY DEF UnpackInv, AssetHas
  <2> QED
    BY <2>1, <2>2 DEF UnpackedIsWhole, WholeAs
<1> QED
  BY <1>1, UnpackInvariant, PTL

=============================================================================
