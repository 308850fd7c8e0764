----------------------------- MODULE Downloader -----------------------------
(***************************************************************************)
(* Downloader (src/CIL/downloader.cpp): one call of operator() for a remote*)
(* file.  DownloadRemoteFile fetches the file in one stream or in chunks,  *)
(* one thread per chunk, each retried; a progress thread reads the shared  *)
(* counter; the caller joins them all.  The file is written beside its     *)
(* destination and renamed when DownloadRemoteFile says it is complete.    *)
(***************************************************************************)
EXTENDS Naturals, FiniteSets, FiniteSetsExt

CONSTANTS
  Chunk,      (* the byte ranges, one per thread                            *)
  Pieces,     (* data callbacks needed for a whole range                    *)
  Body,       (* the longest body of an answer: a server may ignore the     *)
              (* range and send the whole file                              *)
  Retries     (* attempts per range (5 in the code)                         *)

ASSUME DownloaderAssumption ==
  /\ IsFiniteSet(Chunk)
  /\ Pieces \in Nat \ {0}
  /\ Body \in Nat /\ Body >= Pieces
  /\ Retries \in Nat \ {0}

VARIABLES
  pc,         (* where each chunk thread is in DownloadChunk                *)
  try,        (* its i: attempts already given up                           *)
  got,        (* its downloaded_size, in pieces                             *)
  progress,   (* the shared counter                                         *)
  hasFailed,  (* has_failed                                                 *)
  stop,       (* stop_download                                              *)
  watcher,    (* the progress thread                                        *)
  caller,     (* where the calling thread is                                *)
  file        (* the file: absent, partial in .tmp, or at its destination   *)

chunkVars == <<pc, try, got, progress, hasFailed>>
vars == <<chunkVars, stop, watcher, caller, file>>

ChunkState ==
  {"idle", "attempt", "receiving", "complete", "short", "dropped", "exhausted"}

(* DownloadChunk has returned: with its range on disk; with a part of it,   *)
(* unnoticed; because of has_failed; or after its last attempt failed.      *)
ChunkReturned(c) == pc[c] \in {"complete", "short", "dropped", "exhausted"}

FileSize == Cardinality(Chunk) * Pieces

TypeOK ==
  /\ pc \in [Chunk -> ChunkState]
  /\ try \in [Chunk -> 0 .. Retries - 1]
  /\ got \in [Chunk -> 0 .. Body]
  /\ progress \in Nat
  /\ hasFailed \in BOOLEAN
  /\ stop \in BOOLEAN
  /\ watcher \in {"none", "testing", "sleeping", "gone"}
  /\ caller \in {"start", "stream", "joining", "watching", "true", "false"}
  /\ file \in {"absent", "partial", "published"}

Init ==
  /\ pc = [c \in Chunk |-> "idle"]
  /\ try = [c \in Chunk |-> 0]
  /\ got = [c \in Chunk |-> 0]
  /\ progress = 0
  /\ hasFailed = FALSE
  /\ stop = FALSE
  /\ watcher = "none"
  /\ caller = "start"
  /\ file = "absent"

-----------------------------------------------------------------------------
(* The chunk threads *)

(* What a chunk thread never touches. *)
ByChunk == UNCHANGED <<stop, watcher, caller, file>>

LastTry(c) == try[c] = Retries - 1

Revert(c) ==
  /\ progress' = progress - got[c]
  /\ got' = [got EXCEPT ![c] = 0]

NextTry(c) ==
  /\ pc' = [pc EXCEPT ![c] = "attempt"]
  /\ try' = [try EXCEPT ![c] = @ + 1]

(* The head of the loop: fail fast when another chunk has failed. *)
FailFast(c) ==
  /\ pc[c] = "attempt"
  /\ hasFailed
  /\ pc' = [pc EXCEPT ![c] = "dropped"]
  /\ UNCHANGED <<try, got, progress, hasFailed>>
  /\ ByChunk

SendRequest(c) ==
  /\ pc[c] = "attempt"
  /\ ~hasFailed
  /\ pc' = [pc EXCEPT ![c] = "receiving"]
  /\ UNCHANGED <<try, got, progress, hasFailed>>
  /\ ByChunk

(* The destination cannot be opened: the next attempt, or the loop is left  *)
(* and has_failed set.                                                      *)
OpenFails(c) ==
  /\ pc[c] = "attempt"
  /\ ~hasFailed
  /\ IF LastTry(c)
     THEN /\ pc' = [pc EXCEPT ![c] = "dropped"]
          /\ hasFailed' = TRUE
          /\ UNCHANGED try
     ELSE NextTry(c) /\ UNCHANGED hasFailed
  /\ UNCHANGED <<got, progress>>
  /\ ByChunk

(* The data callback counts what it has written, unless the user stopped;   *)
(* it is called for the body of an answer with a wrong status too.          *)
Receive(c) ==
  /\ pc[c] = "receiving"
  /\ ~stop
  /\ got[c] < Body
  /\ got' = [got EXCEPT ![c] = @ + 1]
  /\ progress' = progress + 1
  /\ UNCHANGED <<pc, try, hasFailed>>
  /\ ByChunk

(* Status 206 is all that is tested, however long the body was; and the     *)
(* close that writes the last buffer may fail and is not tested at all.     *)
Succeeds(c) ==
  /\ pc[c] = "receiving"
  /\ \E end \in {"complete", "short"} :
       /\ end = "complete" => got[c] >= Pieces
       /\ pc' = [pc EXCEPT ![c] = end]
  /\ UNCHANGED <<try, got, progress, hasFailed>>
  /\ ByChunk

(* No response, another status, a write error or the user's stop: progress  *)
(* is reverted; after the last attempt the thread just returns.             *)
AttemptFails(c) ==
  /\ pc[c] = "receiving"
  /\ Revert(c)
  /\ IF LastTry(c)
     THEN pc' = [pc EXCEPT ![c] = "exhausted"] /\ UNCHANGED try
     ELSE NextTry(c)
  /\ UNCHANGED hasFailed
  /\ ByChunk

(* Mutant: a full disk ends the thread and nothing else. *)
DiskFull_Unreported(c) ==
  /\ pc[c] = "receiving"
  /\ ~stop
  /\ Revert(c)
  /\ pc' = [pc EXCEPT ![c] = "dropped"]
  /\ UNCHANGED <<try, hasFailed>>
  /\ ByChunk

(* ENOSPC is not retried. *)
DiskFull(c) ==
  /\ pc[c] = "receiving"
  /\ ~stop
  /\ Revert(c)
  /\ hasFailed' = TRUE
  /\ pc' = [pc EXCEPT ![c] = "dropped"]
  /\ UNCHANGED try
  /\ ByChunk

ChunkStep(c) ==
  \/ FailFast(c)
  \/ SendRequest(c)
  \/ OpenFails(c)
  \/ Receive(c)
  \/ Succeeds(c)
  \/ AttemptFails(c)
  \/ DiskFull(c)

-----------------------------------------------------------------------------
(* The progress thread *)

(* Mutant: the progress thread does not look at the stop. *)
WatcherTests_IgnoresStop ==
  /\ watcher = "testing"
  /\ watcher' = IF progress < FileSize /\ ~hasFailed THEN "sleeping" ELSE "gone"
  /\ UNCHANGED <<chunkVars, stop, caller, file>>

WatcherTests ==
  /\ watcher = "testing"
  /\ watcher' = IF progress < FileSize /\ ~hasFailed /\ ~stop
                THEN "sleeping" ELSE "gone"
  /\ UNCHANGED <<chunkVars, stop, caller, file>>

WatcherSleeps ==
  /\ watcher = "sleeping"
  /\ watcher' = "testing"
  /\ UNCHANGED <<chunkVars, stop, caller, file>>

-----------------------------------------------------------------------------
(* The calling thread *)

(* operator() removes what it wrote and returns false. *)
GiveUp ==
  /\ caller' = "false"
  /\ file' = "absent"

(* The HEAD request fails, or the file cannot be created or resized. *)
PreparationFails ==
  /\ caller = "start"
  /\ GiveUp
  /\ UNCHANGED <<chunkVars, stop, watcher>>

(* One stream: no ranges, one hardware thread, or a small file. *)
StartStream ==
  /\ caller = "start"
  /\ caller' = "stream"
  /\ file' = "partial"
  /\ UNCHANGED <<chunkVars, stop, watcher>>

(* Rename, then return true; an exception of rename makes it false. *)
Publish == caller' = "true" /\ file' = "published"

RenameFails == caller' = "false" /\ UNCHANGED file

(* The stream ends by itself: it never looks at stop_download. *)
StreamEnds ==
  /\ caller = "stream"
  /\ GiveUp \/ Publish \/ RenameFails
  /\ UNCHANGED <<chunkVars, stop, watcher>>

StartChunks ==
  /\ caller = "start"
  /\ caller' = "joining"
  /\ file' = "partial"
  /\ pc' = [c \in Chunk |-> "attempt"]
  /\ watcher' = "testing"
  /\ UNCHANGED <<try, got, progress, hasFailed, stop>>

JoinChunks ==
  /\ caller = "joining"
  /\ \A c \in Chunk : ChunkReturned(c)
  /\ caller' = "watching"
  /\ UNCHANGED <<chunkVars, stop, watcher, file>>

JoinWatcher ==
  /\ caller = "watching"
  /\ watcher = "gone"
  /\ IF hasFailed \/ stop THEN GiveUp ELSE Publish \/ RenameFails
  /\ UNCHANGED <<chunkVars, stop, watcher>>

CallerStep ==
  \/ PreparationFails
  \/ StartStream
  \/ StreamEnds
  \/ StartChunks
  \/ JoinChunks
  \/ JoinWatcher

Returned == caller \in {"true", "false"}

(* Another thread, through StorageTask::Cancel. *)
StopDownload ==
  /\ ~Returned
  /\ stop' = TRUE
  /\ UNCHANGED <<chunkVars, watcher, caller, file>>

-----------------------------------------------------------------------------
Next ==
  \/ \E c \in Chunk : ChunkStep(c)
  \/ WatcherTests
  \/ WatcherSleeps
  \/ CallerStep
  \/ StopDownload
  \/ Returned /\ UNCHANGED vars

Spec == Init /\ [][Next]_vars

(* Every thread runs, and a request comes to an end: the client has         *)
(* connection and read timeouts.                                            *)
Fairness ==
  /\ \A c \in Chunk : WF_vars(ChunkStep(c))
  /\ WF_vars(WatcherTests)
  /\ WF_vars(WatcherSleeps)
  /\ WF_vars(CallerStep)

FairSpec == Spec /\ Fairness

-----------------------------------------------------------------------------
(* Properties *)

(* A chunked file reaches its destination although one of its threads gave  *)
(* its range up only if the thread did not tell the others: a write that    *)
(* found the disk full, a file that could not be opened and the failure of  *)
(* another thread keep it from being published (downloader.cpp:195, 210,    *)
(* 315).  What the code does not report is named: an answer shorter than    *)
(* its range or a last buffer that was not written ("short"), and attempts  *)
(* that ran out ("exhausted").  What an answer longer than its range writes *)
(* into the next one, and the body of a single stream, are not judged.      *)
PartialOnlyIfUnreported ==
  file = "published" =>
     \A c \in Chunk : pc[c] \in {"idle", "complete", "short", "exhausted"}

(* A stop, and a failure that sets has_failed, end the call: the chunk      *)
(* threads run out of attempts and the progress thread sees the flag.       *)
StopEndsDownload == (stop \/ hasFailed) ~> Returned

=============================================================================
