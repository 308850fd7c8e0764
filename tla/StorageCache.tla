----------------------------- MODULE StorageCache -----------------------------
(***************************************************************************)
(* What the downloads leave behind between runs: the destination files, the *)
(* URL cache on disk (url_cache.json), and the two caches of the process,   *)
(* that of the sizes and that of the validations (url_cache_manager.cpp,    *)
(* storage.cpp), used by the passes of DownloadStage::RunStorageTasks over  *)
(* the scenarios, one task after another.  A process may die at any step    *)
(* and be launched again, perhaps as another version; servers publish new   *)
(* editions of a file; a user replaces or deletes files between two passes. *)
(* A local file is always copied (CacheLocalFiles is true, its default).    *)
(***************************************************************************)
EXTENDS Naturals, Sequences, SequencesExt

CONSTANTS
  Url,        (* what a configuration names                                  *)
  Path,       (* destination files                                           *)
  LocalUrls,  (* file:// URLs: copied straight onto the destination          *)
  Archives,   (* .zip files, which keep their task                           *)
  Scenarios,  (* each a sequence of requests [url, path, versioned]          *)
  Behaviors,  (* the download behaviours to consider                         *)
  Version,    (* versions of the program                                     *)
  MaxEdition, (* bound: editions of a remote file                            *)
  MaxClock,   (* bound: modifications of destination files                   *)
  Meddling,   (* a user replaces and deletes files                           *)
  None

Request == [url : Url, path : Path, versioned : BOOLEAN]

(* What a user or a half-done copy leaves. *)
Junk == <<None, 0>>

(* What a transfer of u can leave when it reports success: an edition of    *)
(* the file or, as edition 0, an incomplete one, of which Downloader did    *)
(* not notice or not report that bytes are missing.                         *)
ReportedComplete(u) == {u} \X (0 .. MaxEdition)

Content == (Url \X (0 .. MaxEdition)) \cup {Junk}

File == [content : Content, mtime : 1 .. MaxClock]

Entry == [path : Path, sha : Content, version : Version \cup {""}]

Entries == [Url -> Entry \cup {None}]

ASSUME StorageAssumption ==
  /\ LocalUrls \subseteq Url
  /\ Archives \subseteq Url
  /\ Scenarios \subseteq Seq(Request)
  /\ Behaviors \subseteq {"normal", "forced", "skip_all", "prompt",
                          "deps_only_enumeration", "collect_file_sizes_only"}
  /\ MaxEdition \in Nat \ {0}
  /\ MaxClock \in Nat \ {0}
  /\ Meddling \in BOOLEAN
  /\ None \notin File \cup Entry
  /\ "" \notin Version

VARIABLES
  disk,      (* the destination files                                        *)
  stored,    (* url_cache.json                                               *)
  torn,      (* its rewriting has begun and not ended                        *)
  clock,     (* the last modification time                                   *)
  version,   (* of the running process, None when there is none              *)
  cache,     (* cache_ of the current URLCacheManager                        *)
  sizes,     (* UrlSizeCache                                                 *)
  validated, (* validation_cache                                             *)
  behavior,  (* download_behavior of the current stage                       *)
  scenario,  (* its requests                                                 *)
  sweep,     (* the pass is the sizing sweep of the disk-space check         *)
  todo,      (* requests that are to get a task, to be checked or to be run   *)
  kept,      (* tasks created, and those the pre-check kept                  *)
  omitted,   (* requests that were given no task                             *)
  pc,        (* where RunStorageTasks is                                     *)
  fetched    (* history: what each version has fetched for itself            *)

caches == <<cache, sizes, validated>>
pass == <<behavior, scenario, sweep, todo, kept, omitted>>
vars == <<disk, stored, torn, clock, version, caches, pass, pc, fetched>>

Key == [url : Url, path : Path, versioned : BOOLEAN, mtime : 1 .. MaxClock]

TypeOK ==
  /\ disk \in [Path -> File \cup {None}]
  /\ stored \in Entries
  /\ torn \in BOOLEAN
  /\ clock \in 0 .. MaxClock
  /\ version \in Version \cup {None}
  /\ cache \in Entries
  /\ sizes \in [Url -> {"unknown", "zero", "positive"}]
  /\ DOMAIN validated \subseteq Key
  /\ \A k \in DOMAIN validated : validated[k] \in BOOLEAN
  /\ behavior \in Behaviors
  /\ scenario \in Seq(Request)
  /\ sweep \in BOOLEAN
  /\ {todo, kept} \subseteq Seq(Request)
  /\ omitted \subseteq Request
  /\ pc \in {"down", "idle", "begin", "creating", "precheck", "task", "find",
             "transfer", "add", "store", "done", "clearing"}
  /\ fetched \subseteq Content \X Version

NoEntries == [u \in Url |-> None]

AnyBehavior == CHOOSE b \in Behaviors : TRUE

(* No process: the static caches are gone and the files stay. *)
Dead ==
  /\ version' = None
  /\ pc' = "down"
  /\ cache' = NoEntries
  /\ sizes' = [u \in Url |-> "unknown"]
  /\ validated' = <<>>
  /\ behavior' = AnyBehavior
  /\ scenario' = <<>>
  /\ sweep' = FALSE
  /\ todo' = <<>>
  /\ kept' = <<>>
  /\ omitted' = {}

Init ==
  /\ disk = [p \in Path |-> None]
  /\ stored = NoEntries
  /\ torn = FALSE
  /\ clock = 0
  /\ version = None
  /\ cache = NoEntries
  /\ sizes = [u \in Url |-> "unknown"]
  /\ validated = <<>>
  /\ behavior = AnyBehavior
  /\ scenario = <<>>
  /\ sweep = FALSE
  /\ todo = <<>>
  /\ kept = <<>>
  /\ omitted = {}
  /\ pc = "down"
  /\ fetched = {}

-----------------------------------------------------------------------------
(* URLCacheManager *)

(* Mutant: the modification time is left out of the key. *)
KeyOf_NoTime(r) ==
  [url |-> r.url, path |-> r.path, versioned |-> r.versioned, mtime |-> 1]

(* The key under which ValidateFile remembers its answer; both callers have *)
(* seen the file exist.                                                     *)
KeyOf(r) ==
  [url |-> r.url, path |-> r.path, versioned |-> r.versioned,
   mtime |-> disk[r.path].mtime]

(* Mutant: the version of the entry is not compared. *)
Matches_AnyVersion(r) ==
  /\ cache[r.url] # None
  /\ cache[r.url].sha = disk[r.path].content

(* The file has the hash of the URL's entry and, for a dependency that      *)
(* comes with the program, the entry is of this version.                    *)
Matches(r) ==
  /\ cache[r.url] # None
  /\ cache[r.url].sha = disk[r.path].content
  /\ r.versioned => cache[r.url].version = version

Exists(r) == disk[r.path] # None

Validate(r) ==
  IF KeyOf(r) \in DOMAIN validated THEN validated[KeyOf(r)] ELSE Matches(r)

(* ValidateFile has been asked about r. *)
Remember(r) ==
  validated' = [k \in DOMAIN validated \cup {KeyOf(r)} |->
                  IF k = KeyOf(r) THEN Validate(r) ELSE validated[k]]

(* Mutant: the entries of other URLs keep the path. *)
Unclaimed_KeepsOthers(p) == cache

(* AddUrlToCache begins with the entries that claim the path. *)
Unclaimed(p) ==
  [u \in Url |-> IF cache[u] # None /\ cache[u].path = p THEN None ELSE cache[u]]

EntryOf(r) == [path |-> r.path, sha |-> disk[r.path].content,
               version |-> IF r.versioned THEN version ELSE ""]

-----------------------------------------------------------------------------
(* The passes *)

ChecksFirst == behavior \in {"skip_all", "prompt", "deps_only_enumeration"}

SizesOnly == sweep \/ behavior = "collect_file_sizes_only"

SamePass == UNCHANGED <<version, behavior, scenario, sweep, omitted>>

(* DownloadStage::Run: the disk-space check comes first, unless the          *)
(* behaviour is interactive or downloads nothing.                           *)
StartStage ==
  /\ pc = "idle"
  /\ behavior' \in Behaviors
  /\ scenario' \in Scenarios
  /\ sweep' = (behavior' \in {"normal", "forced"})
  /\ pc' = "begin"
  /\ UNCHANGED <<disk, stored, torn, clock, version, caches, todo, kept, omitted,
                 fetched>>

(* addStorageTasks makes no task for a file of which no bytes are missing. *)
LeftOut(r) == ~SizesOnly /\ sizes[r.url] = "zero" /\ r.url \notin Archives

(* RunStorageTasks loads the URL cache, ... *)
LoadCache ==
  /\ pc = "begin"
  /\ ~torn
  /\ cache' = stored
  /\ todo' = scenario
  /\ kept' = <<>>
  /\ omitted' = {}
  /\ pc' = "creating"
  /\ UNCHANGED <<disk, stored, torn, clock, version, sizes, validated, behavior,
                 scenario, sweep, fetched>>

(* ... and gives one request after another a task, ... *)
AddTask ==
  /\ pc = "creating"
  /\ todo # <<>>
  /\ IF LeftOut(Head(todo))
     THEN omitted' = omitted \cup {Head(todo)} /\ UNCHANGED kept
     ELSE kept' = Append(kept, Head(todo)) /\ UNCHANGED omitted
  /\ todo' = Tail(todo)
  /\ UNCHANGED <<disk, stored, torn, clock, version, caches, behavior, scenario,
                 sweep, pc, fetched>>

(* ... which are checked first or run. *)
TasksAdded ==
  /\ pc = "creating"
  /\ todo = <<>>
  /\ todo' = kept
  /\ kept' = <<>>
  /\ pc' = IF ChecksFirst THEN "precheck" ELSE "task"
  /\ UNCHANGED <<disk, stored, torn, clock, caches, fetched>>
  /\ SamePass

(* The stage returns or throws, its URLCacheManager goes; the process goes  *)
(* on.                                                                      *)
StageOver ==
  /\ pc' = "idle"
  /\ cache' = NoEntries
  /\ behavior' = AnyBehavior
  /\ scenario' = <<>>
  /\ sweep' = FALSE
  /\ todo' = <<>>
  /\ kept' = <<>>
  /\ omitted' = {}
  /\ UNCHANGED <<version>>

(* A url_cache.json that was cut off does not parse, and the exception ends *)
(* the stage.                                                               *)
CacheUnreadable ==
  /\ pc = "begin"
  /\ torn
  /\ StageOver
  /\ UNCHANGED <<disk, stored, torn, clock, sizes, validated, fetched>>

(* CheckIfTaskCanBeSkipped for the next task: it is dropped ... *)
PrecheckSkips ==
  /\ pc = "precheck"
  /\ todo # <<>>
  /\ Exists(Head(todo)) /\ Validate(Head(todo))
  /\ Remember(Head(todo))
  /\ todo' = Tail(todo)
  /\ UNCHANGED <<disk, stored, torn, clock, cache, sizes, kept, pc, fetched>>
  /\ SamePass

(* ... or kept: not by skip_all, and by prompt when the user agrees. *)
PrecheckKeeps ==
  /\ pc = "precheck"
  /\ todo # <<>>
  /\ LET r == Head(todo) IN
     IF Exists(r) THEN ~Validate(r) /\ Remember(r) ELSE UNCHANGED validated
  /\ behavior # "skip_all"
  /\ todo' = Tail(todo)
  /\ kept' = Append(kept, Head(todo))
  /\ UNCHANGED <<disk, stored, torn, clock, cache, sizes, pc, fetched>>
  /\ SamePass

PrecheckGivesUp ==
  /\ pc = "precheck"
  /\ todo # <<>>
  /\ LET r == Head(todo) IN
     IF Exists(r) THEN ~Validate(r) /\ Remember(r) ELSE UNCHANGED validated
  /\ behavior \in {"skip_all", "prompt"}
  /\ StageOver
  /\ UNCHANGED <<disk, stored, torn, clock, sizes, fetched>>

PrecheckEnds ==
  /\ pc = "precheck"
  /\ todo = <<>>
  /\ todo' = kept
  /\ kept' = <<>>
  /\ pc' = "task"
  /\ UNCHANGED <<disk, stored, torn, clock, caches, fetched>>
  /\ SamePass

(* StorageTask::Run: the file that is there will do. *)
UseExisting ==
  /\ pc = "task"
  /\ todo # <<>>
  /\ ~ChecksFirst /\ behavior # "forced"
  /\ Exists(Head(todo)) /\ Validate(Head(todo))
  /\ Remember(Head(todo))
  /\ todo' = Tail(todo)
  /\ UNCHANGED <<disk, stored, torn, clock, cache, sizes, kept, pc, fetched>>
  /\ SamePass

(* Nothing is there that would do, or the task does not look. *)
LookUp ==
  /\ pc = "task"
  /\ todo # <<>>
  /\ IF ChecksFirst \/ behavior = "forced" \/ ~Exists(Head(todo))
     THEN UNCHANGED validated
     ELSE ~Validate(Head(todo)) /\ Remember(Head(todo))
  /\ pc' = "find"
  /\ UNCHANGED <<disk, stored, torn, clock, cache, sizes, todo, kept, fetched>>
  /\ SamePass

(* The entry of r names its path. *)
Recorded(r) == Exists(r) /\ cache[r.url] # None /\ cache[r.url].path = r.path

(* The entry of r names its path and the file there is valid: FindFileWithUrl *)
(* notes that no bytes are missing.                                         *)
FoundByUrl ==
  /\ pc = "find"
  /\ LET r == Head(todo) IN
     /\ behavior # "forced"
     /\ Recorded(r) /\ Validate(r)
     /\ Remember(r)
     /\ sizes' = [sizes EXCEPT ![r.url] = "zero"]
  /\ IF SizesOnly
     THEN todo' = Tail(todo) /\ pc' = "task"
     ELSE pc' = "add" /\ UNCHANGED todo
  /\ UNCHANGED <<disk, stored, torn, clock, cache, kept, fetched>>
  /\ SamePass

NotFoundByUrl ==
  /\ pc = "find"
  /\ LET r == Head(todo) IN
     IF Recorded(r)
     THEN (behavior = "forced" \/ ~Validate(r)) /\ Remember(r)
     ELSE UNCHANGED validated
  /\ pc' = "transfer"
  /\ UNCHANGED <<disk, stored, torn, clock, cache, sizes, todo, kept, fetched>>
  /\ SamePass

(* The size is taken from the process-wide cache or asked for, and 0 is the *)
(* answer for a local file unless local sizes are wanted, as they are in the *)
(* sizing sweep only.                                                       *)
LearnSize ==
  /\ pc = "transfer"
  /\ SizesOnly
  /\ LET u == Head(todo).url IN
     sizes' = [sizes EXCEPT ![u] =
                 IF @ # "unknown" THEN @
                 ELSE IF u \in LocalUrls /\ ~sweep THEN "zero" ELSE "positive"]
  /\ todo' = Tail(todo)
  /\ pc' = "task"
  /\ UNCHANGED <<disk, stored, torn, clock, cache, validated, kept, fetched>>
  /\ SamePass

Write(p, content) ==
  /\ clock < MaxClock
  /\ clock' = clock + 1
  /\ disk' = [disk EXCEPT ![p] = [content |-> content, mtime |-> clock + 1]]

(* The file is fetched, in the edition its server has by now, and is at its *)
(* destination as soon as the downloader reports success.                   *)
Transfer ==
  /\ pc = "transfer"
  /\ ~SizesOnly
  /\ LET r == Head(todo) IN
     \E content \in ReportedComplete(r.url) :
       /\ Write(r.path, content)
       /\ fetched' = IF r.versioned THEN fetched \cup {<<content, version>>}
                                    ELSE fetched
  /\ pc' = "add"
  /\ UNCHANGED <<stored, torn, caches, todo, kept>>
  /\ SamePass

(* The task fails: the destination is as it was, unless a local copy had    *)
(* begun to overwrite it.                                                   *)
TransferFails ==
  /\ pc \in {"find", "transfer"}
  /\ \/ UNCHANGED <<disk, clock>>
     \/ /\ pc = "transfer" /\ ~SizesOnly
        /\ Head(todo).url \in LocalUrls
        /\ Write(Head(todo).path, Junk)
  /\ StageOver
  /\ UNCHANGED <<stored, torn, sizes, validated, fetched>>

(* AddUrlToCache, up to the opening of url_cache.json for writing. *)
AddUrlToCache ==
  /\ pc = "add"
  /\ LET r == Head(todo) IN
     cache' = [Unclaimed(r.path) EXCEPT ![r.url] = EntryOf(r)]
  /\ stored' = NoEntries
  /\ torn' = TRUE
  /\ pc' = "store"
  /\ UNCHANGED <<disk, clock, sizes, validated, todo, kept, fetched>>
  /\ SamePass

(* The file cannot be hashed, or url_cache.json cannot be opened. *)
AddIsNotStored ==
  /\ pc = "add"
  /\ LET r == Head(todo) IN
     cache' \in {Unclaimed(r.path), [Unclaimed(r.path) EXCEPT ![r.url] = EntryOf(r)]}
  /\ todo' = Tail(todo)
  /\ pc' = "task"
  /\ UNCHANGED <<disk, stored, torn, clock, sizes, validated, kept, fetched>>
  /\ SamePass

StoreEnds ==
  /\ pc = "store"
  /\ stored' = cache
  /\ torn' = FALSE
  /\ todo' = Tail(todo)
  /\ pc' = "task"
  /\ UNCHANGED <<disk, clock, caches, kept, fetched>>
  /\ SamePass

(* After the sizing sweep the space suffices, and the fetch pass begins. *)
SweepEnds ==
  /\ pc = "task" /\ todo = <<>>
  /\ sweep
  /\ sweep' = FALSE
  /\ pc' = "begin"
  /\ UNCHANGED <<disk, stored, torn, clock, version, caches, behavior, scenario,
                 todo, kept, omitted, fetched>>

(* An interrupt, or too little space. *)
PassIsStopped ==
  /\ pc = "task"
  /\ StageOver
  /\ UNCHANGED <<disk, stored, torn, clock, sizes, validated, fetched>>

PassEnds ==
  /\ pc = "task" /\ todo = <<>>
  /\ ~sweep
  /\ pc' = "done"
  /\ UNCHANGED <<disk, stored, torn, clock, caches, todo, kept, fetched>>
  /\ SamePass

(* The stage has returned true. *)
StageSucceeds ==
  /\ pc = "done"
  /\ StageOver
  /\ UNCHANGED <<disk, stored, torn, clock, sizes, validated, fetched>>

-----------------------------------------------------------------------------
(* Clearing the cache, and the world around *)

(* URLCacheManager::ClearCache: the files named by the entries are removed, *)
(* those that cannot be removed keep their entries.  Neither static cache   *)
(* is touched.                                                              *)
ClearCache ==
  /\ pc = "idle"
  /\ ~torn
  /\ \E locked \in SUBSET {p \in Path : disk[p] # None} :
       /\ cache' = [u \in Url |-> IF stored[u] # None /\ stored[u].path \in locked
                                  THEN stored[u] ELSE None]
       /\ disk' = [p \in Path |->
                     IF p \notin locked /\ \E u \in Url : stored[u] # None
                                                       /\ stored[u].path = p
                     THEN None ELSE disk[p]]
  /\ stored' = NoEntries
  /\ torn' = TRUE
  /\ pc' = "clearing"
  /\ UNCHANGED <<clock, version, sizes, validated, pass, fetched>>

(* The data directory is removed afterwards, as far as that is possible. *)
ClearEnds ==
  /\ pc = "clearing"
  /\ stored' = cache
  /\ torn' = FALSE
  /\ \E removed \in SUBSET Path :
       disk' = [p \in Path |-> IF p \in removed THEN None ELSE disk[p]]
  /\ cache' = NoEntries
  /\ pc' = "idle"
  /\ UNCHANGED <<clock, version, sizes, validated, pass, fetched>>

Launch ==
  /\ pc = "down"
  /\ version' \in Version
  /\ pc' = "idle"
  /\ UNCHANGED <<disk, stored, torn, clock, caches, pass, fetched>>

(* The process ends, or dies, at any step; a local copy may be half done. *)
Die ==
  /\ pc # "down"
  /\ \/ UNCHANGED <<disk, clock>>
     \/ /\ pc = "transfer" /\ ~SizesOnly
        /\ Head(todo).url \in LocalUrls
        /\ Write(Head(todo).path, Junk)
  /\ Dead
  /\ UNCHANGED <<stored, torn, fetched>>

(* A user replaces or deletes a destination file between two passes, or     *)
(* deletes a url_cache.json.                                                *)
Meddle ==
  /\ Meddling
  /\ pc \in {"down", "idle"}
  /\ \/ \E p \in Path : Write(p, Junk) /\ UNCHANGED <<stored, torn>>
     \/ \E p \in Path : /\ disk[p] # None
                        /\ disk' = [disk EXCEPT ![p] = None]
                        /\ UNCHANGED <<clock, stored, torn>>
     \/ stored' = NoEntries /\ torn' = FALSE /\ UNCHANGED <<disk, clock>>
  /\ UNCHANGED <<version, caches, pass, pc, fetched>>

Next ==
  \/ Launch
  \/ StartStage
  \/ LoadCache
  \/ AddTask
  \/ TasksAdded
  \/ CacheUnreadable
  \/ PrecheckSkips
  \/ PrecheckKeeps
  \/ PrecheckGivesUp
  \/ PrecheckEnds
  \/ UseExisting
  \/ LookUp
  \/ FoundByUrl
  \/ NotFoundByUrl
  \/ LearnSize
  \/ Transfer
  \/ TransferFails
  \/ AddUrlToCache
  \/ AddIsNotStored
  \/ StoreEnds
  \/ SweepEnds
  \/ PassIsStopped
  \/ PassEnds
  \/ StageSucceeds
  \/ ClearCache
  \/ ClearEnds
  \/ Die
  \/ Meddle

Spec == Init /\ [][Next]_vars

-----------------------------------------------------------------------------
(* Properties *)

(* What is at r.path is what a transfer of r.url reported as complete. *)
Received(r) == Exists(r) /\ disk[r.path].content \in ReportedComplete(r.url)

(* Another URL of the same scenario has the same destination. *)
Contested(r) == \E q \in ToSet(scenario) : q.path = r.path /\ q.url # r.url

(* The scenario has it as a dependency that does not come with the program  *)
(* too.                                                                     *)
AlsoUnversioned(r) == \E q \in ToSet(scenario) : q.path = r.path /\ ~q.versioned

(* Two URLs never claim the same destination: not in memory and not in      *)
(* url_cache.json, through any sequence of runs, crashes and clearings      *)
(* (AddUrlToCache removes the claims of others, url_cache_manager.cpp:125). *)
OneClaimPerPath ==
  \A u, v \in Url :
    /\ cache[u] # None /\ cache[v] # None /\ cache[u].path = cache[v].path => u = v
    /\ stored[u] # None /\ stored[v] # None
         /\ stored[u].path = stored[v].path => u = v

(* When a pass that fetches has succeeded, every file it had a task for is   *)
(* what a transfer of its own URL reported as complete, whether it was      *)
(* fetched now, accepted by its hash or accepted on the word of the         *)
(* validation cache: never what a user or a half-done copy left there, and  *)
(* never the file of another URL, whatever users, crashes and other         *)
(* scenarios did before.  That a reported transfer is whole is not promised *)
(* here: the downloader can publish an incomplete file, its hash is         *)
(* recorded and every later check accepts it.                               *)
SuccessMeansReceived ==
  pc = "done" /\ ~SizesOnly =>
    \A r \in ToSet(scenario) : r \in omitted \/ Contested(r) \/ Received(r)

(* A dependency that comes with the program is never used on the strength   *)
(* of what another version fetched (check_version_, storage.cpp:174): these *)
(* very contents have been fetched by the running version, unless the       *)
(* scenario has the same file without the check as well.                    *)
VersionedIsOurs ==
  pc = "done" /\ ~SizesOnly =>
    \A r \in ToSet(scenario) :
      r.versioned /\ r \notin omitted /\ ~Contested(r) /\ ~AlsoUnversioned(r) =>
        <<disk[r.path].content, version>> \in fetched

=============================================================================
