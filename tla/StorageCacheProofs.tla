-------------------------- MODULE StorageCacheProofs --------------------------
(***************************************************************************)
(* Theorems about StorageCache, for all URLs, paths, scenarios, editions   *)
(* and versions, through any sequence of passes, crashes, clearings and    *)
(* meddlings: no two URLs claim one destination, a pass that succeeds      *)
(* leaves what transfers of its URLs reported as complete, and a dependency *)
(* that comes with the program is one of the running version.              *)
(***************************************************************************)
EXTENDS StorageCache, TLAPS

-----------------------------------------------------------------------------
(* The inductive invariant *)

AtTask == pc \in {"find", "transfer", "add", "store"}

InPass == pc \in {"creating", "precheck", "task"} \/ AtTask

(* What the properties depend on. *)
CoreTypeOK ==
  /\ disk \in [Path -> File \cup {None}]
  /\ stored \in Entries /\ cache \in Entries
  /\ clock \in Nat
  /\ version \in Version \cup {None}
  /\ pc # "down" => version \in Version
  /\ DOMAIN validated \subseteq Key
  /\ \A k \in DOMAIN validated : validated[k] \in BOOLEAN
  /\ scenario \in Seq(Request) /\ todo \in Seq(Request) /\ kept \in Seq(Request)
  /\ sweep \in BOOLEAN
  /\ pc \in {"down", "idle", "begin", "creating", "precheck", "task", "find",
             "transfer", "add", "store", "done", "clearing"}

(* A destination is written at a time of its own. *)
Dated ==
  /\ \A p \in Path : disk[p] # None => disk[p].mtime <= clock
  /\ \A k \in DOMAIN validated : k.mtime <= clock

FromUrl(u, content) == content \in ReportedComplete(u)

(* What a file must be to be taken for r.                                  *)
Proper(r) ==
  /\ disk[r.path] # None
  /\ FromUrl(r.url, disk[r.path].content)
  /\ r.versioned => <<disk[r.path].content, version>> \in fetched

(* An entry has the hash of a transfer; one of a version, the hash of what *)
(* this version has fetched.                                               *)
Honest(entries) ==
  \A u \in Url : entries[u] # None =>
    /\ FromUrl(u, entries[u].sha)
    /\ entries[u].version # "" => <<entries[u].sha, entries[u].version>> \in fetched

(* The validation cache says yes of a proper file only.                    *)
Remembered ==
  /\ pc = "down" => DOMAIN validated = {}
  /\ \A k \in DOMAIN validated :
       validated[k] /\ disk[k.path] # None /\ disk[k.path].mtime = k.mtime => Proper(k)

(* The requests that still have to get a task, to be checked or to be run. *)
Open(r) == r \in ToSet(todo) \cup ToSet(kept)

(* A file whose request is done: another request of the scenario for the   *)
(* same path may have written it since.                                    *)
Done(r) ==
  /\ Contested(r) \/ Received(r)
  /\ r.versioned => \/ Contested(r) \/ AlsoUnversioned(r)
                    \/ <<disk[r.path].content, version>> \in fetched

PassAgrees ==
  /\ InPass => \A r \in ToSet(todo) \cup ToSet(kept) : r \in ToSet(scenario)
  /\ AtTask => todo # <<>>
  /\ pc \in {"add", "store"} => ~SizesOnly /\ Proper(Head(todo))
  /\ InPass /\ ~SizesOnly =>
       \A r \in ToSet(scenario) : Open(r) \/ r \in omitted \/ Done(r)
  /\ pc = "done" /\ ~SizesOnly => \A r \in ToSet(scenario) : r \in omitted \/ Done(r)

Sound ==
  /\ OneClaimPerPath
  /\ Dated
  /\ Honest(cache) /\ Honest(stored)
  /\ Remembered

IInv == CoreTypeOK /\ Sound /\ PassAgrees

-----------------------------------------------------------------------------
(* The constants and the sequences of requests *)

LEMMA Constants ==
  /\ MaxEdition \in Nat /\ MaxClock \in Nat
  /\ None \notin File /\ None \notin Entry
  /\ "" \notin Version
  /\ Scenarios \subseteq Seq(Request)
BY StorageAssumption

(* The times of files are numbers.                                         *)
LEMMA TimesAreNumbers ==
  /\ \A f \in File : f.mtime \in Nat
  /\ \A k \in Key : k.mtime \in Nat /\ k.path \in Path /\ k.url \in Url
<1>1. \A n \in 1 .. MaxClock : n \in Nat
  OBVIOUS
<1>2. \A f \in File : f.mtime \in 1 .. MaxClock
  BY DEF File
<1>3. \A k \in Key : k.mtime \in 1 .. MaxClock /\ k.path \in Path /\ k.url \in Url
  BY DEF Key
<1> QED
  BY <1>1, <1>2, <1>3

(* The request at the head of a sequence, and those behind it.             *)
LEMMA HeadOf ==
  ASSUME NEW q \in Seq(Request), q # <<>>
  PROVE  /\ Head(q) \in Request /\ Head(q) \in ToSet(q)
         /\ Tail(q) \in Seq(Request)
         /\ \A r \in ToSet(q) : r = Head(q) \/ r \in ToSet(Tail(q))
         /\ \A r \in ToSet(Tail(q)) : r \in ToSet(q)
<1>1. /\ Head(q) \in Request /\ Tail(q) \in Seq(Request) /\ Len(q) \in Nat /\ Len(q) > 0
      /\ Head(q) = q[1] /\ Len(Tail(q)) = Len(q) - 1
      /\ \A i \in 1 .. Len(Tail(q)) : Tail(q)[i] = q[i + 1]
  OBVIOUS
<1>2. DOMAIN q = 1 .. Len(q) /\ DOMAIN Tail(q) = 1 .. Len(Tail(q))
  BY <1>1
<1>3. ASSUME NEW i \in 1 .. Len(q)
      PROVE  i = 1 \/ (i - 1 \in 1 .. Len(Tail(q)) /\ Tail(q)[i - 1] = q[i])
  <2>1. i # 1 => i - 1 \in 1 .. Len(Tail(q)) /\ (i - 1) + 1 = i
    BY <1>1
  <2> QED
    BY <1>1, <2>1
<1>4. ASSUME NEW i \in 1 .. Len(Tail(q)) PROVE i + 1 \in 1 .. Len(q)
  BY <1>1
<1>5. Head(q) \in ToSet(q)
  BY <1>1, <1>2 DEF ToSet
<1>6. ASSUME NEW r \in ToSet(q) PROVE r = Head(q) \/ r \in ToSet(Tail(q))
  <2>1. PICK i \in 1 .. Len(q) : r = q[i]
    BY <1>2 DEF ToSet
  <2> QED
    BY <1>1, <1>2, <1>3, <2>1 DEF ToSet
<1>7. ASSUME NEW r \in ToSet(Tail(q)) PROVE r \in ToSet(q)
  <2>1. PICK i \in 1 .. Len(Tail(q)) : r = Tail(q)[i]
    BY <1>2 DEF ToSet
  <2> QED
    BY <1>1, <1>2, <1>4, <2>1 DEF ToSet
<1> QED
  BY <1>1, <1>5, <1>6, <1>7

(* Appending a request adds it and no other.                               *)
LEMMA Appended ==
  ASSUME NEW q \in Seq(Request), NEW r \in Request
  PROVE  Append(q, r) \in Seq(Request) /\ ToSet(Append(q, r)) = ToSet(q) \cup {r}
<1>1. /\ Append(q, r) \in Seq(Request) /\ Len(q) \in Nat
      /\ Len(Append(q, r)) = Len(q) + 1 /\ Append(q, r)[Len(q) + 1] = r
      /\ \A i \in 1 .. Len(q) : Append(q, r)[i] = q[i]
  OBVIOUS
<1>2. DOMAIN q = 1 .. Len(q) /\ DOMAIN Append(q, r) = 1 .. (Len(q) + 1)
  BY <1>1
<1>3. \A i \in 1 .. (Len(q) + 1) : i \in 1 .. Len(q) \/ i = Len(q) + 1
  BY <1>1
<1>4. Len(q) + 1 \in 1 .. (Len(q) + 1) /\ \A i \in 1 .. Len(q) : i \in 1 .. (Len(q) + 1)
  BY <1>1
<1> QED
  BY <1>1, <1>2, <1>3, <1>4 DEF ToSet

(* A sequence without requests.                                            *)
LEMMA NoRequests == <<>> \in Seq(Request) /\ ToSet(<<>>) = {}
BY DEF ToSet

(* The requests are requests.                                              *)
LEMMA RequestsOf ==
  ASSUME NEW q \in Seq(Request), NEW r \in ToSet(q)
  PROVE  r \in Request
BY DEF ToSet

-----------------------------------------------------------------------------
(* The validation cache *)

(* The answer of ValidateFile is one of a proper file.                     *)
LEMMA ValidIsProper ==
  ASSUME CoreTypeOK, Sound, pc # "down", NEW r \in Request, Exists(r), Validate(r)
  PROVE  Proper(r)
<1>1. r.url \in Url /\ r.path \in Path /\ disk[r.path] \in File /\ disk[r.path] # None
  BY DEF CoreTypeOK, Exists, Request
<1>2. CASE KeyOf(r) \in DOMAIN validated
  <2>1. validated[KeyOf(r)]
    BY <1>2 DEF Validate
  <2>2. /\ KeyOf(r).path = r.path /\ KeyOf(r).url = r.url
        /\ KeyOf(r).versioned = r.versioned /\ KeyOf(r).mtime = disk[r.path].mtime
    BY DEF KeyOf
  <2>3. Proper(KeyOf(r))
    BY <1>1, <1>2, <2>1, <2>2 DEF Sound, Remembered
  <2> QED
    BY <2>2, <2>3 DEF Proper
<1>3. CASE KeyOf(r) \notin DOMAIN validated
  <2>1. Matches(r)
    BY <1>3 DEF Validate
  <2>2. /\ cache[r.url] # None /\ cache[r.url].sha = disk[r.path].content
        /\ r.versioned => cache[r.url].version = version
    BY <2>1 DEF Matches
  <2>3. FromUrl(r.url, disk[r.path].content)
    BY <1>1, <2>2 DEF Sound, Honest
  <2>4. r.versioned => <<disk[r.path].content, version>> \in fetched
    <3>1. cache[r.url] \in Entry
      BY <1>1, <2>2 DEF CoreTypeOK, Entries
    <3>2. version # ""
      BY Constants DEF CoreTypeOK
    <3> QED
      BY <1>1, <2>2, <3>2 DEF Sound, Honest
  <2> QED
    BY <1>1, <2>3, <2>4 DEF Proper
<1> QED
  BY <1>2, <1>3

(* What ValidateFile remembers is right as long as the files stay.         *)
LEMMA Remembers ==
  ASSUME CoreTypeOK, Sound, pc # "down", NEW r \in Request, Exists(r), Remember(r),
         UNCHANGED <<disk, version, fetched, clock>>, pc' # "down"
  PROVE  /\ Remembered'
         /\ DOMAIN validated' \subseteq Key
         /\ \A k \in DOMAIN validated' : validated'[k] \in BOOLEAN /\ k.mtime <= clock
<1> DEFINE key == KeyOf(r)
<1>1. r.url \in Url /\ r.path \in Path /\ disk[r.path] \in File /\ disk[r.path] # None
      /\ r.versioned \in BOOLEAN
  BY DEF CoreTypeOK, Exists, Request
<1>2. /\ key \in Key /\ key.path = r.path /\ key.url = r.url
      /\ key.versioned = r.versioned /\ key.mtime = disk[r.path].mtime
  BY <1>1 DEF KeyOf, Key, File
<1>3. Validate(r) \in BOOLEAN
  BY DEF Validate, Matches, CoreTypeOK
<1>4. Validate(r) => Proper(key)
  BY <1>2, ValidIsProper DEF Proper
<1>5. /\ DOMAIN validated' = DOMAIN validated \cup {key}
      /\ validated'[key] = Validate(r)
      /\ \A k \in DOMAIN validated \ {key} : validated'[k] = validated[k]
  BY DEF Remember
<1>6. key.mtime <= clock
  BY <1>1, <1>2 DEF Sound, Dated
<1> HIDE DEF key
<1>7. ASSUME NEW k \in DOMAIN validated', validated'[k], disk[k.path] # None,
             disk[k.path].mtime = k.mtime
      PROVE  Proper(k)
  <2>1. CASE k = key
    BY <1>4, <1>5, <1>7, <2>1
  <2>2. CASE k # key
    BY <1>5, <1>7, <2>2 DEF Sound, Remembered
  <2> QED
    BY <2>1, <2>2
<1>8. \A k : Proper(k)' <=> Proper(k)
  BY DEF Proper, FromUrl
<1>9. Remembered'
  BY <1>7, <1>8 DEF Remembered
<1>10. DOMAIN validated' \subseteq Key
  BY <1>2, <1>5 DEF CoreTypeOK
<1>11. \A k \in DOMAIN validated' : validated'[k] \in BOOLEAN /\ k.mtime <= clock
  BY <1>3, <1>5, <1>6 DEF CoreTypeOK, Sound, Dated
<1> QED
  BY <1>9, <1>10, <1>11

-----------------------------------------------------------------------------
(* What a step leaves as it was *)

(* A step that writes files at a new time, or removes some, and fetches.   *)
LEMMA FilesKeep ==
  ASSUME CoreTypeOK, Sound, UNCHANGED validated,
         UNCHANGED version \/ DOMAIN validated = {},
         pc' = "down" => DOMAIN validated = {},
         fetched \subseteq fetched', clock' \in Nat, clock <= clock',
         \A p \in Path : \/ disk'[p] = None \/ disk'[p] = disk[p]
                         \/ disk'[p].mtime = clock' /\ clock < clock'
  PROVE  Dated' /\ Remembered'
<1>1. clock \in Nat /\ \A p \in Path : disk[p] # None => disk[p] \in File
  BY DEF CoreTypeOK
<1>2. \A p \in Path : disk[p] # None => disk[p].mtime \in Nat /\ disk[p].mtime <= clock
  BY <1>1, TimesAreNumbers DEF Sound, Dated
<1>3. \A k \in DOMAIN validated : k.mtime \in Nat /\ k.mtime <= clock /\ k.path \in Path
                                  /\ k.url \in Url
  BY TimesAreNumbers DEF CoreTypeOK, Sound, Dated
<1>4. Dated'
  BY <1>1, <1>2, <1>3 DEF Dated
<1>5. ASSUME NEW k \in DOMAIN validated, validated[k], disk'[k.path] # None,
             disk'[k.path].mtime = k.mtime
      PROVE  Proper(k)'
  <2>1. disk'[k.path] = disk[k.path] /\ UNCHANGED version
    BY <1>1, <1>3, <1>5
  <2>2. Proper(k)
    BY <1>5, <2>1 DEF Sound, Remembered
  <2> QED
    BY <2>1, <2>2 DEF Proper, FromUrl
<1> QED
  BY <1>4, <1>5 DEF Remembered

(* The entries that are kept or copied from the other cache are still      *)
(* honest, and claim what they did.                                        *)
LEMMA EntriesKeep ==
  ASSUME Sound, fetched \subseteq fetched',
         \/ \A u \in Url : cache'[u] = None \/ cache'[u] = cache[u]
         \/ \A u \in Url : cache'[u] = None \/ cache'[u] = stored[u],
         \/ \A u \in Url : stored'[u] = None \/ stored'[u] = stored[u]
         \/ \A u \in Url : stored'[u] = None \/ stored'[u] = cache[u]
  PROVE  OneClaimPerPath' /\ Honest(cache)' /\ Honest(stored)'
<1>1. OneClaimPerPath'
  BY DEF Sound, OneClaimPerPath
<1>2. Honest(cache)'
  BY DEF Sound, Honest, FromUrl
<1>3. Honest(stored)'
  BY DEF Sound, Honest, FromUrl
<1> QED
  BY <1>1, <1>2, <1>3

(* A step within a pass that may look at a file, and changes none.         *)
LEMMA SoundKept ==
  ASSUME CoreTypeOK, Sound, pc # "down", pc' # "down",
         UNCHANGED <<disk, stored, clock, version, cache, fetched>>,
         \/ UNCHANGED validated
         \/ \E r \in Request : Exists(r) /\ Remember(r)
  PROVE  /\ Sound'
         /\ DOMAIN validated' \subseteq Key
         /\ \A k \in DOMAIN validated' : validated'[k] \in BOOLEAN
<1>1. OneClaimPerPath' /\ Honest(cache)' /\ Honest(stored)'
  BY DEF Sound, OneClaimPerPath, Honest, FromUrl
<1>2. CASE UNCHANGED validated
  <2>1. clock' \in Nat /\ clock <= clock'
    BY DEF CoreTypeOK
  <2>2. Dated' /\ Remembered'
    BY <1>2, <2>1, FilesKeep
  <2> QED
    BY <1>1, <1>2, <2>2 DEF Sound, CoreTypeOK
<1>3. ASSUME NEW r \in Request, Exists(r), Remember(r)
      PROVE  /\ Sound' /\ DOMAIN validated' \subseteq Key
             /\ \A k \in DOMAIN validated' : validated'[k] \in BOOLEAN
  <2>1. /\ Remembered' /\ DOMAIN validated' \subseteq Key
        /\ \A k \in DOMAIN validated' : validated'[k] \in BOOLEAN /\ k.mtime <= clock
    BY <1>3, Remembers
  <2>2. Dated'
    BY <2>1 DEF Sound, Dated
  <2> QED
    BY <1>1, <2>1, <2>2 DEF Sound
<1> QED
  BY <1>2, <1>3

(* Outside a pass nothing is open.                                         *)
LEMMA OutsideAgrees ==
  ASSUME pc' \in {"down", "idle", "begin", "clearing"}
  PROVE  PassAgrees'
BY DEF PassAgrees, InPass, AtTask

(* A proper file does for its request.                                     *)
LEMMA ProperIsDone ==
  ASSUME NEW r, Proper(r)
  PROVE  Done(r)
BY DEF Proper, Done, Received, Exists, FromUrl

(* A step of a pass that leaves the files as they are: what was open is    *)
(* still open, left out or proper.                                         *)
LEMMA PassStep ==
  ASSUME IInv, InPass, InPass',
         UNCHANGED <<disk, version, fetched, behavior, scenario, sweep>>,
         omitted \subseteq omitted',
         \A r \in ToSet(todo') \cup ToSet(kept') : r \in ToSet(todo) \cup ToSet(kept),
         \A r \in ToSet(todo) \cup ToSet(kept) :
            SizesOnly \/ r \in ToSet(todo') \cup ToSet(kept') \/ r \in omitted' \/ Proper(r),
         AtTask' => todo' # <<>>,
         pc' \in {"add", "store"} => ~SizesOnly /\ Proper(Head(todo'))
  PROVE  PassAgrees'
<1>1. SizesOnly' = SizesOnly /\ pc' # "done"
  BY DEF SizesOnly, InPass, AtTask
<1>2. \A r : (Proper(r)' <=> Proper(r)) /\ (Done(r)' <=> Done(r))
  BY DEF Proper, Done, FromUrl, Received, Exists, Contested, AlsoUnversioned
<1>3. InPass' => \A r \in ToSet(todo') \cup ToSet(kept') : r \in ToSet(scenario')
  BY DEF IInv, PassAgrees
<1>4. pc' \in {"add", "store"} => ~SizesOnly' /\ Proper(Head(todo))'
  BY <1>1, <1>2
<1>5. ASSUME ~SizesOnly', NEW r \in ToSet(scenario')
      PROVE  Open(r)' \/ r \in omitted' \/ Done(r)'
  <2>1. Open(r) \/ r \in omitted \/ Done(r)
    BY <1>1, <1>5 DEF IInv, PassAgrees
  <2>2. Open(r) => r \in ToSet(todo') \cup ToSet(kept') \/ r \in omitted' \/ Done(r)
    BY <1>1, <1>5, ProperIsDone DEF Open
  <2> QED
    BY <1>2, <2>1, <2>2 DEF Open
<1> QED
  BY <1>1, <1>3, <1>4, <1>5 DEF PassAgrees

-----------------------------------------------------------------------------
(* The steps of a pass *)

(* A stage that ends leaves the files and the entries on the disk.         *)
LEMMA StageOverKeeps ==
  ASSUME IInv, pc # "down", StageOver,
         UNCHANGED <<disk, stored, clock, fetched>>,
         \/ UNCHANGED validated
         \/ \E r \in Request : Exists(r) /\ Remember(r)
  PROVE  IInv'
<1>1. CoreTypeOK /\ Sound
  BY DEF IInv
<1>2. /\ pc' = "idle" /\ UNCHANGED version /\ cache' = NoEntries
      /\ scenario' = <<>> /\ todo' = <<>> /\ kept' = <<>> /\ sweep' = FALSE
  BY DEF StageOver
<1>3. OneClaimPerPath' /\ Honest(cache)' /\ Honest(stored)'
  BY <1>1, <1>2, EntriesKeep DEF NoEntries
<1>4. /\ Dated' /\ Remembered' /\ DOMAIN validated' \subseteq Key
      /\ \A k \in DOMAIN validated' : validated'[k] \in BOOLEAN
  <2>1. CASE UNCHANGED validated
    <3>1. clock' \in Nat /\ clock <= clock'
      BY <1>1 DEF CoreTypeOK
    <3> QED
      BY <1>1, <1>2, <2>1, <3>1, FilesKeep DEF CoreTypeOK
  <2>2. ASSUME NEW r \in Request, Exists(r), Remember(r)
        PROVE  /\ Dated' /\ Remembered' /\ DOMAIN validated' \subseteq Key
               /\ \A k \in DOMAIN validated' : validated'[k] \in BOOLEAN
    <3>1. /\ Remembered' /\ DOMAIN validated' \subseteq Key
          /\ \A k \in DOMAIN validated' : validated'[k] \in BOOLEAN /\ k.mtime <= clock
      BY <1>1, <1>2, <2>2, Remembers
    <3> QED
      BY <1>1, <3>1 DEF Sound, Dated
  <2> QED
    BY <2>1, <2>2
<1>5. CoreTypeOK'
  <2>1. NoEntries \in Entries
    BY DEF NoEntries, Entries
  <2> QED
    BY <1>1, <1>2, <1>4, <2>1, NoRequests DEF CoreTypeOK
<1>6. PassAgrees'
  BY <1>2, OutsideAgrees
<1> QED
  BY <1>3, <1>4, <1>5, <1>6 DEF IInv, Sound

(* A step that reads files and moves requests.                             *)
LEMMA ReadingKeeps ==
  ASSUME IInv, InPass, InPass',
         UNCHANGED <<disk, stored, clock, version, cache, fetched, behavior, scenario, sweep>>,
         \/ UNCHANGED validated
         \/ \E r \in Request : Exists(r) /\ Remember(r),
         todo' \in Seq(Request), kept' \in Seq(Request),
         omitted \subseteq omitted',
         \A r \in ToSet(todo') \cup ToSet(kept') : r \in ToSet(todo) \cup ToSet(kept),
         \A r \in ToSet(todo) \cup ToSet(kept) :
            SizesOnly \/ r \in ToSet(todo') \cup ToSet(kept') \/ r \in omitted' \/ Proper(r),
         AtTask' => todo' # <<>>,
         pc' \in {"add", "store"} => ~SizesOnly /\ Proper(Head(todo'))
  PROVE  IInv'
<1>1. CoreTypeOK /\ Sound /\ pc # "down" /\ pc' # "down"
  BY DEF IInv, InPass, AtTask
<1>2. /\ Sound' /\ DOMAIN validated' \subseteq Key
      /\ \A k \in DOMAIN validated' : validated'[k] \in BOOLEAN
  BY <1>1, SoundKept
<1>3. CoreTypeOK'
  BY <1>1, <1>2 DEF CoreTypeOK, InPass, AtTask
<1>4. PassAgrees'
  BY PassStep
<1> QED
  BY <1>2, <1>3, <1>4 DEF IInv

(* The head of the requests, in a pass.                                    *)
LEMMA HeadInPass ==
  ASSUME IInv, InPass, todo # <<>>
  PROVE  /\ Head(todo) \in Request /\ Head(todo) \in ToSet(scenario)
         /\ Head(todo) \in ToSet(todo) /\ Tail(todo) \in Seq(Request)
         /\ \A r \in ToSet(todo) : r = Head(todo) \/ r \in ToSet(Tail(todo))
         /\ \A r \in ToSet(Tail(todo)) : r \in ToSet(todo)
         /\ Exists(Head(todo)) /\ Validate(Head(todo)) => Proper(Head(todo))
<1>1. todo \in Seq(Request) /\ CoreTypeOK /\ Sound /\ pc # "down"
  BY DEF IInv, CoreTypeOK, InPass, AtTask
<1> QED
  BY <1>1, HeadOf, ValidIsProper DEF IInv, PassAgrees

(* The tasks are created.                                                  *)
LEMMA CreationKeeps ==
  ASSUME IInv, LoadCache \/ AddTask \/ TasksAdded
  PROVE  IInv'
<1>1. CASE LoadCache
  <2>1. CoreTypeOK /\ Sound
    BY DEF IInv
  <2>2. /\ UNCHANGED <<disk, stored, clock, version, validated, scenario, sweep, fetched>>
        /\ cache' = stored /\ todo' = scenario /\ kept' = <<>> /\ pc' = "creating"
        /\ pc = "begin"
    BY <1>1 DEF LoadCache
  <2>3. OneClaimPerPath' /\ Honest(cache)' /\ Honest(stored)'
    BY <2>1, <2>2, EntriesKeep
  <2>4. clock' \in Nat /\ clock <= clock'
    BY <2>1, <2>2 DEF CoreTypeOK
  <2>5. Dated' /\ Remembered'
    BY <2>1, <2>2, <2>4, FilesKeep
  <2>6. CoreTypeOK'
    BY <2>1, <2>2, NoRequests DEF CoreTypeOK
  <2>7. PassAgrees'
    BY <2>2, NoRequests DEF PassAgrees, InPass, AtTask, Open
  <2> QED
    BY <2>3, <2>5, <2>6, <2>7 DEF IInv, Sound
<1>2. CASE AddTask
  <2>1. /\ InPass /\ InPass' /\ ~AtTask' /\ todo # <<>> /\ todo' = Tail(todo)
        /\ UNCHANGED <<disk, stored, clock, version, caches, fetched, behavior, scenario, sweep>>
        /\ kept \in Seq(Request)
    BY <1>2 DEF AddTask, InPass, AtTask, IInv, CoreTypeOK
  <2>2. /\ kept' \in Seq(Request) /\ omitted \subseteq omitted'
        /\ \A r \in ToSet(kept') : r \in ToSet(kept) \/ r = Head(todo)
        /\ \A r \in ToSet(kept) : r \in ToSet(kept')
        /\ Head(todo) \in ToSet(kept') \cup omitted'
    <3>1. Head(todo) \in Request
      BY <2>1, HeadInPass
    <3>2. CASE LeftOut(Head(todo))
      BY <1>2, <2>1, <3>2 DEF AddTask
    <3>3. CASE ~LeftOut(Head(todo))
      <4>1. kept' = Append(kept, Head(todo)) /\ UNCHANGED omitted
        BY <1>2, <3>3 DEF AddTask
      <4> QED
        BY <2>1, <3>1, <4>1, Appended
    <3> QED
      BY <3>2, <3>3
  <2>3. pc' \notin {"add", "store"}
    BY <2>1 DEF AtTask
  <2> QED
    BY <2>1, <2>2, <2>3, HeadInPass, ReadingKeeps DEF caches
<1>3. CASE TasksAdded
  <2>1. /\ InPass /\ InPass' /\ ~AtTask' /\ todo = <<>> /\ todo' = kept /\ kept' = <<>>
        /\ UNCHANGED <<disk, stored, clock, version, caches, fetched, behavior, scenario,
                       sweep, omitted>>
        /\ kept \in Seq(Request) /\ pc' \notin {"add", "store"}
    BY <1>3 DEF TasksAdded, InPass, AtTask, IInv, CoreTypeOK, SamePass
  <2> QED
    BY <2>1, NoRequests, ReadingKeeps DEF caches
<1> QED
  BY <1>1, <1>2, <1>3

(* The tasks that can be skipped are dropped, and the others are run.      *)
LEMMA PrecheckingKeeps ==
  ASSUME IInv, PrecheckSkips \/ PrecheckKeeps \/ PrecheckGivesUp \/ PrecheckEnds
  PROVE  IInv'
<1>1. /\ InPass /\ pc # "down" /\ todo \in Seq(Request) /\ kept \in Seq(Request)
      /\ pc = "precheck"
  BY DEF PrecheckSkips, PrecheckKeeps, PrecheckGivesUp, PrecheckEnds, InPass, IInv, CoreTypeOK
<1>2. CASE PrecheckSkips
  <2>1. /\ todo # <<>> /\ todo' = Tail(todo) /\ InPass' /\ ~AtTask'
        /\ UNCHANGED <<disk, stored, clock, version, cache, fetched, behavior, scenario, sweep,
                       kept, omitted>>
        /\ Exists(Head(todo)) /\ Validate(Head(todo)) /\ Remember(Head(todo))
    BY <1>1, <1>2 DEF PrecheckSkips, SamePass, InPass, AtTask
  <2>2. pc' \notin {"add", "store"}
    BY <2>1 DEF AtTask
  <2> QED
    BY <1>1, <2>1, <2>2, HeadInPass, ReadingKeeps
<1>3. CASE PrecheckKeeps
  <2>1. /\ todo # <<>> /\ todo' = Tail(todo) /\ InPass' /\ ~AtTask'
        /\ kept' = Append(kept, Head(todo))
        /\ UNCHANGED <<disk, stored, clock, version, cache, fetched, behavior, scenario, sweep,
                       omitted>>
        /\ UNCHANGED validated \/ (Exists(Head(todo)) /\ Remember(Head(todo)))
    BY <1>1, <1>3 DEF PrecheckKeeps, SamePass, InPass, AtTask
  <2>2. pc' \notin {"add", "store"}
    BY <2>1 DEF AtTask
  <2>3. /\ Head(todo) \in Request
        /\ kept' \in Seq(Request) /\ ToSet(kept') = ToSet(kept) \cup {Head(todo)}
    BY <1>1, <2>1, HeadInPass, Appended
  <2> QED
    BY <1>1, <2>1, <2>2, <2>3, HeadInPass, ReadingKeeps
<1>4. CASE PrecheckGivesUp
  <2>1. /\ todo # <<>> /\ StageOver /\ UNCHANGED <<disk, stored, clock, fetched>>
        /\ UNCHANGED validated \/ (Exists(Head(todo)) /\ Remember(Head(todo)))
    BY <1>4 DEF PrecheckGivesUp
  <2>2. Head(todo) \in Request
    BY <1>1, <2>1, HeadInPass
  <2> QED
    BY <1>1, <2>1, <2>2, StageOverKeeps
<1>5. CASE PrecheckEnds
  <2>1. /\ todo = <<>> /\ todo' = kept /\ kept' = <<>> /\ InPass' /\ ~AtTask'
        /\ UNCHANGED <<disk, stored, clock, version, cache, fetched, behavior, scenario, sweep,
                       omitted, validated>>
    BY <1>1, <1>5 DEF PrecheckEnds, SamePass, InPass, AtTask, caches
  <2>2. pc' \notin {"add", "store"}
    BY <2>1 DEF AtTask
  <2> QED
    BY <1>1, <2>1, <2>2, NoRequests, ReadingKeeps
<1> QED
  BY <1>2, <1>3, <1>4, <1>5

(* A task looks for a file that will do, and learns a size.                *)
LEMMA LookingKeeps ==
  ASSUME IInv, UseExisting \/ LookUp \/ FoundByUrl \/ NotFoundByUrl \/ LearnSize
  PROVE  IInv'
<1>1. /\ InPass /\ InPass' /\ pc # "down" /\ todo \in Seq(Request) /\ kept \in Seq(Request)
      /\ todo # <<>>
  BY DEF UseExisting, LookUp, FoundByUrl, NotFoundByUrl, LearnSize, InPass, AtTask, IInv,
         CoreTypeOK, PassAgrees
<1>2. /\ UNCHANGED <<disk, stored, clock, version, cache, fetched, behavior, scenario, sweep,
                     kept, omitted>>
      /\ todo' = todo \/ todo' = Tail(todo)
  BY DEF UseExisting, LookUp, FoundByUrl, NotFoundByUrl, LearnSize, SamePass
<1>3. /\ Head(todo) \in Request /\ todo' \in Seq(Request)
      /\ \A r \in ToSet(todo') : r \in ToSet(todo)
      /\ \A r \in ToSet(todo) : r = Head(todo) \/ r \in ToSet(todo')
      /\ Exists(Head(todo)) /\ Validate(Head(todo)) => Proper(Head(todo))
  BY <1>1, <1>2, HeadInPass
<1>4. CASE UseExisting
  <2>1. /\ ~AtTask' /\ pc' \notin {"add", "store"}
        /\ Exists(Head(todo)) /\ Validate(Head(todo)) /\ Remember(Head(todo))
    BY <1>4 DEF UseExisting, AtTask
  <2> QED
    BY <1>1, <1>2, <1>3, <2>1, ReadingKeeps
<1>5. CASE LookUp
  <2>1. /\ todo' = todo /\ pc' \notin {"add", "store"}
        /\ UNCHANGED validated \/ (Exists(Head(todo)) /\ Remember(Head(todo)))
    BY <1>5 DEF LookUp
  <2> QED
    BY <1>1, <1>2, <1>3, <2>1, ReadingKeeps
<1>6. CASE FoundByUrl
  <2>1. /\ Exists(Head(todo)) /\ Validate(Head(todo)) /\ Remember(Head(todo))
    BY <1>6 DEF FoundByUrl, Recorded
  <2>2. Proper(Head(todo))
    BY <1>3, <2>1
  <2>3. CASE SizesOnly
    <3>1. ~AtTask' /\ pc' \notin {"add", "store"}
      BY <1>6, <2>3 DEF FoundByUrl, AtTask
    <3> QED
      BY <1>1, <1>2, <1>3, <2>1, <2>3, <3>1, ReadingKeeps
  <2>4. CASE ~SizesOnly
    <3>1. todo' = todo
      BY <1>6, <2>4 DEF FoundByUrl
    <3> QED
      BY <1>1, <1>2, <1>3, <2>1, <2>2, <2>4, <3>1, ReadingKeeps
  <2> QED
    BY <2>3, <2>4
<1>7. CASE NotFoundByUrl
  <2>1. /\ todo' = todo /\ pc' \notin {"add", "store"}
        /\ UNCHANGED validated \/ (Exists(Head(todo)) /\ Remember(Head(todo)))
    BY <1>7 DEF NotFoundByUrl, Recorded
  <2> QED
    BY <1>1, <1>2, <1>3, <2>1, ReadingKeeps
<1>8. CASE LearnSize
  <2>1. /\ ~AtTask' /\ pc' \notin {"add", "store"} /\ UNCHANGED validated /\ SizesOnly
    BY <1>8 DEF LearnSize, AtTask
  <2> QED
    BY <1>1, <1>2, <1>3, <2>1, ReadingKeeps
<1> QED
  BY <1>4, <1>5, <1>6, <1>7, <1>8

(* The stage ends without having written anything.                         *)
LEMMA EndingKeeps ==
  ASSUME IInv, CacheUnreadable \/ PassIsStopped \/ StageSucceeds
  PROVE  IInv'
<1>1. /\ pc # "down" /\ StageOver /\ UNCHANGED <<disk, stored, clock, fetched, validated>>
  BY DEF CacheUnreadable, PassIsStopped, StageSucceeds
<1> QED
  BY <1>1, StageOverKeeps

(* A file written at a new time.                                           *)
LEMMA Written ==
  ASSUME CoreTypeOK, NEW p \in Path, NEW content \in Content, Write(p, content)
  PROVE  /\ disk' \in [Path -> File \cup {None}]
         /\ clock' \in Nat /\ clock <= clock' /\ clock < clock'
         /\ \A q \in Path : q # p => disk'[q] = disk[q]
         /\ disk'[p] # None /\ disk'[p].content = content /\ disk'[p].mtime = clock'
<1>1. clock \in Nat /\ clock < MaxClock /\ clock' = clock + 1 /\ MaxClock \in Nat
  BY Constants DEF Write, CoreTypeOK
<1>2. clock' \in 1 .. MaxClock /\ clock' \in Nat /\ clock < clock' /\ clock <= clock'
  BY <1>1
<1> DEFINE file == [content |-> content, mtime |-> clock']
<1>3. file \in File /\ file.content = content /\ file.mtime = clock'
  BY <1>2 DEF File
<1>4. disk' = [disk EXCEPT ![p] = file]
  BY <1>1 DEF Write
<1> HIDE DEF file
<1>5. disk' \in [Path -> File \cup {None}] /\ disk'[p] = file
      /\ \A q \in Path : q # p => disk'[q] = disk[q]
  BY <1>3, <1>4 DEF CoreTypeOK
<1> QED
  BY <1>2, <1>3, <1>5, Constants

(* A step that ends outside the passes.                                    *)
LEMMA OutsideKeeps ==
  ASSUME IInv, CoreTypeOK', pc' \in {"down", "idle", "begin", "clearing"}, UNCHANGED fetched,
         UNCHANGED validated \/ validated' = <<>>,
         UNCHANGED version \/ DOMAIN validated' = {},
         pc' = "down" => DOMAIN validated' = {},
         clock' \in Nat, clock <= clock',
         \A p \in Path : \/ disk'[p] = None \/ disk'[p] = disk[p]
                         \/ disk'[p].mtime = clock' /\ clock < clock',
         \/ \A u \in Url : cache'[u] = None \/ cache'[u] = cache[u]
         \/ \A u \in Url : cache'[u] = None \/ cache'[u] = stored[u],
         \/ \A u \in Url : stored'[u] = None \/ stored'[u] = stored[u]
         \/ \A u \in Url : stored'[u] = None \/ stored'[u] = cache[u]
  PROVE  IInv'
<1>1. CoreTypeOK /\ Sound
  BY DEF IInv
<1>2. OneClaimPerPath' /\ Honest(cache)' /\ Honest(stored)'
  BY <1>1, EntriesKeep
<1>3. CASE UNCHANGED validated
  <2>1. DOMAIN validated' = DOMAIN validated /\ fetched \subseteq fetched'
    BY <1>3
  <2>2. /\ UNCHANGED version \/ DOMAIN validated = {}
        /\ pc' = "down" => DOMAIN validated = {}
    BY <2>1
  <2>3. Dated' /\ Remembered'
    BY <1>1, <1>3, <2>1, <2>2, FilesKeep
  <2> QED
    BY <1>2, <2>3, OutsideAgrees DEF IInv, Sound
<1>4. CASE validated' = <<>>
  <2>1. DOMAIN validated' = {}
    <3>1. DOMAIN <<>> = {}
      OBVIOUS
    <3> QED
      BY <1>4, <3>1
  <2>2. \A p \in Path : disk[p] # None => disk[p].mtime \in Nat /\ disk[p].mtime <= clock
    BY <1>1, TimesAreNumbers DEF Sound, Dated, CoreTypeOK
  <2>3. clock \in Nat
    BY <1>1 DEF CoreTypeOK
  <2>4. ASSUME NEW p \in Path, disk'[p] # None PROVE disk'[p].mtime <= clock'
    BY <2>2, <2>3, <2>4
  <2>5. Dated' /\ Remembered'
    BY <2>1, <2>4 DEF Dated, Remembered
  <2> QED
    BY <1>2, <2>5, OutsideAgrees DEF IInv, Sound
<1> QED
  BY <1>3, <1>4

(* A local copy that is cut off.                                           *)
LEMMA HalfCopied ==
  ASSUME IInv, \/ UNCHANGED <<disk, clock>>
               \/ /\ pc = "transfer" /\ ~SizesOnly
                  /\ Head(todo).url \in LocalUrls
                  /\ Write(Head(todo).path, Junk)
  PROVE  /\ disk' \in [Path -> File \cup {None}] /\ clock' \in Nat /\ clock <= clock'
         /\ \A p \in Path : \/ disk'[p] = None \/ disk'[p] = disk[p]
                            \/ disk'[p].mtime = clock' /\ clock < clock'
<1>1. CASE UNCHANGED <<disk, clock>>
  BY <1>1 DEF IInv, CoreTypeOK
<1>2. CASE pc = "transfer" /\ Write(Head(todo).path, Junk)
  <2>1. InPass /\ todo # <<>>
    BY <1>2 DEF IInv, PassAgrees, InPass, AtTask
  <2>2. Head(todo).path \in Path /\ Junk \in Content
    BY <2>1, HeadInPass DEF Request, Content
  <2> QED
    BY <1>2, <2>2, Written DEF IInv
<1> QED
  BY <1>1, <1>2

(* A task that fails ends the stage, and a process may end at any time.    *)
LEMMA FailureKeeps ==
  ASSUME IInv, TransferFails \/ Die
  PROVE  IInv'
<1>1. /\ UNCHANGED <<stored, fetched>>
      /\ \/ UNCHANGED <<disk, clock>>
         \/ /\ pc = "transfer" /\ ~SizesOnly
            /\ Head(todo).url \in LocalUrls
            /\ Write(Head(todo).path, Junk)
      /\ TransferFails => UNCHANGED validated /\ StageOver /\ pc # "down"
      /\ Die => Dead
  BY DEF TransferFails, Die
<1>2. /\ disk' \in [Path -> File \cup {None}] /\ clock' \in Nat /\ clock <= clock'
      /\ \A p \in Path : \/ disk'[p] = None \/ disk'[p] = disk[p]
                         \/ disk'[p].mtime = clock' /\ clock < clock'
  BY <1>1, HalfCopied
<1>3. /\ cache' = NoEntries /\ scenario' = <<>> /\ todo' = <<>> /\ kept' = <<>> /\ sweep' = FALSE
      /\ pc' \in {"idle", "down"}
      /\ pc' = "down" => validated' = <<>>
      /\ UNCHANGED validated \/ validated' = <<>>
      /\ UNCHANGED version \/ validated' = <<>>
      /\ version' \in Version \cup {None}
      /\ pc' # "down" => version' \in Version
  BY <1>1 DEF StageOver, Dead, IInv, CoreTypeOK
<1>4. NoEntries \in Entries /\ \A u \in Url : NoEntries[u] = None
  BY DEF NoEntries, Entries
<1>5. DOMAIN <<>> = {}
  OBVIOUS
<1>6. /\ DOMAIN validated' \subseteq Key
      /\ \A k \in DOMAIN validated' : validated'[k] \in BOOLEAN
      /\ validated' = <<>> => DOMAIN validated' = {}
  BY <1>3, <1>5 DEF IInv, CoreTypeOK
<1>7. CoreTypeOK'
  BY <1>1, <1>2, <1>3, <1>4, <1>6, NoRequests DEF IInv, CoreTypeOK
<1>8. /\ \A u \in Url : cache'[u] = None
      /\ \A u \in Url : stored'[u] = stored[u]
      /\ UNCHANGED version \/ DOMAIN validated' = {}
      /\ pc' = "down" => DOMAIN validated' = {}
  BY <1>1, <1>3, <1>4, <1>6
<1> QED
  BY <1>1, <1>2, <1>3, <1>7, <1>8, OutsideKeeps

(* Between the passes: a sweep ends, a stage begins, a process is launched. *)
LEMMA BetweenKeeps ==
  ASSUME IInv, SweepEnds \/ StartStage \/ Launch
  PROVE  IInv'
<1>1. /\ UNCHANGED <<disk, stored, clock, cache, validated, fetched, todo, kept>>
      /\ pc' \in {"begin", "idle"}
      /\ \/ pc # "down" /\ UNCHANGED version
         \/ pc = "down" /\ version' \in Version
      /\ scenario' = scenario \/ scenario' \in Scenarios
      /\ sweep' \in BOOLEAN
  <2>1. CASE StartStage
    <3>1. sweep' = (behavior' \in {"normal", "forced"})
      BY <2>1 DEF StartStage
    <3>2. (behavior' \in {"normal", "forced"}) \in BOOLEAN
      OBVIOUS
    <3> QED
      BY <2>1, <3>1, <3>2 DEF StartStage, caches
  <2>2. CASE SweepEnds
    BY <2>2 DEF SweepEnds, caches
  <2>3. CASE Launch
    BY <2>3 DEF Launch, caches, pass, IInv, CoreTypeOK
  <2> QED
    BY <2>1, <2>2, <2>3
<1>2. pc = "down" => DOMAIN validated' = {}
  BY <1>1 DEF IInv, Sound, Remembered
<1>3. clock' \in Nat /\ clock <= clock'
  BY <1>1 DEF IInv, CoreTypeOK
<1>4. CoreTypeOK'
  BY <1>1, Constants DEF IInv, CoreTypeOK
<1> QED
  BY <1>1, <1>2, <1>3, <1>4, OutsideKeeps

(* Clearing the cache removes files and entries.                           *)
LEMMA ClearingKeeps ==
  ASSUME IInv, ClearCache \/ ClearEnds
  PROVE  IInv'
<1>1. /\ UNCHANGED <<clock, version, validated, scenario, todo, kept, sweep, fetched>>
      /\ pc' \in {"clearing", "idle"} /\ pc # "down"
  BY DEF ClearCache, ClearEnds, pass
<1>2. CASE ClearCache
  <2>1. PICK locked \in SUBSET {p \in Path : disk[p] # None} :
          /\ cache' = [u \in Url |-> IF stored[u] # None /\ stored[u].path \in locked
                                     THEN stored[u] ELSE None]
          /\ disk' = [p \in Path |->
                        IF p \notin locked /\ \E u \in Url : stored[u] # None
                                                          /\ stored[u].path = p
                        THEN None ELSE disk[p]]
    BY <1>2 DEF ClearCache
  <2>2. stored' = NoEntries
    BY <1>2 DEF ClearCache
  <2>3. \A p \in Path : disk'[p] = None \/ disk'[p] = disk[p]
    BY <2>1
  <2>4. \A u \in Url : cache'[u] = None \/ cache'[u] = stored[u]
    BY <2>1
  <2>5. \A u \in Url : stored'[u] = None
    BY <2>2 DEF NoEntries
  <2>6. clock' \in Nat /\ clock <= clock'
    BY <1>1 DEF IInv, CoreTypeOK
  <2>7. disk' \in [Path -> File \cup {None}] /\ cache' \in Entries /\ stored' \in Entries
    BY <2>1, <2>2 DEF IInv, CoreTypeOK, Entries, NoEntries
  <2>8. CoreTypeOK'
    BY <1>1, <2>7 DEF IInv, CoreTypeOK
  <2> QED
    BY <1>1, <2>3, <2>4, <2>5, <2>6, <2>8, OutsideKeeps
<1>3. CASE ClearEnds
  <2>1. PICK removed \in SUBSET Path :
          disk' = [p \in Path |-> IF p \in removed THEN None ELSE disk[p]]
    BY <1>3 DEF ClearEnds
  <2>2. stored' = cache /\ cache' = NoEntries
    BY <1>3 DEF ClearEnds
  <2>3. \A p \in Path : disk'[p] = None \/ disk'[p] = disk[p]
    BY <2>1
  <2>4. \A u \in Url : cache'[u] = None
    BY <2>2 DEF NoEntries
  <2>6. clock' \in Nat /\ clock <= clock'
    BY <1>1 DEF IInv, CoreTypeOK
  <2>7. disk' \in [Path -> File \cup {None}] /\ cache' \in Entries /\ stored' \in Entries
    BY <2>1, <2>2 DEF IInv, CoreTypeOK, Entries, NoEntries
  <2>8. CoreTypeOK'
    BY <1>1, <2>7 DEF IInv, CoreTypeOK
  <2> QED
    BY <1>1, <2>2, <2>3, <2>4, <2>6, <2>8, OutsideKeeps
<1> QED
  BY <1>2, <1>3

(* A user replaces or deletes files.                                       *)
LEMMA MeddlingKeeps ==
  ASSUME IInv, Meddle
  PROVE  IInv'
<1>1. /\ UNCHANGED <<version, cache, validated, scenario, todo, kept, sweep, fetched, pc>>
      /\ pc \in {"down", "idle"}
  BY DEF Meddle, pass, caches
<1>2. stored' = stored \/ stored' = NoEntries
  BY DEF Meddle
<1>3. /\ \A u \in Url : stored'[u] = None \/ stored'[u] = stored[u]
      /\ stored' \in Entries
  BY <1>2 DEF NoEntries, Entries, IInv, CoreTypeOK
<1>4. /\ disk' \in [Path -> File \cup {None}] /\ clock' \in Nat /\ clock <= clock'
      /\ \A p \in Path : \/ disk'[p] = None \/ disk'[p] = disk[p]
                         \/ disk'[p].mtime = clock' /\ clock < clock'
  <2>1. CASE \E p \in Path : Write(p, Junk)
    BY <2>1, Written DEF IInv, Content
  <2>2. CASE UNCHANGED clock /\ \E p \in Path : disk' = [disk EXCEPT ![p] = None]
    BY <2>2 DEF IInv, CoreTypeOK
  <2>3. CASE UNCHANGED <<disk, clock>>
    BY <2>3 DEF IInv, CoreTypeOK
  <2> QED
    BY <2>1, <2>2, <2>3 DEF Meddle
<1>5. CoreTypeOK'
  BY <1>1, <1>3, <1>4 DEF IInv, CoreTypeOK
<1>6. pc' = "down" => DOMAIN validated' = {}
  BY <1>1 DEF IInv, Sound, Remembered
<1> QED
  BY <1>1, <1>3, <1>4, <1>5, <1>6, OutsideKeeps

(* A file is fetched: requests for the same path that were done have *)
(* the same URL, and are done again, or are contested.                     *)
LEMMA TransferKeeps ==
  ASSUME IInv, Transfer
  PROVE  IInv'
<1> DEFINE r == Head(todo)
<1>1. /\ pc = "transfer" /\ pc' = "add" /\ ~SizesOnly /\ InPass /\ InPass' /\ todo # <<>>
      /\ UNCHANGED <<stored, cache, validated, todo, kept, version, behavior, scenario, sweep,
                     omitted>>
  BY DEF Transfer, InPass, AtTask, IInv, PassAgrees, caches, SamePass
<1>2. PICK content \in ReportedComplete(r.url) :
        /\ Write(r.path, content)
        /\ fetched' = IF r.versioned THEN fetched \cup {<<content, version>>}
                                     ELSE fetched
  BY DEF Transfer
<1>3. r \in Request /\ r \in ToSet(scenario) /\ r \in ToSet(todo)
  BY <1>1, HeadInPass
<1>4. r.path \in Path /\ r.url \in Url /\ r.versioned \in BOOLEAN /\ r' = r
  BY <1>1, <1>3 DEF Request
<1> HIDE DEF r
<1>5. content \in Content
  BY <1>4 DEF Content, ReportedComplete
<1>6. /\ disk' \in [Path -> File \cup {None}]
      /\ clock' \in Nat /\ clock <= clock' /\ clock < clock'
      /\ \A q \in Path : q # r.path => disk'[q] = disk[q]
      /\ disk'[r.path] # None /\ disk'[r.path].content = content
      /\ disk'[r.path].mtime = clock'
  BY <1>2, <1>4, <1>5, Written DEF IInv
<1>7. r.versioned => <<content, version>> \in fetched'
  BY <1>2
<1>8. fetched \subseteq fetched'
  BY <1>2
<1>9. Sound'
  <2>1. OneClaimPerPath' /\ Honest(cache)' /\ Honest(stored)'
    BY <1>1, <1>8, EntriesKeep DEF IInv
  <2>2. \A p \in Path : disk'[p] = disk[p] \/ (disk'[p].mtime = clock' /\ clock < clock')
    BY <1>6
  <2>3. pc' = "down" => DOMAIN validated = {}
    BY <1>1
  <2>4. Dated' /\ Remembered'
    BY <1>1, <1>6, <1>8, <2>2, <2>3, FilesKeep DEF IInv
  <2> QED
    BY <2>1, <2>4 DEF Sound
<1>10. CoreTypeOK'
  BY <1>1, <1>6 DEF IInv, CoreTypeOK
<1>11. Proper(r)'
  BY <1>1, <1>4, <1>6, <1>7 DEF Proper, FromUrl
<1>12. SizesOnly' = SizesOnly
  BY <1>1 DEF SizesOnly
<1>13. ASSUME NEW q \in ToSet(scenario), Done(q)
       PROVE  Done(q)'
  <2>1. q \in Request /\ q.path \in Path /\ q.versioned \in BOOLEAN
    BY RequestsOf DEF IInv, CoreTypeOK, Request
  <2>2. (Contested(q)' <=> Contested(q)) /\ (AlsoUnversioned(q)' <=> AlsoUnversioned(q))
    BY <1>1 DEF Contested, AlsoUnversioned
  <2>3. CASE q.path # r.path
    <3>1. disk'[q.path] = disk[q.path]
      BY <1>6, <2>1, <2>3
    <3>2. Received(q) => Received(q)'
      BY <3>1 DEF Received, Exists
    <3> QED
      BY <1>1, <1>8, <1>13, <2>2, <3>1, <3>2 DEF Done
  <2>4. CASE q.path = r.path /\ q.url # r.url
    BY <1>3, <2>2, <2>4 DEF Done, Contested
  <2>5. CASE q.path = r.path /\ q.url = r.url
    <3>1. Received(q)'
      BY <1>6, <2>5 DEF Received, Exists
    <3>2. q.versioned => \/ AlsoUnversioned(q)
                         \/ <<disk'[q.path].content, version'>> \in fetched'
      BY <1>1, <1>3, <1>4, <1>6, <1>7, <1>8, <2>5 DEF AlsoUnversioned
    <3> QED
      BY <2>2, <3>1, <3>2 DEF Done
  <2> QED
    BY <2>3, <2>4, <2>5
<1>14. PassAgrees'
  <2>1. /\ \A q : Open(q)' <=> Open(q)
        /\ \A q \in ToSet(todo) \cup ToSet(kept) : q \in ToSet(scenario)
        /\ \A q \in ToSet(scenario) : Open(q) \/ q \in omitted \/ Done(q)
    BY <1>1 DEF IInv, PassAgrees, Open
  <2>2. \A q \in ToSet(scenario) : Open(q)' \/ q \in omitted' \/ Done(q)'
    BY <1>1, <1>13, <2>1
  <2>3. Proper(Head(todo))'
    BY <1>11 DEF r
  <2> QED
    BY <1>1, <1>12, <2>1, <2>2, <2>3 DEF PassAgrees
<1> QED
  BY <1>9, <1>10, <1>14 DEF IInv

(* The entry of the file that is there claims its path alone, and is honest. *)
LEMMA EntryAdded ==
  ASSUME IInv, pc = "add", UNCHANGED fetched,
         LET r == Head(todo) IN
         cache' \in {Unclaimed(r.path), [Unclaimed(r.path) EXCEPT ![r.url] = EntryOf(r)]},
         UNCHANGED stored \/ stored' = NoEntries
  PROVE  /\ cache' \in Entries /\ stored' \in Entries
         /\ OneClaimPerPath' /\ Honest(cache)' /\ Honest(stored)'
<1> DEFINE r == Head(todo)
<1>1. InPass /\ todo # <<>> /\ Proper(r) /\ version \in Version
  BY DEF IInv, PassAgrees, InPass, AtTask, CoreTypeOK
<1>2. r \in Request
  BY <1>1, HeadInPass
<1>3. r.path \in Path /\ r.url \in Url /\ r.versioned \in BOOLEAN
  BY <1>2 DEF Request
<1> DEFINE entry == EntryOf(r)
<1>4. cache' = Unclaimed(r.path) \/ cache' = [Unclaimed(r.path) EXCEPT ![r.url] = entry]
  OBVIOUS
<1> HIDE DEF r
<1>5. disk[r.path] \in File /\ disk[r.path].content \in Content
  BY <1>1, <1>3 DEF IInv, CoreTypeOK, Proper, File
<1>6. /\ entry.path = r.path /\ entry.sha = disk[r.path].content
      /\ entry.version = IF r.versioned THEN version ELSE ""
      /\ entry \in Entry
  BY <1>1, <1>3, <1>5 DEF EntryOf, Entry
<1>7. entry # None
  BY <1>6, Constants
<1> HIDE DEF entry
<1>8. /\ Unclaimed(r.path) \in Entries
      /\ \A u \in Url : \/ Unclaimed(r.path)[u] = None
                        \/ Unclaimed(r.path)[u] = cache[u] /\ cache[u].path # r.path
  BY DEF Unclaimed, IInv, CoreTypeOK, Entries
<1> DEFINE others == Unclaimed(r.path)
<1> HIDE DEF others
<1>9. /\ cache' \in Entries
      /\ \A u \in Url : \/ cache'[u] = None
                        \/ cache'[u] = cache[u] /\ cache[u].path # r.path
                        \/ u = r.url /\ cache'[u] = entry
  <2>1. others \in Entries /\ (cache' = others \/ cache' = [others EXCEPT ![r.url] = entry])
        /\ \A u \in Url : \/ others[u] = None
                          \/ others[u] = cache[u] /\ cache[u].path # r.path
    BY <1>4, <1>8 DEF others
  <2>2. CASE cache' = others
    BY <2>1, <2>2
  <2>3. CASE cache' = [others EXCEPT ![r.url] = entry]
    BY <1>3, <1>6, <2>1, <2>3 DEF Entries
  <2> QED
    BY <2>1, <2>2, <2>3
<1>10. /\ stored' \in Entries
       /\ \A u \in Url : stored'[u] = None \/ stored'[u] = stored[u]
  BY DEF NoEntries, Entries, IInv, CoreTypeOK
<1>11. OneClaimPerPath'
  <2>1. /\ \A u, v \in Url : cache[u] # None /\ cache[v] # None /\ cache[u].path = cache[v].path
                             => u = v
        /\ \A u, v \in Url : stored[u] # None /\ stored[v] # None
                             /\ stored[u].path = stored[v].path => u = v
    BY DEF OneClaimPerPath, IInv, Sound
  <2>2. ASSUME NEW u \in Url, NEW v \in Url, stored'[u] # None, stored'[v] # None,
               stored'[u].path = stored'[v].path
        PROVE  u = v
    BY <1>10, <2>1, <2>2
  <2>3. ASSUME NEW u \in Url, NEW v \in Url, cache'[u] # None, cache'[v] # None,
               cache'[u].path = cache'[v].path
        PROVE  u = v
    <3>1. /\ \/ cache'[u] = cache[u] /\ cache[u].path # r.path
             \/ u = r.url /\ cache'[u].path = r.path
          /\ \/ cache'[v] = cache[v] /\ cache[v].path # r.path
             \/ v = r.url /\ cache'[v].path = r.path
      BY <1>6, <1>9, <2>3
    <3> QED
      BY <2>1, <2>3, <3>1
  <2> QED
    BY <2>2, <2>3 DEF OneClaimPerPath
<1>12. Honest(stored)'
  BY <1>10 DEF Honest, FromUrl, IInv, Sound
<1>13. FromUrl(r.url, entry.sha) /\ (entry.version # "" => <<entry.sha, entry.version>> \in fetched)
  BY <1>1, <1>3, <1>6 DEF Proper
<1>14. Honest(cache)'
  BY <1>9, <1>13 DEF Honest, FromUrl, IInv, Sound
<1> QED
  BY <1>9, <1>10, <1>11, <1>12, <1>14

(* The entry of a file is added to the cache and stored.                   *)
LEMMA AddingKeeps ==
  ASSUME IInv, AddUrlToCache \/ AddIsNotStored \/ StoreEnds
  PROVE  IInv'
<1>1. /\ InPass /\ InPass' /\ pc # "down" /\ pc' # "down" /\ todo # <<>> /\ ~SizesOnly
      /\ UNCHANGED <<disk, clock, validated, version, fetched, behavior, scenario, sweep,
                     kept, omitted>>
      /\ Proper(Head(todo))
  BY DEF AddUrlToCache, AddIsNotStored, StoreEnds, InPass, AtTask, IInv, PassAgrees, caches,
         SamePass
<1>2. /\ cache' \in Entries /\ stored' \in Entries
      /\ OneClaimPerPath' /\ Honest(cache)' /\ Honest(stored)'
  <2>1. CASE AddUrlToCache \/ AddIsNotStored
    BY <1>1, <2>1, EntryAdded DEF AddUrlToCache, AddIsNotStored
  <2>2. CASE StoreEnds
    <3>1. stored' = cache /\ cache' = cache
      BY <2>2 DEF StoreEnds, caches
    <3> QED
      BY <1>1, <3>1, EntriesKeep DEF IInv, CoreTypeOK
  <2> QED
    BY <2>1, <2>2
<1>3. clock' \in Nat /\ clock <= clock'
  BY <1>1 DEF IInv, CoreTypeOK
<1>4. Dated' /\ Remembered'
  BY <1>1, <1>3, FilesKeep DEF IInv
<1>5. /\ Head(todo) \in Request /\ Tail(todo) \in Seq(Request)
      /\ \A r \in ToSet(todo) : r = Head(todo) \/ r \in ToSet(Tail(todo))
      /\ \A r \in ToSet(Tail(todo)) : r \in ToSet(todo)
  BY <1>1, HeadInPass
<1>6. \/ todo' = todo /\ pc' = "store"
      \/ todo' = Tail(todo) /\ pc' = "task"
  BY DEF AddUrlToCache, AddIsNotStored, StoreEnds
<1>7. todo \in Seq(Request) /\ todo' \in Seq(Request)
  BY <1>5, <1>6 DEF IInv, CoreTypeOK
<1>8. CoreTypeOK'
  BY <1>1, <1>2, <1>6, <1>7 DEF IInv, CoreTypeOK
<1>9. PassAgrees'
  <2>1. /\ AtTask' => todo' # <<>>
        /\ pc' \in {"add", "store"} => ~SizesOnly /\ Proper(Head(todo'))
    BY <1>1, <1>6 DEF AtTask
  <2>2. /\ \A r \in ToSet(todo') \cup ToSet(kept') : r \in ToSet(todo) \cup ToSet(kept)
        /\ \A r \in ToSet(todo) \cup ToSet(kept) :
             r \in ToSet(todo') \cup ToSet(kept') \/ Proper(r)
    BY <1>1, <1>5, <1>6
  <2> QED
    BY <1>1, <2>1, <2>2, PassStep
<1> QED
  BY <1>2, <1>4, <1>8, <1>9 DEF IInv, Sound

(* Once the tasks run, the pre-check keeps no more.                        *)
NothingKept == pc = "task" \/ AtTask => kept = <<>>

(* A pass that ends has no request open.                                   *)
LEMMA PassEndKeeps ==
  ASSUME IInv, NothingKept, PassEnds
  PROVE  IInv'
<1>1. /\ pc = "task" /\ pc' = "done" /\ todo = <<>> /\ kept = <<>>
      /\ UNCHANGED <<disk, stored, clock, cache, validated, version, fetched, behavior, scenario,
                     sweep, kept, todo, omitted>>
  BY DEF PassEnds, NothingKept, caches, SamePass
<1>2. CoreTypeOK'
  BY <1>1 DEF IInv, CoreTypeOK
<1>3. Sound'
  <2>1. pc # "down" /\ pc' # "down"
    BY <1>1
  <2> QED
    BY <1>1, <2>1, SoundKept DEF IInv
<1>4. (SizesOnly' <=> SizesOnly) /\ \A r : Done(r)' <=> Done(r)
  BY <1>1 DEF SizesOnly, Done, Received, Exists, Contested, AlsoUnversioned
<1>5. InPass /\ ~InPass' /\ ~AtTask' /\ pc' \notin {"add", "store"}
  BY <1>1 DEF InPass, AtTask
<1>6. \A r : ~Open(r)
  BY <1>1, NoRequests DEF Open
<1>7. PassAgrees'
  BY <1>1, <1>4, <1>5, <1>6 DEF IInv, PassAgrees
<1> QED
  BY <1>2, <1>3, <1>7 DEF IInv

(* The invariant holds at first, and every step keeps it.                  *)
LEMMA InitIInv == Init => IInv /\ NothingKept
<1> SUFFICES ASSUME Init PROVE IInv /\ NothingKept
  OBVIOUS
<1>1. DOMAIN validated = {}
  <2>1. DOMAIN <<>> = {}
    OBVIOUS
  <2> QED
    BY <2>1 DEF Init
<1>2. CoreTypeOK
  BY <1>1, NoRequests DEF Init, CoreTypeOK, NoEntries, Entries
<1>3. Sound
  BY <1>1 DEF Init, Sound, OneClaimPerPath, Dated, Honest, Remembered, NoEntries
<1>4. PassAgrees /\ NothingKept
  BY DEF Init, PassAgrees, InPass, AtTask, NothingKept
<1> QED
  BY <1>2, <1>3, <1>4 DEF IInv

LEMMA StepNothingKept == NothingKept /\ [Next]_vars => NothingKept'
<1> SUFFICES ASSUME NothingKept, [Next]_vars PROVE NothingKept'
  OBVIOUS
<1> USE DEF NothingKept, AtTask
<1>1. CASE Launch \/ StartStage \/ LoadCache \/ AddTask \/ TasksAdded \/ CacheUnreadable
  BY <1>1 DEF Launch, StartStage, LoadCache, AddTask, TasksAdded, CacheUnreadable, StageOver
<1>2. CASE PrecheckSkips \/ PrecheckKeeps \/ PrecheckGivesUp \/ PrecheckEnds
  BY <1>2 DEF PrecheckSkips, PrecheckKeeps, PrecheckGivesUp, PrecheckEnds, StageOver
<1>3. CASE UseExisting \/ LookUp \/ FoundByUrl \/ NotFoundByUrl \/ LearnSize \/ Transfer
  BY <1>3 DEF UseExisting, LookUp, FoundByUrl, NotFoundByUrl, LearnSize, Transfer
<1>4. CASE TransferFails \/ AddUrlToCache \/ AddIsNotStored \/ StoreEnds \/ SweepEnds
  BY <1>4 DEF TransferFails, AddUrlToCache, AddIsNotStored, StoreEnds, SweepEnds, StageOver
<1>5. CASE PassIsStopped \/ PassEnds \/ StageSucceeds \/ ClearCache \/ ClearEnds \/ Die \/ Meddle
  BY <1>5 DEF PassIsStopped, PassEnds, StageSucceeds, ClearCache, ClearEnds, Die, Dead, Meddle,
              StageOver, pass
<1>6. CASE UNCHANGED vars
  BY <1>6 DEF vars, pass
<1> QED
  BY <1>1, <1>2, <1>3, <1>4, <1>5, <1>6 DEF Next

LEMMA StepIInv == IInv /\ NothingKept /\ [Next]_vars => IInv'
<1> SUFFICES ASSUME IInv, NothingKept, [Next]_vars PROVE IInv'
  OBVIOUS
<1>1. CASE Launch \/ StartStage \/ SweepEnds
  BY <1>1, BetweenKeeps
<1>2. CASE LoadCache \/ AddTask \/ TasksAdded
  BY <1>2, CreationKeeps
<1>3. CASE CacheUnreadable \/ PassIsStopped \/ StageSucceeds
  BY <1>3, EndingKeeps
<1>4. CASE PrecheckSkips \/ PrecheckKeeps \/ PrecheckGivesUp \/ PrecheckEnds
  BY <1>4, PrecheckingKeeps
<1>5. CASE UseExisting \/ LookUp \/ FoundByUrl \/ NotFoundByUrl \/ LearnSize
  BY <1>5, LookingKeeps
<1>6. CASE Transfer
  BY <1>6, TransferKeeps
<1>7. CASE TransferFails \/ Die
  BY <1>7, FailureKeeps
<1>8. CASE AddUrlToCache \/ AddIsNotStored \/ StoreEnds
  BY <1>8, AddingKeeps
<1>9. CASE PassEnds
  BY <1>9, PassEndKeeps
<1>10. CASE ClearCache \/ ClearEnds
  BY <1>10, ClearingKeeps
<1>11. CASE Meddle
  BY <1>11, MeddlingKeeps
<1>12. CASE UNCHANGED vars
  <2>1. UNCHANGED <<disk, stored, clock, version, cache, validated, behavior, scenario, sweep,
                    todo, kept, omitted, pc, fetched>>
    BY <1>12 DEF vars, pass, caches
  <2>2. CoreTypeOK' /\ clock' \in Nat /\ clock <= clock'
    BY <2>1 DEF IInv, CoreTypeOK
  <2>3. OneClaimPerPath' /\ Honest(cache)' /\ Honest(stored)'
    BY <2>1, EntriesKeep DEF IInv
  <2>4. pc' = "down" => DOMAIN validated = {}
    BY <2>1 DEF IInv, Sound, Remembered
  <2>5. Dated' /\ Remembered'
    BY <2>1, <2>2, <2>4, FilesKeep DEF IInv
  <2>6. \A r : (Proper(r)' <=> Proper(r)) /\ (Done(r)' <=> Done(r)) /\ (Open(r)' <=> Open(r))
    BY <2>1 DEF Proper, Done, FromUrl, Received, Exists, Contested, AlsoUnversioned, Open
  <2>7. /\ SizesOnly' <=> SizesOnly
        /\ InPass' <=> InPass
        /\ AtTask' <=> AtTask
    BY <2>1 DEF SizesOnly, InPass, AtTask
  <2>8. Proper(Head(todo))' <=> Proper(Head(todo))
    BY <2>1 DEF Proper, FromUrl
  <2>9. PassAgrees'
    BY <2>1, <2>6, <2>7, <2>8 DEF IInv, PassAgrees
  <2> QED
    BY <2>2, <2>3, <2>5, <2>9 DEF IInv, Sound
<1> QED
  BY <1>1, <1>2, <1>3, <1>4, <1>5, <1>6, <1>7, <1>8, <1>9, <1>10, <1>11, <1>12 DEF Next

-----------------------------------------------------------------------------
(* The theorems *)

(* Files, entries, answers and requests stay what the inductive invariant   *)
(* says, through every sequence of passes, crashes, clearings and meddlings *)
(* (DownloadStage::RunStorageTasks, StorageTask::Run, URLCacheManager).     *)
LEMMA Invariant == Spec => []IInv
<1>1. Init => IInv /\ NothingKept
  BY InitIInv
<1>2. (IInv /\ NothingKept) /\ [Next]_vars => (IInv /\ NothingKept)'
  BY StepIInv, StepNothingKept
<1> QED
  BY <1>1, <1>2, PTL DEF Spec

(* Two URLs never claim the same destination, neither in memory nor in     *)
(* url_cache.json: AddUrlToCache removes the claims of others              *)
(* (url_cache_manager.cpp:125).                                            *)
THEOREM ClaimsAreUnique == Spec => []OneClaimPerPath
<1>1. IInv => OneClaimPerPath
  BY DEF IInv, Sound
<1> QED
  BY <1>1, Invariant, PTL

(* A pass that fetches and succeeds leaves, for every request that it had a *)
(* task for, what a transfer of its URL reported as complete, whatever was *)
(* accepted on the word of a hash or of the validation cache               *)
(* (download_stage.cpp:188-312, storage.cpp:174).                          *)
THEOREM SuccessIsReceived == Spec => []SuccessMeansReceived
<1>1. IInv => SuccessMeansReceived
  BY DEF IInv, PassAgrees, SuccessMeansReceived, Done
<1> QED
  BY <1>1, Invariant, PTL

(* A dependency that comes with the program, and is no other dependency of *)
(* the scenario, is one that the running version has fetched               *)
(* (check_version_, storage.cpp:174).                                      *)
THEOREM OwnDependencies == Spec => []VersionedIsOurs
<1>1. IInv => VersionedIsOurs
  BY DEF IInv, PassAgrees, VersionedIsOurs, Done
<1> QED
  BY <1>1, Invariant, PTL

=============================================================================
