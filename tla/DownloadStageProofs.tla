------------------------- MODULE DownloadStageProofs -------------------------
(***************************************************************************)
(* Theorems about DownloadStage and the DiskSpaceTracker it checks, for    *)
(* every list of files, every assignment of storages, paths, sizes and     *)
(* volumes, every behaviour and every handler: a destination stays on its  *)
(* volume, a check of the space that has passed stays passed as files are  *)
(* written, the stage never runs out of space it has checked, and the paths*)
(* it hands over are those of files on the disk.                           *)
(***************************************************************************)
EXTENDS DownloadStage, TLAPS, SequenceTheorems, WellFoundedInduction

-----------------------------------------------------------------------------
(* Paths and volumes *)

(* A set of numbers under a bound has a largest one. *)
LEMMA LargestExists ==
  ASSUME NEW n \in Nat, NEW S \in SUBSET (0 .. n), S # {}
  PROVE  \E m \in S : \A k \in S : k <= m
<1> DEFINE gaps == {n - k : k \in S}
<1>1. gaps \subseteq Nat /\ gaps # {}
  <2>1. \A k \in S : k \in Nat /\ k <= n /\ n - k \in Nat
    OBVIOUS
  <2>2. PICK k \in S : TRUE
    OBVIOUS
  <2>3. n - k \in gaps
    BY <2>2
  <2> QED
    BY <2>1, <2>3
<1>2. PICK g \in gaps : \A h \in gaps : <<h, g>> \notin OpToRel(<, Nat)
  <2> HIDE DEF gaps
  <2> QED
    BY <1>1, NatLessThanWellFounded, WFMin
<1>3. \A h \in gaps : ~(h < g)
  BY <1>1, <1>2 DEF OpToRel
<1>4. PICK m \in S : g = n - m
  BY <1>2
<1>5. \A k \in S : n - k \in gaps /\ k \in Int /\ m \in Int
  OBVIOUS
<1>6. ASSUME NEW k \in S PROVE k <= m
  <2>1. ~(n - k < n - m)
    BY <1>3, <1>4, <1>5
  <2> QED
    BY <2>1
<1> QED
  BY <1>6

(* What a prefix is, name by name. *)
LEMMA PrefixByNames ==
  ASSUME NEW p \in Seq(STRING), NEW q \in Seq(STRING)
  PROVE  IsPrefix(p, q) <=>
           Len(p) <= Len(q) /\ \A i \in 1 .. Len(p) : p[i] = q[i]
<1>1. Len(p) \in Nat /\ Len(q) \in Nat
  OBVIOUS
<1>2. ASSUME Len(p) <= Len(q)
      PROVE  SubSeq(p, 1, Len(p)) = SubSeq(q, 1, Len(p))
               <=> \A i \in 1 .. Len(p) : p[i] = q[i]
  <2> DEFINE a == SubSeq(p, 1, Len(p))
             b == SubSeq(q, 1, Len(p))
  <2>1. /\ a \in Seq(STRING) /\ Len(a) = Len(p)
        /\ \A i \in 1 .. Len(p) : a[i] = p[i]
    <3>1. \A i \in 1 .. Len(p) : p[i] \in STRING
      OBVIOUS
    <3> QED
      BY <1>1, <3>1, SubSeqProperties
  <2>2. /\ b \in Seq(STRING) /\ Len(b) = Len(p)
        /\ \A i \in 1 .. Len(p) : b[i] = q[i]
    <3>1. \A i \in 1 .. Len(p) : q[i] \in STRING
      BY <1>1, <1>2
    <3> QED
      BY <1>1, <3>1, SubSeqProperties
  <2> HIDE DEF a, b
  <2>3. a = b <=> \A i \in 1 .. Len(p) : a[i] = b[i]
    BY <2>1, <2>2, SeqEqual
  <2>4. a = b <=> \A i \in 1 .. Len(p) : p[i] = q[i]
    BY <2>1, <2>2, <2>3
  <2> QED
    BY <2>4 DEF a, b
<1> QED
  BY <1>2 DEF IsPrefix

(* Of two directories above a path the shorter leads to the longer. *)
LEMMA PrefixesAreNested ==
  ASSUME NEW path \in Seq(STRING), NEW p \in Seq(STRING), NEW q \in Seq(STRING),
         IsPrefix(p, path), IsPrefix(q, path), Len(p) <= Len(q)
  PROVE  IsPrefix(p, q) /\ (Len(p) = Len(q) => p = q)
<1>1. Len(p) \in Nat /\ Len(q) \in Nat
  OBVIOUS
<1>2. \A i \in 1 .. Len(p) : p[i] = path[i]
  BY PrefixByNames
<1>3. \A i \in 1 .. Len(q) : q[i] = path[i]
  BY PrefixByNames
<1>4. \A i \in 1 .. Len(p) : i \in 1 .. Len(q) /\ p[i] = q[i]
  BY <1>1, <1>2, <1>3
<1>5. IsPrefix(p, q)
  BY <1>4, PrefixByNames
<1> QED
  BY <1>4, <1>5, SeqEqual

LEMMA PrefixIsTransitive ==
  ASSUME NEW p \in Seq(STRING), NEW q \in Seq(STRING), NEW r \in Seq(STRING),
         IsPrefix(p, q), IsPrefix(q, r)
  PROVE  IsPrefix(p, r)
<1>1. Len(p) \in Nat /\ Len(q) \in Nat /\ Len(r) \in Nat
  OBVIOUS
<1>2. Len(p) <= Len(q) /\ \A i \in 1 .. Len(p) : p[i] = q[i]
  BY PrefixByNames
<1>3. Len(q) <= Len(r) /\ \A i \in 1 .. Len(q) : q[i] = r[i]
  BY PrefixByNames
<1>4. Len(p) <= Len(r) /\ \A i \in 1 .. Len(p) : p[i] = r[i]
  BY <1>1, <1>2, <1>3
<1> QED
  BY <1>4, PrefixByNames

LEMMA RootLeadsEverywhere ==
  ASSUME NEW path \in Seq(STRING)
  PROVE  IsPrefix(<< >>, path)
<1>1. << >> \in Seq(STRING) /\ Len(<< >>) = 0 /\ Len(path) \in Nat
  OBVIOUS
<1>2. \A i \in 1 .. Len(<< >>) : << >>[i] = path[i]
  BY <1>1
<1>3. Len(<< >>) <= Len(path)
  BY <1>1
<1> QED
  BY <1>2, <1>3, <1>1, PrefixByNames

(* Longest is well defined among the directories above one path. *)
LEMMA LongestIsLongest ==
  ASSUME NEW path \in Seq(STRING), NEW dirs \in SUBSET Seq(STRING), dirs # {},
         \A d \in dirs : IsPrefix(d, path)
  PROVE  /\ Longest(dirs) \in dirs
         /\ \A d \in dirs : Len(d) <= Len(Longest(dirs))
<1> DEFINE lengths == {Len(d) : d \in dirs}
<1>1. ASSUME NEW d \in dirs
      PROVE  Len(d) \in Nat /\ Len(d) <= Len(path) /\ Len(path) \in Nat
  <2>1. d \in Seq(STRING) /\ IsPrefix(d, path)
    OBVIOUS
  <2> QED
    BY <2>1, PrefixByNames
<1>2. lengths \in SUBSET (0 .. Len(path)) /\ lengths # {}
  <2>1. \A d \in dirs : Len(d) \in 0 .. Len(path)
    BY <1>1
  <2> QED
    BY <2>1, Zenon
<1>3. \E m \in lengths : \A k \in lengths : k <= m
  <2> HIDE DEF lengths
  <2> QED
    <3>1. Len(path) \in Nat
      OBVIOUS
    <3> QED
      BY <3>1, <1>2, LargestExists
<1>4. \E p \in dirs : \A q \in dirs : Len(q) <= Len(p)
  BY <1>3
<1> QED
  BY <1>4 DEF Longest

(* The mount points above a file. *)
Above(path) == {m \in Mounts : m = << >> \/ IsStrictPrefix(m, path)}

(* The mount points themselves are directories that exist, so whatever     *)
(* directories are made, a destination stays on its volume: the bytes that *)
(* RegisterPlannedDownload adds there are those that MarkCompleted takes    *)
(* off, and the transfer fills the same.                                   *)
THEOREM VolumeIsFixed ==
  ASSUME NEW path \in Seq(STRING), NEW dirs \in SUBSET Seq(STRING),
         Mounts \subseteq dirs
  PROVE  /\ VolumeOf(path, dirs) = Longest(Above(path))
         /\ VolumeOf(path, dirs) \in Mounts
<1> DEFINE above  == {<< >>} \cup {d \in dirs : IsStrictPrefix(d, path)}
           parent == Longest(above)
<1>1. << >> \in Mounts /\ Mounts \subseteq Seq(STRING) /\ << >> \in Seq(STRING)
  BY MountsAssumption
<1>2. above \in SUBSET Seq(STRING) /\ above # {} /\ << >> \in above
  BY <1>1
<1>3. \A d \in above : IsPrefix(d, path)
  BY RootLeadsEverywhere DEF IsStrictPrefix
<1>4. parent \in above /\ \A d \in above : Len(d) <= Len(parent)
  <2> HIDE DEF above
  <2> QED
    BY <1>2, <1>3, LongestIsLongest
<1>5. parent \in Seq(STRING) /\ IsPrefix(parent, path)
  BY <1>2, <1>3, <1>4
<1>6. parent = << >> \/ IsStrictPrefix(parent, path)
  BY <1>4
<1> HIDE DEF parent, above
<1>7. ASSUME NEW m \in Mounts, m \in Above(path)
      PROVE  IsPrefix(m, parent)
  <2>1. m \in above /\ m \in Seq(STRING)
    BY <1>1, <1>7 DEF above, Above
  <2> QED
    BY <2>1, <1>3, <1>4, <1>5, PrefixesAreNested
<1>8. ASSUME NEW m \in Mounts, IsPrefix(m, parent)
      PROVE  m \in Above(path)
  <2>1. m \in Seq(STRING)
    BY <1>1
  <2>2. CASE parent = << >>
    <3>1. Len(m) \in Nat /\ Len(m) <= 0
      BY <2>1, <2>2, <1>1, <1>8, PrefixByNames
    <3>2. m = << >>
      BY <3>1, <2>1, EmptySeq
    <3> QED
      BY <3>2 DEF Above
  <2>3. CASE IsStrictPrefix(parent, path)
    <3>1. IsPrefix(m, path)
      BY <2>1, <1>5, <1>8, PrefixIsTransitive
    <3>2. m # path
      <4>1. SUFFICES ASSUME m = path PROVE FALSE
        OBVIOUS
      <4>2. Len(path) <= Len(parent)
        BY <4>1, <1>5, <1>8, PrefixByNames
      <4>3. Len(parent) <= Len(path) /\ Len(path) \in Nat /\ Len(parent) \in Nat
        BY <1>5, PrefixByNames
      <4>4. IsPrefix(path, path)
        BY PrefixByNames
      <4>5. parent = path
        BY <4>2, <4>3, <4>4, <1>5, PrefixesAreNested
      <4> QED
        BY <4>5, <2>3 DEF IsStrictPrefix
    <3> QED
      BY <3>1, <3>2 DEF Above, IsStrictPrefix
  <2> QED
    BY <2>2, <2>3, <1>6
<1>9. {m \in Mounts : IsPrefix(m, parent)} = Above(path)
  BY <1>7, <1>8 DEF Above
<1>10. VolumeOf(path, dirs) = Longest(Above(path))
  BY <1>9 DEF VolumeOf, MountPointOf, FirstExistingAncestor, parent, above
<1>11. Above(path) # {} /\ Above(path) \in SUBSET Mounts
  BY <1>1 DEF Above
<1>12. \A m \in Above(path) : IsPrefix(m, path)
  BY RootLeadsEverywhere DEF Above, IsStrictPrefix
<1>13. Longest(Above(path)) \in Above(path)
  BY <1>1, <1>11, <1>12, LongestIsLongest
<1> QED
  BY <1>10, <1>11, <1>13

-----------------------------------------------------------------------------
(* The tracker of the space *)

Tracker == [files   : UNION {[paths -> Nat] : paths \in SUBSET Seq(STRING)},
            bytes   : [Mounts -> Nat],
            largest : [Mounts -> Nat]]

LEMMA TrackerParts ==
  ASSUME NEW plan \in Tracker
  PROVE  /\ plan = [files |-> plan.files, bytes |-> plan.bytes, largest |-> plan.largest]
         /\ DOMAIN plan.files \subseteq Seq(STRING)
         /\ plan.files \in [DOMAIN plan.files -> Nat]
         /\ plan.bytes \in [Mounts -> Nat]
         /\ plan.largest \in [Mounts -> Nat]
<1>1. /\ plan.files \in UNION {[paths -> Nat] : paths \in SUBSET Seq(STRING)}
      /\ plan.bytes \in [Mounts -> Nat]
      /\ plan.largest \in [Mounts -> Nat]
      /\ plan = [files |-> plan.files, bytes |-> plan.bytes, largest |-> plan.largest]
  BY DEF Tracker
<1>2. PICK paths \in SUBSET Seq(STRING) : plan.files \in [paths -> Nat]
  BY <1>1
<1> QED
  BY <1>1, <1>2

LEMMA TrackerFrom ==
  ASSUME NEW paths \in SUBSET Seq(STRING), NEW f \in [paths -> Nat],
         NEW b \in [Mounts -> Nat], NEW l \in [Mounts -> Nat]
  PROVE  [files |-> f, bytes |-> b, largest |-> l] \in Tracker
  BY DEF Tracker

LEMMA NothingPlannedIsTracker == NothingPlanned \in Tracker /\ DOMAIN NothingPlanned.files = {}
<1>1. << >> \in [{} -> Nat] /\ DOMAIN << >> = {}
  OBVIOUS
<1>2. {} \in SUBSET Seq(STRING)
  OBVIOUS
<1>3. [v \in Mounts |-> 0] \in [Mounts -> Nat]
  OBVIOUS
<1>4. NothingPlanned \in Tracker
  BY <1>1, <1>2, <1>3, TrackerFrom, Zenon DEF NothingPlanned
<1>5. NothingPlanned.files = << >>
  BY DEF NothingPlanned
<1> QED
  BY <1>1, <1>4, <1>5

(* Registering a file adds it and changes no other.                        *)
LEMMA RegisterAdds ==
  ASSUME NEW plan \in Tracker, NEW path \in Seq(STRING), NEW size \in Nat,
         size # 0, path \notin DOMAIN plan.files,
         NEW dirs \in SUBSET Seq(STRING), Mounts \subseteq dirs
  PROVE  LET more == RegisterPlannedDownload(plan, path, size, dirs) IN
         /\ more \in Tracker
         /\ DOMAIN more.files = DOMAIN plan.files \cup {path}
         /\ more.files[path] = size
         /\ \A q \in DOMAIN plan.files : more.files[q] = plan.files[q]
<1> DEFINE v    == VolumeOf(path, dirs)
           more == RegisterPlannedDownload(plan, path, size, dirs)
           f    == [q \in DOMAIN plan.files \cup {path} |->
                     IF q = path THEN size ELSE plan.files[q]]
           b    == [plan.bytes EXCEPT ![v] = @ + size]
           l    == [plan.largest EXCEPT ![v] = IF size > @ THEN size ELSE @]
<1>1. v \in Mounts
  BY VolumeIsFixed
<1> HIDE DEF v
<1>2. /\ DOMAIN plan.files \subseteq Seq(STRING)
      /\ plan.files \in [DOMAIN plan.files -> Nat]
      /\ plan.bytes \in [Mounts -> Nat]
      /\ plan.largest \in [Mounts -> Nat]
  BY TrackerParts
<1>3. more = [files |-> f, bytes |-> b, largest |-> l]
  BY DEF RegisterPlannedDownload, v
<1>4. b \in [Mounts -> Nat] /\ l \in [Mounts -> Nat]
  BY <1>1, <1>2
<1>5. /\ f \in [DOMAIN plan.files \cup {path} -> Nat]
      /\ f[path] = size
      /\ \A q \in DOMAIN plan.files : f[q] = plan.files[q]
  BY <1>2
<1> HIDE DEF f, b, l, more
<1>6. (DOMAIN plan.files \cup {path}) \in SUBSET Seq(STRING)
  BY <1>2
<1>7. more \in Tracker
  BY <1>3, <1>4, <1>5, <1>6, TrackerFrom
<1>8. more.files = f
  BY <1>3
<1> QED
  BY <1>5, <1>7, <1>8 DEF more

(* A completed file leaves, and its bytes leave the sum of its volume only. *)
LEMMA CompletedFile ==
  ASSUME NEW plan \in Tracker, NEW path \in Seq(STRING),
         NEW dirs \in SUBSET Seq(STRING), Mounts \subseteq dirs
  PROVE  LET done == MarkCompleted(plan, path, dirs)
             v    == VolumeOf(path, dirs)
         IN  /\ done \in Tracker
             /\ DOMAIN done.files = DOMAIN plan.files \ {path}
             /\ \A q \in DOMAIN done.files : done.files[q] = plan.files[q]
             /\ done.largest = plan.largest
             /\ \A u \in Mounts :
                  done.bytes[u] =
                    IF path \notin DOMAIN plan.files \/ u # v THEN plan.bytes[u]
                    ELSE IF plan.bytes[u] > plan.files[path]
                         THEN plan.bytes[u] - plan.files[path] ELSE 0
<1> DEFINE v    == VolumeOf(path, dirs)
           done == MarkCompleted(plan, path, dirs)
           f    == Restrict(plan.files, DOMAIN plan.files \ {path})
           b    == [plan.bytes EXCEPT ![v] = IF @ > plan.files[path]
                                             THEN @ - plan.files[path] ELSE 0]
<1>1. v \in Mounts
  BY VolumeIsFixed
<1> HIDE DEF v
<1>2. /\ DOMAIN plan.files \subseteq Seq(STRING)
      /\ plan.files \in [DOMAIN plan.files -> Nat]
      /\ plan.bytes \in [Mounts -> Nat]
      /\ plan.largest \in [Mounts -> Nat]
      /\ plan = [files |-> plan.files, bytes |-> plan.bytes, largest |-> plan.largest]
  BY TrackerParts
<1>3. CASE path \notin DOMAIN plan.files
  <2>1. done = plan
    BY <1>3 DEF MarkCompleted
  <2> QED
    BY <2>1, <1>3 DEF v, done
<1>4. CASE path \in DOMAIN plan.files
  <2>1. plan.files[path] \in Nat
    BY <1>2, <1>4
  <2>2. done = [plan EXCEPT !.files = f, !.bytes = b]
    BY <1>4, <1>2 DEF MarkCompleted, v
  <2>3. done = [files |-> f, bytes |-> b, largest |-> plan.largest]
    <3> HIDE DEF f, b, done
    <3> QED
      BY <1>2, <2>2
  <2>4. b \in [Mounts -> Nat]
    BY <1>1, <1>2, <2>1
  <2>5. f \in [DOMAIN plan.files \ {path} -> Nat]
        /\ \A q \in DOMAIN plan.files \ {path} : f[q] = plan.files[q]
    BY <1>2 DEF Restrict
  <2>6. \A u \in Mounts : b[u] = IF u # v THEN plan.bytes[u]
                                 ELSE IF plan.bytes[u] > plan.files[path]
                                      THEN plan.bytes[u] - plan.files[path] ELSE 0
    BY <1>1, <1>2
  <2> HIDE DEF f, b, done
  <2>7. done \in Tracker
    <3>1. (DOMAIN plan.files \ {path}) \in SUBSET Seq(STRING)
      BY <1>2
    <3> QED
      BY <3>1, <1>2, <2>3, <2>4, <2>5, TrackerFrom
  <2>8. done.files = f /\ done.bytes = b /\ done.largest = plan.largest
    BY <2>3
  <2> QED
    BY <1>4, <2>5, <2>6, <2>7, <2>8 DEF v, done
<1> QED
  BY <1>3, <1>4

(* What the plan keeps back for the merge stays the same after a file is   *)
(* done, so that the requirement sinks by the file's bytes at least.        *)
LEMMA RequirementSinks ==
  ASSUME NEW bytes \in Nat, NEW largest \in Nat, NEW size \in Nat, NEW room \in Nat,
         bytes # 0 => bytes + largest \div 2 <= room
  PROVE  LET left == IF bytes > size THEN bytes - size ELSE 0 IN
         /\ left # 0 => left + largest \div 2 <= room - size
         /\ left # 0 => left + largest \div 2 <= room
<1> DEFINE half == largest \div 2
<1>1. half \in Nat
  OBVIOUS
<1>2. bytes # 0 => bytes + half <= room
  OBVIOUS
<1> HIDE DEF half
<1>3. bytes > size => (bytes - size) + half <= room - size /\ (bytes - size) + half <= room
  BY <1>1, <1>2
<1> QED
  BY <1>3 DEF half

(* Once there was enough, no completion changes that: the sums only sink.  *)
LEMMA CompletionNeedsNoMore ==
  ASSUME NEW plan \in Tracker, NEW path \in Seq(STRING),
         NEW dirs \in SUBSET Seq(STRING), Mounts \subseteq dirs,
         NEW room \in [Mounts -> Nat], HasEnoughSpace(plan, room)
  PROVE  HasEnoughSpace(MarkCompleted(plan, path, dirs), room)
<1> DEFINE done == MarkCompleted(plan, path, dirs)
<1>1. /\ plan.bytes \in [Mounts -> Nat]
      /\ plan.largest \in [Mounts -> Nat]
      /\ plan.files \in [DOMAIN plan.files -> Nat]
  BY TrackerParts
<1>2. done.largest = plan.largest
  BY CompletedFile
<1> SUFFICES ASSUME NEW u \in Mounts
             PROVE  Required(done, u) <= room[u]
  BY DEF HasEnoughSpace
<1>3. /\ plan.bytes[u] \in Nat /\ plan.largest[u] \in Nat /\ room[u] \in Nat
      /\ plan.bytes[u] # 0 => plan.bytes[u] + plan.largest[u] \div 2 <= room[u]
  BY <1>1 DEF HasEnoughSpace, Required
<1>4. CASE done.bytes[u] = plan.bytes[u]
  <2> HIDE DEF done
  <2> QED
    BY <1>4, <1>2, <1>3 DEF Required
<1>5. CASE /\ path \in DOMAIN plan.files
           /\ done.bytes[u] = IF plan.bytes[u] > plan.files[path]
                              THEN plan.bytes[u] - plan.files[path] ELSE 0
  <2>1. plan.files[path] \in Nat
    BY <1>1, <1>5
  <2> HIDE DEF done
  <2>2. done.bytes[u] # 0 => done.bytes[u] + plan.largest[u] \div 2 <= room[u]
    BY <2>1, <1>3, <1>5, RequirementSinks
  <2> QED
    BY <1>2, <1>3, <2>2 DEF Required
<1>6. QED
  BY <1>4, <1>5, CompletedFile

(* A check that has passed stays passed: if the space was enough, the file  *)
(* is known and has fitted, and nobody but the download takes space, then   *)
(* it is enough after MarkCompleted (disk_space_tracker.cpp:133), for every *)
(* volume, whatever the sizes are.                                         *)
THEOREM CompletionKeepsSpace ==
  ASSUME NEW plan \in Tracker, NEW path \in DOMAIN plan.files,
         NEW dirs \in SUBSET Seq(STRING), Mounts \subseteq dirs,
         NEW room \in [Mounts -> Nat],
         plan.files[path] <= room[VolumeOf(path, dirs)],
         HasEnoughSpace(plan, room)
  PROVE  LET left == [room EXCEPT ![VolumeOf(path, dirs)] = @ - plan.files[path]] IN
         /\ left \in [Mounts -> Nat]
         /\ HasEnoughSpace(MarkCompleted(plan, path, dirs), left)
<1> DEFINE w    == VolumeOf(path, dirs)
           size == plan.files[path]
           done == MarkCompleted(plan, path, dirs)
           left == [room EXCEPT ![w] = @ - size]
<1>1. /\ path \in Seq(STRING)
      /\ size \in Nat
      /\ plan.bytes \in [Mounts -> Nat]
      /\ plan.largest \in [Mounts -> Nat]
  BY TrackerParts
<1>2. w \in Mounts
  BY <1>1, VolumeIsFixed
<1>3. /\ done.largest = plan.largest
      /\ \A u \in Mounts :
           done.bytes[u] = IF path \notin DOMAIN plan.files \/ u # w THEN plan.bytes[u]
                           ELSE IF plan.bytes[u] > size THEN plan.bytes[u] - size ELSE 0
  <2>1. path \in Seq(STRING)
    BY <1>1
  <2>2. plan \in Tracker /\ dirs \in SUBSET Seq(STRING) /\ Mounts \subseteq dirs
    OBVIOUS
  <2> QED
    BY ONLY <2>1, <2>2, CompletedFile
<1>4. \A v \in Mounts : v # w => done.bytes[v] = plan.bytes[v]
  BY <1>3, Zenon
<1>5. done.bytes[w] = IF plan.bytes[w] > size THEN plan.bytes[w] - size ELSE 0
  <2>1. path \in DOMAIN plan.files
    OBVIOUS
  <2> HIDE DEF w, size, done
  <2> QED
    BY <1>2, <1>3, <2>1
<1>6. \A v \in Mounts : plan.bytes[v] # 0
                          => plan.bytes[v] + plan.largest[v] \div 2 <= room[v]
  BY DEF HasEnoughSpace, Required
<1>7. size <= room[w]
  OBVIOUS
<1> HIDE DEF w, size, done
<1>8. done.bytes[w] # 0 => done.bytes[w] + plan.largest[w] \div 2 <= room[w] - size
  <2>1. plan.bytes[w] \in Nat /\ plan.largest[w] \in Nat /\ room[w] \in Nat
    BY <1>1, <1>2
  <2> QED
    BY <2>1, <1>1, <1>2, <1>5, <1>6, RequirementSinks
<1>9. left \in [Mounts -> Nat]
  BY <1>1, <1>2, <1>7
<1>10. ASSUME NEW v \in Mounts
       PROVE  Required(done, v) <= left[v]
  <2>1. CASE v = w
    BY <2>1, <1>1, <1>3, <1>7, <1>8 DEF Required
  <2>2. CASE v # w
    BY <2>2, <1>1, <1>3, <1>4, <1>6 DEF Required
  <2>3. QED
    BY <2>1, <2>2
<1>11. QED
  BY <1>9, <1>10 DEF HasEnoughSpace, w, size, done

-----------------------------------------------------------------------------
(* The inductive invariant. A path is set only when the file is there, and *)
(* until the stage has returned true every way out is still open; then no  *)
(* step of a worker that is left takes a path back.                        *)
EveryPathFound == \A i \in DOMAIN Files : Files[i] \in EpFiles \cup resolved

IInv ==
  /\ resolved \subseteq disk
  /\ outcome => stage = "returned" /\ EveryPathFound

(* What the steps of most threads leave alone.                             *)
LEMMA KeptAlone ==
  IInv /\ UNCHANGED <<disk, resolved, stage, outcome>> => IInv'
  BY DEF IInv, EveryPathFound

(* A worker's step only adds files and paths, and a path with its file.    *)
LEMMA BodyKeeps == IInv /\ BodyStep => IInv'
<1> SUFFICES ASSUME IInv, BodyStep PROVE IInv'
  OBVIOUS
<1>1. UNCHANGED <<stage, outcome>>
  BY DEF BodyStep, CallTask, TestReady, BeginInitializing, CheckFile, SkipFile,
         InvalidUri, BeginRunning, FindFails, CreateDownloader, TransferSucceeds,
         TransferFails, SetFinalStatus, TaskThrows, LambdaReturns, SpaceSuffices,
         SpaceRunsOut, FailureCancelsAll, SweepCancels, SweepEnds, Inside, stageVars
<1>2. resolved \subseteq resolved' /\ resolved' \subseteq disk'
  <2>1. CASE CheckFile
    BY <2>1 DEF CheckFile, IInv
  <2>2. CASE TransferSucceeds
    BY <2>2 DEF TransferSucceeds, IInv
  <2>3. CASE UNCHANGED <<disk, resolved>>
    BY <2>3 DEF IInv
  <2> QED
    BY <2>1, <2>2, <2>3
    DEF BodyStep, CallTask, TestReady, BeginInitializing, SkipFile, InvalidUri,
        BeginRunning, FindFails, CreateDownloader, TransferFails, SetFinalStatus,
        TaskThrows, LambdaReturns, SpaceSuffices, SpaceRunsOut, FailureCancelsAll,
        SweepCancels, SweepEnds
<1> QED
  BY <1>1, <1>2 DEF IInv, EveryPathFound

(* The runner forgets paths between the passes only, and has returned when *)
(* the outcome is true.                                                    *)
LEMMA StageKeeps == IInv /\ StageStep => IInv'
<1> SUFFICES ASSUME IInv, StageStep PROVE IInv'
  OBVIOUS
<1>1. CASE CheckAllTasks
  BY <1>1 DEF CheckAllTasks, IInv, Skippable
<1>2. CASE SpaceCheckPasses
  BY <1>2 DEF SpaceCheckPasses, PlanIsComplete, SizesKnown, IInv
<1>3. CASE PathsFound
  <2>1. UNCHANGED <<disk, resolved>> /\ EveryPathFound /\ stage' = "returned"
    BY <1>3 DEF PathsFound, bodyVars, EveryPathFound
  <2> QED
    BY <2>1 DEF IInv, EveryPathFound
<1>4. CASE \/ CheckGivesUp \/ AllReported \/ BeginCanceling \/ CancelTests
           \/ CancelStores \/ CancelStops \/ EndCanceling \/ JoinAndFail
           \/ StopOnFailure \/ RegisterPlannedFile \/ SpaceCheckFails
           \/ CollectPaths \/ PathsMissing
  <2>1. UNCHANGED <<disk, resolved, outcome>> /\ stage # "returned"
    BY <1>4
    DEF CheckGivesUp, AllReported, BeginCanceling, CancelTests, CancelStores,
        CancelStops, EndCanceling, JoinAndFail, StopOnFailure, RegisterPlannedFile,
        SpaceCheckFails, PlanIsComplete, SizesKnown, CollectPaths, PathsMissing,
        Reported, bodyVars, stageVars
  <2> QED
    BY <2>1 DEF IInv
<1> QED
  BY <1>1, <1>2, <1>3, <1>4 DEF StageStep

LEMMA InductiveStep == IInv /\ [Next]_vars => IInv'
<1> SUFFICES ASSUME IInv, [Next]_vars PROVE IInv'
  OBVIOUS
<1>1. CASE BodyStep
  BY <1>1, BodyKeeps
<1>2. CASE StageStep
  BY <1>2, StageKeeps
<1>3. CASE UNCHANGED <<disk, resolved, stage, outcome>>
  BY <1>3, KeptAlone
<1> QED
  BY <1>1, <1>2, <1>3
  DEF Next, vars, bodyVars, stageVars, Frame, VolumeFills

(* No interleaving of the worker, the two cancellations and other programs *)
(* makes DownloadStage::Run hand over a path whose file is not there.      *)
THEOREM PathsHandedOverExist == Spec => []PathsAreOnDisk
<1>1. Init => IInv
  BY DEF Init, IInv
<1>2. IInv => PathsAreOnDisk
  BY DEF IInv, EveryPathFound, PathsAreOnDisk
<1> QED
  BY <1>1, InductiveStep, <1>2, PTL DEF Spec

-----------------------------------------------------------------------------
(* The space that was checked suffices: the inductive invariant *)

(* A set of numbers has a smallest one. *)
LEMMA SmallestExists ==
  ASSUME NEW S \in SUBSET Nat, S # {}
  PROVE  \E m \in S : \A k \in S : m <= k
<1>1. PICK m \in S : \A k \in S : <<k, m>> \notin OpToRel(<, Nat)
  BY NatLessThanWellFounded, WFMin
<1>2. \A k \in S : ~(k < m)
  BY <1>1 DEF OpToRel
<1> QED
  BY <1>2

(* A URL that a storage knows the size of is among those of the stage, with *)
(* the destination of the first of the storages that do.                   *)
LEMMA SizedIsMerged ==
  ASSUME planned \in SUBSET Task, NEW t \in planned
  PROVE  \E u \in FileSizes : UrlOf[u] = UrlOf[t]
<1> DEFINE same == {u \in planned : UrlOf[u] = UrlOf[t]}
           owners == {StorageOf[u] : u \in same}
<1>1. owners \in SUBSET Nat /\ owners # {}
  <2>1. StorageOf \in [Task -> Storage] /\ Storage \subseteq Nat
    BY DownloadAssumption
  <2>2. t \in same /\ StorageOf[t] \in owners
    OBVIOUS
  <2> QED
    BY <2>1, <2>2
<1>2. PICK m \in owners : \A k \in owners : m <= k
  BY <1>1, SmallestExists
<1>3. PICK u \in same : StorageOf[u] = m
  BY <1>2
<1>4. \A v \in planned : UrlOf[v] = UrlOf[u] => StorageOf[u] <= StorageOf[v]
  BY <1>2, <1>3
<1> QED
  BY <1>3, <1>4 DEF FileSizes

Listed == {Files[i] : i \in DOMAIN Files}

Types ==
  /\ status \in [Task -> Status]
  /\ disk \in SUBSET Task
  /\ planned \in SUBSET Task
  /\ space \in Tracker
  /\ free \in [Mounts -> Nat]
  /\ phase \in {"sizing", "fetching"}

(* Who may be running what.  A cancellation is in force as soon as one of  *)
(* the two sweeps over the tasks has begun.                                *)
Calls ==
  /\ body # "none" => worker = "running"
  /\ queue \in Seq(Listed)
  /\ worker \in {"taken", "running"} => current \in Listed
  /\ stage = "precheck" => worker = "none"
  /\ stage \in {"cancel", "store", "stop", "join"} => canceled
  /\ body = "cancel" => canceled

(* The tracker knows the sizes of its files, and in the second pass every  *)
(* file that is not on the disk yet, but for those that were overlooked.   *)
PlanAgrees ==
  /\ \A t \in Task : PathOf[t] \in DOMAIN space.files => space.files[PathOf[t]] = Size[t]
  /\ ChecksFirst => space = NothingPlanned
  /\ phase = "fetching" /\ ~ChecksFirst => \A t \in Listed :
                                            Written(t) \/ Registered(t) \/ Overlooked(t)

(* The size of the URL is known to some storage. *)
SizeKnown(t) == \E u \in planned : UrlOf[u] = UrlOf[t]

(* The sizing sweep leaves no file out: a task that is over has its size   *)
(* known or its file on the disk, or one has failed.  (After an interrupt*)
(* the runner's stores break that, but then the stage gives up.)           *)
Sized ==
  phase = "sizing" =>
    /\ ~ChecksFirst
    /\ stage # "precheck"
    /\ tracker = Files
    /\ stage \in {"report", "examine"} =>
         /\ \A t \in Task : /\ status[t] = "Completed" => SizeKnown(t)
                            /\ status[t] = "Skipped" => t \in disk
                            /\ status[t] = "Canceled" => SomeFailed
         /\ body = "init" => status[current] = "Ready"
         /\ body \in {"precheck", "decide"} => status[current] = "Initializing"
         /\ body \in {"find", "transfer", "final"} => status[current] = "Running"
         /\ body = "final" /\ found => SizeKnown(current)
         /\ body = "cancel" => status[current] = "Failed"
    /\ index \in 0 .. Len(tracker)
    /\ stage \in {"report", "examine"} =>
         \A i \in 1 .. index : IsOver(status[tracker[i]])
    /\ runner = "joining" => index = Len(tracker)
    /\ runner = "reported" /\ verdict => index = Len(tracker)
    /\ stage = "examine" => index = Len(tracker)

(* What has been fetched is on the disk. *)
Fetched ==
  phase = "fetching" =>
    /\ \A t \in Task : status[t] = "Completed" => t \in disk
    /\ body = "final" /\ found => current \in disk

(* The file is written, and MarkCompleted is to come. *)
JustFetched ==
  \/ body = "final" /\ found
  \/ body = "after" /\ status[current] = "Completed"

(* A transfer may still come, of the running task or of another. *)
MayFetch ==
  \/ ~canceled
  \/ worker = "taken"
  \/ body \in {"guard", "init", "precheck", "decide", "find", "transfer"}

(* Between a transfer and its MarkCompleted the bytes are missing on the   *)
(* volume and still in the sum: what holds then is that there will be      *)
(* enough once they are taken off.  When the runner's store hides that a   *)
(* file was fetched they never are, but then no transfer follows.          *)
SpaceHolds ==
  phase = "fetching" /\ ~crowded /\ ~overlooked =>
    /\ JustFetched =>
         HasEnoughSpace(MarkCompleted(space, PathOf[current], Directories), free)
    /\ ~JustFetched /\ body # "cancel" /\ MayFetch => HasEnoughSpace(space, free)

SpaceInv ==
  /\ IInv
  /\ Types
  /\ Calls
  /\ PlanAgrees
  /\ Sized
  /\ Fetched
  /\ SpaceHolds
  /\ CheckedSpaceSuffices

(* The ways a step is taken. *)
LEMMA StepsOf ==
  ASSUME [Next]_vars
  PROVE  \/ BodyStep
         \/ StageStep
         \/ VolumeFills
         \/ Reporting /\ Frame /\ (RunnerStep \/ WaitTimesOut \/ UserContinues \/ UserStops)
         \/ Frame /\ (UserInterrupts \/ WorkerLoopStep)
         \/ UNCHANGED vars
  BY DEF Next

LEMMA ListedTasks == Listed \subseteq Task /\ Files \in Seq(Listed)
<1>1. Files \in Seq(Task)
  BY DownloadAssumption
<1>2. \A i \in 1 .. Len(Files) : Files[i] \in Task /\ Files[i] \in Listed
  BY <1>1 DEF Listed
<1>3. DOMAIN Files = 1 .. Len(Files) /\ Len(Files) \in Nat
  BY <1>1
<1>4. Files = [i \in 1 .. Len(Files) |-> Files[i]]
  BY <1>1
<1> QED
  BY <1>2, <1>3, <1>4 DEF Listed

LEMMA DirectoriesExist ==
  ASSUME NEW S \in SUBSET Task
  PROVE  LET dirs == Mounts \cup {Front(PathOf[t]) : t \in S} IN
         dirs \in SUBSET Seq(STRING) /\ Mounts \subseteq dirs
<1>1. Mounts \subseteq Seq(STRING)
  BY MountsAssumption
<1>2. ASSUME NEW t \in S
      PROVE  Front(PathOf[t]) \in Seq(STRING)
  <2>1. PathOf[t] \in Seq(STRING)
    BY DownloadAssumption
  <2>2. \A i \in 1 .. Len(PathOf[t]) - 1 : PathOf[t][i] \in STRING
    BY <2>1
  <2>3. Len(PathOf[t]) - 1 \in Int
    BY <2>1
  <2> QED
    BY <2>2, <2>3, SubSeqProperties DEF Front
<1> QED
  BY <1>1, <1>2

(* A volume is the same before and after any step. *)
LEMMA SameVolume ==
  ASSUME NEW t \in Task, disk \in SUBSET Task, disk' \in SUBSET Task
  PROVE  /\ Directories \in SUBSET Seq(STRING) /\ Mounts \subseteq Directories
         /\ Directories' \in SUBSET Seq(STRING) /\ Mounts \subseteq Directories'
         /\ Volume(t) \in Mounts
         /\ VolumeOf(PathOf[t], Directories') = Volume(t)
         /\ MarkCompleted(space, PathOf[t], Directories')
              = MarkCompleted(space, PathOf[t], Directories)
<1>1. PathOf[t] \in Seq(STRING)
  BY DownloadAssumption
<1>2. Directories \in SUBSET Seq(STRING) /\ Mounts \subseteq Directories
  BY DirectoriesExist DEF Directories
<1>3. Directories' \in SUBSET Seq(STRING) /\ Mounts \subseteq Directories'
  BY DirectoriesExist DEF Directories
<1>4. /\ Volume(t) \in Mounts
      /\ VolumeOf(PathOf[t], Directories') = VolumeOf(PathOf[t], Directories)
  BY <1>1, <1>2, <1>3, VolumeIsFixed DEF Volume
<1> QED
  BY <1>2, <1>3, <1>4 DEF MarkCompleted, Volume

LEMMA CallsKept == SpaceInv /\ [Next]_vars => Calls'
<1> SUFFICES ASSUME SpaceInv, [Next]_vars PROVE Calls'
  OBVIOUS
<1>1. Calls /\ Types
  BY DEF SpaceInv
<1>2. CASE BodyStep
  BY <1>1, <1>2
  DEF Calls, BodyStep, CallTask, TestReady, BeginInitializing, CheckFile, SkipFile,
      InvalidUri, BeginRunning, FindFails, CreateDownloader, TransferSucceeds,
      TransferFails, SetFinalStatus, TaskThrows, LambdaReturns, SpaceSuffices,
      SpaceRunsOut, FailureCancelsAll, SweepCancels, SweepEnds, Inside, Goto,
      stageVars, schedulerVars, WorkerCalls, WorkerReturns, CancelTasks
<1>3. CASE StageStep
  <2>1. CASE SpaceCheckPasses
    <3>1. body = "none" /\ body' = "none"
      BY <1>1, <2>1 DEF SpaceCheckPasses, ReportNext, NewScheduler, WorkerActive, Calls
    <3>2. queue' = Files /\ worker' = "none" /\ stage' = "report"
      BY <2>1 DEF SpaceCheckPasses, ReportNext, NewScheduler
    <3> QED
      BY <3>1, <3>2, ListedTasks DEF Calls
  <2>2. CASE BeginCanceling
    BY <1>1, <2>2 DEF Calls, BeginCanceling, CancelTasks, Reported, bodyVars
  <2>3. CASE StageStep /\ UNCHANGED schedulerVars /\ UNCHANGED body
    BY <1>1, <2>3
    DEF Calls, StageStep, CheckAllTasks, CheckGivesUp, AllReported, CancelTests,
        CancelStores, CancelStops, EndCanceling, JoinAndFail, StopOnFailure,
        RegisterPlannedFile, SpaceCheckFails, CollectPaths, PathsFound, PathsMissing,
        schedulerVars, stageVars, bodyVars, Reported, BeginCanceling, CancelTasks,
        SpaceCheckPasses, SizesKnown, PlanIsComplete
  <2> QED
    BY <1>3, <2>1, <2>2, <2>3
    DEF StageStep, CheckAllTasks, CheckGivesUp, AllReported, CancelTests,
        CancelStores, CancelStops, EndCanceling, JoinAndFail, StopOnFailure,
        RegisterPlannedFile, SpaceCheckFails, CollectPaths, PathsFound, PathsMissing,
        PlanIsComplete, reportVars, schedulerVars, bodyVars
<1>4. CASE VolumeFills
  BY <1>1, <1>4 DEF Calls, VolumeFills, reportVars, schedulerVars, stageVars
<1>5. CASE Reporting /\ Frame /\ (RunnerStep \/ WaitTimesOut \/ UserContinues \/ UserStops)
  BY <1>1, <1>5
  DEF Calls, Reporting, Frame, RunnerStep, WaitTimesOut, UserContinues, UserStops,
      StartReporting, LoopEnds, UpdateAndWait, WaitWithoutHandler, TestInterrupt,
      JoinAndReport, ExecuteTasksAsync, JoinReturns, WorkerActive, CancelTasks,
      schedulerVars, bodyVars, stageVars
<1>6. CASE Frame /\ (UserInterrupts \/ WorkerLoopStep)
  <2>1. CASE UserInterrupts
    BY <1>1, <1>6, <2>1 DEF Calls, Frame, UserInterrupts, schedulerVars, bodyVars, stageVars
  <2>2. CASE CompletesAndWakes
    BY <1>1, <1>6, <2>2
    DEF Calls, Frame, CompletesAndWakes, WorkerCompletes, bodyVars, stageVars
  <2>3. CASE TakesNext
    <3>1. queue # << >> /\ queue \in Seq(Listed) /\ current' = Head(queue)
          /\ queue' = Tail(queue) /\ worker = "loop" /\ worker' = "taken"
          /\ UNCHANGED <<canceled, body, stage>>
      BY <1>1, <1>6, <2>3 DEF Calls, Frame, TakesNext, WorkerTakes, bodyVars, stageVars
    <3>2. Head(queue) \in Listed /\ Tail(queue) \in Seq(Listed)
      BY <3>1, HeadTailProperties
    <3> QED
      BY <1>1, <3>1, <3>2 DEF Calls
  <2> QED
    BY <1>6, <2>1, <2>2, <2>3 DEF WorkerLoopStep
<1>7. CASE UNCHANGED vars
  BY <1>1, <1>7 DEF Calls, vars, reportVars, schedulerVars, bodyVars, stageVars
<1> QED
  BY <1>2, <1>3, <1>4, <1>5, <1>6, <1>7, StepsOf

(* The steps that are no transfer, completion, registration or check leave *)
(* the disk, the plan and the space alone.                                 *)
LEMMA BodyLeavesSpace ==
  ASSUME BodyStep, ~TransferSucceeds, ~SpaceSuffices, ~SpaceRunsOut
  PROVE  UNCHANGED <<disk, planned, space, free, crowded, overlooked, phase, behavior>>
  BY DEF BodyStep, CallTask, TestReady, BeginInitializing, CheckFile, SkipFile,
         InvalidUri, BeginRunning, FindFails, CreateDownloader, TransferFails,
         SetFinalStatus, TaskThrows, LambdaReturns, FailureCancelsAll, SweepCancels,
         SweepEnds, Inside, stageVars, diskVars

LEMMA BodyLeavesCrowded ==
  ASSUME BodyStep
  PROVE  crowded' = crowded /\ (overlooked => overlooked')
<1>1. CASE TransferSucceeds
  <2>1. crowded' = crowded
    BY <1>1 DEF TransferSucceeds
  <2>2. CASE phase = "sizing"
    BY <1>1, <2>1, <2>2 DEF TransferSucceeds
  <2>3. CASE phase # "sizing"
    <3>1. overlooked' = (overlooked \/ (~Written(current) /\ Overlooked(current)))
      BY <1>1, <2>3 DEF TransferSucceeds
    <3> QED
      BY <2>1, <3>1, Zenon
  <2> QED
    BY <2>2, <2>3
<1>2. CASE SpaceSuffices \/ SpaceRunsOut
  BY <1>2 DEF SpaceSuffices, SpaceRunsOut
<1> QED
  BY <1>1, <1>2, BodyLeavesSpace

LEMMA StageLeavesSpace ==
  ASSUME StageStep, ~RegisterPlannedFile, ~SpaceCheckPasses
  PROVE  UNCHANGED <<disk, planned, space, free, crowded, overlooked, phase, behavior, body,
                     found, current, worker>>
  BY DEF StageStep, CheckAllTasks, CheckGivesUp, AllReported, BeginCanceling,
         CancelTests, CancelStores, CancelStops, EndCanceling, JoinAndFail,
         StopOnFailure, SpaceCheckFails, CollectPaths, PathsFound, PathsMissing,
         CancelTasks, stageVars, diskVars, bodyVars, reportVars, schedulerVars

(* What the steps of the schedule and of the user leave alone. *)
LEMMA OthersLeaveSpace ==
  ASSUME \/ Reporting /\ Frame /\ (RunnerStep \/ WaitTimesOut \/ UserContinues \/ UserStops)
         \/ Frame /\ (UserInterrupts \/ WorkerLoopStep)
         \/ UNCHANGED vars
  PROVE  /\ UNCHANGED <<bodyVars, stageVars, status, tracker>>
         /\ worker = "running" => UNCHANGED <<worker, current>>
         /\ canceled => canceled'
         /\ worker' = "taken" => worker = "taken" \/ ~canceled
  BY DEF ExecuteTasksAsync, JoinReturns, WorkerActive, CancelTasks, WorkerCompletes,
         WorkerTakes, schedulerVars, Frame, RunnerStep, WaitTimesOut, UserContinues, UserStops, StartReporting,
         LoopEnds, UpdateAndWait, WaitWithoutHandler, TestInterrupt, JoinAndReport,
         UserInterrupts, WorkerLoopStep, CompletesAndWakes, TakesNext, vars, reportVars

(* Where the worker is in the lambda, with the task that it runs. *)
LEMMA BodyRunsListed ==
  ASSUME Calls, body # "none"
  PROVE  current \in Listed /\ current \in Task
  BY ListedTasks DEF Calls

LEMMA BodyTypes ==
  ASSUME SpaceInv, BodyStep
  PROVE  status' \in [Task -> Status] /\ disk' \in SUBSET Task /\ planned' \in SUBSET Task
         /\ phase' = phase
<1>1. Calls /\ Types
  BY DEF SpaceInv
<1>2. body # "none" => current \in Task
  BY <1>1, BodyRunsListed
<1>3. phase' = phase
  BY DEF BodyStep, CallTask, TestReady, BeginInitializing, CheckFile, SkipFile,
         InvalidUri, BeginRunning, FindFails, CreateDownloader, TransferSucceeds,
         TransferFails, SetFinalStatus, TaskThrows, LambdaReturns, SpaceSuffices,
         SpaceRunsOut, FailureCancelsAll, SweepCancels, SweepEnds, Inside, stageVars
<1>4. disk' \in SUBSET Task /\ planned' \in SUBSET Task
  <2>1. CASE TransferSucceeds
    BY <1>1, <1>2, <2>1 DEF TransferSucceeds, PlannedWith, Types, Goto
  <2>2. CASE SpaceSuffices \/ SpaceRunsOut
    BY <1>1, <2>2 DEF SpaceSuffices, SpaceRunsOut, Types
  <2> QED
    BY <1>1, <2>1, <2>2, BodyLeavesSpace DEF Types
<1>5. status' \in [Task -> Status]
  <2>1. CASE UNCHANGED status
    BY <1>1, <2>1 DEF Types
  <2>2. CASE \E s \in Status : SetStatus(s)
    BY <1>1, <2>2 DEF Types, SetStatus
  <2>3. CASE SweepCancels
    BY <1>1, <2>3 DEF Types, SweepCancels, Status
  <2> QED
    BY <2>1, <2>2, <2>3
    DEF BodyStep, CallTask, TestReady, BeginInitializing, CheckFile, SkipFile,
        InvalidUri, BeginRunning, FindFails, CreateDownloader, TransferSucceeds,
        TransferFails, SetFinalStatus, TaskThrows, LambdaReturns, SpaceSuffices,
        SpaceRunsOut, FailureCancelsAll, SweepEnds, Status
<1> QED
  BY <1>3, <1>4, <1>5

(* A transfer takes no more than there is. *)
LEMMA TransferTypes ==
  ASSUME SpaceInv, TransferSucceeds
  PROVE  free' \in [Mounts -> Nat]
<1>1. Types /\ Calls
  BY DEF SpaceInv
<1>2. current \in Task
  BY <1>1, BodyRunsListed DEF TransferSucceeds, Goto
<1>3. Size[current] \in Nat
  BY <1>2, DownloadAssumption
<1>4. disk' \in SUBSET Task /\ disk \in SUBSET Task
  BY <1>1, <1>2 DEF TransferSucceeds, Types
<1>5. Volume(current) \in Mounts
  BY <1>2, <1>4, SameVolume
<1>6. CASE phase = "sizing"
  BY <1>1, <1>6 DEF TransferSucceeds, Types
<1>7. CASE phase # "sizing"
  <2>1. Fits /\ free' = FreeAfterTransfer /\ free \in [Mounts -> Nat]
    BY <1>1, <1>7 DEF TransferSucceeds, Types
  <2> QED
    BY <1>3, <1>5, <2>1 DEF Fits, FreeAfterTransfer
<1> QED
  BY <1>6, <1>7

LEMMA MarkTypes ==
  ASSUME SpaceInv, body # "none"
  PROVE  LET done == MarkCompleted(space, PathOf[current], Directories) IN
         /\ done \in Tracker
         /\ DOMAIN done.files = DOMAIN space.files \ {PathOf[current]}
         /\ \A q \in DOMAIN done.files : done.files[q] = space.files[q]
         /\ PathOf[current] \notin DOMAIN space.files => done = space
<1>1. Types /\ Calls
  BY DEF SpaceInv
<1>2. current \in Task
  BY <1>1, BodyRunsListed
<1>3. PathOf[current] \in Seq(STRING)
  BY <1>2, DownloadAssumption
<1>4. Directories \in SUBSET Seq(STRING) /\ Mounts \subseteq Directories
  BY <1>1, DirectoriesExist DEF Directories, Types
<1>5. space \in Tracker
  BY <1>1 DEF Types
<1>6. PathOf[current] \notin DOMAIN space.files
        => MarkCompleted(space, PathOf[current], Directories) = space
  BY DEF MarkCompleted
<1> QED
  BY <1>3, <1>4, <1>5, <1>6, CompletedFile

(* What a registration adds to the tracker. *)
LEMMA RegistrationTypes ==
  ASSUME SpaceInv, RegisterPlannedFile
  PROVE  \E t \in FileSizes :
           /\ t \in Task /\ space' \in Tracker
           /\ DOMAIN space'.files = DOMAIN space.files \cup {PathOf[t]}
           /\ space'.files[PathOf[t]] = Size[t]
           /\ \A q \in DOMAIN space.files : space'.files[q] = space.files[q]
<1>1. Types
  BY DEF SpaceInv
<1>2. PICK t \in FileSizes :
        /\ ~Registered(t)
        /\ space' = RegisterPlannedDownload(space, PathOf[t], Size[t], Directories)
  BY DEF RegisterPlannedFile
<1>3. t \in Task /\ PathOf[t] \in Seq(STRING) /\ Size[t] \in Nat /\ space \in Tracker
  BY <1>1, DownloadAssumption DEF Types, FileSizes
<1>4. Directories \in SUBSET Seq(STRING) /\ Mounts \subseteq Directories
  BY <1>1, DirectoriesExist DEF Directories, Types
<1>5. Size[t] # 0 /\ PathOf[t] \notin DOMAIN space.files
  BY <1>2, <1>3, DownloadAssumption DEF Registered
<1> QED
  BY <1>2, <1>3, <1>4, <1>5, RegisterAdds

LEMMA TypesKept == SpaceInv /\ [Next]_vars => Types'
<1> SUFFICES ASSUME SpaceInv, [Next]_vars PROVE Types'
  OBVIOUS
<1>1. Calls /\ Types
  BY DEF SpaceInv
<1>2. CASE BodyStep
  <2>1. CASE TransferSucceeds
    BY <1>1, <1>2, <2>1, BodyTypes, TransferTypes DEF Types, TransferSucceeds
  <2>2. CASE SpaceSuffices \/ SpaceRunsOut
    <3>1. space' \in Tracker
      BY <2>2, MarkTypes DEF SpaceSuffices, SpaceRunsOut
    <3>2. UNCHANGED <<status, disk, planned, free>>
      BY <2>2 DEF SpaceSuffices, SpaceRunsOut
    <3> QED
      BY <1>1, <1>2, <3>1, <3>2, BodyTypes DEF Types
  <2> QED
    BY <1>1, <1>2, <2>1, <2>2, BodyTypes, BodyLeavesSpace DEF Types
<1>3. CASE StageStep
  <2>1. CASE RegisterPlannedFile
    BY <1>1, <2>1, RegistrationTypes
    DEF Types, RegisterPlannedFile, reportVars, stageVars
  <2>2. CASE SpaceCheckPasses
    <3>1. free' \in [Mounts -> Nat]
      BY <2>2, DownloadAssumption DEF SpaceCheckPasses
    <3> QED
      BY <1>1, <2>2, <3>1 DEF Types, SpaceCheckPasses, Status
  <2>3. CASE ~RegisterPlannedFile /\ ~SpaceCheckPasses
    <3>1. status' \in [Task -> Status]
      <4>1. CASE CheckAllTasks
        BY <1>1, <4>1 DEF CheckAllTasks, Types, Status
      <4>2. CASE CancelStores
        BY <1>1, <4>2 DEF CancelStores, Types, Status
      <4> QED
        BY <1>1, <1>3, <2>3, <4>1, <4>2
        DEF Types, StageStep, CheckGivesUp, AllReported, BeginCanceling, CancelTests,
            CancelStops, EndCanceling, JoinAndFail, StopOnFailure, SpaceCheckFails,
            CollectPaths, PathsFound, PathsMissing, reportVars
    <3> QED
      BY <1>1, <1>3, <2>3, <3>1, StageLeavesSpace DEF Types
  <2> QED
    BY <2>1, <2>2, <2>3
<1>4. CASE VolumeFills
  <2>1. PICK v \in Mounts : free' = [free EXCEPT ![v] = 0]
    BY <1>4 DEF VolumeFills
  <2>2. free' \in [Mounts -> Nat]
    BY <1>1, <2>1 DEF Types
  <2> QED
    BY <1>1, <1>4, <2>2 DEF VolumeFills, Types, reportVars, stageVars
<1>5. CASE UNCHANGED <<bodyVars, stageVars, status, tracker>>
  BY <1>1, <1>5 DEF Types, bodyVars, diskVars, stageVars
<1> QED
  BY <1>2, <1>3, <1>4, <1>5, StepsOf, OthersLeaveSpace

LEMMA FetchedKept == SpaceInv /\ [Next]_vars => Fetched'
<1> SUFFICES ASSUME SpaceInv, [Next]_vars, phase' = "fetching" PROVE Fetched'
  BY DEF Fetched
<1>1. Calls /\ Types /\ Fetched
  BY DEF SpaceInv
<1>2. CASE BodyStep
  <2>1. phase = "fetching" /\ (body # "none" => current \in Task)
    BY <1>1, <1>2, BodyTypes, BodyRunsListed
  <2>2. CASE TransferSucceeds
    BY <1>1, <2>1, <2>2
    DEF TransferSucceeds, Fetched, Goto, Inside, schedulerVars, stageVars
  <2>3. CASE ~TransferSucceeds
    <3>1. UNCHANGED <<disk, phase>>
      BY <1>2, <2>1, <2>3, BodyLeavesSpace DEF SpaceSuffices, SpaceRunsOut, stageVars
    <3>2. ASSUME NEW t \in Task, status'[t] = "Completed"
          PROVE  t \in disk
      <4>1. CASE SetFinalStatus
        BY <1>1, <2>1, <3>2, <4>1 DEF SetFinalStatus, SetStatus, Goto, Fetched, Types
      <4>2. CASE status[t] = "Completed"
        BY <1>1, <2>1, <4>2 DEF Fetched
      <4>3. ~SetFinalStatus => status[t] = "Completed"
        BY <1>1, <1>2, <3>2, <2>3
        DEF BodyStep, CallTask, TestReady, BeginInitializing, CheckFile, SkipFile,
            InvalidUri, BeginRunning, FindFails, CreateDownloader, TransferFails,
            TaskThrows, LambdaReturns, SpaceSuffices, SpaceRunsOut, FailureCancelsAll,
            SweepCancels, SweepEnds, SetStatus, Types
      <4> QED
        BY <4>1, <4>2, <4>3
    <3>3. ~(body' = "final" /\ found')
      BY <1>2, <2>3
      DEF BodyStep, CallTask, TestReady, BeginInitializing, CheckFile, SkipFile,
          InvalidUri, BeginRunning, FindFails, CreateDownloader, TransferFails,
          SetFinalStatus, TaskThrows, LambdaReturns, SpaceSuffices, SpaceRunsOut,
          FailureCancelsAll, SweepCancels, SweepEnds, Goto
    <3> QED
      BY <3>1, <3>2, <3>3 DEF Fetched
  <2> QED
    BY <2>2, <2>3
<1>3. CASE StageStep
  <2>1. CASE SpaceCheckPasses
    <3>1. body' = "none"
      BY <1>1, <2>1 DEF SpaceCheckPasses, ReportNext, NewScheduler, WorkerActive, Calls
    <3>2. \A t \in Task : status'[t] # "Completed"
      BY <2>1 DEF SpaceCheckPasses
    <3> QED
      BY <3>1, <3>2 DEF Fetched
  <2>2. CASE ~SpaceCheckPasses
    <3>1. phase = "fetching" /\ UNCHANGED <<disk, body, found, current>>
      BY <1>3, <2>2, StageLeavesSpace
      DEF RegisterPlannedFile, stageVars, reportVars, schedulerVars
    <3>2. ASSUME NEW t \in Task, status'[t] = "Completed"
          PROVE  status[t] = "Completed"
      BY <1>1, <1>3, <2>2, <3>2
      DEF StageStep, CheckAllTasks, CheckGivesUp, AllReported, BeginCanceling,
          CancelTests, CancelStores, CancelStops, EndCanceling, JoinAndFail,
          StopOnFailure, RegisterPlannedFile, SpaceCheckFails, CollectPaths,
          PathsFound, PathsMissing, reportVars, Types
    <3> QED
      BY <1>1, <3>1, <3>2 DEF Fetched
  <2> QED
    BY <2>1, <2>2
<1>4. CASE VolumeFills
  BY <1>1, <1>4 DEF VolumeFills, Fetched, reportVars, schedulerVars, stageVars
<1>5. CASE /\ UNCHANGED <<bodyVars, stageVars, status, tracker>>
           /\ worker = "running" => UNCHANGED <<worker, current>>
  <2>1. body = "final" => current' = current
    <3>1. body = "final" => worker = "running"
      BY <1>1 DEF Calls
    <3> QED
      BY <3>1, <1>5
  <2> QED
    BY <1>1, <1>5, <2>1 DEF Fetched, bodyVars, stageVars
<1> QED
  BY <1>2, <1>3, <1>4, <1>5, StepsOf, OthersLeaveSpace

(* After the sweep no listed file is left out. *)
LEMMA NothingLeftOut ==
  ASSUME SpaceInv, stage = "examine", phase = "sizing", ~SomeFailed
  PROVE  \A t \in Listed : SizeKnown(t) \/ t \in disk
<1>1. Sized /\ Types
  BY DEF SpaceInv
<1>2. tracker = Files /\ index = Len(tracker)
  BY <1>1 DEF Sized
<1>3. \A i \in 1 .. index : IsOver(status[tracker[i]])
  BY <1>1 DEF Sized
<1>4. DOMAIN Files = 1 .. Len(Files) /\ \A i \in DOMAIN Files : Files[i] \in Task
  BY ListedTasks, DownloadAssumption
<1> SUFFICES ASSUME NEW i \in DOMAIN Files
             PROVE  SizeKnown(Files[i]) \/ Files[i] \in disk
  BY DEF Listed
<1>5. IsOver(status[Files[i]]) /\ status[Files[i]] # "Failed" /\ Files[i] \in Task
  BY <1>2, <1>3, <1>4 DEF SomeFailed
<1> QED
  BY <1>1, <1>5 DEF Sized, IsOver

LEMMA PlanKept == SpaceInv /\ [Next]_vars => PlanAgrees'
<1> SUFFICES ASSUME SpaceInv, [Next]_vars PROVE PlanAgrees'
  OBVIOUS
<1>1. Calls /\ Types /\ PlanAgrees /\ Sized /\ Fetched
  BY DEF SpaceInv
<1>2. CASE UNCHANGED <<space, disk, planned, behavior, phase>>
  BY <1>1, <1>2 DEF PlanAgrees, ChecksFirst, Written, Registered, Overlooked, FileSizes
<1>3. CASE TransferSucceeds
  <2>1. /\ disk \subseteq disk' /\ UNCHANGED <<space, behavior, phase>>
        /\ phase = "fetching" => planned' = planned
    BY <1>3 DEF TransferSucceeds, Inside, stageVars
  <2> QED
    BY <1>1, <2>1 DEF PlanAgrees, ChecksFirst, Written, Registered, Overlooked, FileSizes
<1>4. CASE SpaceSuffices \/ SpaceRunsOut
  <2> DEFINE done == MarkCompleted(space, PathOf[current], Directories)
  <2>1. /\ body # "none" /\ status[current] = "Completed" /\ phase = "fetching"
        /\ space' = done /\ UNCHANGED <<disk, planned, behavior, phase>>
    BY <1>4 DEF SpaceSuffices, SpaceRunsOut, stageVars
  <2>2. /\ DOMAIN done.files = DOMAIN space.files \ {PathOf[current]}
        /\ \A q \in DOMAIN done.files : done.files[q] = space.files[q]
        /\ PathOf[current] \notin DOMAIN space.files => done = space
    BY <2>1, MarkTypes
  <2> HIDE DEF done
  <2>3. current \in disk
    BY <1>1, <2>1, BodyRunsListed DEF Fetched
  <2>4. \A t \in Task : PathOf[t] \in DOMAIN done.files
                          => done.files[PathOf[t]] = Size[t]
    BY <1>1, <2>2 DEF PlanAgrees
  <2>5. ChecksFirst => done = NothingPlanned
    BY <1>1, <2>2, NothingPlannedIsTracker DEF PlanAgrees
  <2>6. \A t \in Task : PathOf[t] = PathOf[current] => Written(t)
    BY <2>3 DEF Written
  <2>7. ~ChecksFirst => \A t \in Listed : Written(t) \/ Overlooked(t)
                                            \/ PathOf[t] \in DOMAIN done.files
    BY <1>1, <2>1, <2>2, <2>6, ListedTasks DEF PlanAgrees, Registered
  <2>8. \A t \in Listed : Overlooked(t)' <=> Overlooked(t)
    BY <2>1 DEF Overlooked, FileSizes
  <2> QED
    BY <2>1, <2>4, <2>5, <2>7, <2>8 DEF PlanAgrees, ChecksFirst, Written, Registered
<1>5. CASE RegisterPlannedFile
  <2>1. PICK t \in FileSizes :
           /\ t \in Task /\ space' \in Tracker
           /\ DOMAIN space'.files = DOMAIN space.files \cup {PathOf[t]}
           /\ space'.files[PathOf[t]] = Size[t]
           /\ \A q \in DOMAIN space.files : space'.files[q] = space.files[q]
    BY <1>5, RegistrationTypes
  <2>2. phase = "sizing" /\ UNCHANGED <<behavior, phase>>
    BY <1>5 DEF RegisterPlannedFile, SizesKnown, stageVars
  <2>3. ~ChecksFirst
    BY <1>1, <2>2 DEF Sized
  <2>4. \A u \in Task : PathOf[u] = PathOf[t] => Size[u] = Size[t]
    BY <2>1, DownloadAssumption
  <2>5. \A u \in Task : PathOf[u] \in DOMAIN space'.files
                          => space'.files[PathOf[u]] = Size[u]
    BY <1>1, <2>1, <2>4 DEF PlanAgrees
  <2> QED
    BY <2>2, <2>3, <2>5 DEF PlanAgrees, ChecksFirst
<1>6. CASE SpaceCheckPasses
  <2>1. /\ stage = "examine" /\ phase = "sizing" /\ ~SomeFailed
        /\ \A t \in FileSizes : Registered(t)
        /\ UNCHANGED <<space, disk, planned, behavior>>
    BY <1>6 DEF SpaceCheckPasses, PlanIsComplete, SizesKnown
  <2>2. ASSUME NEW t \in Listed
        PROVE  Written(t) \/ Registered(t) \/ Overlooked(t)
    <3>1. CASE t \in disk
      BY <3>1 DEF Written
    <3>2. CASE SizeKnown(t)
      <4>1. \E u \in FileSizes : UrlOf[u] = UrlOf[t]
        BY <1>1, <3>2, SizedIsMerged DEF SizeKnown, Types
      <4>2. (\E u \in FileSizes : PathOf[u] = PathOf[t]) => Registered(t)
        BY <2>1 DEF Registered
      <4> QED
        BY <4>1, <4>2 DEF Overlooked
    <3> QED
      BY <2>1, <3>1, <3>2, NothingLeftOut
  <2>3. \A t \in Listed : (Written(t) \/ Registered(t) \/ Overlooked(t))'
    BY <2>1, <2>2 DEF Written, Registered, Overlooked, FileSizes
  <2>4. \A t \in Task : (PathOf[t] \in DOMAIN space.files => space.files[PathOf[t]] = Size[t])'
    BY <1>1, <2>1 DEF PlanAgrees
  <2> QED
    BY <1>1, <2>1, <2>3, <2>4 DEF PlanAgrees, ChecksFirst
<1>7. BodyStep => TransferSucceeds \/ SpaceSuffices \/ SpaceRunsOut
                    \/ UNCHANGED <<space, disk, planned, behavior, phase>>
  BY BodyLeavesSpace
<1>8. StageStep => RegisterPlannedFile \/ SpaceCheckPasses
                     \/ UNCHANGED <<space, disk, planned, behavior, phase>>
  BY StageLeavesSpace
<1> QED
  BY <1>2, <1>3, <1>4, <1>5, <1>6, <1>7, <1>8, StepsOf, OthersLeaveSpace
  DEF VolumeFills, bodyVars, diskVars, stageVars

(* The transfer takes from the volume what its MarkCompleted will take from*)
(* the sum.                                                                *)
LEMMA TransferLeavesEnough ==
  ASSUME SpaceInv, TransferSucceeds, phase = "fetching", ~crowded, ~overlooked'
  PROVE  HasEnoughSpace(MarkCompleted(space, PathOf[current], Directories'), free')
<1>1. Types /\ Calls /\ PlanAgrees /\ SpaceHolds
  BY DEF SpaceInv
<1>2. body = "transfer" /\ current \in Task /\ current \in Listed
  BY <1>1, BodyRunsListed DEF TransferSucceeds, Goto
<1>3. HasEnoughSpace(space, free) /\ (Written(current) \/ ~Overlooked(current))
  BY <1>1, <1>2 DEF SpaceHolds, JustFetched, MayFetch, TransferSucceeds
<1>4. disk' \in SUBSET Task /\ disk \in SUBSET Task
  BY <1>1, <1>2 DEF TransferSucceeds, Types
<1>5. /\ Directories \in SUBSET Seq(STRING) /\ Mounts \subseteq Directories
      /\ Volume(current) \in Mounts
      /\ MarkCompleted(space, PathOf[current], Directories')
           = MarkCompleted(space, PathOf[current], Directories)
  BY <1>2, <1>4, SameVolume
<1>6. PathOf[current] \in Seq(STRING) /\ Size[current] \in Nat
  BY <1>2, DownloadAssumption
<1>7. space \in Tracker /\ free \in [Mounts -> Nat]
  BY <1>1 DEF Types
<1>8. Fits /\ free' = FreeAfterTransfer
  BY <1>2 DEF TransferSucceeds
<1>9. CASE free' = free
  BY <1>3, <1>5, <1>6, <1>7, <1>9, CompletionNeedsNoMore
<1>10. CASE ~ChecksFirst /\ ~Written(current)
  <2>1. /\ Size[current] <= free[Volume(current)]
        /\ free' = [free EXCEPT ![Volume(current)] = @ - Size[current]]
    BY <1>8, <1>10 DEF Fits, FreeAfterTransfer
  <2>2. PathOf[current] \in DOMAIN space.files
        /\ space.files[PathOf[current]] = Size[current]
    BY <1>1, <1>2, <1>3, <1>10 DEF PlanAgrees, Registered
  <2>3. Volume(current) = VolumeOf(PathOf[current], Directories)
    BY DEF Volume
  <2> QED
    BY <1>3, <1>5, <1>7, <2>1, <2>2, <2>3, CompletionKeepsSpace
<1> QED
  BY <1>8, <1>9, <1>10 DEF FreeAfterTransfer

LEMMA BodyKeepsEnough ==
  ASSUME SpaceInv, BodyStep
  PROVE  SpaceHolds'
<1> SUFFICES ASSUME phase = "fetching", ~crowded, ~overlooked, ~overlooked'
             PROVE  /\ JustFetched' => HasEnoughSpace(
                          MarkCompleted(space, PathOf[current], Directories), free)'
                    /\ (~JustFetched /\ body # "cancel" /\ MayFetch)'
                          => HasEnoughSpace(space, free)'
  <2>1. phase' = phase
    BY BodyTypes
  <2>2. crowded' = crowded /\ (overlooked => overlooked')
    BY BodyLeavesCrowded
  <2> QED
    BY <2>1, <2>2 DEF SpaceHolds
<1>1. Types /\ Calls /\ SpaceHolds
  BY DEF SpaceInv
<1>2. body # "none" => worker = "running" /\ current \in Task
  BY <1>1, BodyRunsListed DEF Calls
<1>3. status \in [Task -> Status] /\ space \in Tracker /\ free \in [Mounts -> Nat]
  BY <1>1 DEF Types
<1>4. CASE TransferSucceeds
  <2>1. body' = "final" /\ found' = TRUE /\ UNCHANGED <<space, current>>
    BY <1>4 DEF TransferSucceeds, Goto, Inside, schedulerVars
  <2>2. JustFetched'
    BY <2>1 DEF JustFetched
  <2> QED
    BY <1>4, <2>1, <2>2, TransferLeavesEnough
<1>5. CASE SpaceSuffices
  <2>1. body' = "none" /\ HasEnoughSpace(space', free) /\ UNCHANGED free
    BY <1>5 DEF SpaceSuffices
  <2> QED
    BY <2>1 DEF JustFetched, HasEnoughSpace, Required
<1>6. CASE body' = "cancel"
  BY <1>6 DEF JustFetched
<1>7. CASE ~TransferSucceeds /\ ~SpaceSuffices /\ body' # "cancel"
  <2>1. ~SpaceRunsOut /\ ~FailureCancelsAll
    BY <1>7 DEF SpaceRunsOut, FailureCancelsAll
  <2>2. UNCHANGED <<disk, space, free>>
    BY <1>7, <2>1, BodyLeavesSpace
  <2>3. Directories' = Directories
    BY <2>2 DEF Directories
  <2>4. CASE TestReady
    <3>1. HasEnoughSpace(space, free) /\ UNCHANGED current
      BY <1>1, <2>4 DEF TestReady, Goto, SpaceHolds, JustFetched, MayFetch, Inside,
         schedulerVars
    <3>2. PathOf[current] \in Seq(STRING)
      BY <1>2, <2>4, DownloadAssumption DEF TestReady, Goto
    <3>3. Directories \in SUBSET Seq(STRING) /\ Mounts \subseteq Directories
      BY <1>1, DirectoriesExist DEF Directories, Types
    <3>4. HasEnoughSpace(MarkCompleted(space, PathOf[current], Directories), free)
      BY <1>3, <3>1, <3>2, <3>3, CompletionNeedsNoMore
    <3> QED
      BY <2>2, <2>3, <3>1, <3>4
  <2>5. CASE SetFinalStatus
    <3>1. /\ body = "final" /\ body' = "after" /\ UNCHANGED <<current, worker, canceled>>
          /\ status'[current] = IF found THEN "Completed" ELSE "Failed"
      BY <1>2, <1>3, <2>5 DEF SetFinalStatus, SetStatus, Goto, Inside, schedulerVars
    <3>2. JustFetched' <=> found
      BY <3>1 DEF JustFetched
    <3>3. JustFetched <=> found
      BY <3>1 DEF JustFetched
    <3>4. MayFetch' => MayFetch
      BY <3>1 DEF MayFetch
    <3> QED
      BY <1>1, <2>2, <2>3, <3>1, <3>2, <3>3, <3>4 DEF SpaceHolds
  <2>6. CASE SweepCancels \/ SweepEnds
    <3>1. canceled' /\ body' = "none" /\ worker' = "loop"
      BY <1>1, <1>7, <2>6
      DEF Calls, SweepCancels, SweepEnds, WorkerReturns, Inside, schedulerVars
    <3> QED
      BY <3>1 DEF JustFetched, MayFetch
  <2>7. CASE LambdaReturns
    <3>1. /\ ~JustFetched /\ body = "after" /\ body' = "none" /\ worker' = "loop"
          /\ UNCHANGED canceled
      BY <2>7 DEF LambdaReturns, JustFetched, WorkerReturns
    <3>2. MayFetch' => MayFetch
      BY <3>1 DEF MayFetch
    <3> QED
      BY <1>1, <2>2, <3>1, <3>2 DEF SpaceHolds, JustFetched
  <2>8. CASE CallTask \/ BeginInitializing \/ CheckFile \/ SkipFile \/ InvalidUri
               \/ BeginRunning \/ FindFails \/ CreateDownloader \/ TransferFails
               \/ TaskThrows
    <3>1. ~JustFetched /\ body # "cancel" /\ MayFetch
      BY <2>8
      DEF JustFetched, MayFetch, CallTask, BeginInitializing, CheckFile, SkipFile,
          InvalidUri, BeginRunning, FindFails, CreateDownloader, TransferFails,
          TaskThrows, Goto, WorkerCalls
    <3>2. ~JustFetched'
      BY <1>2, <1>3, <2>8
      DEF JustFetched, CallTask, BeginInitializing, CheckFile, SkipFile,
          InvalidUri, BeginRunning, FindFails, CreateDownloader, TransferFails,
          TaskThrows, Goto, SetStatus, Inside, schedulerVars
    <3> QED
      BY <1>1, <2>2, <3>1, <3>2 DEF SpaceHolds
  <2> QED
    BY <1>7, <2>1, <2>4, <2>5, <2>6, <2>7, <2>8 DEF BodyStep
<1> QED
  BY <1>4, <1>5, <1>6, <1>7

LEMMA EnoughKept == SpaceInv /\ [Next]_vars => SpaceHolds'
<1> SUFFICES ASSUME SpaceInv, [Next]_vars PROVE SpaceHolds'
  OBVIOUS
<1>1. Types /\ Calls /\ SpaceHolds
  BY DEF SpaceInv
<1>2. CASE StageStep
  <2>1. CASE SpaceCheckPasses
    <3>1. body' = "none"
      BY <1>1, <2>1 DEF SpaceCheckPasses, ReportNext, NewScheduler, WorkerActive, Calls
    <3>2. HasEnoughSpace(space, free)'
      BY <2>1 DEF SpaceCheckPasses, HasEnoughSpace, Required
    <3> QED
      BY <3>1, <3>2 DEF SpaceHolds, JustFetched
  <2>2. CASE RegisterPlannedFile
    BY <2>2 DEF RegisterPlannedFile, SizesKnown, stageVars, SpaceHolds
  <2>3. CASE ~SpaceCheckPasses /\ ~RegisterPlannedFile
    <3>1. UNCHANGED <<disk, space, free, crowded, overlooked, phase, body, found, current,
                    worker>>
      BY <1>2, <2>3, StageLeavesSpace
    <3>2. Directories' = Directories
      BY <3>1 DEF Directories
    <3>3. canceled => canceled'
      BY <1>2, <2>3
      DEF StageStep, CheckAllTasks, CheckGivesUp, AllReported, BeginCanceling,
          CancelTests, CancelStores, CancelStops, EndCanceling, JoinAndFail,
          StopOnFailure, SpaceCheckFails, CollectPaths, PathsFound, PathsMissing,
          CancelTasks, reportVars, schedulerVars
    <3>4. MayFetch' => MayFetch
      BY <3>1, <3>3 DEF MayFetch
    <3>5. CASE UNCHANGED status
      <4>1. JustFetched' <=> JustFetched
        BY <3>1, <3>5 DEF JustFetched
      <4> QED
        BY <1>1, <3>1, <3>2, <3>4, <4>1 DEF SpaceHolds
    <3>6. CASE CheckAllTasks
      <4>1. body = "none"
        BY <1>1, <3>6 DEF CheckAllTasks, Calls
      <4>2. ~JustFetched /\ ~JustFetched'
        BY <3>1, <4>1 DEF JustFetched
      <4> QED
        BY <1>1, <3>1, <3>4, <4>2 DEF SpaceHolds
    <3>7. CASE CancelStores
      <4>1. canceled /\ canceled'
        BY <1>1, <3>3, <3>7 DEF CancelStores, Calls
      <4>2. JustFetched' => JustFetched
        BY <1>1, <3>1, <3>7 DEF JustFetched, CancelStores, Types
      <4>3. JustFetched /\ MayFetch' => JustFetched'
        BY <1>1, <3>1, <4>1 DEF JustFetched, MayFetch, Calls
      <4> QED
        BY <1>1, <3>1, <3>2, <3>4, <4>2, <4>3 DEF SpaceHolds
    <3> QED
      BY <1>2, <2>3, <3>5, <3>6, <3>7
      DEF StageStep, CheckGivesUp, AllReported, BeginCanceling,
          CancelTests, CancelStops, EndCanceling, JoinAndFail, StopOnFailure,
          SpaceCheckFails, CollectPaths, PathsFound, PathsMissing, reportVars
  <2> QED
    BY <2>1, <2>2, <2>3
<1>3. CASE VolumeFills
  BY <1>3 DEF VolumeFills, SpaceHolds
<1>4. CASE /\ UNCHANGED <<bodyVars, stageVars, status, tracker>>
           /\ worker = "running" => UNCHANGED <<worker, current>>
           /\ canceled => canceled'
           /\ worker' = "taken" => worker = "taken" \/ ~canceled
  <2>1. UNCHANGED <<disk, space, free, crowded, overlooked, phase, body, found, status>>
    BY <1>4 DEF bodyVars, diskVars, stageVars
  <2>2. Directories' = Directories
    BY <2>1 DEF Directories
  <2>3. MayFetch' => MayFetch
    BY <1>4, <2>1 DEF MayFetch
  <2>4. body # "none" => UNCHANGED current
    BY <1>1, <1>4 DEF Calls
  <2>5. JustFetched' <=> JustFetched
    BY <2>1, <2>4 DEF JustFetched
  <2>6. JustFetched => UNCHANGED current
    BY <2>4 DEF JustFetched
  <2> QED
    BY <1>1, <2>1, <2>2, <2>3, <2>5, <2>6 DEF SpaceHolds
<1> QED
  BY <1>2, <1>3, <1>4, BodyKeepsEnough, StepsOf, OthersLeaveSpace

(* The worker's sweep never begins with a file that is completed, unless   *)
(* another program took the space or the plan was not the whole one.       *)
LEMMA SufficesKept == SpaceInv /\ [Next]_vars => CheckedSpaceSuffices'
<1> SUFFICES ASSUME SpaceInv, [Next]_vars,
                    body' = "cancel", status'[current'] = "Completed", ~crowded',
                    ~overlooked'
             PROVE  FALSE
  BY DEF CheckedSpaceSuffices
<1>1. Types /\ Calls /\ SpaceHolds /\ CheckedSpaceSuffices
  BY DEF SpaceInv
<1>2. CASE BodyStep
  <2>1. crowded' = crowded /\ (overlooked => overlooked')
    BY <1>2, BodyLeavesCrowded
  <2>2. CASE SpaceRunsOut
    BY <1>1, <2>1, <2>2 DEF SpaceRunsOut, SpaceHolds, JustFetched
  <2>3. CASE FailureCancelsAll
    BY <2>3 DEF FailureCancelsAll, CancelTasks
  <2>4. CASE SweepCancels
    BY <1>1, <2>1, <2>4, BodyRunsListed
    DEF SweepCancels, CheckedSpaceSuffices, Types, Inside, schedulerVars
  <2>5. SpaceRunsOut \/ FailureCancelsAll \/ SweepCancels
    BY <1>2
    DEF BodyStep, CallTask, TestReady, BeginInitializing, CheckFile, SkipFile,
        InvalidUri, BeginRunning, FindFails, CreateDownloader, TransferSucceeds,
        TransferFails, SetFinalStatus, TaskThrows, LambdaReturns, SpaceSuffices,
        SweepEnds, Goto
  <2> QED
    BY <2>2, <2>3, <2>4, <2>5
<1>3. CASE StageStep
  <2>1. CASE SpaceCheckPasses
    BY <1>1, <2>1 DEF SpaceCheckPasses, ReportNext, NewScheduler, WorkerActive, Calls
  <2>2. CASE ~SpaceCheckPasses
    <3>1. UNCHANGED <<body, current, crowded, overlooked>>
      BY <1>3, <2>2, StageLeavesSpace DEF RegisterPlannedFile, reportVars, schedulerVars
    <3>2. current \in Task
      BY <1>1, <3>1, BodyRunsListed
    <3>3. status[current] = "Completed"
      BY <1>1, <1>3, <2>2, <3>1, <3>2
      DEF StageStep, CheckAllTasks, CheckGivesUp, AllReported, BeginCanceling,
          CancelTests, CancelStores, CancelStops, EndCanceling, JoinAndFail,
          StopOnFailure, RegisterPlannedFile, SpaceCheckFails, CollectPaths,
          PathsFound, PathsMissing, reportVars, Types
    <3> QED
      BY <1>1, <3>1, <3>3 DEF CheckedSpaceSuffices
  <2> QED
    BY <2>1, <2>2
<1>4. CASE VolumeFills
  BY <1>4 DEF VolumeFills
<1>5. CASE /\ UNCHANGED <<bodyVars, stageVars, status, tracker>>
           /\ worker = "running" => UNCHANGED <<worker, current>>
  BY <1>1, <1>5 DEF CheckedSpaceSuffices, Calls, bodyVars, diskVars
<1> QED
  BY <1>2, <1>3, <1>4, <1>5, StepsOf, OthersLeaveSpace

(* An update of the tracker passes only tasks that are over, quiet or not. *)
LEMMA Advances ==
  ASSUME index \in 0 .. Len(tracker), Len(tracker) \in Nat, index # Len(tracker)
  PROVE  /\ AdvancedIndex \in index .. Len(tracker)
         /\ \A i \in (index + 1) .. AdvancedIndex : IsOver(status[tracker[i]])
<1> DEFINE PassableTo(j) == \A i \in (index + 1) .. j : IsOver(status[tracker[i]])
           reach == {j \in index .. Len(tracker) : PassableTo(j)}
<1>1. index \in Nat /\ index + 1 \in index .. Len(tracker) /\ index \in index .. Len(tracker)
  OBVIOUS
<1>2. PassableTo(index)
  BY <1>1
<1>3. index \in reach
  BY <1>1, <1>2
<1>4. reach \in SUBSET (0 .. Len(tracker)) /\ reach # {}
  BY <1>1, <1>3
<1>5. \E j \in reach : \A k \in reach : k <= j
  <2> HIDE DEF reach
  <2> QED
    BY <1>4, LargestExists
<1>6. AdvancedIndex = IF quiet THEN CHOOSE j \in reach : \A k \in reach : k <= j
                      ELSE IF PassableTo(index + 1) THEN index + 1 ELSE index
  BY DEF AdvancedIndex
<1>7. CASE quiet
  <2>1. AdvancedIndex \in reach
    <3> HIDE DEF reach
    <3> QED
      BY <1>5, <1>6, <1>7
  <2> QED
    BY <2>1
<1>8. CASE ~quiet
  <2>1. \/ AdvancedIndex = index + 1 /\ PassableTo(index + 1)
        \/ AdvancedIndex = index
    BY <1>6, <1>8
  <2> QED
    BY <1>1, <1>2, <2>1
<1> QED
  BY <1>7, <1>8

(* Until the runner interferes, a task of the sweep that is over stays as  *)
(* it is: the worker stores a status only where a task is on its way.      *)
LEMMA OverStays ==
  ASSUME SpaceInv, BodyStep, phase = "sizing", stage \in {"report", "examine"},
         NEW t \in Task, IsOver(status[t])
  PROVE  status'[t] = status[t]
<1>1. Types /\ Sized
  BY DEF SpaceInv
<1>2. CASE SweepCancels
  BY <1>1, <1>2 DEF SweepCancels, Types
<1>3. CASE UNCHANGED status
  BY <1>3
<1>4. CASE \/ body = "init" /\ \E s \in Status : SetStatus(s)
           \/ body = "decide" /\ \E s \in Status : SetStatus(s)
           \/ body = "final" /\ \E s \in Status : SetStatus(s)
  BY <1>1, <1>4 DEF Sized, SetStatus, Types, IsOver
<1> QED
  BY <1>2, <1>3, <1>4
  DEF BodyStep, CallTask, TestReady, BeginInitializing, CheckFile, SkipFile,
      InvalidUri, BeginRunning, FindFails, CreateDownloader, TransferSucceeds,
      TransferFails, SetFinalStatus, TaskThrows, LambdaReturns, SpaceSuffices,
      SpaceRunsOut, FailureCancelsAll, SweepEnds, Goto, Status

LEMMA BodyKeepsSized ==
  ASSUME SpaceInv, BodyStep, phase = "sizing"
  PROVE  Sized'
<1>1. Types /\ Calls /\ Sized /\ IInv
  BY DEF SpaceInv
<1>2. body # "none" => worker = "running" /\ current \in Task /\ current \in Listed
  BY <1>1, BodyRunsListed DEF Calls
<1>3. UNCHANGED <<behavior, tracker, stage, phase, index, runner, verdict>>
  BY DEF BodyStep, CallTask, TestReady, BeginInitializing, CheckFile, SkipFile,
         InvalidUri, BeginRunning, FindFails, CreateDownloader, TransferSucceeds,
         TransferFails, SetFinalStatus, TaskThrows, LambdaReturns, SpaceSuffices,
         SpaceRunsOut, FailureCancelsAll, SweepCancels, SweepEnds, Inside, stageVars
<1>4. ~SpaceSuffices /\ ~SpaceRunsOut
  BY DEF SpaceSuffices, SpaceRunsOut
<1>5. ~ChecksFirst /\ tracker = Files /\ stage # "precheck" /\ index \in 0 .. Len(tracker)
  BY <1>1 DEF Sized
<1>6. (ChecksFirst <=> ChecksFirst')
  BY <1>3 DEF ChecksFirst
<1>7. CASE stage \notin {"report", "examine"}
  BY <1>1, <1>3, <1>5, <1>6, <1>7 DEF Sized
<1>8. CASE stage \in {"report", "examine"}
  <2>1. \A t \in Task : IsOver(status[t]) => status'[t] = status[t]
    BY <1>8, OverStays
  <2>2. \A i \in 1 .. index : i \in DOMAIN Files /\ tracker[i] \in Task
    <3>1. DOMAIN Files = 1 .. Len(Files) /\ Len(Files) \in Nat
      BY DownloadAssumption
    <3>2. \A i \in 1 .. Len(Files) : Files[i] \in Task
      BY DownloadAssumption
    <3> QED
      BY <1>5, <3>1, <3>2
  <2>3. ASSUME NEW i \in 1 .. index
        PROVE  IsOver(status'[tracker[i]])
    <3>1. IsOver(status[tracker[i]])
      BY <1>1, <1>8 DEF Sized
    <3> QED
      BY <2>1, <2>2, <3>1
  <2>4. SomeFailed => SomeFailed'
    <3> SUFFICES ASSUME NEW i \in DOMAIN tracker, status[tracker[i]] = "Failed"
                 PROVE  status'[tracker[i]] = "Failed"
      BY <1>3 DEF SomeFailed
    <3>1. tracker[i] \in Task
      BY <1>5, DownloadAssumption
    <3> QED
      BY <2>1, <3>1 DEF IsOver
  <2>5. /\ disk \subseteq disk'
        /\ \A t \in Task : SizeKnown(t) => SizeKnown(t)'
    <3>1. CASE TransferSucceeds
      <4>1. planned' = PlannedWith(current) /\ disk' = disk
        BY <3>1 DEF TransferSucceeds
      <4>2. \A u \in planned : \E v \in planned' : UrlOf[v] = UrlOf[u]
        BY <4>1 DEF PlannedWith
      <4> QED
        BY <4>1, <4>2 DEF SizeKnown
    <3>2. CASE ~TransferSucceeds
      BY <1>4, <3>2, BodyLeavesSpace DEF SizeKnown
    <3> QED
      BY <3>1, <3>2
  <2>6. ASSUME NEW t \in Task
        PROVE  /\ status'[t] = "Completed" => SizeKnown(t)'
               /\ status'[t] = "Skipped" => t \in disk'
               /\ status'[t] = "Canceled" => SomeFailed'
    <3>1. CASE SetFinalStatus
      BY <1>1, <1>2, <1>8, <2>4, <2>5, <3>1
      DEF SetFinalStatus, SetStatus, Goto, Sized, Types
    <3>2. CASE SkipFile
      BY <1>1, <1>2, <1>8, <2>4, <2>5, <3>2
      DEF SkipFile, SetStatus, Goto, Sized, Types, IInv
    <3>3. CASE SweepCancels
      <4>1. status[current] = "Failed" /\ current \in Listed
        BY <1>1, <1>2, <1>8, <3>3 DEF SweepCancels, Sized
      <4>2. SomeFailed
        BY <1>5, <4>1 DEF SomeFailed, Listed
      <4>3. status'[t] # "Canceled" => status'[t] = status[t]
        BY <1>1, <3>3 DEF SweepCancels, Types
      <4> QED
        BY <1>1, <1>8, <2>4, <2>5, <4>2, <4>3 DEF Sized
    <3>4. CASE status'[t] = status[t] \/ status'[t] \notin {"Completed", "Skipped", "Canceled"}
      BY <1>1, <1>8, <2>4, <2>5, <3>4 DEF Sized
    <3> QED
      BY <1>1, <1>4, <3>1, <3>2, <3>3, <3>4
      DEF BodyStep, CallTask, TestReady, BeginInitializing, CheckFile,
          InvalidUri, BeginRunning, FindFails, CreateDownloader, TransferSucceeds,
          TransferFails, TaskThrows, LambdaReturns, FailureCancelsAll, SweepEnds,
          SetStatus, Types
  <2>7. /\ body' = "init" => status'[current'] = "Ready"
        /\ body' \in {"precheck", "decide"} => status'[current'] = "Initializing"
        /\ body' \in {"find", "transfer", "final"} => status'[current'] = "Running"
        /\ body' = "final" /\ found' => SizeKnown(current)'
        /\ body' = "cancel" => status'[current'] = "Failed"
    <3>1. CASE TestReady \/ BeginInitializing \/ CheckFile \/ SkipFile \/ InvalidUri
               \/ BeginRunning
      BY <1>1, <1>2, <1>8, <3>1
      DEF TestReady, BeginInitializing, CheckFile, SkipFile, InvalidUri, BeginRunning,
          SetStatus, Goto, Inside, schedulerVars, Sized, Types
    <3>2. CASE TransferSucceeds
      <4>1. current' = current /\ status' = status /\ body = "transfer" /\ body' = "final"
        BY <3>2 DEF TransferSucceeds, Goto, Inside, schedulerVars
      <4>2. current \in planned'
        BY <3>2 DEF TransferSucceeds, PlannedWith
      <4>3. SizeKnown(current)'
        BY <4>1, <4>2 DEF SizeKnown
      <4> QED
        BY <1>1, <1>8, <4>1, <4>3 DEF Sized
    <3>6. CASE FindFails \/ CreateDownloader \/ TransferFails \/ SetFinalStatus
      BY <1>1, <1>2, <1>8, <3>6
      DEF FindFails, CreateDownloader, TransferFails, SetFinalStatus,
          SetStatus, Goto, Inside, schedulerVars, Sized, Types
    <3>3. CASE FailureCancelsAll
      BY <3>3 DEF FailureCancelsAll, CancelTasks
    <3>4. CASE SweepCancels
      <4>1. body = "cancel" /\ body' = "cancel" /\ current' = current
        BY <3>4 DEF SweepCancels, Inside, schedulerVars
      <4>2. status[current] = "Failed" /\ current \in Task
        BY <1>1, <1>2, <1>8, <4>1 DEF Sized
      <4>3. status'[current] = "Failed"
        BY <2>1, <4>2 DEF IsOver
      <4> QED
        BY <4>1, <4>3
    <3>5. CASE body' \in {"none", "guard"}
      BY <3>5
    <3> QED
      BY <1>4, <3>1, <3>2, <3>3, <3>4, <3>5, <3>6
      DEF BodyStep, CallTask, TaskThrows, LambdaReturns, SweepEnds, Goto
  <2> QED
    BY <1>1, <1>3, <1>5, <1>6, <2>3, <2>6, <2>7 DEF Sized
<1> QED
  BY <1>7, <1>8

LEMMA SizedKept == SpaceInv /\ [Next]_vars => Sized'
<1> SUFFICES ASSUME SpaceInv, [Next]_vars, phase' = "sizing" PROVE Sized'
  BY DEF Sized
<1>1. Types /\ Calls /\ Sized
  BY DEF SpaceInv
<1>2. phase = "sizing" /\ (ChecksFirst <=> ChecksFirst')
  <2>1. CASE BodyStep
    BY <2>1, BodyTypes, BodyLeavesSpace
    DEF ChecksFirst, TransferSucceeds, SpaceSuffices, SpaceRunsOut, Inside, stageVars
  <2>2. CASE StageStep
    BY <2>2, StageLeavesSpace
    DEF ChecksFirst, RegisterPlannedFile, SpaceCheckPasses, stageVars
  <2> QED
    BY <2>1, <2>2, StepsOf, OthersLeaveSpace DEF ChecksFirst, VolumeFills, stageVars
<1>3. ~ChecksFirst /\ tracker = Files /\ stage # "precheck" /\ index \in 0 .. Len(tracker)
  BY <1>1, <1>2 DEF Sized
<1>4. CASE StageStep
  <2>1. UNCHANGED <<status, planned, disk, body, found, current, tracker, index, runner,
                    verdict>> \/ CancelStores
    BY <1>2, <1>3, <1>4
    DEF StageStep, CheckAllTasks, CheckGivesUp, AllReported, BeginCanceling,
        CancelTests, CancelStops, EndCanceling, JoinAndFail, StopOnFailure,
        RegisterPlannedFile, SpaceCheckFails, SpaceCheckPasses, CollectPaths,
        PathsFound, PathsMissing, CancelTasks, bodyVars, diskVars, reportVars,
        schedulerVars
  <2>2. CASE CancelStores
    BY <1>1, <1>2, <1>3, <2>2 DEF CancelStores, Sized
  <2>3. CASE AllReported
    BY <1>1, <1>2, <1>3, <2>3 DEF AllReported, Reported, Sized, bodyVars, diskVars,
       reportVars, schedulerVars, SomeFailed, SizeKnown
  <2>4. CASE RegisterPlannedFile
    BY <1>1, <1>2, <1>3, <2>4 DEF RegisterPlannedFile, Sized, stageVars, reportVars,
       schedulerVars, SomeFailed, SizeKnown
  <2>5. CASE ~CancelStores /\ stage' \notin {"precheck", "report", "examine"}
    BY <1>1, <1>2, <1>3, <2>1, <2>5 DEF Sized
  <2> QED
    BY <1>2, <1>3, <1>4, <2>2, <2>3, <2>4, <2>5
    DEF StageStep, CheckAllTasks, CheckGivesUp, BeginCanceling, CancelTests,
        CancelStops, EndCanceling, JoinAndFail, StopOnFailure, SpaceCheckFails,
        SpaceCheckPasses, CollectPaths, PathsFound, PathsMissing
<1>5. CASE \/ Frame /\ (UserInterrupts \/ WorkerLoopStep)
           \/ UNCHANGED vars
  <2>1. /\ UNCHANGED <<bodyVars, stageVars, status, tracker>>
        /\ worker = "running" => UNCHANGED <<worker, current>>
    BY <1>5, OthersLeaveSpace
  <2>2. UNCHANGED <<index, verdict>> /\ (runner' = runner \/ runner' = "awake")
    BY <1>5
    DEF UserInterrupts, WorkerLoopStep, CompletesAndWakes, TakesNext, vars, reportVars
  <2>3. body # "none" => UNCHANGED current
    BY <1>1, <2>1 DEF Calls
  <2> QED
    BY <1>1, <1>2, <1>3, <2>1, <2>2, <2>3
    DEF Sized, bodyVars, diskVars, stageVars, SomeFailed, SizeKnown
<1>6. CASE Reporting /\ Frame /\ (RunnerStep \/ WaitTimesOut \/ UserContinues \/ UserStops)
  <2>1. /\ UNCHANGED <<bodyVars, stageVars, status, tracker>>
        /\ worker = "running" => UNCHANGED <<worker, current>>
    BY <1>6, OthersLeaveSpace
  <2>2. body # "none" => UNCHANGED current
    BY <1>1, <2>1 DEF Calls
  <2>3. Len(tracker) \in Nat
    BY <1>3, DownloadAssumption
  <2>4. /\ index' \in index .. Len(tracker)
        /\ \A i \in (index + 1) .. index' : IsOver(status[tracker[i]])
        /\ runner' = "joining" => index' = Len(tracker)
        /\ runner' = "reported" /\ verdict' => index' = Len(tracker)
    <3>1. CASE UpdateAndWait
      <4>1. index # Len(tracker) /\ index' = AdvancedIndex
            /\ (runner' = "joining" => index' = Len(tracker)) /\ runner' # "reported"
        BY <2>1, <3>1 DEF UpdateAndWait, TrackerFinished, AfterWait
      <4> QED
        BY <1>3, <2>3, <4>1, Advances
    <3>2. CASE ~UpdateAndWait
      <4>1. index' = index /\ index \in index .. Len(tracker)
        BY <1>3, <1>6, <2>3, <3>2
        DEF RunnerStep, WaitTimesOut, UserContinues, UserStops, StartReporting,
            LoopEnds, WaitWithoutHandler, TestInterrupt, JoinAndReport
      <4>2. \A i \in (index + 1) .. index : FALSE
        BY <1>3
      <4>3. /\ runner' = "joining" => index = Len(tracker)
            /\ runner' = "reported" /\ verdict' => index = Len(tracker)
        BY <1>1, <1>2, <1>6, <3>2
        DEF RunnerStep, WaitTimesOut, UserContinues, UserStops, StartReporting,
            LoopEnds, WaitWithoutHandler, TestInterrupt, JoinAndReport,
            TrackerFinished, AfterWait, Sized
      <4> QED
        BY <4>1, <4>2, <4>3
    <3> QED
      BY <3>1, <3>2
  <2>5. stage = "report" /\ stage' = "report"
    BY <1>6, <2>1 DEF Reporting, stageVars
  <2>6. index' \in 0 .. Len(tracker) /\ (\A i \in 1 .. index' :
                                            i \in 1 .. index \/ i \in (index + 1) .. index')
    BY <1>3, <2>3, <2>4
  <2>7. \A i \in 1 .. index : IsOver(status[tracker[i]])
    BY <1>1, <1>2, <2>5 DEF Sized
  <2>8. \A i \in 1 .. index' : IsOver(status'[tracker'[i]])
    BY <2>1, <2>4, <2>6, <2>7
  <2> QED
    BY <1>1, <1>2, <1>3, <2>1, <2>2, <2>4, <2>5, <2>6, <2>8
    DEF Sized, bodyVars, diskVars, stageVars, SomeFailed, SizeKnown
<1>7. ~VolumeFills
  BY <1>2 DEF VolumeFills
<1> QED
  BY <1>2, <1>4, <1>5, <1>6, <1>7, BodyKeepsSized, StepsOf

(* Mutual support: no part of the invariant holds without the others. *)
LEMMA SpaceInvKept == SpaceInv /\ [Next]_vars => SpaceInv'
  BY InductiveStep, TypesKept, CallsKept, PlanKept, SizedKept, FetchedKept,
     EnoughKept, SufficesKept
  DEF SpaceInv

LEMMA SpaceInvInitially == Init => SpaceInv
<1> SUFFICES ASSUME Init PROVE SpaceInv
  OBVIOUS
<1>1. IInv
  BY DEF Init, IInv
<1>2. Types
  BY NothingPlannedIsTracker DEF Init, Types, Status
<1>3. Calls
  BY ListedTasks DEF Init, Calls, ReadyToReport, SchedulerHolds
<1>4. PlanAgrees
  BY NothingPlannedIsTracker DEF Init, PlanAgrees, ChecksFirst
<1>5. Sized
  <2>1. Len(Files) \in Nat
    BY DownloadAssumption
  <2> QED
    BY <2>1 DEF Init, Sized, ReadyToReport, ChecksFirst
<1>6. Fetched /\ CheckedSpaceSuffices
  BY DEF Init, Fetched, CheckedSpaceSuffices
<1>7. SpaceHolds
  <2>1. phase = "fetching" => space = NothingPlanned /\ free \in [Mounts -> Nat]
    BY DEF Init
  <2>2. \A v \in Mounts : Required(NothingPlanned, v) = 0
    BY DEF Required, NothingPlanned
  <2>3. body = "none"
    BY DEF Init
  <2> QED
    BY <2>1, <2>2, <2>3 DEF SpaceHolds, JustFetched, HasEnoughSpace
<1> QED
  BY <1>1, <1>2, <1>3, <1>4, <1>5, <1>6, <1>7 DEF SpaceInv

(* What CheckDiskSpace has let pass fits: whatever the volumes, the sizes   *)
(* and the order of the files, the lambda of a task finds too little space *)
(* after a transfer (download_stage.cpp:226) only if another program has   *)
(* taken some, or if a file was fetched whose URL the plan has with another *)
(* destination only (download_stage.cpp:374).                              *)
THEOREM SpaceOnceCheckedSuffices == Spec => []CheckedSpaceSuffices
<1>1. SpaceInv => CheckedSpaceSuffices
  BY DEF SpaceInv
<1> QED
  BY SpaceInvInitially, SpaceInvKept, <1>1, PTL DEF Spec

=============================================================================
