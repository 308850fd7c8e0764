------------------------------ MODULE DiskSpace ------------------------------
(***************************************************************************)
(* DiskSpaceTracker (src/CIL/disk_space_tracker.cpp): the bytes that are   *)
(* still to be written, per volume, against the free space.  A volume is   *)
(* the mount point above a destination, found through its nearest directory*)
(* that exists.  A path is the sequence of its names; the root is << >>.   *)
(***************************************************************************)
EXTENDS Integers, SequencesExt

CONSTANT Mounts   (* the mount points *)

ASSUME MountsAssumption == << >> \in Mounts /\ Mounts \subseteq Seq(STRING)

Longest(paths) == CHOOSE p \in paths : \A q \in paths : Len(q) <= Len(p)

(* The loop over the parents; the root always exists. *)
FirstExistingAncestor(path, directories) ==
  Longest({<< >>} \cup {d \in directories : IsStrictPrefix(d, path)})

(* The longest entry of the mount table that leads to the directory. *)
MountPointOf(directory) == Longest({m \in Mounts : IsPrefix(m, directory)})

VolumeOf(path, directories) ==
  MountPointOf(FirstExistingAncestor(path, directories))

(* files_ and volumes_ of a new tracker. *)
NothingPlanned == [files   |-> << >>,
                   bytes   |-> [v \in Mounts |-> 0],
                   largest |-> [v \in Mounts |-> 0]]

(* A file without bytes, or one that is known, is not counted. *)
RegisterPlannedDownload(tracker, path, size, directories) ==
  IF size = 0 \/ path \in DOMAIN tracker.files THEN tracker
  ELSE LET v == VolumeOf(path, directories) IN
       [files   |-> [p \in DOMAIN tracker.files \cup {path} |->
                       IF p = path THEN size ELSE tracker.files[p]],
        bytes   |-> [tracker.bytes EXCEPT ![v] = @ + size],
        largest |-> [tracker.largest EXCEPT ![v] = IF size > @ THEN size ELSE @]]

(* Half of the largest file is kept for the merge of its chunks, as long as *)
(* anything is to be written there.                                         *)
Required(tracker, v) ==
  IF tracker.bytes[v] = 0 THEN 0 ELSE tracker.bytes[v] + tracker.largest[v] \div 2

HasEnoughSpace(tracker, free) == \A v \in Mounts : Required(tracker, v) <= free[v]

(* Mutant: the bytes of the file stay in the sum. *)
MarkCompleted_KeepsBytes(tracker, path, directories) ==
  [tracker EXCEPT !.files = Restrict(@, DOMAIN @ \ {path})]

(* The file is written: its bytes leave the sum, the largest stays what it  *)
(* was.                                                                     *)
MarkCompleted(tracker, path, directories) ==
  IF path \notin DOMAIN tracker.files THEN tracker
  ELSE LET v    == VolumeOf(path, directories)
           size == tracker.files[path]
       IN  [tracker EXCEPT !.files    = Restrict(@, DOMAIN @ \ {path}),
                           !.bytes[v] = IF @ > size THEN @ - size ELSE 0]

=============================================================================
