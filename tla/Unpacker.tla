------------------------------- MODULE Unpacker -------------------------------
(***************************************************************************)
(* Unpacker::UnpackFilesFromZIP, whose extraction runs in a detached       *)
(* thread the caller waits for until a time-out and never again, and       *)
(* Unpacker::UnpackAsset, which writes a file built into the program. Both *)
(* take a file of the right size for the file they would write. The        *)
(* process may die at any step; a new edition of the archive may come.     *)
(*                                                                         *)
(* A file is the sequence of its pieces: the number of the edition a piece *)
(* is of, 0 for a hole. <<>> is a file without contents, or none at all.   *)
(***************************************************************************)
EXTENDS Naturals, Sequences

CONSTANTS
  Entries,     (* the files of the archive, in its order: 1 .. Entries       *)
  Resized,     (* those whose size is another one in each edition            *)
  Windows,     (* the shell of Windows is there to fall back on              *)
  MaxCalls,    (* bound: calls of UnpackFilesFromZIP                         *)
  MaxEditions  (* bound: editions of the archive                             *)

ASSUME UnpackerAssumption ==
  /\ Entries \in Nat \ {0} /\ Resized \subseteq 1 .. Entries
  /\ Windows \in BOOLEAN
  /\ MaxCalls \in Nat \ {0} /\ MaxEditions \in Nat \ {0}

VARIABLES
  files,     (* the destination of each entry                                *)
  edition,   (* of the archive on the disk                                   *)
  workers,   (* the detached thread of each call                             *)
  calls,     (* calls that got to starting one                               *)
  client,    (* what the caller is doing                                     *)
  answer,    (* what UnpackFilesFromZIP returned last                        *)
  asset,     (* the file of the built-in asset                               *)
  listed,    (* it is in unpacked_files_                                     *)
  delivered, (* UnpackAsset returned true for it                             *)
  mishaps    (* history: what has gone wrong that nobody noticed             *)

zip == <<files, edition, workers, calls, answer>>
assets == <<asset, listed, delivered>>
unpackerVars == <<zip, client, assets, mishaps>>

Thread == 1 .. MaxCalls
Entry == 1 .. Entries
Edition == 1 .. MaxEditions

Size(e, ed) == IF e \in Resized THEN 1 + ed ELSE 2
AssetParts == 2

Worker == [pc : {"none", "start", "check", "open", "write", "shell", "copying", "done"},
           entry : 1 .. Entries + 1, piece : Nat, edition : Edition,
           bad : BOOLEAN, result : {"nothing", "files"}]

NoWorker == [pc |-> "none", entry |-> 1, piece |-> 1, edition |-> 1,
             bad |-> FALSE, result |-> "nothing"]

UnpackerTypeOK ==
  /\ \A e \in Entry : files[e] \in Seq(0 .. MaxEditions)
  /\ edition \in Edition
  /\ workers \in [Thread -> Worker]
  /\ calls \in 0 .. MaxCalls
  /\ client \in {"down", "idle", "sizing", "waiting", "asset"}
  /\ answer \in {"none", "nothing", "files"}
  /\ asset \in Seq({1})
  /\ listed \in BOOLEAN /\ delivered \in BOOLEAN
  /\ mishaps \subseteq {"full", "overlap", "shell"}

UnpackerInit ==
  /\ files = [e \in Entry |-> <<>>]
  /\ edition = 1
  /\ workers = [w \in Thread |-> NoWorker]
  /\ calls = 0
  /\ client = "down"
  /\ answer = "none"
  /\ asset = <<>> /\ listed = FALSE /\ delivered = FALSE
  /\ mishaps = {}

Start ==
  /\ client = "down"
  /\ client' = "idle"
  /\ UNCHANGED <<zip, assets, mishaps>>

(* The threads go with the process, in the middle of a file or not.        *)
Die ==
  /\ client # "down"
  /\ client' = "down"
  /\ workers' = [w \in Thread |-> [NoWorker EXCEPT !.pc = "done"]]
  /\ answer' = "none"
  /\ listed' = FALSE /\ delivered' = FALSE
  /\ UNCHANGED <<files, edition, calls, asset, mishaps>>

(* An archive that is being read is the one that was opened.               *)
Republish ==
  /\ client \in {"down", "idle"}
  /\ edition < MaxEditions
  /\ edition' = edition + 1
  /\ answer' = "none"
  /\ UNCHANGED <<files, workers, calls, client, assets, mishaps>>

-----------------------------------------------------------------------------
(* UnpackFilesFromZIP *)

Unpack ==
  /\ client = "idle" /\ calls < MaxCalls
  /\ client' = "sizing"
  /\ UNCHANGED <<zip, assets, mishaps>>

Returns(result) == client' = "idle" /\ answer' = result

(* No archive or an empty one, the size not known in time, not enough      *)
(* space on the disk, an exception.                                        *)
Refuse ==
  /\ client = "sizing"
  /\ Returns("nothing")
  /\ UNCHANGED <<files, edition, workers, calls, assets, mishaps>>

AtWork(w) == workers[w].pc \in {"start", "check", "open", "write", "shell"}

StartWorker ==
  /\ client = "sizing"
  /\ client' = "waiting"
  /\ calls' = calls + 1
  /\ workers' = [workers EXCEPT ![calls + 1] =
                   [NoWorker EXCEPT !.pc = "start"]]
  /\ mishaps' = IF \E w \in Thread : AtWork(w) \/ workers[w].pc = "copying"
                THEN mishaps \cup {"overlap"} ELSE mishaps
  /\ UNCHANGED <<files, edition, answer, assets>>

TimesOut ==
  /\ client = "waiting" /\ AtWork(calls)
  /\ Returns("nothing")
  /\ UNCHANGED <<files, edition, workers, calls, assets, mishaps>>

Answered ==
  /\ client = "waiting" /\ workers[calls].pc \in {"copying", "done"}
  /\ Returns(workers[calls].result)
  /\ UNCHANGED <<files, edition, workers, calls, assets, mishaps>>

-----------------------------------------------------------------------------
(* UnZipUsingMinizip, in the thread *)

WorkerStays == UNCHANGED <<edition, calls, client, answer, assets>>

Here(w) == workers[w].entry
Whole(e, ed) == [i \in 1 .. Size(e, ed) |-> ed]

Ends(w, pc, result) ==
  workers' = [workers EXCEPT ![w] = [NoWorker EXCEPT !.pc = pc, !.result = result,
                                                     !.edition = workers[w].edition]]

OpenArchive(w) ==
  /\ workers[w].pc = "start"
  /\ workers' = [workers EXCEPT ![w].pc = "check", ![w].edition = edition]
  /\ UNCHANGED <<files, mishaps>> /\ WorkerStays

NextEntry(w) ==
  workers' = [workers EXCEPT ![w].pc = "check", ![w].entry = @ + 1,
                                   ![w].piece = 1, ![w].bad = FALSE]

CheckEntry(w) ==
  /\ workers[w].pc = "check" /\ Here(w) \in Entry
  /\ IF Len(files[Here(w)]) = Size(Here(w), workers[w].edition) THEN NextEntry(w)
     ELSE workers' = [workers EXCEPT ![w].pc = "open"]
  /\ UNCHANGED <<files, mishaps>> /\ WorkerStays

(* Mutant: the file is given its size before its contents. *)
OpenEntry_Preallocates(w) ==
  /\ workers[w].pc = "open"
  /\ files' = [files EXCEPT ![Here(w)] =
                 [i \in 1 .. Size(Here(w), workers[w].edition) |-> 0]]
  /\ workers' = [workers EXCEPT ![w].pc = "write"]
  /\ UNCHANGED mishaps /\ WorkerStays

(* std::ofstream cuts off what is there.                                   *)
OpenEntry(w) ==
  /\ workers[w].pc = "open"
  /\ files' = [files EXCEPT ![Here(w)] = <<>>]
  /\ workers' = [workers EXCEPT ![w].pc = "write"]
  /\ UNCHANGED mishaps /\ WorkerStays

(* A piece goes to its place, behind a hole if the file has become shorter *)
(* since.                                                                  *)
Put(file, i, ed) ==
  [j \in 1 .. (IF i > Len(file) THEN i ELSE Len(file)) |->
     IF j = i THEN ed ELSE IF j <= Len(file) THEN file[j] ELSE 0]

(* A stream that could not write writes no more; nobody looks at it, what  *)
(* was read of the archive is compared with the size.  (An archive whose   *)
(* data are damaged ends the program: the negative answer of the reader,   *)
(* kept in a uint32_t, is taken for a length.)                             *)
WritePiece(w) ==
  /\ workers[w].pc = "write"
  /\ workers[w].piece <= Size(Here(w), workers[w].edition)
  /\ \/ /\ ~workers[w].bad
        /\ files' = [files EXCEPT ![Here(w)] = Put(@, workers[w].piece, workers[w].edition)]
        /\ workers' = [workers EXCEPT ![w].piece = @ + 1]
        /\ UNCHANGED mishaps
     \/ /\ workers' = [workers EXCEPT ![w].piece = @ + 1, ![w].bad = TRUE]
        /\ mishaps' = mishaps \cup {"full"}
        /\ UNCHANGED files
  /\ WorkerStays

EntryWritten(w) ==
  /\ workers[w].pc = "write"
  /\ workers[w].piece > Size(Here(w), workers[w].edition)
  /\ NextEntry(w)
  /\ UNCHANGED <<files, mishaps>> /\ WorkerStays

(* Any other step that fails clears the list of what was unpacked, which   *)
(* the shell is there to make up for; an exception goes past it.           *)
UnZipFails(w) ==
  /\ workers[w].pc \in {"start", "check", "open", "write"}
  /\ \/ Windows /\ Ends(w, "shell", "nothing")
     \/ Ends(w, "done", "nothing")
  /\ UNCHANGED <<files, mishaps>> /\ WorkerStays

AllUnpacked(w) ==
  /\ workers[w].pc = "check" /\ Here(w) = Entries + 1
  /\ Ends(w, "done", "files")
  /\ UNCHANGED <<files, mishaps>> /\ WorkerStays

(* WinApiExtractZip opens the archive again.  The names are the answer;    *)
(* what the shell copies, it copies afterwards.                            *)
ShellAnswers(w) ==
  /\ workers[w].pc = "shell"
  /\ \/ /\ workers' = [workers EXCEPT ![w] =
                       [NoWorker EXCEPT !.pc = "copying", !.result = "files",
                                        !.edition = edition]]
        /\ mishaps' = mishaps \cup {"shell"}
     \/ Ends(w, "done", "nothing") /\ UNCHANGED mishaps
  /\ UNCHANGED files /\ WorkerStays

(* Of Windows: some of the files, as far as it gets.                       *)
ShellCopies(w) ==
  /\ workers[w].pc = "copying"
  /\ \E e \in Entry : \E i \in 1 .. Size(e, workers[w].edition) :
       files' = [files EXCEPT ![e] = SubSeq(Whole(e, workers[w].edition), 1, i)]
  /\ UNCHANGED <<workers, mishaps>> /\ WorkerStays

-----------------------------------------------------------------------------
(* UnpackAsset and ExtractFileFromMemory, in the caller *)

AssetDelivered == client' = "idle" /\ listed' = TRUE /\ delivered' = TRUE

(* A file of the asset's size is taken for the asset.                      *)
AssetIsThere == Len(asset) = AssetParts

(* A file that is listed is not looked at again, unless forced.            *)
UnpackAsset(forced) ==
  /\ client = "idle"
  /\ IF (~forced /\ listed) \/ AssetIsThere
     THEN AssetDelivered /\ UNCHANGED asset
     ELSE /\ client' = "asset" /\ asset' = <<>>
          /\ delivered' = FALSE /\ UNCHANGED listed
  /\ UNCHANGED <<zip, mishaps>>

(* The file cannot be written to; macOS has removed a library before.      *)
AssetFails(forced) ==
  /\ client = "idle"
  /\ forced \/ ~listed
  /\ ~AssetIsThere
  /\ delivered' = FALSE
  /\ asset' \in {asset, <<>>}
  /\ UNCHANGED <<zip, client, listed, mishaps>>

(* The parts are counted as they are handed to the stream.                 *)
WriteAsset ==
  /\ client = "asset"
  /\ \/ /\ asset' = Append(asset, 1)
        /\ IF Len(asset') = AssetParts THEN AssetDelivered
           ELSE UNCHANGED <<client, listed, delivered>>
        /\ UNCHANGED mishaps
     \/ mishaps' = mishaps \cup {"full"} /\ AssetDelivered /\ UNCHANGED asset
  /\ UNCHANGED zip

UnpackerNext ==
  \/ Start \/ Die \/ Republish
  \/ Unpack \/ Refuse \/ StartWorker \/ TimesOut \/ Answered
  \/ \E w \in Thread :
       \/ OpenArchive(w)
       \/ CheckEntry(w) \/ OpenEntry(w) \/ WritePiece(w) \/ EntryWritten(w)
       \/ UnZipFails(w) \/ AllUnpacked(w) \/ ShellAnswers(w) \/ ShellCopies(w)
  \/ \E forced \in BOOLEAN : UnpackAsset(forced) \/ AssetFails(forced)
  \/ WriteAsset

UnpackerSpec == UnpackerInit /\ [][UnpackerNext]_unpackerVars

-----------------------------------------------------------------------------
(* Properties *)

(* The files a call names as unpacked are whole and of the archive's       *)
(* edition, or of an earlier one in which they had the same size, also     *)
(* after calls that failed or timed out and processes that died. Three     *)
(* mishaps go unnoticed: a disk that is full, the thread of a call that    *)
(* timed out and still writes, and the shell, which answers before it has  *)
(* copied. So is an asset UnpackAsset has returned true for, unless the    *)
(* disk was full.                                                          *)
UnpackedIsWhole ==
  /\ answer = "files" /\ client = "idle" /\ mishaps = {} =>
       \A e \in Entry : \E ed \in Edition :
         /\ files[e] = Whole(e, ed)
         /\ Size(e, ed) = Size(e, edition)
  /\ delivered /\ "full" \notin mishaps => Len(asset) = AssetParts

=============================================================================
