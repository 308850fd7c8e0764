---------------------------- MODULE ResultsHistory ----------------------------
(***************************************************************************)
(* results.json and the history page of the graphical client. The file has *)
(* one line per result: BenchmarkLogger appends them while a benchmark     *)
(* runs, the page reads them after it, and deletes rows of the page by     *)
(* rewriting the file in place. A line that does not parse has no row on   *)
(* the page, but is counted when the file is rewritten.                    *)
(***************************************************************************)
EXTENDS Naturals, SequencesExt

CONSTANT MaxResults  (* bound: results appended                            *)

ASSUME HistoryAssumption == MaxResults \in Nat

VARIABLES
  file,     (* the lines of results.json: [ids, parses]                    *)
  open,     (* its last line has no end                                    *)
  phase,    (* what the client is doing                                    *)
  shown,    (* results_, and the rows of the page's model                  *)
  rows,     (* selected_rows of a deletion,                                *)
  left,     (* those of them that are still to be erased,                  *)
  lines,    (* and the lines RemoveResultsFromFile has read                *)
  next,     (* the line a loop is at                                       *)
  stored,   (* results appended so far                                     *)
  selected, (* results the user selected and deleted                       *)
  damage    (* what happened that the code does not provide for            *)

pageVars == <<shown, rows, left, selected>>
resultsVars == <<file, open, phase, pageVars, lines, next, stored, damage>>

Result == 1 .. MaxResults
Line == [ids : SUBSET Result, parses : BOOLEAN]

HistoryTypeOK ==
  /\ file \in Seq(Line) /\ lines \in Seq(Line)
  /\ open \in BOOLEAN
  /\ phase \in {"down", "loading", "idle", "running", "erasing", "read", "writing"}
  /\ shown \in Seq(Result)
  /\ rows \subseteq Nat /\ left \subseteq rows
  /\ next \in Nat
  /\ stored \in 0 .. MaxResults
  /\ selected \subseteq Result
  /\ damage \subseteq {"rewrite", "shifted", "stale"}

HistoryInit ==
  /\ file = << >> /\ open = FALSE
  /\ phase = "down" /\ shown = << >>
  /\ rows = {} /\ left = {} /\ lines = << >> /\ next = 1
  /\ stored = 0 /\ selected = {} /\ damage = {}

-----------------------------------------------------------------------------
(* A line goes to the end of the file, which may be the middle of a line.  *)
Extended(f, line) ==
  IF open
  THEN Append(Front(f), [ids |-> Last(f).ids \cup line.ids, parses |-> FALSE])
  ELSE Append(f, line)

(* Mutant: the file is opened for writing from its start. *)
AppendBenchmarkResult_Truncates ==
  /\ phase \in {"idle", "running"} /\ stored < MaxResults
  /\ phase' = "running"
  /\ stored' = stored + 1
  /\ file' = <<[ids |-> {stored + 1}, parses |-> TRUE]>>
  /\ open' = FALSE
  /\ UNCHANGED <<pageVars, lines, next, damage>>

(* A task of a benchmark that runs, and one that was just started.         *)
AppendBenchmarkResult ==
  /\ phase \in {"idle", "running"} /\ stored < MaxResults
  /\ phase' = "running"
  /\ stored' = stored + 1
  /\ file' = Extended(file, [ids |-> {stored + 1}, parses |-> TRUE])
  /\ open' = FALSE
  /\ UNCHANGED <<pageVars, lines, next, damage>>

(* The client dies while the line is written: a part of it, or all but its *)
(* end, is in the file.                                                    *)
CrashInAppend ==
  /\ phase \in {"idle", "running"} /\ stored < MaxResults
  /\ phase' = "down"
  /\ stored' = stored + 1
  /\ \E whole \in BOOLEAN :
       file' = Extended(file, [ids |-> {stored + 1}, parses |-> whole])
  /\ open' = TRUE
  /\ UNCHANGED <<pageVars, lines, next, damage>>

-----------------------------------------------------------------------------
(* LoadHistory, when the logs are set up and when a benchmark has ended.   *)

LoadHistory ==
  /\ phase \in {"down", "running", "idle"}
  /\ phase' = "loading"
  /\ shown' = << >>
  /\ damage' = damage \ {"stale"}
  /\ UNCHANGED <<file, open, rows, left, lines, next, stored, selected>>

(* A file that cannot be opened has no results.                            *)
LoadFails ==
  /\ phase = "loading" /\ next = 1
  /\ phase' = "idle"
  /\ damage' = damage \cup {"stale"}
  /\ UNCHANGED <<file, open, pageVars, lines, next, stored>>

IdOf(line) == CHOOSE id \in line.ids : TRUE

(* ReadResultsFromFile, line by line.                                      *)
ReadLine ==
  /\ phase = "loading" /\ next <= Len(file)
  /\ shown' = IF file[next].parses THEN Append(shown, IdOf(file[next])) ELSE shown
  /\ next' = next + 1
  /\ UNCHANGED <<file, open, phase, rows, left, lines, stored, selected, damage>>

EndLoad ==
  /\ phase = "loading" /\ next > Len(file)
  /\ phase' = "idle"
  /\ next' = 1
  /\ UNCHANGED <<file, open, pageVars, lines, stored, damage>>

-----------------------------------------------------------------------------
(* OnDeleteHistoryRequested *)

(* A line that has no row stands before the line of one of these rows.     *)
Shifts(chosen) ==
  \E r \in chosen : \E i \in 1 .. r : i \in DOMAIN file => ~file[i].parses

(* The user has chosen rows.  The file will lose the lines of these        *)
(* indexes.                                                                *)
DeleteRows ==
  /\ phase = "idle"
  /\ \E chosen \in SUBSET (1 .. Len(shown)) :
       /\ chosen # {}
       /\ rows' = chosen /\ left' = chosen
       /\ selected' = selected \cup {shown[r] : r \in chosen}
       /\ damage' = IF Shifts(chosen) \/ "stale" \in damage
                    THEN damage \cup {"shifted", "stale"} ELSE damage
  /\ phase' = "erasing"
  /\ UNCHANGED <<file, open, shown, lines, next, stored>>

(* Mutant: the rows are erased in ascending order. *)
EraseRow_Ascending ==
  /\ phase = "erasing"
  /\ \E r \in left :
       /\ \A q \in left : r <= q
       /\ shown' = IF r <= Len(shown) THEN RemoveAt(shown, r) ELSE shown
       /\ left' = left \ {r}
  /\ UNCHANGED <<file, open, phase, rows, lines, next, stored, selected, damage>>

(* The rows are erased from the greatest down.                             *)
EraseRow ==
  /\ phase = "erasing"
  /\ \E r \in left :
       /\ \A q \in left : q <= r
       /\ shown' = RemoveAt(shown, r)
       /\ left' = left \ {r}
  /\ UNCHANGED <<file, open, phase, rows, lines, next, stored, selected, damage>>

AllErased == phase = "erasing" /\ left = {}

(* RemoveResultsFromFile reads all lines, ...                              *)
ReadLines ==
  /\ AllErased
  /\ phase' = "read"
  /\ lines' = file
  /\ UNCHANGED <<file, open, pageVars, next, stored, damage>>

(* ... if the file can be opened, for reading and then for writing.        *)
OpenFails ==
  /\ AllErased \/ phase = "read"
  /\ phase' = "idle"
  /\ rows' = {} /\ lines' = << >>
  /\ damage' = damage \cup {"stale"}
  /\ UNCHANGED <<file, open, shown, left, next, stored, selected>>

Truncate ==
  /\ phase = "read"
  /\ phase' = "writing"
  /\ file' = << >> /\ open' = FALSE
  /\ UNCHANGED <<pageVars, lines, next, stored, damage>>

WriteLine ==
  /\ phase = "writing" /\ next <= Len(lines)
  /\ file' = IF next \in rows THEN file ELSE Append(file, lines[next])
  /\ next' = next + 1
  /\ UNCHANGED <<open, phase, pageVars, lines, stored, damage>>

(* The locals of the deletion go. *)
DeletionEnds == rows' = {} /\ left' = {} /\ lines' = << >> /\ next' = 1

EndDelete ==
  /\ phase = "writing" /\ next > Len(lines)
  /\ phase' = "idle"
  /\ DeletionEnds
  /\ UNCHANGED <<file, open, shown, stored, selected, damage>>

(* The client is closed, or dies with the file read or half written.       *)
Close ==
  /\ phase = "idle"
  /\ phase' = "down" /\ shown' = << >>
  /\ UNCHANGED <<file, open, rows, left, lines, next, stored, selected, damage>>

ToWrite == {k \in next .. Len(lines) : k \notin rows}

(* What was not written is lost; of one line a part may be there.          *)
CrashInDelete ==
  /\ phase \in {"erasing", "read", "writing"}
  /\ phase' = "down" /\ shown' = << >>
  /\ DeletionEnds
  /\ IF phase = "writing" /\ ToWrite # {}
     THEN /\ damage' = damage \cup {"rewrite"}
          /\ \/ UNCHANGED <<file, open>>
             \/ /\ next \in ToWrite
                /\ \E whole \in BOOLEAN :
                     file' = Append(file, [lines[next] EXCEPT !.parses = @ /\ whole])
                /\ open' = TRUE
     ELSE UNCHANGED <<file, open, damage>>
  /\ UNCHANGED <<stored, selected>>

-----------------------------------------------------------------------------
HistoryNext ==
  \/ AppendBenchmarkResult \/ CrashInAppend
  \/ LoadHistory \/ LoadFails \/ ReadLine \/ EndLoad
  \/ DeleteRows \/ EraseRow \/ ReadLines \/ OpenFails \/ Truncate \/ WriteLine \/ EndDelete
  \/ Close \/ CrashInDelete

HistorySpec == HistoryInit /\ [][HistoryNext]_resultsVars

-----------------------------------------------------------------------------
(* Properties *)

(* The lines 1 .. k go, in their order, to those in places. *)
InOrder(line, k, places) ==
  /\ \A a, b \in 1 .. k : a < b => line[a] < line[b]
  /\ {line[a] : a \in 1 .. k} = places

(* s is the results of the first n lines of f that parse, without those    *)
(* whose index is in gone, in the order of the lines.                      *)
Lists(s, f, n, gone) ==
  \E line \in [1 .. Len(s) -> 1 .. n] :
    /\ InOrder(line, Len(s), {j \in 1 .. n : f[j].parses /\ j \notin gone})
    /\ \A a \in 1 .. Len(s) : s[a] = IdOf(f[line[a]])

(* The rows of the page are the results in the file, in their order, so    *)
(* that a later deletion finds its lines by their index.  This ends, until *)
(* the page is loaded again, when the file cannot be opened or a deletion  *)
(* finds a line that does not parse before those of its rows.              *)
ShownIsStored ==
  phase = "idle" /\ "stale" \notin damage => Lists(shown, file, Len(file), {})

(* A result that was appended and never selected is still in the file,     *)
(* though its line may not parse, unless the file is just being rewritten: *)
(* only a deletion that died half way, that counted a line without a row,  *)
(* or that followed one that could not open the file, loses others than    *)
(* the selected ones.                                                      *)
OnlySelectedAreLost ==
  phase # "writing" /\ damage \cap {"shifted", "rewrite"} = {}
    => \A r \in 1 .. stored :
         r \notin selected => \E i \in 1 .. Len(file) : r \in file[i].ids

=============================================================================
