--------------------------- MODULE InferenceRunMC ----------------------------
(***************************************************************************)
(* The instance of InferenceRun that is checked, and, before it, the tools *)
(* an agentic prompt of it runs (LLMTools), over short texts and short     *)
(* runs of tools, and what is made of the answers of other prompts         *)
(* (LLMResults), over all runs of up to two prompts of two sessions, one   *)
(* of them a warm-up. They are compared with what a reader takes the       *)
(* objects of a text for, with what llm_tools.h says of a run of tools,    *)
(* and with what a reader takes the results for.                           *)
(***************************************************************************)
EXTENDS InferenceRun, LLMTools, LLMResults, FiniteSets

(* LLMTools                                                                *)

(* Texts of one line.                                                      *)
Tokens == {"{", "}", Quote, Backslash, "word"}
Texts == UNION {[1 .. n -> Tokens] : n \in 0 .. 6}

(* A token is read as text of a string when an odd number of quotes that   *)
(* count stands before it; a quote counts unless the token before it is a  *)
(* backslash of a string that itself counts.                               *)
Marks(tokens, start) ==
  LET mark[i \in start - 1 .. Len(tokens)] ==
        IF i = start - 1 THEN [inside |-> FALSE, escaped |-> FALSE]
        ELSE [inside |-> mark[i - 1].inside # (tokens[i] = Quote /\ ~mark[i - 1].escaped),
              escaped |-> tokens[i] = Backslash /\ mark[i - 1].inside /\ ~mark[i - 1].escaped]
  IN  mark

(* Braces that are not of a string, up to i.                               *)
Braces(tokens, start, i, brace) ==
  LET mark == Marks(tokens, start) IN
  Cardinality({j \in start .. i : tokens[j] = brace /\ ~mark[j].inside})

(* The object that begins with a brace ends where, for the first time, as  *)
(* many of its braces were closed as opened.                               *)
ASSUME ObjectsEndWhereTheyClose ==
  \A tokens \in Texts : \A start \in {i \in DOMAIN tokens : tokens[i] = "{"} :
    LET closed == {i \in start .. Len(tokens) :
                     Braces(tokens, start, i, "{") = Braces(tokens, start, i, "}")}
    IN  FindMatchingBrace(tokens, start) = IF closed = {} THEN 0 ELSE Min(closed)

-----------------------------------------------------------------------------
(* JSON without its commas: an object is a sequence of strings and objects *)
(* between braces; what it is worth is where it stands in the text.        *)
Invalid == [kind |-> "invalid", type |-> "", items |-> << >>, block |-> << >>]

IsObject(tokens) ==
  /\ tokens # << >> /\ tokens[1] = "{" /\ FindMatchingBrace(tokens, 1) = Len(tokens)
  /\ LET mark == Marks(tokens, 1) IN
     \A i \in DOMAIN tokens :
       i > 1 /\ ~mark[i].inside /\ ~mark[i - 1].inside => tokens[i] \in {"{", "}"}

ParseObject(tokens) ==
  IF IsObject(tokens)
  THEN [kind |-> "object", type |-> "tool_use", items |-> << >>, block |-> tokens]
  ELSE Invalid

(* Wherever they stand in other words, the objects of a text are found:    *)
(* each one that is not is a part of, or overlaps, one that begins before  *)
(* it, and those found follow one another.                                 *)
ASSUME AllObjectsAreFound ==
  \A tokens \in Texts :
    LET spans == ObjectSpans(tokens, [part \in Texts |-> ParseObject(part)])
        objects == {s \in [from : DOMAIN tokens, to : DOMAIN tokens] :
                      s.from < s.to /\ IsObject(SubSeq(tokens, s.from, s.to))}
    IN  /\ ToSet(spans) \subseteq objects
        /\ \A i \in 1 .. Len(spans) - 1 : spans[i].to < spans[i + 1].from
        /\ \A o \in objects : \/ o \in ToSet(spans)
                              \/ \E s \in ToSet(spans) : s.from < o.from /\ o.from <= s.to

-----------------------------------------------------------------------------
(* The values of a text: calls, the like of calls, and lists of them.      *)
Call(n) == [kind |-> "object", type |-> "tool_use", items |-> << >>, block |-> n]
Other(type) == [kind |-> "object", type |-> type, items |-> << >>, block |-> 0]
Items == SeqOf({Call(1), Call(2), Other("text"), Other("number"), Invalid}, 3)

Calls(items) ==
  LET calls == SelectSeq(items, LAMBDA v : v.type = "tool_use") IN
  [i \in DOMAIN calls |-> calls[i].block]

(* A text of these values in prose, or as a list, and what its parts parse *)
(* to.                                                                     *)
Part(i) == <<"{", "tool_use", ToString(i), "}">>

TextOf(items, list) ==
  LET parts == FlattenSeq([i \in DOMAIN items |-> Part(i)]) IN
  <<IF list THEN <<"[">> \o parts \o <<"]">> ELSE <<"word">> \o parts>>

ParseItems(items, list) ==
  [tokens \in {Part(i) : i \in DOMAIN items} \cup {TextOf(items, list)[1]} |->
     IF \E i \in DOMAIN items : tokens = Part(i)
     THEN items[CHOOSE i \in DOMAIN items : tokens = Part(i)]
     ELSE IF list THEN [kind |-> "array", type |-> "", items |-> items, block |-> 0]
     ELSE Invalid]

(* In prose all calls are found, in their order, or none when the type of  *)
(* an object is no string; a list gives those before such an object, and   *)
(* is searched like prose when it gives none.                              *)
ASSUME CallsInOrder ==
  \A items \in Items, list \in BOOLEAN :
    LET found == ExtractToolUseBlocks(TextOf(items, list), ParseItems(items, list))
        bad == SelectInSeq(items, LAMBDA v : v.type = "number")
        before == Calls(SubSeq(items, 1, IF bad = 0 THEN Len(items) ELSE bad - 1))
    IN  IF items = << >> THEN found = [blocks |-> << >>, thrown |-> FALSE]
        ELSE IF bad = 0 THEN found = [blocks |-> Calls(items), thrown |-> FALSE]
        ELSE IF list /\ before # << >> THEN found = [blocks |-> before, thrown |-> FALSE]
        ELSE found.thrown

-----------------------------------------------------------------------------
File(name, extension) == [name |-> name, extension |-> extension]

(* A command writes the file g, or fails; a diff that applies changes f.   *)
ShellOf(command, cwd, files) ==
  CASE command = "make"  -> [success |-> TRUE, files |-> [x \in {File("g", "txt")} |-> cwd] @@ files]
    [] command = "apply" -> [success |-> TRUE, files |-> [x \in {File("f", "txt")} |-> "patched"] @@ files]
    [] OTHER             -> [success |-> FALSE, files |-> files]

Writable == {File(name, extension) : name \in {"f", "g"}, extension \in {"txt", "diff"}}

Block(name, input) == [name |-> name, id |-> "id", input |-> input]

Blocks ==
  {Block("read", [path |-> File("f", "txt")]),
   Block("write", [path |-> File("f", "txt"), content |-> "new"]),
   Block("write", [path |-> File("dir", "txt"), content |-> "new"]),
   Block("patch", [path |-> File("f", "txt"), diff |-> "apply"]),
   Block("patch", [path |-> File("f", "txt"), diff |-> "reject"]),
   Block("execute", [command |-> "make"]), Block("execute", [command |-> "false"]),
   Block("write", [path |-> File("f", "txt")]), Block("erase", [path |-> File("f", "txt")]),
   [Block("read", [path |-> File("f", "txt")]) EXCEPT !.id = "number"]}

Sandboxes ==
  {[x \in files |-> "old"] :
     files \in SUBSET {File("f", "txt"), File("f", "diff"), File("g", "txt")}}

Run(blocks, files) == RunBlocks(blocks, files, Writable)

(* One result for each tool up to the first that fails, which has one too, *)
(* and none for those after it, which change nothing. A prompt whose first *)
(* tools succeeded and whose next one failed leaves what they did, so that *)
(* the next iteration begins with it.                                      *)
ASSUME StopsAtTheFirstFailure ==
  \A blocks \in SeqOf(Blocks, 3) : \A files \in Sandboxes :
    LET run == Run(blocks, files)
        n == Len(run.results)
        last == SubSeq(blocks, 1, n)
    IN  /\ n <= Len(blocks)
        /\ \A i \in 1 .. n - 1 : run.results[i]
        /\ ~run.thrown /\ ToolsSucceed(run) => n = Len(blocks)
        /\ run.thrown <=> /\ n < Len(blocks) /\ blocks[n + 1].id = "number"
                          /\ FALSE \notin ToSet(run.results)
        /\ Run(last, files).files = run.files
        /\ \A k \in 0 .. n : LET head == Run(SubSeq(blocks, 1, k), files) IN
             ToolsSucceed(head) =>
               Run(SubSeq(blocks, k + 1, Len(blocks)), head.files).files = run.files

(* Nothing but a write, an applied diff or a command changes a file, and   *)
(* no diff stays in the sandbox after a patch: the file f.diff that was    *)
(* there is gone with it.                                                  *)
ASSUME PatchesLeaveNoDiff ==
  \A block \in Blocks : \A files \in Sandboxes :
    LET run == Run(<<block>>, files) IN
    /\ block.name = "patch" /\ ~run.thrown => File("f", "diff") \notin DOMAIN run.files
    /\ \A f \in DOMAIN run.files :
         \/ f \in DOMAIN files /\ run.files[f] = files[f]
         \/ ToolsSucceed(run) /\ block.name # "read"

-----------------------------------------------------------------------------
(* LLMResults                                                              *)

WarmupMC == 1

SessionsMC ==
  {<<[tokens |-> m, correct |-> c], [tokens |-> n, correct |-> n > 0]>> :
     m \in {1, 2}, n \in 0 .. 2, c \in BOOLEAN}

PromptsMC ==
  [category : {"R", "S", "other", "Overall"}, ok : {TRUE}, sessions : SessionsMC]
    \cup {[category |-> "R", ok |-> FALSE,
           sessions |-> <<[tokens |-> 2, correct |-> TRUE], [tokens |-> 2, correct |-> TRUE]>>]}

RequiredMC == {{}, {"R"}, {"R", "S"}}

(* A prompt whose every session answered.                                  *)
Good(p) == p.ok /\ \A i \in DOMAIN p.sessions : p.sessions[i].tokens > 0

(* A run with results has every prompt in the numbers of its own category, *)
(* once and in order, or in the list of those that were skipped; a prompt  *)
(* of a required category that failed ends a run that may not skip it, and *)
(* takes the overall numbers from one that may, as a required category     *)
(* without prompts does. The results are verified when every session of    *)
(* every prompt was right, skipped prompts and warm-ups included. A rate   *)
(* is never computed from a prompt without a second token, and the time to *)
(* the first token is that of all measured sessions.                       *)
ASSUME EveryPromptCounts ==
  \A prompts \in SeqOf(PromptsMC, 2), required \in RequiredMC, skipRequired \in BOOLEAN :
    LET results == RunScenario(prompts, required, skipRequired)
        all == DOMAIN prompts
        answered == {i \in all : Good(prompts[i])}
        of(c) == {i \in all : prompts[i].category = c}
    IN  IF ~skipRequired /\ \E i \in all \ answered : prompts[i].category \in required
        THEN ~results.success
        ELSE /\ results.success
             /\ results.skipped = all \ answered
             /\ \A c \in {prompts[i].category : i \in all} :
                  IF of(c) \cap answered = {} THEN c \notin DOMAIN results.categories
                  ELSE LET list == results.categories[c].prompts IN
                       /\ ToSet(list) = of(c) \cap answered
                       /\ \A i \in 1 .. Len(list) - 1 : list[i] < list[i + 1]
                       /\ results.categories[c].rate =>
                            \A i \in ToSet(list) : LatencyOf(prompts[i], WarmupMC) # {}
             /\ \A i \in answered : TTFTOf(prompts[i], WarmupMC) = Measured(prompts[i], WarmupMC)
             /\ results.overall # {} =>
                  \A c \in required : of(c) \subseteq answered /\ of(c) # {}
             /\ required # {} /\ of("Overall") \cap answered = {} =>
                  (results.overall = {} <=>
                     \E c \in required : of(c) = {} \/ ~(of(c) \subseteq answered))
             /\ results.duration = answered
             /\ results.verified <=>
                  \A i \in all : \A j \in DOMAIN prompts[i].sessions : prompts[i].sessions[j].correct
             /\ results.status = "failed" =>
                  of("Overall") \cap answered # {} /\ \A c \in required : of(c) # {}

=============================================================================
