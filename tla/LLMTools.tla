------------------------------- MODULE LLMTools -------------------------------
(***************************************************************************)
(* The tools of an agentic prompt (src/CIL/llm/llm_tools.cpp): which tool  *)
(* calls are found in a text, which are valid, and what running them does  *)
(* to the files of the sandbox.                                            *)
(*                                                                         *)
(* A text is a sequence of lines, a line a sequence of tokens: "{", "}",   *)
(* quote, backslash, fence and words. parse is the JSON parser: it makes   *)
(* of a sequence of tokens a value [kind, type, items, block], type being  *)
(* what its member "type" says; what does not parse is of the kind         *)
(* "invalid". writable are the paths a file can be made at.                *)
(***************************************************************************)
EXTENDS Naturals, Sequences, SequencesExt, FiniteSetsExt

CONSTANT Shell(_, _, _)  (* what a command run in a directory makes of the  *)
                         (* files: [success, files]                         *)

Quote == "quote"
Backslash == "backslash"
Fence == "fence"
Language == "json"

-----------------------------------------------------------------------------
(* A line that is but a fence goes, and the fences of other lines.         *)
StandaloneFence(line) == line \in {<<Fence>>, <<Fence, Language>>}

StripMarkdownFences(text) ==
  FlattenSeq([i \in DOMAIN text |->
               IF StandaloneFence(text[i]) THEN << >>
               ELSE SelectSeq(text[i], LAMBDA t : t # Fence)])

(* The blocks of a value, and whether a member "type" that is no string    *)
(* ends the search. Those that came before it were collected.              *)
CollectFrom(items) ==
  FoldLeft(LAMBDA found, item :
             IF found.thrown \/ item.kind # "object" THEN found
             ELSE IF item.type = "number" THEN [found EXCEPT !.thrown = TRUE]
             ELSE IF item.type = "tool_use" THEN [found EXCEPT !.blocks = Append(@, item.block)]
             ELSE found,
           [blocks |-> << >>, thrown |-> FALSE], items)

CollectToolUseBlocks(value) ==
  LET itself == CollectFrom(<<value>>) IN
  IF value.kind = "array" THEN CollectFrom(value.items)
  ELSE IF itself.thrown \/ itself.blocks # << >> THEN itself
  ELSE CollectFrom(value.items)

(* Where the object that begins at start ends, or 0.                       *)
FindMatchingBrace(tokens, start) ==
  LET Read(s, i) ==
        LET t == tokens[i] IN
        IF s.end # 0 THEN s
        ELSE IF s.escape THEN [s EXCEPT !.escape = FALSE]
        ELSE IF t = Backslash /\ s.string THEN [s EXCEPT !.escape = TRUE]
        ELSE IF t = Quote THEN [s EXCEPT !.string = ~@]
        ELSE IF s.string THEN s
        ELSE IF t = "{" THEN [s EXCEPT !.depth = @ + 1]
        ELSE IF t = "}" THEN [s EXCEPT !.depth = @ - 1, !.end = IF s.depth = 1 THEN i ELSE 0]
        ELSE s
      scan == FoldLeft(Read, [depth |-> 0, string |-> FALSE, escape |-> FALSE, end |-> 0],
                       [k \in 1 .. Len(tokens) + 1 - start |-> start + k - 1])
  IN  scan.end

(* The parts of the text that are objects, from the left; a part of an     *)
(* object is none of its own.                                              *)
ObjectSpans(tokens, parse) ==
  LET Look(found, pos) ==
        LET end == FindMatchingBrace(tokens, pos) IN
        IF \/ tokens[pos] # "{" \/ end = 0
           \/ found # << >> /\ pos <= Last(found).to
           \/ parse[SubSeq(tokens, pos, end)].kind = "invalid"
        THEN found
        ELSE Append(found, [from |-> pos, to |-> end])
  IN  FoldLeft(Look, << >>, [i \in DOMAIN tokens |-> i])

ExtractJsonObjects(tokens, parse) ==
  LET spans == ObjectSpans(tokens, parse) IN
  [i \in DOMAIN spans |-> parse[SubSeq(tokens, spans[i].from, spans[i].to)]]

(* A text that as a whole is JSON gives the blocks before the first member *)
(* "type" that is no string; in any other text such a member leaves none.  *)
ExtractToolUseBlocks(text, parse) ==
  LET tokens == StripMarkdownFences(text)
      whole == CollectToolUseBlocks(parse[tokens])
      objects == ExtractJsonObjects(tokens, parse)
      found == [i \in DOMAIN objects |-> CollectToolUseBlocks(objects[i])]
  IN  IF \A i \in DOMAIN text : ~Contains(text[i], "tool_use")
      THEN [blocks |-> << >>, thrown |-> FALSE]
      ELSE IF whole.blocks # << >> THEN [blocks |-> whole.blocks, thrown |-> FALSE]
      ELSE [blocks |-> FlattenSeq([i \in DOMAIN found |-> found[i].blocks]),
            thrown |-> \E i \in DOMAIN found : found[i].thrown]

-----------------------------------------------------------------------------
(* A block is [name, id, input], input giving a value to each member.      *)

Required == [read    |-> {"path"},
             write   |-> {"path", "content"},
             patch   |-> {"path", "diff"},
             execute |-> {"command"}]

Allowed == [Required EXCEPT !.execute = @ \cup {"cwd"}]

ValidateToolBlock(block) ==
  /\ block.name \in DOMAIN Required
  /\ Required[block.name] \subseteq DOMAIN block.input
  /\ DOMAIN block.input \subseteq Allowed[block.name]

(* The sandbox is beside the input file, or beside the program.            *)
SandboxDir(assetsDir, directories) ==
  IF <<assetsDir, "tools_sandbox">> \in directories THEN <<assetsDir, "tools_sandbox">>
  ELSE <<"tools_sandbox">>

(* A tool makes of the files [success, files].                             *)
Failed(files) == [success |-> FALSE, files |-> files]

ToolRead(input, files) == [success |-> input.path \in DOMAIN files, files |-> files]

(* What was written is not looked at again.                                *)
ToolWrite(input, files, writable) ==
  IF input.path \notin writable THEN Failed(files)
  ELSE [success |-> TRUE, files |-> [f \in {input.path} |-> input.content] @@ files]

DiffFile(path) == [path EXCEPT !.extension = "diff"]

(* The diff is put beside the file and is gone afterwards, with what was   *)
(* there before. It says itself which files it is for, seen from the       *)
(* directory the program was started in.                                   *)
ToolPatch(input, files, writable) ==
  LET diff == DiffFile(input.path)
      patched == Shell(input.diff, "program", [f \in {diff} |-> input.diff] @@ files)
  IN  IF diff \notin writable THEN Failed(files)
      ELSE [patched EXCEPT !.files = Restrict(@, DOMAIN @ \ {diff})]

ToolExecute(input, files) ==
  Shell(input.command, IF "cwd" \in DOMAIN input THEN input.cwd ELSE "assets", files)

DispatchTool(block, files, writable) ==
  LET input == block.input IN
  CASE block.name = "read"    -> ToolRead(input, files)
    [] block.name = "write"   -> ToolWrite(input, files, writable)
    [] block.name = "patch"   -> ToolPatch(input, files, writable)
    [] block.name = "execute" -> ToolExecute(input, files)

(* The tools are run in order up to the first that is not valid or fails;  *)
(* an id that is no string ends the run without results.                   *)
RunBlocks(blocks, files, writable) ==
  LET Step(run, block) ==
        IF run.thrown \/ FALSE \in ToSet(run.results) THEN run
        ELSE IF block.id = "number" THEN [run EXCEPT !.thrown = TRUE]
        ELSE LET done == IF ~ValidateToolBlock(block) THEN Failed(run.files)
                         ELSE DispatchTool(block, run.files, writable)
             IN  [run EXCEPT !.results = Append(@, done.success), !.files = done.files]
  IN  FoldLeft(Step, [results |-> << >>, files |-> files, thrown |-> FALSE], blocks)

RunTools(text, files, parse, writable) ==
  LET found == ExtractToolUseBlocks(text, parse) IN
  IF found.thrown THEN [results |-> << >>, files |-> files, thrown |-> TRUE]
  ELSE RunBlocks(found.blocks, files, writable)

(* Txt2TxtExecutor: a prompt goes on when all its tools succeeded, and     *)
(* when the text it was to answer has none.                                *)
ToolsSucceed(run) == ~run.thrown /\ FALSE \notin ToSet(run.results)

=============================================================================
