------------------------------ MODULE LLMResults ------------------------------
(***************************************************************************)
(* What becomes of the answers of a text model that is not agentic         *)
(* (src/CIL/llm/txt2txt_executor.cpp): which prompts the numbers of a      *)
(* category, the overall numbers and the duration are taken from, and when *)
(* the results count as verified.                                          *)
(*                                                                         *)
(* A prompt is [category, ok, sessions], ok saying that no session met an  *)
(* error; a session is [tokens, correct], tokens being the number of those *)
(* it generated, none if it was not run. The first Warmup are not measured.*)
(***************************************************************************)
EXTENDS Naturals, Sequences, FiniteSets, SequencesExt

SessionsWith(prompt, minimum) ==
  {i \in DOMAIN prompt.sessions : prompt.sessions[i].tokens >= minimum}

EmptyTokens(prompt) == SessionsWith(prompt, 1) # DOMAIN prompt.sessions
LowTokens(prompt) == SessionsWith(prompt, 2) # DOMAIN prompt.sessions

(* The sessions a prompt's time to the first token and its time per token  *)
(* are averages of; an average of none is zero.                            *)
Measured(prompt, warmup) == {i \in DOMAIN prompt.sessions : i > warmup}
TTFTOf(prompt, warmup) == Measured(prompt, warmup) \cap SessionsWith(prompt, 1)
LatencyOf(prompt, warmup) == Measured(prompt, warmup) \cap SessionsWith(prompt, 2)

-----------------------------------------------------------------------------
(* RunScenario's variables when it begins with its prompts.                *)
NothingRun ==
  [status |-> "running", low |-> FALSE, correct |-> 0, predictions |-> 0, skipped |-> {},
   skippedRequired |-> FALSE, measured |-> << >>]

Counted(run, prompt) ==
  [run EXCEPT !.correct = @ + Cardinality({i \in DOMAIN prompt.sessions : prompt.sessions[i].correct}),
              !.predictions = @ + Len(prompt.sessions),
              !.low = @ \/ (~EmptyTokens(prompt) /\ LowTokens(prompt))]

Skipped(run, prompt, i, required) ==
  [run EXCEPT !.skipped = @ \cup {i},
              !.skippedRequired = @ \/ prompt.category \in required]

MeasuredFor(run, category) ==
  IF category \in DOMAIN run.measured THEN run.measured[category] ELSE << >>

Aggregated(run, prompt, i) ==
  LET category == prompt.category IN
  [run EXCEPT !.measured = [c \in {category} |-> Append(MeasuredFor(run, category), i)] @@ @]

(* A prompt that fails is skipped, or ends the run.                        *)
RunPrompt(run, prompt, i, required, skipRequired) ==
  LET counted == Counted(run, prompt)
      fails == ~prompt.ok \/ EmptyTokens(prompt)
  IN  IF run.status = "failed" THEN run
      ELSE IF ~fails THEN Aggregated(counted, prompt, i)
      ELSE IF skipRequired \/ prompt.category \notin required
      THEN Skipped(counted, prompt, i, required)
      ELSE [counted EXCEPT !.status = "failed"]

RunPrompts(prompts, required, skipRequired) ==
  FoldLeft(LAMBDA run, i : RunPrompt(run, prompts[i], i, required, skipRequired),
           NothingRun, [i \in DOMAIN prompts |-> i])

-----------------------------------------------------------------------------
(* The numbers of a category are means over its prompts, in their order;   *)
(* one prompt with an answer of a single token leaves no category a rate.  *)
PerCategory(run) ==
  [c \in DOMAIN run.measured |-> [prompts |-> run.measured[c], rate |-> ~run.low]]

(* The overall numbers are geometric means over the required categories.   *)
CalculateOverall(run, required) == ~run.skippedRequired /\ required \subseteq DOMAIN run.measured

(* The success was noted before the overall numbers find their name taken. *)
RunScenario(prompts, required, skipRequired) ==
  LET run == RunPrompts(prompts, required, skipRequired)
      overall == CalculateOverall(run, required)
      taken == overall /\ "Overall" \in DOMAIN run.measured
  IN  IF run.status = "failed" THEN [status |-> "failed", success |-> FALSE]
      ELSE [status |-> IF taken THEN "failed" ELSE "completed",
            success |-> TRUE,
            categories |-> PerCategory(run),
            overall |-> IF overall /\ ~taken THEN {PerCategory(run)[c] : c \in required} ELSE {},
            duration |-> UNION {ToSet(run.measured[c]) : c \in DOMAIN run.measured},
            verified |-> run.correct = run.predictions,
            skipped |-> run.skipped]

=============================================================================
