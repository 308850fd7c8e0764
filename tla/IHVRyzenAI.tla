------------------------------ MODULE IHVRyzenAI ------------------------------
(***************************************************************************)
(* The vendor library OrtGenAI-RyzenAI: the generator and the sequences    *)
(* are made in Init, and made anew at the end of every Run.                *)
(***************************************************************************)
EXTENDS IHVObject

Handles == {"model", "params", "sequences", "generator"}

(* No AMD GPU is an error in the log: the object exists all the same, and  *)
(* the host, which reads the log, does not go on.                          *)
Construct(o) == {Well(Made(o)), Denied(Made(o)), Denied(o)}

(* Without a file, or without custom operators in it, nothing is changed.  *)
SetupGenaiConfigForRyzenAI(o) ==
  {Well(o), Denied(Failed(o))}
    \cup Rewritten([o EXCEPT !.backup = o.config], "changed")
    \cup {Denied(Failed([o EXCEPT !.backup = o.config]))}

(* All of it is made only if there are no parameters yet.                  *)
CreateModel(o) ==
  IF o.error THEN {Well(o)} ELSE
  LET model == Ensured(o, "model")
      params == Created(model, "params")
      generator == Created(params, "generator")
      all == Created(generator, "sequences")
  IN {Denied(Failed(o)), Denied(Failed(model))}
       \cup IF "params" \in o.live THEN {Well([model EXCEPT !.ready = TRUE])}
            ELSE {Denied(Failed(params)), Denied(Failed(generator)),
                  Well([all EXCEPT !.ready = TRUE])}

LLMInit(o) ==
  IF o.error THEN {Well(o)}
  ELSE IF o.ready THEN {Well(Failed(o))}
  ELSE Then(SetupGenaiConfigForRyzenAI(o), CreateModel)

(* Destroyed first, then made again: when that fails the pointer still     *)
(* leads to what was destroyed.                                            *)
LLMRun(o) ==
  IF ~o.ready THEN {Well(Failed(o))} ELSE
  LET used == Used(Emptied(o), Handles)
      noGenerator == Dangling(used, "generator")
      again == Created(noGenerator, "generator")
      noSequences == Dangling(again, "sequences")
  IN {Denied(Failed(Remembering(used))),
      Denied(Failed(noGenerator)), Denied(Failed(noSequences)),
      Well(Wrote(Created(noSequences, "sequences")))}

Restore(o) == IF o.backup = "none" THEN {Well(o)} ELSE Rewritten(o, o.backup)

(* Mutant: the generator is left to the next Init. *)
LLMDeinit_KeepsGenerator(o) ==
  IF ~o.ready THEN {Well(Failed(o))}
  ELSE Restore([Destroyed(o, Handles \ {"generator"})
                  EXCEPT !.output = "none", !.context = FALSE,
                         !.ready = FALSE, !.error = FALSE])

LLMDeinit(o) ==
  IF ~o.ready THEN {Well(Failed(o))}
  ELSE Restore([Destroyed(o, Handles)
                  EXCEPT !.output = "none", !.context = FALSE,
                         !.ready = FALSE, !.error = FALSE])

Destruct(o) == IF o.ready THEN LLMDeinit(o) ELSE {Well(o)}

-----------------------------------------------------------------------------
(* The handler class *)

Setup(o) == {Answer(r, r.object.made /\ ~r.denied) : r \in Construct(o)}
EnumerateDevices(o) == Enumerated(o)
Init(o) == Checked(o, LLMInit(o))
Prepare(o) == Checked(o, Unchanged(o))
Reset(o) == Checked(o, Unchanged(o))
Deinit(o) == Checked(o, LLMDeinit(o))

Infer(o) ==
  IF ~o.made THEN Refused(o)
  ELSE {Answer(r, r.object.output # "none") : r \in LLMRun(o)}

Release(o) ==
  {Answer([r EXCEPT !.object = Gone(@)], TRUE) :
     r \in IF o.made THEN Destruct(o) ELSE {Well(o)}}

Answers(call, o) ==
  CASE call = "Setup" -> Setup(o)
    [] call = "EnumerateDevices" -> EnumerateDevices(o)
    [] call = "Init" -> Init(o)
    [] call = "Prepare" -> Prepare(o)
    [] call = "Infer" -> Infer(o)
    [] call = "Reset" -> Reset(o)
    [] call = "Deinit" -> Deinit(o)
    [] call = "Release" -> Release(o)

=============================================================================
