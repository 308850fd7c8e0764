----------------------------- MODULE IHVOrtGenAI -----------------------------
(***************************************************************************)
(* The vendor library OrtGenAI: ONNX Runtime GenAI over DirectML. Run      *)
(* makes the sequences and the generator and destroys them when it ends    *)
(* without an exception.                                                   *)
(***************************************************************************)
EXTENDS IHVObject

Handles == {"model", "params", "sequences", "generator"}

(* The constructor refuses a scenario it does not know; the devices of     *)
(* DirectML are looked for here and missed in Init.                        *)
Construct(o) == {Well(Made(o)), Denied(o)}

(* Mutant: the configuration is put aside as it has been changed. *)
SetupGenaiConfigForDirectML_Late(o) ==
  {Denied(Failed(o)), Well(o)}
    \cup Rewritten([o EXCEPT !.backup = "changed"], "changed")

(* The options that name DirectML get the adapter's number; a              *)
(* configuration without them stays, and is not put aside.                 *)
SetupGenaiConfigForDirectML(o) ==
  {Denied(Failed(o)), Well(o)}
    \cup Rewritten([o EXCEPT !.backup = o.config], "changed")

(* The model, the configuration of the prompts, the parameters: what was   *)
(* made before the step that fails stays.                                  *)
CreateModel(o) ==
  IF o.error THEN {Well(o)} ELSE
  LET model == Ensured(o, "model")
      params == Ensured(model, "params")
  IN {Denied(Failed(o)), Denied(Failed(model)), Denied(Failed(params)),
      Well([params EXCEPT !.ready = TRUE])}

LLMInit(o) ==
  IF o.error THEN {Well(o)}
  ELSE IF o.ready THEN {Well(Failed(o))}
  ELSE Then(SetupGenaiConfigForDirectML(o), CreateModel)

(* Mutant: the generator's pointer outlives it. *)
LLMRun_KeepsPointer(o) ==
  IF ~o.ready THEN {Well(Failed(o))} ELSE
  LET used == Used(Emptied(o), {"model", "params"})
      begun == Created(used, "sequences")
      running == Created(begun, "generator")
  IN {Denied(Failed(used)), Denied(Failed(begun)), Denied(Failed(running)),
      Well(Dangling(Destroyed(Wrote(running), {"sequences"}), "generator"))}

(* An exception leaves what was made of the sequences and the generator.   *)
LLMRun(o) ==
  IF ~o.ready THEN {Well(Failed(o))} ELSE
  LET used == Used(Emptied(o), {"model", "params"})
      begun == Created(used, "sequences")
      running == Created(begun, "generator")
  IN {Denied(Failed(used)), Denied(Failed(begun)), Denied(Failed(running)),
      Well(Destroyed(Wrote(running), {"sequences", "generator"}))}

Restore(o) == IF o.backup = "none" THEN {Well(o)} ELSE Rewritten(o, o.backup)

(* An object that is not ready keeps everything.                           *)
LLMDeinit(o) ==
  IF ~o.ready THEN {Well(Failed(o))}
  ELSE Restore([Destroyed(o, Handles)
                  EXCEPT !.output = "none", !.ready = FALSE, !.error = FALSE])

Destruct(o) == IF o.ready THEN LLMDeinit(o) ELSE {Well(o)}

-----------------------------------------------------------------------------
(* The handler class *)

Setup(o) == SetUp(Construct(o))
EnumerateDevices(o) == Enumerated(o)
Init(o) == Checked(o, LLMInit(o))
Prepare(o) == Checked(o, Unchanged(o))
Reset(o) == Checked(o, Unchanged(o))
Deinit(o) == Checked(o, LLMDeinit(o))

(* Infer looks at the tokens, not at the message.                          *)
Infer(o) ==
  IF ~o.made THEN Refused(o)
  ELSE {Answer(r, r.object.output # "none") : r \in LLMRun(o)}

Release(o) ==
  {Answer([r EXCEPT !.object = Gone(@)], TRUE) :
     r \in IF o.made THEN Destruct(o) ELSE {Well(o)}}

Answers(call, o) ==
  CASE call = "Setup" -> Setup(o)
    [] call = "EnumerateDevices" -> EnumerateDevices(o)
    [] call = "Init" -> Init(o)
    [] call = "Prepare" -> Prepare(o)
    [] call = "Infer" -> Infer(o)
    [] call = "Reset" -> Reset(o)
    [] call = "Deinit" -> Deinit(o)
    [] call = "Release" -> Release(o)

=============================================================================
