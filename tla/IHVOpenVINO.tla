----------------------------- MODULE IHVOpenVINO -----------------------------
(***************************************************************************)
(* The vendor library NativeOpenVINO, for text and for images. A pipeline  *)
(* is held by a unique_ptr: what goes out of reach is destroyed.           *)
(***************************************************************************)
EXTENDS IHVObject

Kinds == {"text", "image"}
Handles == {"pipeline"}

(* The plugins' file, a device of the type, of the maker and of the number *)
(* asked for, or no object.                                                *)
Construct(o) == {Well(Made(o)), Denied(o)}

Unpiped(o) == Destroyed(o, Handles)

(* The device number is not looked at before the list is.                  *)
LLMInit(o) ==
  IF o.error THEN {Well(o)}
  ELSE {Denied(Failed(o)),
        Denied(Failed([o EXCEPT !.harm = @ \cup {"index"}])),
        Denied(Failed(Unpiped(o))),
        Well(Created(Unpiped(o), "pipeline"))}

LLMRun(o) ==
  IF "pipeline" \notin o.live THEN {Well(Failed(o))}
  ELSE {Denied(Failed(o)), Well(Cleared(Wrote(Emptied(o))))}

(* Mutant: the message is not cleared. *)
LLMDeinit_KeepsMessage(o) == {Well(Unpiped(o))}

LLMDeinit(o) == {Well(Cleared(Unpiped(o)))}

(* An earlier message is neither looked at nor cleared, here or below.     *)
ImageInit(o) ==
  {Denied(Failed(Unpiped(o))), Well(Created(Unpiped(o), "pipeline"))}

ImagePrepare(o) == {Well(Emptied(o))}

ImageRun(o) ==
  IF "pipeline" \notin o.live THEN {Well(Failed(o))}
  ELSE {Denied(Failed(Emptied(o))), Well(Wrote(Emptied(o)))}

ImageDeinit(o) == {Well(Emptied(Unpiped(o)))}

-----------------------------------------------------------------------------
(* The handler class *)

Setup(o) == SetUp(Construct(o))
EnumerateDevices(o) == Enumerated(o)
Init(kind, o) == Checked(o, IF kind = "image" THEN ImageInit(o) ELSE LLMInit(o))
Prepare(kind, o) ==
  Checked(o, IF kind = "image" THEN ImagePrepare(o) ELSE Unchanged(o))
Infer(kind, o) == Checked(o, IF kind = "image" THEN ImageRun(o) ELSE LLMRun(o))
Reset(o) == Checked(o, Unchanged(o))
Deinit(kind, o) ==
  Checked(o, IF kind = "image" THEN ImageDeinit(o) ELSE LLMDeinit(o))
Release(o) == {Answer(Well(Gone(Unpiped(o))), TRUE)}

Answers(kind, call, o) ==
  CASE call = "Setup" -> Setup(o)
    [] call = "EnumerateDevices" -> EnumerateDevices(o)
    [] call = "Init" -> Init(kind, o)
    [] call = "Prepare" -> Prepare(kind, o)
    [] call = "Infer" -> Infer(kind, o)
    [] call = "Reset" -> Reset(o)
    [] call = "Deinit" -> Deinit(kind, o)
    [] call = "Release" -> Release(o)

=============================================================================
