-------------------------------- MODULE IHVMLX --------------------------------
(***************************************************************************)
(* The vendor library MLX, for text and for images, over functions in      *)
(* Swift that take a null pointer for a failure.                           *)
(***************************************************************************)
EXTENDS IHVObject

Kinds == {"text", "image"}
Handles == {"model", "cache", "pipeline"}

Construct(o) == {Well(Made(o)), Denied(o)}

(* A model that is not created is a null pointer nobody looks at.          *)
LLMInit(o) ==
  {Denied(Failed(o)), Denied(Dropped(o, {"model"})), Well(Created(o, "model"))}

LLMPrepare(o) ==
  {Denied(Dropped(Emptied(o), {"cache"}))}
    \cup IF "model" \in o.live
         THEN {Well(Forgetting(Created(Emptied(o), "cache")))} ELSE {}

(* A prompt that is too long, another search than greedy; a null pointer   *)
(* is an answer of -1, as is a failure after some tokens.                  *)
LLMRun(o) ==
  {Denied(Failed(o)), Denied(Failed(Remembering(Wrote(o))))}
    \cup IF {"model", "cache"} \subseteq o.live
         THEN {Well(Cleared(Remembering(Wrote(o))))} ELSE {}

LLMReset(o) == {Well(Forgetting(Destroyed(o, {"cache"})))}

(* The model is freed and its pointer kept.                                *)
LLMDeinit(o) ==
  LET freed == IF "model" \in o.live \cup o.stale THEN Dangling(o, "model") ELSE o
  IN {Well(Forgetting(Cleared(Destroyed(freed, {"cache"}))))}

(* An earlier message stays, here and below.                               *)
ImageInit(o) ==
  {Denied(Failed(Dropped(o, {"pipeline"}))), Well(Created(o, "pipeline"))}

ImageEmpty(o) == {Well(Emptied(o))}

ImageRun(o) ==
  IF "pipeline" \notin o.live THEN {Well(Failed(o))}
  ELSE {Denied(Failed(Emptied(o))), Denied(Failed(Wrote(Emptied(o)))),
        Well(Wrote(Emptied(o)))}

ImageDeinit(o) == {Well(Emptied(Destroyed(o, {"pipeline"})))}

-----------------------------------------------------------------------------
(* The handler class *)

Setup(o) == SetUp(Construct(o))
EnumerateDevices(o) == Enumerated(o)
Init(kind, o) == Checked(o, IF kind = "image" THEN ImageInit(o) ELSE LLMInit(o))
Prepare(kind, o) ==
  Checked(o, IF kind = "image" THEN ImageEmpty(o) ELSE LLMPrepare(o))
Infer(kind, o) == Checked(o, IF kind = "image" THEN ImageRun(o) ELSE LLMRun(o))
Reset(kind, o) ==
  Checked(o, IF kind = "image" THEN ImageEmpty(o) ELSE LLMReset(o))
Deinit(kind, o) ==
  Checked(o, IF kind = "image" THEN ImageDeinit(o) ELSE LLMDeinit(o))

(* Only the class for images has a destructor.                             *)
Release(kind, o) ==
  {Answer([r EXCEPT !.object = Gone(@)], TRUE) :
     r \in IF kind = "image" THEN ImageDeinit(o) ELSE {Well(o)}}

Answers(kind, call, o) ==
  CASE call = "Setup" -> Setup(o)
    [] call = "EnumerateDevices" -> EnumerateDevices(o)
    [] call = "Init" -> Init(kind, o)
    [] call = "Prepare" -> Prepare(kind, o)
    [] call = "Infer" -> Infer(kind, o)
    [] call = "Reset" -> Reset(kind, o)
    [] call = "Deinit" -> Deinit(kind, o)
    [] call = "Release" -> Release(kind, o)

=============================================================================
