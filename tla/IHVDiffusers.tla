----------------------------- MODULE IHVDiffusers -----------------------------
(***************************************************************************)
(* The vendor library Diffusers: a dispatcher for the backends and a       *)
(* bridge to Python. The interpreter lives as long as the process, and     *)
(* with it the pipeline in its module __main__.                            *)
(***************************************************************************)
EXTENDS IHVObject

Handles == {"struct", "pipeline"}

Construct(o) ==
  {Denied(o), Denied(Created(o, "struct")), Well(Created(Made(o), "struct"))}

(* The interpreter, the package in it and the pipeline's own load may      *)
(* fail, with the pipeline there was still in its place; a new one takes   *)
(* it, and Python frees the old one.                                       *)
LoadPipeline(o) ==
  {Denied(Failed(o)),
   Well([o EXCEPT !.live = @ \cup {"pipeline"}, !.lost = @ \ {"pipeline"},
                  !.ready = TRUE])}

(* A failure is a warning, and the pipeline stays.                         *)
Unload(o) == {Well(Destroyed(o, {"pipeline"})), Denied(Dropped(o, {"pipeline"}))}

ImageInit(o) ==
  IF o.error THEN {Well(o)}
  ELSE IF o.ready THEN {Well(Failed(o))}
  ELSE LoadPipeline(o)

ImagePrepare(o) ==
  {Well(IF o.ready THEN Cleared(Emptied(o)) ELSE Failed(o))}

(* An image that failed leaves the buffer as it was.                       *)
ImageRun(o) ==
  IF ~o.ready THEN {Well(Failed(o))}
  ELSE {Denied(Failed(o)), Well(Wrote(Emptied(o)))}

ImageReset(o) == {Well(Cleared(Emptied(o)))}

ImageDeinit(o) ==
  IF ~o.ready THEN {Well(o)}
  ELSE {[r EXCEPT !.object = [Emptied(@) EXCEPT !.ready = FALSE, !.error = FALSE]] :
          r \in Unload(o)}

-----------------------------------------------------------------------------
(* The handler class, behind the dispatcher *)

Setup(o) == SetUp(Construct(o))
EnumerateDevices(o) == Enumerated(o)
Init(o) == Checked(o, ImageInit(o))
Prepare(o) == Checked(o, ImagePrepare(o))
Infer(o) == Checked(o, ImageRun(o))
Reset(o) == Checked(o, ImageReset(o))
Deinit(o) == Checked(o, ImageDeinit(o))

(* The dispatcher deletes itself but not its structure.                    *)
Release(o) ==
  {Answer([r EXCEPT !.object = Gone(@)], TRUE) : r \in ImageDeinit(o)}

Answers(call, o) ==
  CASE call = "Setup" -> Setup(o)
    [] call = "EnumerateDevices" -> EnumerateDevices(o)
    [] call = "Init" -> Init(o)
    [] call = "Prepare" -> Prepare(o)
    [] call = "Infer" -> Infer(o)
    [] call = "Reset" -> Reset(o)
    [] call = "Deinit" -> Deinit(o)
    [] call = "Release" -> Release(o)

=============================================================================
