----------------------------- MODULE IHVNativeQNN -----------------------------
(***************************************************************************)
(* The vendor library NativeQNN: one Genie dialog, the libraries Genie     *)
(* does not find by itself, and a global buffer of tokens the callback     *)
(* appends to. The error message is never cleared.                         *)
(***************************************************************************)
EXTENDS IHVObject

Handles == {"dialog", "modules", "config"}

(* A device type, a known scenario and model, and 30 GB of memory.         *)
Construct(o) == {Well(Made(o)), Denied(o)}

(* Any of the device's configuration file, the files of the model and the  *)
(* prompts' own values may be missing: the string is then empty.           *)
FillConfigString(o) == {Well(o), Denied(Failed(o))}

(* An empty string is passed on all the same and refused by Genie. Only a  *)
(* successful end frees the configuration, which nothing else refers to.   *)
CreateDialog(o) ==
  IF o.error THEN {Denied(Failed(o))} ELSE
  LET config == [o EXCEPT !.lost = @ \cup {"config"}]
      modules == Ensured(config, "modules")
      dialog == Created(modules, "dialog")
      freed == [dialog EXCEPT !.lost = o.lost]
  IN {Denied(Failed(o)), Denied(Failed(config)), Denied(Failed(modules)),
      Denied(Failed(dialog)), Well(freed)}

LlmInit(o) ==
  IF o.error \/ "dialog" \in o.live THEN {Well(o)}
  ELSE Then(FillConfigString(o), CreateDialog)

(* The callback appends; a query that fails may have appended, too, and    *)
(* one without a dialog is refused.                                        *)
LlmRun(o) ==
  IF "dialog" \notin o.live THEN {Denied(Failed(o))} ELSE
  LET answered == Remembering(Wrote(o))
  IN {Denied(Failed(Remembering(o))), Denied(Failed(answered)), Well(answered)}

LlmReset(o) ==
  {Denied(Failed(o))}
    \cup IF "dialog" \in o.live THEN {Well(Forgetting(Emptied(o)))} ELSE {}

(* The first library that cannot be freed ends it, with the tokens and the *)
(* names of those already freed still in the table.                        *)
LlmDeinit(o) ==
  {Denied(Failed(o))}
    \cup IF "dialog" \in o.live
         THEN LET freed == Forgetting(Destroyed(o, {"dialog"}))
              IN {Denied(Failed(freed)), Well(Emptied(Destroyed(freed, {"modules"})))}
         ELSE {}

-----------------------------------------------------------------------------
(* The handler class *)

Setup(o) == SetUp(Construct(o))
EnumerateDevices(o) == Enumerated(o)
Init(o) == Checked(o, LlmInit(o))
Prepare(o) == Checked(o, Unchanged(o))
Infer(o) == Checked(o, LlmRun(o))
Reset(o) == Checked(o, LlmReset(o))
Deinit(o) == Checked(o, LlmDeinit(o))

(* The object has no destructor of its own: what Deinit left stays.        *)
Release(o) == {Answer(Well(Gone(o)), TRUE)}

Answers(call, o) ==
  CASE call = "Setup" -> Setup(o)
    [] call = "EnumerateDevices" -> EnumerateDevices(o)
    [] call = "Init" -> Init(o)
    [] call = "Prepare" -> Prepare(o)
    [] call = "Infer" -> Infer(o)
    [] call = "Reset" -> Reset(o)
    [] call = "Deinit" -> Deinit(o)
    [] call = "Release" -> Release(o)

=============================================================================
