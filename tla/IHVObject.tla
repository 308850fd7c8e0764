------------------------------ MODULE IHVObject ------------------------------
(***************************************************************************)
(* The inference object of a vendor library (inference_ of the handler     *)
(* class, BaseInferenceCommon), as far as the entry points of IHV.h can    *)
(* tell its states apart, and what an entry point does with it.            *)
(*                                                                         *)
(*   made     inference_ is not null                                       *)
(*   ready    initialized_                                                 *)
(*   error    error_message_ is not empty                                  *)
(*   live     the handles whose pointer leads to something that exists     *)
(*   stale    the handles whose pointer leads to something destroyed       *)
(*   lost     what exists and no pointer leads to                          *)
(*   output   what the output buffer holds: nothing, an answer to one      *)
(*            prompt, or one that earlier prompts have a share in          *)
(*   context  the vendor's runtime remembers an earlier prompt             *)
(*   backup   what was put aside of genai_config.json                      *)
(*   config   genai_config.json on the disk                                *)
(*   harm     what the code has done whose effect C++ leaves open          *)
(*                                                                         *)
(* config, lost and harm outlive the object: they belong to the process.   *)
(***************************************************************************)

Content == {"original", "changed"}

NoObject ==
  [made |-> FALSE, ready |-> FALSE, error |-> FALSE,
   live |-> {}, stale |-> {}, lost |-> {},
   output |-> "none", context |-> FALSE,
   backup |-> "none", config |-> "original", harm |-> {}]

ObjectOf(Handle) ==
  [made : BOOLEAN, ready : BOOLEAN, error : BOOLEAN,
   live : SUBSET Handle, stale : SUBSET Handle, lost : SUBSET Handle,
   output : {"none", "own", "mixed"}, context : BOOLEAN,
   backup : Content \cup {"none"}, config : Content,
   harm : SUBSET {"use", "free", "index"}]

Calls == {"Setup", "EnumerateDevices", "Init", "Prepare", "Infer", "Reset",
          "Deinit", "Release"}

Made(o) == [o EXCEPT !.made = TRUE]

Failed(o) == [o EXCEPT !.error = TRUE]
Cleared(o) == [o EXCEPT !.error = FALSE]

(* A handle is created into its pointer, whatever the pointer held.        *)
Created(o, h) ==
  [o EXCEPT !.live = @ \cup {h}, !.stale = @ \ {h},
            !.lost = IF h \in o.live THEN @ \cup {h} ELSE @]

(* if (!handle) create                                                     *)
Ensured(o, h) == IF h \in o.live \cup o.stale THEN o ELSE Created(o, h)

(* if (handle) { destroy; handle = 0 }, for each of them.                  *)
Destroyed(o, hs) ==
  [o EXCEPT !.live = @ \ hs, !.stale = @ \ hs,
            !.harm = IF hs \cap o.stale = {} THEN @ ELSE @ \cup {"free"}]

(* Destroyed, and the pointer kept.                                        *)
Dangling(o, h) ==
  [o EXCEPT !.live = @ \ {h}, !.stale = @ \cup {h},
            !.harm = IF h \in o.stale THEN @ \cup {"free"} ELSE @]

Used(o, hs) ==
  [o EXCEPT !.harm = IF hs \subseteq o.live THEN @ ELSE @ \cup {"use"}]

(* The pointers are set to null, or overwritten with it.                   *)
Dropped(o, hs) ==
  [o EXCEPT !.live = @ \ hs, !.stale = @ \ hs,
            !.lost = @ \cup (hs \cap o.live)]

Emptied(o) == [o EXCEPT !.output = "none"]

(* What the runtime answers goes to the end of the buffer.                 *)
Wrote(o) ==
  [o EXCEPT !.output = IF @ = "none" /\ ~o.context THEN "own" ELSE "mixed"]

Remembering(o) == [o EXCEPT !.context = TRUE]
Forgetting(o) == [o EXCEPT !.context = FALSE]

(* The owner of the handles goes: what it did not destroy is lost.         *)
Gone(o) ==
  [NoObject EXCEPT !.lost = o.lost \cup o.live, !.config = o.config,
                   !.harm = o.harm]

-----------------------------------------------------------------------------
(* Results: the object as a method leaves it, and whether something the    *)
(* code does not decide (a file, a device, a call of a vendor's runtime)   *)
(* was denied to it.                                                       *)

Well(o) == [object |-> o, denied |-> FALSE]
Denied(o) == [object |-> o, denied |-> TRUE]

Then(results, Op(_)) ==
  UNION {{[object |-> s.object, denied |-> r.denied \/ s.denied] :
            s \in Op(r.object)} : r \in results}

Answer(r, ok) == [object |-> r.object, denied |-> r.denied, ok |-> ok]
Refused(o) == {Answer(Well(o), FALSE)}

(* The handler class looks at GetErrorMessage, logs it and answers.        *)
Checked(o, results) ==
  IF ~o.made THEN Refused(o)
  ELSE {Answer(r, ~r.object.error) : r \in results}

(* API_IHV_Setup answers with a structure whether the constructor made an  *)
(* object or logged why not: ok says that no error was logged.             *)
SetUp(results) == {Answer(r, r.object.made) : r \in results}

(* DEFINE_IHV_CLASS_ENUMERATE_DEVICES_IMPL: no object is no devices.       *)
Enumerated(o) ==
  IF ~o.made THEN {Answer(Well(o), TRUE)}
  ELSE {Answer(Well(o), ~o.error), Answer(Denied(o), FALSE)}

(* Prepare and Reset of BaseInferenceCommon do nothing.                    *)
Unchanged(o) == {Well(o)}

(* The file is rewritten, or the stream could not be opened, which nobody  *)
(* looks at.                                                               *)
Rewritten(o, content) ==
  {Well([o EXCEPT !.config = content]), Denied(o)}

=============================================================================
