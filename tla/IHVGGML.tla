------------------------------- MODULE IHVGGML -------------------------------
(***************************************************************************)
(* The vendor library GGML: a dispatcher that loads the llama.cpp library  *)
(* of a backend and hands every call on, and llama.cpp's inference. The    *)
(* handle "struct" is the dispatcher's own API_IHV_Struct_t.               *)
(***************************************************************************)
EXTENDS IHVObject

Handles == {"struct", "model", "context", "sampler"}

(* No such backend, or no library for it, is no structure at all; the      *)
(* handler of the library may refuse the scenario.                         *)
Construct(o) ==
  {Denied(o), Denied(Created(o, "struct")), Well(Created(Made(o), "struct"))}

(* Either both are made or the model is freed and its pointer null.        *)
LoadModelAndContext(o) ==
  {Well(Created(Created(o, "model"), "context")),
   Denied(Dropped(o, {"model"}))}

(* A first attempt, then one with the number of layers found to fit.       *)
LoadWithFallback(o) ==
  {r \in LoadModelAndContext(o) : ~r.denied}
    \cup {Denied(IF r.denied THEN Failed(r.object) ELSE r.object) :
            r \in LoadModelAndContext(o)}

(* A device number outside the list is an error, and is used all the same. *)
LLMInit(o) ==
  {Denied(Failed(o))}
    \cup LoadWithFallback(o)
    \cup {Denied(r.object) :
            r \in LoadWithFallback([Failed(o) EXCEPT !.harm = @ \cup {"index"}])}

(* Mutant: the memory is left to the next prompt. *)
LLMRun_KeepsMemory(o) ==
  LET used == Used(Emptied(o), {"context"})
      asked == Remembering(Cleared(used))
  IN {Denied(Failed(o)), Denied(Failed(used)),
      Denied(Failed([used EXCEPT !.lost = @ \cup {"sampler"}])),
      Denied(Failed(asked)), Well(Remembering(Wrote(Cleared(used))))}

(* An input that is empty or too long, a method that is not known; then    *)
(* the prompt that is not evaluated, the token that is not, an exception:  *)
(* of these only the second gets to clearing the memory.                   *)
LLMRun(o) ==
  LET used == Used(Emptied(o), {"context"})
      asked == Remembering(Cleared(used))
      answered == Wrote(Cleared(used))
  IN {Denied(Failed(o)), Denied(Failed(used)),
      Denied(Failed([used EXCEPT !.lost = @ \cup {"sampler"}])),
      Denied(Failed(asked)), Denied(Failed(Forgetting(answered))),
      Well(Forgetting(answered))}

LLMDeinit(o) == {Well(Forgetting(Cleared(Destroyed(o, {"context", "model"}))))}

-----------------------------------------------------------------------------
(* The handler class, behind the dispatcher *)

Setup(o) == SetUp(Construct(o))
EnumerateDevices(o) == Enumerated(o)
Init(o) == Checked(o, LLMInit(o))
Prepare(o) == Checked(o, Unchanged(o))
Infer(o) == Checked(o, LLMRun(o))
Reset(o) == Checked(o, Unchanged(o))
Deinit(o) == Checked(o, LLMDeinit(o))

(* The inference object has no destructor of its own, and the dispatcher   *)
(* deletes itself but not its structure.                                   *)
Release(o) == {Answer(Well(Gone(o)), TRUE)}

Answers(call, o) ==
  CASE call = "Setup" -> Setup(o)
    [] call = "EnumerateDevices" -> EnumerateDevices(o)
    [] call = "Init" -> Init(o)
    [] call = "Prepare" -> Prepare(o)
    [] call = "Infer" -> Infer(o)
    [] call = "Reset" -> Reset(o)
    [] call = "Deinit" -> Deinit(o)
    [] call = "Release" -> Release(o)

=============================================================================
