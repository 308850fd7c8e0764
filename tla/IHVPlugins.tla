------------------------------ MODULE IHVPlugins ------------------------------
(***************************************************************************)
(* The vendor libraries behind the seven entry points of IHV.h and         *)
(* Release, called in the order the executors and the enumeration of       *)
(* devices keep: a library is loaded and released any number of times by   *)
(* one process, and within one instance a model may be initialized again,  *)
(* for a new configuration or after a prompt that was skipped.             *)
(***************************************************************************)
EXTENDS IHVObject

CONSTANT Plugins   (* the libraries the process may have been given        *)

ImageLibraries == {"Diffusers", "MLXImage", "OpenVINOImage"}
Libraries == ImageLibraries \cup
  {"OrtGenAI", "RyzenAI", "WindowsML", "NativeQNN", "GGML", "MLX", "OpenVINO"}

ASSUME PluginsAssumption == Plugins \subseteq Libraries

OrtGenAI == INSTANCE IHVOrtGenAI
RyzenAI == INSTANCE IHVRyzenAI
WindowsML == INSTANCE IHVWindowsML
NativeQNN == INSTANCE IHVNativeQNN
GGML == INSTANCE IHVGGML
MLX == INSTANCE IHVMLX
OpenVINO == INSTANCE IHVOpenVINO
Diffusers == INSTANCE IHVDiffusers

VARIABLES
  plugin,    (* the library                                                *)
  object,    (* its inference object, see IHVObject                        *)
  at,        (* the last call; "Release" when the library is not loaded    *)
  answered,  (* what it answered                                           *)
  then,      (* where the executor goes after the Deinit it has called     *)
  complaint, (* the host has seen an error it has not forgiven             *)
  abandoned, (* an initialized model was released without its Deinit       *)
  denials    (* the calls to which something has been denied               *)

vars == <<plugin, object, at, answered, then, complaint, abandoned, denials>>

TypeOK ==
  /\ plugin \in Plugins
  /\ object \in ObjectOf(OrtGenAI!Handles \cup RyzenAI!Handles \cup WindowsML!Handles
                           \cup NativeQNN!Handles \cup GGML!Handles \cup MLX!Handles
                           \cup OpenVINO!Handles \cup Diffusers!Handles)
  /\ at \in Calls /\ answered \in BOOLEAN
  /\ then \in {"none", "Init", "Release"}
  /\ complaint \in BOOLEAN /\ abandoned \in BOOLEAN /\ denials \subseteq Calls

Init ==
  /\ plugin \in Plugins
  /\ object = NoObject
  /\ at = "Release" /\ answered = TRUE
  /\ then = "none" /\ complaint = FALSE /\ abandoned = FALSE /\ denials = {}

Answers(call, o) ==
  CASE plugin = "OrtGenAI" -> OrtGenAI!Answers(call, o)
    [] plugin = "RyzenAI" -> RyzenAI!Answers(call, o)
    [] plugin = "WindowsML" -> WindowsML!Answers(call, o)
    [] plugin = "NativeQNN" -> NativeQNN!Answers(call, o)
    [] plugin = "GGML" -> GGML!Answers(call, o)
    [] plugin = "MLX" -> MLX!Answers("text", call, o)
    [] plugin = "MLXImage" -> MLX!Answers("image", call, o)
    [] plugin = "OpenVINO" -> OpenVINO!Answers("text", call, o)
    [] plugin = "OpenVINOImage" -> OpenVINO!Answers("image", call, o)
    [] plugin = "Diffusers" -> Diffusers!Answers(call, o)

-----------------------------------------------------------------------------
(* The host's calls *)

(* was: the complaint as the call is made.                                 *)
Call(call, was) ==
  /\ at' = call
  /\ \E a \in Answers(call, object) :
       /\ object' = a.object
       /\ answered' = a.ok
       /\ complaint' = (was \/ ~a.ok)
       /\ denials' = IF a.denied THEN denials \cup {call} ELSE denials
  /\ UNCHANGED plugin

Reloaded == then = "Init"

Setup ==
  /\ at = "Release"
  /\ then' = "none"
  /\ Call("Setup", FALSE)
  /\ UNCHANGED abandoned

(* An instance of its own, before the run.                                 *)
EnumerateDevices ==
  /\ at = "Setup" /\ ~complaint
  /\ Call("EnumerateDevices", complaint)
  /\ UNCHANGED <<then, abandoned>>

FirstInit ==
  /\ at = "Setup" /\ ~complaint
  /\ Call("Init", complaint)
  /\ UNCHANGED <<then, abandoned>>

(* The image executor does not look at how the Init after a skip ended.    *)
Prepare ==
  /\ \/ at \in {"Init", "Reset"} /\ ~complaint
     \/ at = "Init" /\ complaint /\ Reloaded /\ plugin \in ImageLibraries
  /\ Call("Prepare", complaint)
  /\ UNCHANGED <<then, abandoned>>

Infer ==
  /\ at = "Prepare" /\ ~complaint
  /\ Call("Infer", complaint)
  /\ UNCHANGED <<then, abandoned>>

Reset ==
  /\ at = "Infer"
  /\ Call("Reset", complaint)
  /\ UNCHANGED <<then, abandoned>>

(* The last prompt is over, the run is cancelled, or the configuration     *)
(* changes: the model is initialized again.                                *)
Deinit ==
  /\ \/ at \in {"Init", "Reset"} /\ ~complaint
     \/ at = "Init" /\ Reloaded
  /\ then' \in {"Init", "Release"}
  /\ Call("Deinit", complaint)
  /\ UNCHANGED abandoned

(* A tool the answer asks for fails: the library has done nothing wrong.   *)
DeinitAfterTool ==
  /\ at = "Infer" /\ ~complaint
  /\ plugin \notin ImageLibraries
  /\ then' = "Release"
  /\ Call("Deinit", complaint)
  /\ UNCHANGED abandoned

Fail ==
  /\ at \in {"Prepare", "Reset"} /\ complaint
  /\ then' = "Release"
  /\ Call("Deinit", complaint)
  /\ UNCHANGED abandoned

(* The errors are forgotten and the model is initialized again.            *)
Skip ==
  /\ at \in {"Prepare", "Reset"} /\ complaint
  /\ then' = "Init"
  /\ Call("Deinit", FALSE)
  /\ UNCHANGED abandoned

Reinit ==
  /\ at = "Deinit" /\ then = "Init"
  /\ Call("Init", complaint)
  /\ UNCHANGED <<then, abandoned>>

(* A cancellation between two files releases the library as it is.         *)
Release ==
  /\ \/ at \in {"Setup", "EnumerateDevices"}
     \/ at = "Init" /\ (complaint \/ Reloaded)
     \/ at = "Reset" /\ ~complaint
     \/ at = "Deinit" /\ then = "Release"
  /\ abandoned' = (abandoned \/ at \in {"Init", "Reset"})
  /\ then' = "none"
  /\ Call("Release", complaint)

Next ==
  \/ Setup \/ EnumerateDevices \/ FirstInit \/ Prepare \/ Infer \/ Reset
  \/ Deinit \/ DeinitAfterTool \/ Fail \/ Skip \/ Reinit \/ Release

Spec == Init /\ [][Next]_vars

-----------------------------------------------------------------------------
(* Properties *)

Undisturbed(calls) == denials \cap calls = {}

(* What C++ leaves open happens only after a failure, and only in the ways *)
(* named here: the generator RyzenAI could not make anew is destroyed      *)
(* again, MLX frees a model twice when the Init between the two Deinits    *)
(* failed, and two libraries look up a device that is not in their list.   *)
HarmNeedsFailure ==
  object.harm \subseteq
    CASE plugin = "RyzenAI" /\ ~Undisturbed({"Infer"}) -> {"free"}
      [] plugin = "MLX" /\ ~Undisturbed({"Init"}) -> {"free"}
      [] plugin \in {"GGML", "OpenVINO"} /\ ~Undisturbed({"Init"}) -> {"index"}
      [] OTHER -> {}

(* Unless something was denied to the library, all it made is destroyed    *)
(* when the host has released it, whatever the order of the calls was. Two *)
(* cases are known: the structure of a dispatcher, and the model of a      *)
(* class without a destructor that the host released between two files.    *)
NothingIsLost ==
  Undisturbed({"Setup", "Init", "Infer", "Deinit", "Release"})
    => object.lost \subseteq
         IF plugin \in {"GGML", "Diffusers"} THEN
           IF abandoned /\ plugin = "GGML" THEN GGML!Handles ELSE {"struct"}
         ELSE IF abandoned /\ plugin \in {"NativeQNN", "MLX"} THEN
           NativeQNN!Handles \cup MLX!Handles
         ELSE {}

(* genai_config.json is as the user left it when the library is gone, if   *)
(* no Init and no restoring was denied: all but WindowsML, which puts the  *)
(* changed configuration aside.                                            *)
ConfigIsPutBack ==
  at = "Release" /\ Undisturbed({"Init", "Deinit", "Release"})
    /\ plugin # "WindowsML"
    => object.config = "original"

(* An answer the host measures comes from its own prompt alone: neither    *)
(* the buffer nor the runtime's memory holds anything of an earlier one,   *)
(* also after failures and skips.                                          *)
AnswerIsOfThePrompt == at = "Infer" /\ answered => object.output = "own"

(* The skip of a failed prompt gets the model back, and so does a change   *)
(* of configuration: after the Deinit an Init can succeed again. Three     *)
(* classes never clear their message, and lose every later prompt.         *)
ReloadRecovers ==
  at = "Deinit" /\ then = "Init" /\ Undisturbed({"Init", "Deinit"})
    /\ ~(object.error /\ plugin \in {"NativeQNN", "MLXImage", "OpenVINOImage"})
    => \E a \in Answers("Init", object) : a.ok

=============================================================================
