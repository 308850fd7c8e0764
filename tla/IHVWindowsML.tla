----------------------------- MODULE IHVWindowsML -----------------------------
(***************************************************************************)
(* The vendor library WindowsML: ONNX Runtime GenAI over the execution     *)
(* providers Windows has registered. The handle "path" is the directory    *)
(* an NVIDIA scenario adds to the process's search for libraries.          *)
(***************************************************************************)
EXTENDS IHVObject, Naturals

DirectML == INSTANCE IHVOrtGenAI

Handles == DirectML!Handles \cup {"path", "handler"}

AddDllDirectory(o) == {o, Created(o, "path")}

(* "throws": what Windows lets out while the runtime is activated or the   *)
(* providers are listed. std::call_once is then to be tried again, so that *)
(* its outcome is never read as it was initialized.                        *)
EnsureAndRegisterEPs == {"kSuccess", "kNoEpRegistered", "throws"}

(* A device as far as it matters, and a request, which may leave any of    *)
(* the three open.                                                         *)
Device(ep, type, vendor) == [ep |-> ep, type |-> type, vendor |-> vendor]
Fits(device, request, fields) == \A f \in fields : request[f] \in {"", device[f]}

(* What a registered provider is believed to have when it reports nothing. *)
Assumed(ep) ==
  CASE ep = "NvTensorRtRtx" -> {Device(ep, "GPU", "Nvidia")}
    [] ep = "OpenVINO" -> {Device(ep, "NPU", "Intel"), Device(ep, "GPU", "Intel")}
    [] ep = "QNN" -> {Device(ep, "NPU", "Qualcomm"), Device(ep, "GPU", "Qualcomm")}
    [] ep = "RyzenAI" -> {Device(ep, "NPU", "AMD")}
    [] OTHER -> {}

(* DirectML's devices must be among the adapters that are enumerated.      *)
OnlyAdapters(devices, adapters) ==
  {d \in devices : d.ep = "DirectML" => d \in adapters}

(* A provider all of whose devices are of another type counts as one that  *)
(* reports nothing.                                                        *)
DetectWindowsMLDevices(reported, registered, adapters, request) ==
  LET fitting == {d \in reported : Fits(d, request, {"ep", "type"})}
      silent == {ep \in registered : \A d \in fitting : d.ep # ep}
      assumed == {d \in UNION {Assumed(ep) : ep \in silent} :
                    Fits(d, request, {"ep", "type"})}
  IN  OnlyAdapters({d \in fitting \cup assumed : Fits(d, request, {"vendor"})}, adapters)

(* Two of the providers stand for all.                                     *)
Devices == {Device("DirectML", "GPU", "AMD"), Device("OpenVINO", "GPU", "Intel")}
Requests == [ep : {"", "DirectML", "OpenVINO"}, type : {"", "NPU"}, vendor : {"", "AMD"}]

Detected(registered, request) ==
  {DetectWindowsMLDevices(reported, registered, adapters, request) :
     reported \in SUBSET Devices, adapters \in SUBSET Devices}

(* Without a provider only DirectML goes on; then a device must match. The *)
(* object that holds an error is destroyed, and takes its directory along; *)
(* one whose constructor does not end has no destructor.                   *)
Construct(o) ==
  LET Found(p, devices, denied) ==
        [object |-> IF devices = {} THEN o ELSE Made(p), denied |-> denied \/ devices = {}]
  IN UNION {CASE outcome = "kSuccess" ->
                   {Found(p, devices, FALSE) : devices \in Detected({"OpenVINO"}, request)}
              [] outcome = "kNoEpRegistered" /\ request.ep = "DirectML" ->
                   {Found(p, devices, TRUE) : devices \in Detected({}, request)}
              [] outcome = "kNoEpRegistered" /\ request.ep # "DirectML" -> {Denied(o)}
              [] outcome = "throws" -> {Denied(Dropped(Created(p, "handler"),
                                                       {"path", "handler"}))} :
             outcome \in EnsureAndRegisterEPs, p \in AddDllDirectory(o),
             request \in Requests}

(* What is put aside is the configuration as it has been changed.          *)
SetupGenaiConfigForEP(o) ==
  {Denied(Failed(o)), Well(o)}
    \cup Rewritten([o EXCEPT !.backup = "changed"], "changed")

CreateModel(o) ==
  IF o.error THEN {Well(o)} ELSE
  LET model == Ensured(o, "model")
      params == Ensured(model, "params")
  IN {Denied(Failed(o)), Denied(Failed(model)), Denied(Failed(params)),
      Well([params EXCEPT !.ready = TRUE])}

(* A device gets a model if its provider has one in the model's folder.    *)
(* NVIDIA's is looked for in any case, and if there is none, the devices   *)
(* that follow get none either.                                            *)
AssignModelForDevices(devices, providers) ==
  {d \in DOMAIN devices :
     /\ devices[d] \in providers
     /\ \A e \in 1 .. d : devices[e] \in providers \/ devices[e] # "NvTensorRtRtx"}

DeviceLists == {<< >>, <<"DirectML">>, <<"NvTensorRtRtx", "DirectML">>}

(* The model's parameters cannot be read, or the device wanted is not in   *)
(* the list or has no model.                                               *)
LLMInit(o) ==
  IF o.error THEN {Well(o)}
  ELSE IF o.ready THEN {Well(Failed(o))}
  ELSE LET chosen == {IF d \in AssignModelForDevices(devices, providers)
                      THEN Well(o) ELSE Denied(Failed(o)) :
                        d \in 1 .. 2, devices \in DeviceLists,
                        providers \in SUBSET {"DirectML", "NvTensorRtRtx"}}
           started == Then(chosen, LAMBDA c : IF c.error THEN {Well(c)}
                                              ELSE SetupGenaiConfigForEP(c))
       IN  Then(started, CreateModel)

LLMRun(o) == DirectML!LLMRun(o)

(* The message is cleared first: a model that is not destroyed leaves one. *)
(* The configuration is restored in any case.                              *)
LLMDeinit(o) ==
  IF ~o.ready THEN {Well(Failed(o))} ELSE
  LET freed == [Destroyed(o, {"params", "sequences", "generator"})
                  EXCEPT !.output = "none", !.error = FALSE, !.ready = FALSE]
  IN Then({Well(Destroyed(freed, {"model"})), Denied(Failed(Dropped(freed, {"model"})))},
          LAMBDA r : DirectML!Restore(r))

(* The directory goes with the base class.                                 *)
Destruct(o) ==
  {[r EXCEPT !.object = Destroyed(@, {"path"})] :
     r \in IF o.ready THEN LLMDeinit(o) ELSE {Well(o)}}

-----------------------------------------------------------------------------
(* The handler class *)

Setup(o) == SetUp(Construct(o))
EnumerateDevices(o) == Enumerated(o)
Init(o) == Checked(o, LLMInit(o))
Prepare(o) == Checked(o, Unchanged(o))
Reset(o) == Checked(o, Unchanged(o))
Deinit(o) == Checked(o, LLMDeinit(o))

Infer(o) ==
  IF ~o.made THEN Refused(o)
  ELSE {Answer(r, r.object.output # "none") : r \in LLMRun(o)}

Release(o) ==
  {Answer([r EXCEPT !.object = Gone(@)], TRUE) :
     r \in IF o.made THEN Destruct(o) ELSE {Well(o)}}

Answers(call, o) ==
  CASE call = "Setup" -> Setup(o)
    [] call = "EnumerateDevices" -> EnumerateDevices(o)
    [] call = "Init" -> Init(o)
    [] call = "Prepare" -> Prepare(o)
    [] call = "Infer" -> Infer(o)
    [] call = "Reset" -> Reset(o)
    [] call = "Deinit" -> Deinit(o)
    [] call = "Release" -> Release(o)

=============================================================================
