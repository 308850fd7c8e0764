SPECIFICATION Spec
CONSTANT
  Plugins = {"OrtGenAI", "RyzenAI", "WindowsML", "NativeQNN", "GGML", "MLX",
             "MLXImage", "OpenVINO", "OpenVINOImage", "Diffusers"}
INVARIANTS
  HarmNeedsFailure
  NothingIsLost
  ConfigIsPutBack
  AnswerIsOfThePrompt
  ReloadRecovers
