SPECIFICATION Spec
CONSTANTS
  Scenarios = 2
  Entries <- EntriesMC
  Dependencies <- DependenciesMC
  NameOrder <- NameOrderMC
  FilesOf <- FilesOfMC
  Key = {"backend", "device_vendor"}
  Value = {"CUDA", "cuda", "ROCM", "AMD"}
  Lower <- LowerMC
  MaxDevices = 1
  Built <- BuiltMC
  Vendors = {"NVIDIA"}
  Agentic = {1, 2}
  PythonPaths <- PythonPathsMC
  Clients <- ClientsMC
  Overrides <- OverridesMC
  Subprocess = TRUE
INVARIANTS TrueMeansExecuted RowsAreOfTheScenario
CHECK_DEADLOCK FALSE
