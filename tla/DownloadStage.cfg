CONSTANTS
  runtime = runtime
  runtime2 = runtime2
  library = library
  Task = {runtime, runtime2, library}
  NoTask = NoTask
  Files <- ThreeFiles
  EpFiles = {runtime}
  Storage = {1, 2, 3}
  StorageOf <- Owner
  Behaviors = {"normal", "forced", "skip_all", "prompt"}
  MayThrow = {runtime}
  Handlers = {"cli"}
  Mounts <- TwoMounts
  UrlOf <- Url
  PathOf <- Destination
  Size <- Bytes
  Space <- FullOrJustEnough
SPECIFICATION FairSpec
INVARIANTS
  PathsAreOnDisk
  CheckedSpaceSuffices
PROPERTIES
  StageEnds
