CONSTANTS
  Shell <- ShellOf
  Files = 2
  Prompts = 2
  Warmup = 1
  Iterations = 3
SPECIFICATION FairSpec
CHECK_DEADLOCK FALSE
INVARIANTS
  GoneMeansQuiet
  SuccessAccounted
  NoFaultNoCrash
PROPERTIES
  InferOnlyWhenReady
  RunEnds
