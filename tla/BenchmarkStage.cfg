CONSTANTS
  e1 = e1
  e2 = e2
  e3 = e3
  Task = {e1, e2, e3}
  NoTask = NoTask
  None = None
  Groups <- TwoModels
  Prompts = 1
  MayThrow = {e1}
  Unusable = {e2}
  Reserved = {e3}
  Handlers = {"cli", "gui", "none"}
SPECIFICATION FairSpec
INVARIANTS
  ReportedMeansDone
PROPERTIES
  SuccessIsEarned
  StageEnds
