CONSTANTS
  Task = {t1, t2, t3}
  NoTask = NoTask
SPECIFICATION ClientFairSpec
INVARIANTS
  EachTaskOnceInOrder
  CompletionMeansQuiet
  CancelStopsCalls
PROPERTIES
  SerialSpec
  SleeperIsWoken
