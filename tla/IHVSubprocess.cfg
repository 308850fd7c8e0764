CONSTANTS
  Platforms = {"posix", "windows"}
  Usages = {"probe", "enumeration", "inference"}
  MaxSent = 6
  LogRoom = 1
SPECIFICATION FairSpec
INVARIANTS
  AnswersInOrder
  NothingIsLeft
PROPERTIES
  StopEnds
  OrphanEnds
