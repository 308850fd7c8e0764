SPECIFICATION FairSpec
CONSTANTS
  Configs <- ConfigsMC
  Threads = 3
INVARIANTS CrashNeedsOverlap OneWorker DevicesAreItsOwn
PROPERTIES StopIsObeyed RunComesBack
CHECK_DEADLOCK FALSE
