CONSTANTS
  Chunk = {c1, c2, c3}
  Pieces = 2
  Body = 3
  Retries = 2
SPECIFICATION FairSpec
INVARIANTS
  PartialOnlyIfUnreported
PROPERTY StopEndsDownload
