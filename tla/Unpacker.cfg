SPECIFICATION UnpackerSpec
CONSTANTS
  Entries = 2
  Resized = {1}
  Windows = TRUE
  MaxCalls = 2
  MaxEditions = 2
INVARIANTS
  UnpackedIsWhole
