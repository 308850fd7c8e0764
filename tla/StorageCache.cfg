CONSTANTS
  web = web
  usb = usb
  p1 = p1
  p2 = p2
  None = None
  Url = {web, usb}
  Path = {p1, p2}
  LocalUrls = {usb}
  Archives = {}
  Scenarios <- SharedPath
  Behaviors = {"normal", "forced", "prompt", "collect_file_sizes_only"}
  Version = {"1", "2"}
  MaxEdition = 1
  MaxClock = 2
  Meddling = TRUE
SPECIFICATION Spec
INVARIANTS
  OneClaimPerPath
  SuccessMeansReceived
  VersionedIsOurs
