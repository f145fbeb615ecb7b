SPECIFICATION FairSpec
CONSTANTS
  n1 = n1
  n2 = n2
  Nodes = {n1, n2}
  Peers <- SeedPeers
  Bind <- OwnBind
  Wildcard = Wildcard
  Timeout = 1
  WithSync = TRUE
  MaxNet = 2
  MaxInc = 1
  MaxCrashes = 1
  MaxLeaves = 1
PROPERTIES IncarnationsGrow CrashDetected
CHECK_DEADLOCK FALSE
