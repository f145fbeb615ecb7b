SPECIFICATION FairSpec
CONSTANTS
  a = a
  b = b
  c = c
  d = d
  k = k
  w = w
  Nodes = {b, k, d}
  Wires <- LoopWires
  Catches <- LoopCatches
  Uncaught = {d}
  Completes <- NoLists
  Mutators = {b}
  Holders = {}
  Deaf = {}
  Failing = {b}
  NoUow = {}
  Inputs = {b}
  Cap = 1
  MaxMsgs = 4
  MayStop = TRUE
  MaxFails = 3
INVARIANT NothingLost
PROPERTY StopEnds
CHECK_DEADLOCK FALSE
