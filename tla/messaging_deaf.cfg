SPECIFICATION FairSpec
CONSTANTS
  a = a
  b = b
  c = c
  d = d
  k = k
  w = w
  Nodes = {a, b}
  Wires <- ChainWires
  Catches <- NoLists
  Uncaught = {}
  Completes <- NoLists
  Mutators = {a}
  Holders = {}
  Deaf = {a}
  Failing = {}
  NoUow = {}
  Inputs = {a}
  Cap = 1
  MaxMsgs = 3
  MayStop = TRUE
  MaxFails = 2
PROPERTY StopEnds
CHECK_DEADLOCK FALSE
