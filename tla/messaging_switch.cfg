SPECIFICATION FairSpec
CONSTANTS
  a = a
  b = b
  c = c
  d = d
  k = k
  w = w
  Nodes = {a, b, c}
  Wires <- PairWires
  Catches <- NoLists
  Uncaught = {}
  Completes <- NoLists
  Mutators = {b}
  Holders = {a}
  Deaf = {}
  Failing = {}
  NoUow = {}
  Inputs = {a}
  Cap = 1
  MaxMsgs = 1
  MayStop = FALSE
  MaxFails = 2
PROPERTY SendsComplete
CHECK_DEADLOCK FALSE
