SPECIFICATION FairSpec
CONSTANTS
  a = a
  b = b
  c = c
  d = d
  k = k
  w = w
  Nodes = {a, b, c, d, w}
  Wires <- SwitchWires
  Catches <- NoLists
  Uncaught = {}
  Completes <- SwitchCompletes
  Mutators = {c}
  Holders = {b}
  Deaf = {}
  Failing = {}
  NoUow = {w}
  Inputs = {a}
  Cap = 1
  MaxMsgs = 2
  MayStop = FALSE
  MaxFails = 2
INVARIANT NothingLost
PROPERTY Settles
CHECK_DEADLOCK FALSE
