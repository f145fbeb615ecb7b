SPECIFICATION Spec
CONSTANTS
  Conns = {k1, k2}
  Clients = {c1, c2}
  Refused = {}
  Topics <- MCTopics
  Filters <- MCFilters
  Payloads = {p1}
  NoPayload = none
  WillTopic <- MCWillTopic
  Cap = 1
  MaxPackets = 2
  RetainAvailable = TRUE
  NoConn = noconn
  Probes <- MCProbes
INVARIANTS
  RetainedReaches
  NoResidue
  TrieAgrees
CHECK_DEADLOCK FALSE
SYMMETRY Perms
