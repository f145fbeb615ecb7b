\* start, stop, start on one engine.
CONSTANTS
  f1 = f1
  f2 = f2
  NoProc = NoProc
  NoObj = NoObj
  Procs = {p1}
  Droppable = {}
  FlowIds = {f1}
  Subflows = {}
  OwnedIds = {f1}
  InitFlows = {f1}
  Configs <- OneConfig
  Ops = {"start", "stop"}
  NodesPerFlow = 1
  MaxDeploys = 1
  MaxForwarders = 2
SPECIFICATION Spec
INVARIANTS
  RunningFlowsServe
