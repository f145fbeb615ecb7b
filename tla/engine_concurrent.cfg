\* Two callers that interleave; one of them, an HTTP handler, may be dropped.
CONSTANTS
  f1 = f1
  f2 = f2
  NoProc = NoProc
  NoObj = NoObj
  Procs = {p1, p2}
  Droppable = {p1}
  FlowIds = {f1}
  Subflows = {f1}
  OwnedIds = {f1}
  InitFlows = {f1}
  Configs <- OneConfig
  Ops = {"stop", "redeploy"}
  NodesPerFlow = 1
  MaxDeploys = 2
  MaxForwarders = 2
SPECIFICATION FairSpec
PROPERTIES
  ActsAsSwitch
  CallReturns
