\* One caller, every operation, every kind of payload.
CONSTANTS
  f1 = f1
  f2 = f2
  NoProc = NoProc
  NoObj = NoObj
  Procs = {p1}
  Droppable = {}
  FlowIds = {f1, f2}
  Subflows = {f1}
  OwnedIds = {f1}
  InitFlows = {f1, f2}
  Configs <- AllConfigs
  Ops = {"start", "stop", "restart", "redeploy", "state"}
  NodesPerFlow = 2
  MaxDeploys = 2
  MaxForwarders = 2
SPECIFICATION Spec
INVARIANTS
  RegisteredQuiet
  OneTaskPerNode
  DeployCorrect
