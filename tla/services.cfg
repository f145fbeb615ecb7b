SPECIFICATION MCSpec
CONSTANTS
  CtxClients = {"c1", "c2"}
  CtxFlows = {"f"}
  CtxValues = {"v"}
  CtxOps = 3
  CtxFaults = 2
  FlowIds = {"n"}
  FlowHandlers = {"g", "h"}
  FlowSecrets = {"unset", "a"}
  FlowMaxVersions = 1
  FlowRequests = 2
  FlowCrashes = 1
  AdmReqs = {"q", "r"}
  AdmClients = {"c", "d"}
  AdmNames = {"admin", "bob"}
  AdmMax = 3
  AdmEnd = 4
  RateMax = 1
  RateWindow = 3
  RateKeep = 4
  RateBuckets = 0
  AuditSize = 1
  EdParts = {"comms", "debug"}
  ComConns = {"b"}
  ComTopics = {"debug", "status/#", "notification/#", "notification/runtime-deploy", "context/live/global/x"}
  ComRing = 1
  ComMax = 2
  DbgMax = 4
  PartNodes = {1, 2}
  PartFlows <- MCPartFlows
  PartKeys = {"k"}
  PartMax = 4
  PlugParts = {"market", "manager", "node"}
  MktHandlers = {"g", "h"}
  MktNames = {"n"}
  MktVersions = {1, 2}
  MktRequests = 5
  PlugFiles = {"x", "y"}
  PlugChanges = 3
  GuestMsgs = 2
  LdParts = {"flows", "env", "value"}
  LdPool <- MCLdPool
  LdLength = 4
  LdEntries <- MCLdEntries
  LdEnvLength = 4
  LdWord = 3
  LdNumbers <- MCLdNumbers
INVARIANTS
  CtxBacked
  CredentialsSurvive
  AccessCurrent
  RateBound
  EditorSees
  LeaderAgrees
  PluginsSound
  LoadFaithful
CHECK_DEADLOCK FALSE
