SPECIFICATION MCSpec
CONSTANTS
  TcpParts = {"in", "udp", "out", "client", "queue", "sit"}
  TcpMsgs = 4
  TcpQueueSize = 2
  TcpPeers = 3
  HttpRequests = 2
  HttpCopies = 2
  HttpCalls = 1
  ModDevices = {"server", "gateway"}
  ModUnits = {1, 2}
  ModUnit = 1
  ModJobKinds <- MCModJobKinds
  ModRequests = 2
  ModFaults = 2
  ModWord = 4
  ModRegs = 4
  BacParts = {"read", "write", "cov"}
  BacProperties <- MCBacProperties
  BacRetries = 1
  BacSegments = 2
  BacSeqMod = 256
  BacRenewals = 2
  BacServes = 3
  BacEvents = 3
  BacValues = {1, 2, 4}
  BacIncrement = 2
  DbKinds = {"postgres", "contrib", "timescale", "mssql", "sqlite", "influx"}
  DbMax = 1
  DbQueries = 2
  DbRows = 3
  DbPerMsg = 2
  TrigTopics = {"a", "b"}
  TrigDelays <- MCTrigDelays
  TrigMsgs = 3
  TrigEnd = 3
  MqttTopics = {"d"}
  MqttDatatypes = {"json"}
  MqttStatic = "s"
  MqttOutages = 1
  MqttInputs = 2
  MqttOutMax = 2
  MqttQueue = 1
  WsParts = {"listener", "loop", "out"}
  WsConns = 2
  WsSends = 2
  WsFaults = 4
INVARIANTS
  TcpKeeps
  HttpAnswers
  ModbusFaithful
  BacnetReports
  DbSound
PROPERTIES
  TriggerFires
  
  WsRecovers
CHECK_DEADLOCK FALSE
