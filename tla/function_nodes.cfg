SPECIFICATION MCSpec
CONSTANTS
  DelayModes = {"delay", "rate", "drop", "queue", "timed"}
  DelayMax = 4
  DelayKept = 2
  DelayTopics = {"", "t"}
  DelayRates = {1, 2000}
  DelayRate0 = 1
  RbeTopics = {"a"}
  RbeValues <- MCRbeValues
  RbeGap = 2
  RbeStart = 1
  RbeMax = 3
  RbeNone = 99
  ExecRuns = {1, 2}
  LinkTargets <- MCLinkTargets
  LinkCalls = 2
  LinkCopies = 2
  SplitKinds = {"array", "object", "string", "length", "buffer", "binary"}
  SplitValues <- MCSplitValues
  SplitLen = 2
  SplitMax = 2
  SplitDups = 2
  BatchModes = {"count", "interval", "concat", "sort"}
  BatchCount = 2
  BatchOverlap = 1
  BatchTopics = {"a", "b"}
  BatchGroups = {1, 2}
  BatchKept = 3
  BatchMax = 5
  ChgMsgs <- MCChgMsgs
  ChgCtx <- MCChgCtx
  ChgRules <- MCChgRules
  ChgIdents = {"a", "b", "c", "x", "y", "1", "2"}
  ChgMax = 2
  ParParts = {"csv", "json", "yaml"}
  CsvRows <- MCCsvRows
  CsvCount = 2
  CsvMax = 2
  DocValues <- MCDocValues
  DocMax = 4
  FileWriters = {"p", "q"}
  FileModes = {"append", "replace", "delete"}
  FileMax = 2
  FileReads = 1
  FileChunk = 2
  WatchMax = 1
INVARIANTS
  DelayExact
  RbeMemory
  ExecSettled
  JoinExact
  BatchAccounts
  ChangeFaithful
  ParsersAgree
  FileReadsBack
PROPERTY
  LinkImplements
CHECK_DEADLOCK FALSE
