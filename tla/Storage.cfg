SPECIFICATION Spec
CONSTANTS
  s1 = s1
  s2 = s2
  HistoryCap = 3
  Shells = {s1, s2}
  Commands <- MCCommands
  FileLines <- MCFileLines
  SessionMax = 2
  MaxEntries <- MCMaxEntries
  Deduplicate <- MCDeduplicate
  Listed = 2
  Owners = {s1, s2}
  RecordsMax = 2
  FrameSize = 2
  PendingCap = 4
  ChunkCap = 2
  PipeCap = 2
  RecordCap = 3
  PromptCap = 2
  Exchanges = 1
  ContextSlots = 2
INVARIANTS
  NothingBehindTorn
  LossIsReported
  ReadersSeeTheNewest
PROPERTIES
  FileIsLog
CHECK_DEADLOCK FALSE
