\* Two requests and the loop at one log.
SPECIFICATION ControlSpec
CONSTANTS
  chat = chat
  embed = embed
  loopTask = loopTask
  NoTask = NoTask
  NoRequest = NoRequest
  Loop <- loopTask
  Tasks <- TwoTasks
  Requests <- TwoRequests
  Hints <- TwoHints
  Tokens <- TwoSizes
  CorrelationId <- TwoIds
  RawSamples <- MCRawSamples
  Window = 2
  Endpoints = 2
  RecentLimit = 1
  MaxEvents = 1
  MaxSlots <- MCMaxSlots
  BaseJuice = 70
  MinJuice = 10
  BaseContext = 8192
  MaxQueueSize = 64
  YieldCap = 85
  RecoverCap = 78
  RecoverGap = 7
  ReservePercent = 90
  BudgetScale = 100
  SmallHost = FALSE
  CpuAt = 88
  SwapAt = 30
INVARIANTS
  ControlTypeOK
  EnforcedTogether
  RecentDecisionsFound
  QueuedAreBackground
PROPERTIES
  PressureNeverAddsCapacity
  RetentionLosesOldest
\* After a stop and the last answer nothing is left to do.
CHECK_DEADLOCK FALSE
