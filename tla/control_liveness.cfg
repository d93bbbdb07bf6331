\* One request and the loop at one log.
SPECIFICATION FairControlSpec
CONSTANTS
  chat = chat
  embed = embed
  loopTask = loopTask
  NoTask = NoTask
  NoRequest = NoRequest
  Loop <- loopTask
  Tasks <- OneTask
  Requests <- OneRequest
  Hints <- OneHint
  Tokens <- OneSize
  CorrelationId <- OneId
  RawSamples <- MCRawSamples
  Window = 2
  Endpoints = 1
  RecentLimit = 1
  MaxEvents = 1
  MaxSlots <- MCMaxSlots
  BaseJuice = 70
  MinJuice = 10
  BaseContext = 8192
  MaxQueueSize = 64
  YieldCap = 85
  RecoverCap = 78
  RecoverGap = 7
  ReservePercent = 90
  BudgetScale = 100
  SmallHost = FALSE
  CpuAt = 88
  SwapAt = 30
PROPERTIES
  RequestsGetPastTheLog
  LimitsFollowTelemetry
\* After a stop and the last answer nothing is left to do.
CHECK_DEADLOCK FALSE
