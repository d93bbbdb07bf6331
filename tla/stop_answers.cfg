\* stop() with one queued request, one worker and an immediate one.
CONSTANTS
  r1 = r1
  r2 = r2
  w1 = w1
  w2 = w2
  dStop = dStop
  p1 = p1
  p2 = p2
  b1 = b1
  NoRequest = NoRequest
  NoDrainer = NoDrainer
  Requests <- OneRequest
  Workers <- OneWorker
  Drainers <- StopDrain
  ShutdownDrain = dStop
  Priority <- OneBackground
  Timeout <- OneTimeout
  MaxSize = 1
  AgingInterval = 1
  Clients <- StopClients
  Immediates <- OneImmediate
  Prompts = {}
  MaxForeground = 1
  MaxBackground = 1
SPECIFICATION FairDispatchSpec
PROPERTY ClosedQueueAnswersCallers
CHECK_DEADLOCK FALSE
