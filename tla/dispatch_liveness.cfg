\* One queued request, one worker, two prompts and an immediate background request, fair tasks.
CONSTANTS
  r1 = r1
  r2 = r2
  w1 = w1
  w2 = w2
  dStop = dStop
  p1 = p1
  p2 = p2
  b1 = b1
  NoRequest = NoRequest
  NoDrainer = NoDrainer
  Requests <- OneRequest
  Workers <- OneWorker
  Drainers <- StopDrain
  ShutdownDrain = dStop
  Priority <- OneBackground
  Timeout <- OneTimeout
  MaxSize = 1
  AgingInterval = 1
  Clients <- OneWorkerClients
  Immediates <- ThreeImmediates
  Prompts <- TwoPrompts
  MaxForeground = 1
  MaxBackground = 1
SPECIFICATION FairDispatchSpec
PROPERTIES
  PromptsGetSlots
  QueuedWorkIsAnswered
  StopComesToAnEnd
CHECK_DEADLOCK FALSE
