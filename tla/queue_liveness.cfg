\* Two requests, one worker, a drain() call, a heap of one, fair tasks.
CONSTANTS
  r1 = r1
  r2 = r2
  r3 = r3
  w1 = w1
  w2 = w2
  d1 = d1
  NoRequest = NoRequest
  NoDrainer = NoDrainer
  Requests <- PairRequests
  Workers <- OneWorker
  Drainers <- OneDrainer
  Priority <- PairPriority
  Timeout <- PairTimeout
  MaxSize = 1
  AgingInterval = 1
SPECIFICATION FairQueueSpec
PROPERTIES
  CallersAreAnswered
  CloseEndsWorkers
  DrainComesBack
