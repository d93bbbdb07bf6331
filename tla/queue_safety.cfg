\* Three requests of two priorities, two workers, a heap of two.
CONSTANTS
  r1 = r1
  r2 = r2
  r3 = r3
  w1 = w1
  w2 = w2
  d1 = d1
  NoRequest = NoRequest
  NoDrainer = NoDrainer
  Requests <- MixedRequests
  Workers <- TwoWorkers
  Drainers = {}
  Priority <- MixedPriority
  Timeout <- MixedTimeout
  MaxSize = 2
  AgingInterval = 1
SYMMETRY WorkerSymmetry
SPECIFICATION QueueSpec
INVARIANTS
  CountersMatchWorkers
  SingleOwner
  NoLostWakeup
  NoForgottenCaller
PROPERTIES
  FifoWithinPriority
  AgedNotOvertaken
