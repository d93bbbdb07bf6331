\* Two queued requests, two workers, a prompt and an immediate background
\* request share one foreground slot and two background ones.
CONSTANTS
  r1 = r1
  r2 = r2
  w1 = w1
  w2 = w2
  dStop = dStop
  p1 = p1
  p2 = p2
  b1 = b1
  NoRequest = NoRequest
  NoDrainer = NoDrainer
  Requests <- TwoRequests
  Workers <- TwoWorkers
  Drainers <- StopDrain
  ShutdownDrain = dStop
  Priority <- AllBackground
  Timeout <- ShortTimeout
  MaxSize = 1
  AgingInterval = 1
  Clients <- TwoWorkerClients
  Immediates <- TwoImmediates
  Prompts <- OnePrompt
  MaxForeground = 1
  MaxBackground = 2
SYMMETRY DispatchSymmetry
SPECIFICATION DispatchSpec
INVARIANTS
  WorkersAndSlotsAgree
  SleepersCannotRun
PROPERTIES
  CleanStopLosesNothing
  ImplementsContract
CHECK_DEADLOCK FALSE
