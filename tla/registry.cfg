\* The watcher, a caller of GET /endpoints and two requests over two endpoints. An
\* engine that errs may do all that one that is gone may, so that is left to the
\* other run.
SPECIFICATION RegistrySpec
CONSTANTS
  e1 = e1
  e2 = e2
  m1 = m1
  m2 = m2
  watcher = watcher
  reader = reader
  r1 = r1
  r2 = r2
  NoEndpoint = NoEndpoint
  Endpoints <- BothEndpoints
  DefaultEndpoint = e1
  StreamEndpoints = {}
  FailureThreshold = 2
  HalfOpenSuccesses = 1
  Models <- TwoModels
  NoModel = NoModel
  Matching <- OnlyEqual
  Listable <- FirstLists
  Engine = {"serves", "errs"}
  Order <- InOrder
  Family <- OneFamily
  Readers <- OneReader
  Watcher = watcher
  Requests <- TwoRequests
  RequestFamily <- OfOneFamily
  Named <- SecondNames
  Model <- ForSecond
INVARIANT RegistryTypeOK
PROPERTY
  BetterPreferred
