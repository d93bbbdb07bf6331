\* As registry, with endpoints that list no models and requests that name none; the
\* second one names an endpoint of another family and is refused for ever.
SPECIFICATION FairRegistrySpec
CONSTANTS
  e1 = e1
  e2 = e2
  m1 = m1
  m2 = m2
  watcher = watcher
  reader = reader
  r1 = r1
  r2 = r2
  NoEndpoint = NoEndpoint
  Endpoints <- BothEndpoints
  DefaultEndpoint = e1
  StreamEndpoints = {}
  FailureThreshold = 2
  HalfOpenSuccesses = 1
  Models <- TwoModels
  NoModel = NoModel
  Matching <- OnlyEqual
  Listable <- NothingListed
  Engine = {"serves", "gone"}
  Order <- InOrder
  Family <- OneFamily
  Readers <- OneReader
  Watcher = watcher
  Requests <- TwoRequests
  RequestFamily <- OfTwoFamilies
  Named <- SecondNames
  Model <- ForAny
PROPERTIES
  RecoveredEndpointReturns
  LostEndpointOpens
