\* Three calls of different kinds over two endpoints.
CONSTANTS
  q1 = q1
  q2 = q2
  q3 = q3
  e1 = e1
  e2 = e2
  NoEndpoint = NoEndpoint
  Endpoints <- TwoEndpoints
  DefaultEndpoint = e1
  StreamEndpoints <- OnlyFirst
  Calls <- ThreeCalls
  Foreground <- TwoPrompts
  Streaming <- OneStream
  Explicit <- NamesOne
  Compatible <- ServedByBoth
  MaxEndpointSlots <- TwoSlots
  FailureThreshold = 2
  HalfOpenSuccesses = 2
SPECIFICATION FairForwardSpec
INVARIANTS
  ForwardTypeOK
  BufferedCallsCounted
  SleepersHaveNoRoom
  NeverBackToFailed
PROPERTIES
  FailuresAreOwn
  OpenOnlyAfterWait
  EndpointsServePrompts
