\* Two streams for one endpoint that may serve one of them at a time.
CONSTANTS
  q1 = q1
  q2 = q2
  q3 = q3
  e1 = e1
  e2 = e2
  NoEndpoint = NoEndpoint
  Endpoints <- TwoEndpoints
  DefaultEndpoint = e1
  StreamEndpoints <- OnlyFirst
  Calls <- TwoStreams
  Foreground <- TwoStreams
  Streaming <- TwoStreams
  Explicit <- NamesNone
  Compatible <- ServedByFirst
  MaxEndpointSlots <- OneSlotEach
  FailureThreshold = 2
  HalfOpenSuccesses = 1
SPECIFICATION ForwardSpec
INVARIANT EndpointCeilingKept
