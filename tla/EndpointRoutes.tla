--------------------------- MODULE EndpointRoutes ---------------------------
(* The configured endpoints, as UpstreamRouter keeps them.                 *)
EXTENDS FiniteSets

CONSTANTS
  Endpoints,        \* the configured endpoints
  NoEndpoint,       \* no endpoint
  DefaultEndpoint,  \* the first configured endpoint
  StreamEndpoints   \* the endpoints that support streaming

ASSUME RoutesAssumption ==
  /\ IsFiniteSet(Endpoints)
  /\ NoEndpoint \notin Endpoints
  /\ DefaultEndpoint \in Endpoints
  /\ StreamEndpoints \subseteq Endpoints

=============================================================================
