--------------------------- MODULE ModelResidency ---------------------------
(***************************************************************************)
(* Which models the endpoints are known for (computecop/residency.py):     *)
(* the names they have listed, and the names requests sent to them have    *)
(* asked for. Routing asks no more than that. When a name was recorded,    *)
(* and the sizes and states estimated from it for display, are left out.   *)
(***************************************************************************)
EXTENDS EndpointRoutes

CONSTANTS
  Models,     \* the model names that requests and endpoints use
  NoModel,    \* a request that names no model
  Matching,   \* the names that model_matches() accepts for a requested one
  Listable    \* the names an endpoint may list, when it is asked

ASSUME ResidencyAssumption ==
  /\ Matching \in [Models -> SUBSET Models]
  /\ NoModel \notin Models
  /\ \A m \in Models : m \in Matching[m]
  /\ \A m, n \in Models : n \in Matching[m] => m \in Matching[n]
  /\ Listable \in [Endpoints -> SUBSET Models]

VARIABLES
  observed,   \* the names each endpoint has in _endpoint_observations
  accessed    \* the names each endpoint has in _last_accessed

residencyVars == <<observed, accessed>>

ResidencyInit ==
  /\ observed = [e \in Endpoints |-> {}]
  /\ accessed = [e \in Endpoints |-> {}]

\* record_request, if the request names a model.
Requested(m, e) ==
  /\ accessed' = [accessed EXCEPT ![e] = @ \cup ({m} \cap Models)]
  /\ UNCHANGED observed

\* An endpoint is asked for its models: it lists names, or the query fails. A
\* name is never dropped again, whether or not it is listed the next time.
Listed(e, names) ==
  /\ names \subseteq Listable[e]
  /\ observed' = [observed EXCEPT ![e] = @ \cup names]
  /\ UNCHANGED accessed

\* model_matches: equal but for tags, directories, extensions and delimiters, or one
\* contained in the other. It is reflexive and symmetric, and not transitive.
Matches(m, name) == name \in Matching[m]

\* is_model_compatible, asked only for a request that names a model.
Serves(m, e) ==
  LET known == observed[e] \cup accessed[e]
  IN  m = NoModel \/ known = {} \/ \E name \in known : Matches(m, name)

=============================================================================
