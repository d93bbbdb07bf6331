--------------------------- MODULE CircuitBreakers ---------------------------
(***************************************************************************)
(* The circuit breakers of the configured endpoints (computecop/health.py). *)
(* A breaker is a record that the methods of EndpointCircuitBreaker map to *)
(* another one; several of them may run between two suspension points, so  *)
(* they are functions of the record.                                       *)
(*                                                                         *)
(* The cool-down is noticed only when somebody looks at the breaker:       *)
(* record_success() and record_failure() act on the state as it was last   *)
(* seen.                                                                   *)
(***************************************************************************)
EXTENDS EndpointRoutes, Integers

CONSTANTS
  FailureThreshold,    \* circuit_breaker_failure_threshold
  HalfOpenSuccesses    \* circuit_breaker_half_open_successes

ASSUME BreakerAssumption ==
  /\ FailureThreshold \in Nat \ {0}
  /\ HalfOpenSuccesses \in Nat \ {0}

VARIABLE breakers     \* the breaker of each endpoint

\* failures stops counting at the threshold: nothing tells larger counts apart.
Breaker == [state    : {"closed", "open", "half_open"},
            failures : 0..FailureThreshold,       \* _consecutive_failures
            trials   : 0..HalfOpenSuccesses - 1,  \* _half_open_success_count
            cooled   : BOOLEAN]                   \* the cool-down is over

\* _reset_to_closed
Reset == [state |-> "closed", failures |-> 0, trials |-> 0, cooled |-> FALSE]

\* _trip_open, after n consecutive failures. The cool-down starts anew.
Tripped(n) == [state |-> "open", failures |-> n, trials |-> 0, cooled |-> FALSE]

\* _maybe_advance_from_open
Seen(b) ==
  IF b.state = "open" /\ b.cooled
    THEN [b EXCEPT !.state = "half_open", !.trials = 0, !.cooled = FALSE]
    ELSE b

\* allows_traffic
Allows(b) == Seen(b).state # "open"

\* record_success: anything but a half-open breaker closes at once.
Succeeded(b) ==
  IF b.state = "half_open" /\ b.trials + 1 < HalfOpenSuccesses
    THEN [b EXCEPT !.trials = @ + 1]
    ELSE Reset

\* record_failure
Failed(b) ==
  IF b.state = "half_open" \/ b.failures + 1 >= FailureThreshold
    THEN Tripped(FailureThreshold)
    ELSE [b EXCEPT !.failures = @ + 1]

BreakersInit == breakers = [e \in Endpoints |-> Reset]

\* Some of the breakers are looked at.
Looked(bs, E) == [e \in Endpoints |-> IF e \in E THEN Seen(bs[e]) ELSE bs[e]]

\* A breaker that is told of a success or of a failure.
Judged(b, healthy) == IF healthy THEN Succeeded(b) ELSE Failed(b)

\* EndpointCapabilityRegistry.probe() when the answer arrives.
Probed(e, healthy) == breakers' = [breakers EXCEPT ![e] = Judged(@, healthy)]

\* The cool-down of an open breaker passes.
CoolsDown(e) ==
  /\ breakers[e].state = "open" /\ ~breakers[e].cooled
  /\ breakers' = [breakers EXCEPT ![e].cooled = TRUE]

\* open_circuit_breaker_count and the endpoint records look at every breaker.
Inspected ==
  /\ breakers # Looked(breakers, Endpoints)
  /\ breakers' = Looked(breakers, Endpoints)

=============================================================================
