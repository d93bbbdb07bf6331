-------------------------- MODULE EndpointGovernor --------------------------
(***************************************************************************)
(* The slots of each endpoint (computecop/concurrency.py, class            *)
(* EndpointConcurrencyGovernor). One condition is shared by all endpoints  *)
(* and both classes of requests, and is always notified as a whole.        *)
(***************************************************************************)
EXTENDS EndpointRoutes, Integers

CONSTANTS
  Calls,             \* the requests that are forwarded
  MaxEndpointSlots   \* the configured ceilings: [fg, bg]

ASSUME GovernorAssumption ==
  MaxEndpointSlots \in [fg : Nat \ {0}, bg : Nat \ {0}]

Class == {"fg", "bg"}

VARIABLES
  ceiling,   \* _limits.max_endpoint_foreground and .max_endpoint_background
  running,   \* _running: the executions of each class at each endpoint
  asleep     \* the calls in condition.wait() that have not been notified

governorVars == <<ceiling, running, asleep>>

\* What compute_concurrency_limits() can return.
Ceilings == [fg : 1..MaxEndpointSlots.fg, bg : 0..MaxEndpointSlots.bg]

\* The ceilings are one until the first pressure report.
GovernorInit ==
  /\ ceiling = [c \in Class |-> 1]
  /\ running = [e \in Endpoints |-> [c \in Class |-> 0]]
  /\ asleep = {}

\* _can_acquire_locked
HasRoom(e, c) == running[e][c] < ceiling[c]

\* acquire() returns.
Enters(e, c) ==
  /\ HasRoom(e, c)
  /\ running' = [running EXCEPT ![e][c] = @ + 1]
  /\ UNCHANGED <<ceiling, asleep>>

\* acquire() waits.
Sleeps(q, e, c) ==
  /\ ~HasRoom(e, c)
  /\ asleep' = asleep \cup {q}
  /\ UNCHANGED <<ceiling, running>>

\* Mutant of Freed: no clamp.
FreedUnclamped(n) == n - 1

\* One slot less, as release() counts.
Freed(n) == IF n > 0 THEN n - 1 ELSE 0

\* Mutant of Leaves: the waiting calls are not notified.
LeavesSilently(e, c) ==
  /\ running' = [running EXCEPT ![e][c] = Freed(@)]
  /\ UNCHANGED <<ceiling, asleep>>

\* release()
Leaves(e, c) ==
  /\ running' = [running EXCEPT ![e][c] = Freed(@)]
  /\ asleep' = {}
  /\ UNCHANGED ceiling

\* acquire() returns and release() is called before the task suspends.
PassesThrough(e, c) ==
  /\ HasRoom(e, c)
  /\ running' = [running EXCEPT ![e][c] = Freed(@ + 1)]
  /\ asleep' = {}
  /\ UNCHANGED ceiling

\* The waiting task is cancelled.
StopsWaiting(q) ==
  /\ asleep' = asleep \ {q}
  /\ UNCHANGED <<ceiling, running>>

\* update_limits()
CeilingsChange ==
  /\ ceiling' \in Ceilings
  /\ asleep' = {}
  /\ UNCHANGED running

=============================================================================
