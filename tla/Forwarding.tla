----------------------------- MODULE Forwarding -----------------------------
(***************************************************************************)
(* Forwarding an admitted request upstream (computecop/app.py,             *)
(* _forward_upstream, _select_route and _tracked_stream) with the breakers *)
(* and the endpoint slots it goes through: select an endpoint, wait for    *)
(* one of its slots, call it, and fail over to another one, or hand a      *)
(* stream to the server, which reads it later.                             *)
(*                                                                         *)
(* The calls of this module hold their capacity slots already; the health  *)
(* watcher, the endpoint API and the telemetry loop run beside them.       *)
(***************************************************************************)
EXTENDS EndpointGovernor, CircuitBreakers

CONSTANTS
  Foreground,       \* the calls that use foreground slots
  Streaming,        \* the calls whose body asks for a stream
  Explicit,         \* the endpoint the client's header names, if any
  Compatible        \* the endpoints that serve the family and model of a call

ASSUME ForwardingAssumption ==
  /\ IsFiniteSet(Calls)
  /\ Foreground \subseteq Calls /\ Streaming \subseteq Calls
  /\ Explicit \in [Calls -> Endpoints \cup {NoEndpoint}]
  /\ Compatible \in [Calls -> SUBSET Endpoints]
  /\ \A q \in Streaming : Compatible[q] \subseteq StreamEndpoints

VARIABLES
  stage,    \* where each call stands
  route,    \* the endpoint each call waits for or uses
  failed    \* failed_endpoints of each call

callVars    == <<stage, route, failed>>
forwardVars == <<governorVars, breakers, callVars>>

ClassOf(q) == IF q \in Foreground THEN "fg" ELSE "bg"

CanRetry(q) == q \notin Streaming /\ Explicit[q] = NoEndpoint

ForwardInit ==
  /\ GovernorInit /\ BreakersInit
  /\ stage = [q \in Calls |-> "new"]
  /\ route = [q \in Calls |-> NoEndpoint]
  /\ failed = [q \in Calls |-> {}]

-----------------------------------------------------------------------------
(* Selecting an endpoint                                                   *)

\* select_compatible() without the endpoints in X looks at the breakers of
\* these, and the fallback to the default endpoint at one more.
LookedAt(q, X) ==
  LET candidates == Compatible[q] \ X
  IN  IF \E e \in candidates : Allows(breakers[e])
        THEN candidates ELSE candidates \cup {DefaultEndpoint}

\* Mutant of Choices: the fallback forgets which endpoints have failed.
ChoicesFallingBack(q, X, bs) ==
  LET available == {e \in Compatible[q] \ X : Allows(bs[e])}
  IN  IF available # {} THEN available
      ELSE {e \in {DefaultEndpoint} : Allows(bs[e])}

\* What selection may return, given the breakers bs: an allowed candidate (the
\* probe statistics that rank them are left open), or else the default.
Choices(q, X, bs) ==
  LET available == {e \in Compatible[q] \ X : Allows(bs[e])}
  IN  IF available # {} THEN available
      ELSE {e \in {DefaultEndpoint} \ X : Allows(bs[e])}

StreamsAt(q, e) == q \in Streaming /\ e \in StreamEndpoints

\* The call goes to e: it takes a slot of e, or waits for one. With the slot a
\* buffered call is made upstream. A stream is only wrapped in a
\* StreamingResponse, which is returned at once, and the finally block of
\* _forward_upstream gives the slot back; the server reads it later.
GoesTo(q, e) ==
  /\ route' = [route EXCEPT ![q] = e]
  /\ UNCHANGED failed
  /\ \/ /\ ~StreamsAt(q, e)
        /\ Enters(e, ClassOf(q))
        /\ stage' = [stage EXCEPT ![q] = "calling"]
     \/ /\ StreamsAt(q, e)
        /\ PassesThrough(e, ClassOf(q))
        /\ stage' = [stage EXCEPT ![q] = "returned"]
     \/ /\ Sleeps(q, e, ClassOf(q))
        /\ stage' = [stage EXCEPT ![q] = "waiting"]

Ends(q) ==
  /\ stage' = [stage EXCEPT ![q] = "over"]
  /\ route' = [route EXCEPT ![q] = NoEndpoint]
  /\ failed' = [failed EXCEPT ![q] = {}]

\* No explicit endpoint: at the beginning and again after a failover event
\* has been logged, when the breakers may have moved.
Selects(q) ==
  /\ stage[q] \in {"new", "failover"}
  /\ Explicit[q] = NoEndpoint
  /\ \E e \in Choices(q, failed[q], breakers) : GoesTo(q, e)
  /\ breakers' = Looked(breakers, LookedAt(q, failed[q]))

\* Mutant of FindsNone: `route` is not reset before the next selection, and the
\* endpoint that failed is charged again.
FindsNoneBlamingAgain(q) ==
  /\ stage[q] \in {"new", "failover"}
  /\ Explicit[q] = NoEndpoint
  /\ Choices(q, failed[q], breakers) = {}
  /\ \E e \in failed[q] : breakers' = [breakers EXCEPT ![e] = Failed(@)]
  /\ Ends(q)
  /\ UNCHANGED governorVars

\* Nothing is left: the error names no endpoint, so no breaker counts it.
FindsNone(q) ==
  /\ stage[q] \in {"new", "failover"}
  /\ Explicit[q] = NoEndpoint
  /\ Choices(q, failed[q], breakers) = {}
  /\ breakers' = Looked(breakers, LookedAt(q, failed[q]))
  /\ Ends(q)
  /\ UNCHANGED governorVars

\* Mutant of SelectsExplicit: the endpoint a client names is not asked for its breaker.
SelectsExplicitUnasked(q) ==
  LET e == Explicit[q]
  IN  /\ stage[q] = "new" /\ e # NoEndpoint
      /\ e \in Compatible[q]
      /\ GoesTo(q, e)
      /\ UNCHANGED breakers

\* The header names an endpoint that is allowed traffic and fits the request.
SelectsExplicit(q) ==
  LET e == Explicit[q]
  IN  /\ stage[q] = "new" /\ e # NoEndpoint
      /\ Allows(breakers[e]) /\ e \in Compatible[q]
      /\ GoesTo(q, e)
      /\ breakers' = Looked(breakers, {e})

\* It names one that is not: the error names the endpoint, and the handler of
\* UpstreamFailure records it as a failure of that endpoint.
RefusesExplicit(q) ==
  LET e == Explicit[q]
  IN  /\ stage[q] = "new" /\ e # NoEndpoint
      /\ ~(Allows(breakers[e]) /\ e \in Compatible[q])
      /\ breakers' = [breakers EXCEPT ![e] = Failed(Seen(@))]
      /\ Ends(q)
      /\ UNCHANGED governorVars

\* The call is woken in acquire() and looks again.
AcquiresAgain(q) ==
  /\ stage[q] = "waiting" /\ q \notin asleep
  /\ GoesTo(q, route[q])
  /\ UNCHANGED breakers

-----------------------------------------------------------------------------
(* How an upstream exchange fails                                          *)

\* The classes of _classify_transport_error. (A redirect is not followed, so the
\* last branch, for too many of them, is not reached.)
Failure == {"passing status", "final status", "misconfigured", "unreachable", "timeout",
            "broken protocol", "undecodable", "other transport error"}

Retryable == Failure \ {"final status", "misconfigured", "undecodable"}

\* A buffered exchange fails only if there is no answer: one of any status is passed
\* on. A stream fails for a status that is an error, too.
FailuresOf(streamed) ==
  IF streamed THEN Failure ELSE Failure \ {"passing status", "final status"}

MayTryAnother(q, failure) == CanRetry(q) /\ failure \in Retryable

-----------------------------------------------------------------------------
(* A buffered call                                                         *)

\* Mutant of Answers: the slot is kept.
AnswersKeepingSlot(q) ==
  /\ stage[q] = "calling"
  /\ breakers' = [breakers EXCEPT ![route[q]] = Succeeded(@)]
  /\ Ends(q)
  /\ UNCHANGED governorVars

\* The upstream answers, whatever the status: success for the breaker.
Answers(q) ==
  /\ stage[q] = "calling"
  /\ breakers' = [breakers EXCEPT ![route[q]] = Succeeded(@)]
  /\ Leaves(route[q], ClassOf(q))
  /\ Ends(q)

\* The breakers when the endpoint of q has failed, before anybody looks.
AfterFailure(q) == [breakers EXCEPT ![route[q]] = Failed(@)]

\* A retryable failure, and another endpoint would take the request now.
FailsOver(q) ==
  /\ stage[q] = "calling"
  /\ \E failure \in FailuresOf(FALSE) : MayTryAnother(q, failure)
  /\ Choices(q, failed[q] \cup {route[q]}, AfterFailure(q)) # {}
  /\ breakers' = Looked(AfterFailure(q), LookedAt(q, failed[q] \cup {route[q]}))
  /\ Leaves(route[q], ClassOf(q))
  /\ stage' = [stage EXCEPT ![q] = "failover"]
  /\ route' = [route EXCEPT ![q] = NoEndpoint]
  /\ failed' = [failed EXCEPT ![q] = @ \cup {route[q]}]

\* A failure that is final: it is not retryable, or nothing else would do.
Fails(q) ==
  /\ stage[q] = "calling"
  /\ \/ /\ \E failure \in FailuresOf(FALSE) : ~MayTryAnother(q, failure)
        /\ breakers' = AfterFailure(q)
     \/ /\ \E failure \in FailuresOf(FALSE) : MayTryAnother(q, failure)
        /\ Choices(q, failed[q] \cup {route[q]}, AfterFailure(q)) = {}
        /\ breakers' = Looked(AfterFailure(q), LookedAt(q, failed[q] \cup {route[q]}))
  /\ Leaves(route[q], ClassOf(q))
  /\ Ends(q)

\* The task is cancelled: the finally block gives the slot back.
CallCancelled(q) ==
  /\ stage[q] = "calling"
  /\ Leaves(route[q], ClassOf(q))
  /\ Ends(q)
  /\ UNCHANGED breakers

WaitCancelled(q) ==
  /\ stage[q] \in {"waiting", "failover"}
  /\ StopsWaiting(q)
  /\ Ends(q)
  /\ UNCHANGED breakers

-----------------------------------------------------------------------------
(* A stream                                                                *)

\* The server reads the stream: the upstream request is made now.
StreamStarts(q) ==
  /\ stage[q] = "returned"
  /\ stage' = [stage EXCEPT ![q] = "streaming"]
  /\ UNCHANGED <<governorVars, breakers, route, failed>>

\* The response is dropped before: the generator never runs.
StreamDropped(q) ==
  /\ stage[q] = "returned"
  /\ Ends(q)
  /\ UNCHANGED <<governorVars, breakers>>

\* The stream ends, fails in whatever way or is abandoned; _tracked_stream releases
\* again. A stream that the client's own mistake ends (a final status) counts as a
\* failure of the endpoint as well.
StreamEnds(q) ==
  /\ stage[q] = "streaming"
  /\ \/ breakers' = [breakers EXCEPT ![route[q]] = Succeeded(@)]
     \/ \E failure \in FailuresOf(TRUE) : breakers' = AfterFailure(q)
     \/ UNCHANGED breakers
  /\ Leaves(route[q], ClassOf(q))
  /\ Ends(q)

-----------------------------------------------------------------------------
(* Beside the calls                                                        *)

ProbeEnds(e) ==
  /\ \E healthy \in BOOLEAN : Probed(e, healthy)
  /\ UNCHANGED <<governorVars, callVars>>

TimePassesAt(e) == CoolsDown(e) /\ UNCHANGED <<governorVars, callVars>>

BreakersInspected == Inspected /\ UNCHANGED <<governorVars, callVars>>

CeilingsReported == CeilingsChange /\ UNCHANGED <<breakers, callVars>>

\* What a call does by itself, once it has begun.
Proceeds(q) ==
  /\ stage[q] # "new"
  /\ \/ Selects(q) \/ FindsNone(q)
     \/ AcquiresAgain(q)
     \/ Answers(q) \/ FailsOver(q) \/ Fails(q)
     \/ StreamStarts(q) \/ StreamDropped(q) \/ StreamEnds(q)

CallNext(q) ==
  \/ Selects(q) \/ FindsNone(q) \/ SelectsExplicit(q) \/ RefusesExplicit(q)
  \/ AcquiresAgain(q)
  \/ Answers(q) \/ FailsOver(q) \/ Fails(q)
  \/ CallCancelled(q) \/ WaitCancelled(q)
  \/ StreamStarts(q) \/ StreamDropped(q) \/ StreamEnds(q)

ForwardNext ==
  \/ \E q \in Calls : CallNext(q)
  \/ \E e \in Endpoints : ProbeEnds(e) \/ TimePassesAt(e)
  \/ BreakersInspected
  \/ CeilingsReported

ForwardSpec == ForwardInit /\ [][ForwardNext]_forwardVars

\* A call that can go on does, for every upstream call has a timeout and the
\* server reads a stream or drops it. Nobody has to cancel, and no probe or
\* pressure report has to come.
ForwardFairness == \A q \in Calls : WF_forwardVars(Proceeds(q))

FairForwardSpec == ForwardSpec /\ ForwardFairness

-----------------------------------------------------------------------------
(* Properties                                                              *)

\* Every variable keeps to its values: release() never counts below zero,
\* although each stream releases twice.
ForwardTypeOK ==
  /\ ceiling \in Ceilings
  /\ running \in [Endpoints -> [Class -> Nat]]
  /\ asleep \subseteq Calls
  /\ breakers \in [Endpoints -> Breaker]
  /\ stage \in [Calls -> {"new", "waiting", "calling", "failover", "returned",
                          "streaming", "over"}]
  /\ route \in [Calls -> Endpoints \cup {NoEndpoint}]
  /\ failed \in [Calls -> SUBSET Endpoints]

\* The calls of a class that use an endpoint now.
Using(e, c) ==
  {q \in Calls : route[q] = e /\ ClassOf(q) = c /\ stage[q] \in {"calling", "streaming"}}

NoStreamYet(c) ==
  \A q \in Streaming : ClassOf(q) = c => stage[q] \notin {"streaming", "over"}

\* Answers, failures, failovers and cancellations leak no endpoint slot and
\* free none twice: until a stream is read, the count is that of the calls.
BufferedCallsCounted ==
  \A e \in Endpoints, c \in Class :
    NoStreamYet(c) => running[e][c] = Cardinality(Using(e, c))

\* No lost wakeup at the endpoints: a call sleeps only while its endpoint has
\* no slot for it, although one condition serves every endpoint and class.
SleepersHaveNoRoom ==
  \A q \in asleep : stage[q] = "waiting" /\ ~HasRoom(route[q], ClassOf(q))

\* Failover makes progress: a request never uses, nor waits for, an endpoint
\* that has failed it.
NeverBackToFailed ==
  \A q \in Calls : route[q] \notin failed[q]

\* Whatever endpoint e may be blamed or praised for in a step: no call moves (a probe
\* ends), a call that used it leaves it, or a call that names it is refused.
VerdictOn(e) ==
  \/ UNCHANGED callVars
  \/ \E q \in Calls :
       \/ stage[q] \in {"calling", "streaming"} /\ route[q] = e /\ route'[q] = NoEndpoint
       \/ stage[q] = "new" /\ Explicit[q] = e /\ stage'[q] = "over"

\* What may become of the breaker of e in a step.
OwnFailuresOnly(e) ==
  LET b == breakers[e]
      c == breakers'[e]
  IN  /\ c.failures # b.failures => VerdictOn(e) /\ c.failures \in {0, b.failures + 1}
      /\ b.state = "closed" /\ c.state # "closed" =>
           c.state = "open" /\ b.failures + 1 = FailureThreshold
      /\ b.state = "half_open" /\ c.state = "open" => VerdictOn(e)
      /\ b.state = "open" /\ c.state = "half_open" => b.cooled
      /\ b.state = "half_open" /\ c.state = "closed" => b.trials + 1 = HalfOpenSuccesses
      /\ b.state # "closed" /\ c.state = "closed" => VerdictOn(e) /\ c.failures = 0

\* The failures that take an endpoint out of service are its own, and each of them
\* counts once, however probes, failovers and looks interleave: a request that fails
\* over and then finds no endpoint charges nobody a second time. A closed breaker
\* opens only with the threshold'th failure since it was last reset, and one on trial
\* only with a failure; a trial begins only after the cool-down and closes the breaker
\* only with the last of its successes; and a breaker that closes starts from zero. (A
\* success also closes a breaker that is open, at once.)
FailuresAreOwn == [][\A e \in Endpoints : OwnFailuresOnly(e)]_forwardVars

\* An endpoint whose breaker is open gets no new request, by whatever way it was
\* chosen: prompt or stream, explicit or routed, first try or failover. The exception
\* is a call that was let in before and has waited for a slot since, for the breaker
\* is not asked again after the wait.
OpenOnlyAfterWait ==
  [][\A q \in Calls :
       /\ stage[q] \in {"new", "failover", "waiting"}
       /\ stage'[q] \in {"calling", "returned"}
       /\ breakers'[route'[q]].state = "open"
       => stage[q] = "waiting"]_forwardVars

\* A foreground call that waits for an endpoint gets a slot or is cancelled:
\* its ceiling is at least one, and every call at an endpoint ends.
EndpointsServePrompts ==
  \A q \in Foreground : stage[q] = "waiting" ~> stage[q] # "waiting"

\* OPERATIONS.md of the endpoint ceilings: they "cap how many concurrent requests
\* each configured endpoint may serve", and "Streaming responses release
\* capacity when the stream completes, errors, or the client disconnects". So
\* calls and streams together keep to the configured ceiling.
EndpointCeilingKept ==
  \A e \in Endpoints, c \in Class :
    Cardinality(Using(e, c)) <= MaxEndpointSlots[c]

=============================================================================
