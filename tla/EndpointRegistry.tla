-------------------------- MODULE EndpointRegistry --------------------------
(***************************************************************************)
(* The capability registry (computecop/endpoints.py), the health watcher   *)
(* that feeds it (health.py) and the routing that reads it. The watcher    *)
(* and the callers of GET /endpoints probe the endpoints one after the     *)
(* other and are suspended in each probe; requests are routed and answered *)
(* meanwhile. The cache, the breakers and the known models are shared.     *)
(*                                                                         *)
(* Slots and failover are in Forwarding. Whether a cached probe is younger *)
(* than its time to live is left open.                                     *)
(***************************************************************************)
EXTENDS CircuitBreakers, ModelResidency, Sequences

CONSTANTS
  Engine,     \* what an endpoint may do: serve, answer with 5xx errors, be gone
  Order,      \* the endpoints in the order of the configuration
  Family,     \* the API family of each endpoint
  Readers,    \* the callers of GET /endpoints
  Watcher,    \* the task of the health watcher
  Requests,   \* the inference requests
  RequestFamily,
  Model,      \* the model each request names, if any
  Named       \* the endpoint its header names, if any

ASSUME RegistryAssumption ==
  /\ Engine \subseteq {"serves", "errs", "gone"}
  /\ Order \in Seq(Endpoints) /\ Len(Order) > 0
  /\ \A e \in Endpoints : \E i \in 1..Len(Order) : Order[i] = e
  /\ \A i, j \in 1..Len(Order) : Order[i] = Order[j] => i = j
  /\ DefaultEndpoint = Order[1]
  /\ DOMAIN Family = Endpoints
  /\ DOMAIN RequestFamily = Requests
  /\ Model \in [Requests -> Models \cup {NoModel}]
  /\ Named \in [Requests -> Endpoints \cup {NoEndpoint}]
  /\ Watcher \notin Readers

Probers == Readers \cup {Watcher}
Last == Len(Order)

VARIABLES
  engine,   \* what each endpoint does now
  cache,    \* the cached probe of each endpoint, if any
  place,    \* the position in Order each prober has come to; 0 before the first
            \* and, for the watcher, Last + i while it asks Order[i] for its models
  held,     \* what each prober read in the cache before its probe (below)
  mode,     \* the watcher: "off", "round", "sleeping" or "ended"
  target    \* the endpoint each request was sent to

proberVars   == <<cache, place, held, mode>>
registryVars == <<breakers, residencyVars, engine, proberVars, target>>

\* A cached probe as far as routing tells entries apart: none yet; healthy and no
\* probe has failed so far, or some have; not healthy. Which of two failure rates
\* above zero is lower is left open. (The rate is rounded to four digits, which
\* takes one failure in twenty thousand for none; that is left out.)
Entry == {"unknown", "clean", "mixed", "failing"}

RegistryInit ==
  /\ BreakersInit /\ ResidencyInit
  /\ engine \in [Endpoints -> Engine]
  /\ cache = [e \in Endpoints |-> "unknown"]
  /\ place = [t \in Probers |-> 0]
  /\ held = [t \in Probers |-> "unknown"]
  /\ mode = "off"
  /\ target = [r \in Requests |-> NoEndpoint]

-----------------------------------------------------------------------------
(* Probing                                                                 *)

\* UpstreamRouter.probe: an answer below 500 counts as healthy, any other and every
\* transport error does not.
Healthy(e) == engine[e] = "serves"

\* An entry after one more probe.
Counted(entry, healthy) ==
  IF healthy THEN (IF entry \in {"unknown", "clean"} THEN "clean" ELSE "mixed")
  ELSE "failing"

\* The entry that t counts its probe in (two probers may share a displaced one,
\* which takes three of them; that is not told apart): the cached one, or the one it found in
\* the cache before another prober displaced it, or a new one.
Mine(t) == IF held[t] = "cached" THEN cache[Order[place[t]]] ELSE held[t]

\* Mutant of Recorded: the verdict does not reach the breaker.
RecordedInCacheOnly(t) ==
  /\ cache' = [cache EXCEPT ![Order[place[t]]] = Counted(Mine(t), Healthy(Order[place[t]]))]
  /\ UNCHANGED breakers

\* The answer to the probe of t: it is counted, the entry stored, and the breaker
\* told.
Recorded(t) ==
  /\ cache' = [cache EXCEPT ![Order[place[t]]] = Counted(Mine(t), Healthy(Order[place[t]]))]
  /\ Probed(Order[place[t]], Healthy(Order[place[t]]))

\* What the probers hold once t has stored its entry: those that hold the one that
\* was cached keep it, though it is no longer the cached one if t had another.
HeldAfter(t) ==
  [s \in Probers |->
     IF held[t] # "cached" /\ held[s] = "cached" /\ place[s] = place[t]
       THEN cache[Order[place[t]]] ELSE held[s]]

\* Prober t goes to position i, and if there is an endpoint reads its entry.
Moves(t, i, holding) ==
  /\ place' = [place EXCEPT ![t] = i]
  /\ held' = [holding EXCEPT ![t] =
       IF i \in 1..Last /\ cache'[Order[i]] # "unknown" THEN "cached" ELSE "unknown"]

-----------------------------------------------------------------------------
(* The health watcher                                                      *)

WatcherStarts ==
  /\ mode = "off"
  /\ mode' = "round"
  /\ UNCHANGED <<breakers, residencyVars, engine, cache, target>>
  /\ Moves(Watcher, 1, held)

\* A forced probe; the next endpoint follows at once, then the models.
WatcherProbes ==
  /\ mode = "round" /\ place[Watcher] \in 1..Last
  /\ Recorded(Watcher)
  /\ Moves(Watcher, place[Watcher] + 1, HeldAfter(Watcher))
  /\ UNCHANGED <<residencyVars, engine, mode, target>>

\* Mutant of RoundFails: the exception ends the task.
RoundFailsForGood ==
  /\ mode = "round" /\ place[Watcher] \in 1..Last
  /\ mode' = "died"
  /\ UNCHANGED <<breakers, residencyVars, engine, cache, target>>
  /\ Moves(Watcher, 0, held)

\* A probe raises what the router does not expect: the round is given up.
RoundFails ==
  /\ mode = "round" /\ place[Watcher] \in 1..Last
  /\ mode' = "sleeping"
  /\ UNCHANGED <<breakers, residencyVars, engine, cache, target>>
  /\ Moves(Watcher, 0, held)

\* update_from_endpoints for one endpoint. Every failure of it is caught.
WatcherLists ==
  LET i == place[Watcher]
      e == Order[i - Last]
  IN  /\ mode = "round" /\ i > Last
      /\ \E names \in SUBSET Listable[e] : (engine[e] = "gone" => names = {}) /\ Listed(e, names)
      /\ mode' = IF i < 2 * Last THEN "round" ELSE "sleeping"
      /\ UNCHANGED <<breakers, engine, cache, target>>
      /\ Moves(Watcher, IF i < 2 * Last THEN i + 1 ELSE 0, held)

WatcherWakes ==
  /\ mode = "sleeping"
  /\ mode' = "round"
  /\ UNCHANGED <<breakers, residencyVars, engine, cache, target>>
  /\ Moves(Watcher, 1, held)

\* stop() cancels the task wherever it waits.
WatcherStops ==
  /\ mode \in {"round", "sleeping"}
  /\ mode' = "ended"
  /\ UNCHANGED <<breakers, residencyVars, engine, cache, target>>
  /\ Moves(Watcher, 0, held)

-----------------------------------------------------------------------------
(* GET /endpoints                                                          *)

\* After position i: endpoints with a cached probe that is fresh are passed
\* over, and their breakers looked at, up to the next one to probe.
ReadsOn(t, i, bs, holding) ==
  \E j \in i + 1 .. Last + 1 :
    LET passed == {Order[k] : k \in i + 1 .. j - 1}
    IN  /\ \A e \in passed : cache'[e] # "unknown"
        /\ breakers' = Looked(bs, passed)
        /\ Moves(t, IF j <= Last THEN j ELSE 0, holding)

ReaderCalls(t) ==
  /\ place[t] = 0
  /\ UNCHANGED <<residencyVars, engine, cache, mode, target>>
  /\ ReadsOn(t, 0, breakers, held)

ReaderProbes(t) ==
  LET e == Order[place[t]]
  IN  /\ place[t] > 0
      /\ cache' = [cache EXCEPT ![e] = Counted(Mine(t), Healthy(e))]
      /\ ReadsOn(t, place[t], [breakers EXCEPT ![e] = Judged(@, Healthy(e))], HeldAfter(t))
      /\ UNCHANGED <<residencyVars, engine, mode, target>>

-----------------------------------------------------------------------------
(* Requests that name no endpoint                                          *)

Candidates(r) ==
  {e \in Endpoints : Family[e] = RequestFamily[r] /\ Serves(Model[r], e)}

Spotless(E) == {e \in E : cache[e] \in {"unknown", "clean"}}

\* Mutant of Best: the verdict of the last probe is forgotten.
BestByRecord(E) == IF Spotless(E) # {} THEN Spotless(E) ELSE E

\* The healthy ones, if any, and of these the ones with the lowest failure rate.
\* Ties are left open.
Best(E) ==
  LET healthy == {e \in E : cache[e] # "failing"}
      pool    == IF healthy # {} THEN healthy ELSE E
  IN  IF Spotless(pool) # {} THEN Spotless(pool) ELSE pool

\* select_compatible, and the default endpoint when it finds none.
Choices(r) ==
  LET available == {e \in Candidates(r) : Allows(breakers[e])}
  IN  IF available # {} THEN Best(available)
      ELSE {e \in {DefaultEndpoint} : Allows(breakers[e])}

\* The breakers it looks at.
LookedAtFor(r) ==
  Candidates(r) \cup
    (IF \E e \in Candidates(r) : Allows(breakers[e]) THEN {} ELSE {DefaultEndpoint})

\* The request goes to e; its model is noted there before the exchange.
SentTo(r, e) ==
  /\ target' = [target EXCEPT ![r] = e]
  /\ Requested(Model[r], e)
  /\ UNCHANGED <<engine, proberVars>>

Routed(r) ==
  /\ target[r] = NoEndpoint /\ Named[r] = NoEndpoint
  /\ \E e \in Choices(r) : SentTo(r, e)
  /\ breakers' = Looked(breakers, LookedAtFor(r))

-----------------------------------------------------------------------------
(* Requests that name one                                                  *)

Fits(r) == Allows(breakers[Named[r]]) /\ Named[r] \in Candidates(r)

RoutedByName(r) ==
  /\ target[r] = NoEndpoint /\ Named[r] # NoEndpoint
  /\ Fits(r)
  /\ SentTo(r, Named[r])
  /\ breakers' = Looked(breakers, {Named[r]})

\* The endpoint is not asked, and yet charged with a failure, whether its breaker is
\* open or it does not fit the request.
Refused(r) ==
  /\ target[r] = NoEndpoint /\ Named[r] # NoEndpoint
  /\ ~Fits(r)
  /\ breakers' = [breakers EXCEPT ![Named[r]] = Failed(Seen(@))]
  /\ UNCHANGED <<residencyVars, engine, proberVars, target>>

-----------------------------------------------------------------------------
(* How an exchange ends                                                    *)

Ended(r) ==
  /\ target[r] # NoEndpoint
  /\ target' = [target EXCEPT ![r] = NoEndpoint]
  /\ UNCHANGED <<residencyVars, engine, proberVars>>

\* With an answer, which is a success whatever its status: here a breaker takes for
\* healthy what a probe does not.
Answered(r) ==
  /\ Ended(r)
  /\ engine[target[r]] # "gone"
  /\ Probed(target[r], TRUE)

\* With a failure: the engine is gone, or it serves and is too slow for this call,
\* cannot be decoded, or refuses or breaks off a stream.
ExchangeFails(r) ==
  /\ Ended(r)
  /\ Probed(target[r], FALSE)

\* The caller leaves: no verdict.
Abandoned(r) == Ended(r) /\ UNCHANGED breakers

-----------------------------------------------------------------------------
\* An engine is started or stopped, or begins or ceases to err.
EngineTurns(e) ==
  /\ \E state \in Engine \ {engine[e]} : engine' = [engine EXCEPT ![e] = state]
  /\ UNCHANGED <<breakers, residencyVars, proberVars, target>>

BreakerCools(e) ==
  /\ CoolsDown(e)
  /\ UNCHANGED <<residencyVars, engine, proberVars, target>>

WatcherNext == WatcherProbes \/ WatcherLists \/ WatcherWakes

RegistryNext ==
  \/ WatcherStarts \/ WatcherNext \/ RoundFails \/ WatcherStops
  \/ \E t \in Readers : ReaderCalls(t) \/ ReaderProbes(t)
  \/ \E r \in Requests :
       \/ Routed(r) \/ RoutedByName(r) \/ Refused(r)
       \/ Answered(r) \/ ExchangeFails(r) \/ Abandoned(r)
  \/ \E e \in Endpoints : EngineTurns(e) \/ BreakerCools(e)

RegistrySpec == RegistryInit /\ [][RegistryNext]_registryVars

\* The watcher runs: each probe has a timeout and each sleep an end. A round may
\* be given up, but the probe of an endpoint does not raise for ever. (One that
\* always did would end every round before the endpoints after it.)
RegistryFairness ==
  /\ WF_registryVars(WatcherNext)
  /\ \A i \in 1..Last : SF_registryVars(WatcherProbes /\ place[Watcher] = i)

FairRegistrySpec == RegistrySpec /\ RegistryFairness

-----------------------------------------------------------------------------
(* Properties                                                              *)

\* Every variable keeps to its values; the watcher is at an endpoint exactly
\* during a round.
RegistryTypeOK ==
  /\ breakers \in [Endpoints -> Breaker]
  /\ observed \in [Endpoints -> SUBSET Models] /\ accessed \in [Endpoints -> SUBSET Models]
  /\ engine \in [Endpoints -> Engine]
  /\ cache \in [Endpoints -> Entry]
  /\ \A t \in Readers : place[t] \in 0..Last
  /\ place[Watcher] \in 0..2 * Last /\ (place[Watcher] > 0 <=> mode = "round")
  /\ held \in [Probers -> Entry \cup {"cached"}]
  /\ mode \in {"off", "round", "sleeping", "ended"}
  /\ target \in [Requests -> Endpoints \cup {NoEndpoint}]

Preference == [unknown |-> 0, clean |-> 0, mixed |-> 1, failing |-> 2]

\* OPERATIONS.md of the registry: "Healthy endpoints with lower failure rates are
\* preferred", and those with an open breaker are excluded. A request goes to an
\* endpoint whose last probe failed, to one that failed before, or to the default
\* endpoint, only if no other one would be better now, whoever probes meanwhile.
BetterPreferred ==
  [][\A r \in Requests :
       Named[r] = NoEndpoint /\ target[r] = NoEndpoint /\ target'[r] # NoEndpoint =>
         /\ breakers'[target'[r]].state # "open"
         /\ \A e \in Candidates(r) :
              Allows(breakers[e]) =>
                /\ target'[r] \in Candidates(r)
                /\ Preference[cache[target'[r]]] <= Preference[cache[e]]]_registryVars

\* The watcher runs, and endpoint e does the same for ever.
Settled(e, state) == engine[e] = state /\ mode \notin {"off", "ended"}

\* A failure that no probe saw is charged to e.
FailureCharged(e) ==
  \E r \in Requests :
    \/ target[r] = e /\ ExchangeFails(r)
    \/ Named[r] = e /\ Refused(r)

\* An endpoint that is back for good serves again, though no request would try it,
\* rounds fail, and calls and probes of the time before are still under way. Calls
\* may go on to fail there, and requests that name it to be refused, which is
\* charged to it as well: then its breaker lets requests in again and again. From
\* the time on when no more of this happens the breaker closes and stays closed.
RecoveredEndpointReturns ==
  \A e \in Endpoints :
    <>[]Settled(e, "serves") =>
      /\ []<>(breakers[e].state # "open")
      /\ <>[][~FailureCharged(e)]_registryVars => <>[](breakers[e].state = "closed")

\* An endpoint that is gone for good is taken out of service, though nobody
\* sends it a request, and no answer or probe of the time before puts it back.
LostEndpointOpens ==
  \A e \in Endpoints :
    <>[]Settled(e, "gone") => <>[](breakers[e].state # "closed")

=============================================================================
