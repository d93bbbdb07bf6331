---------------------------- MODULE ControlPlane ----------------------------
(***************************************************************************)
(* The telemetry loop with its one subscriber, update_runtime              *)
(* (computecop/telemetry_loop.py, app.py), the yield controller            *)
(* (yielding.py), the decisions kept for inspection (state.py), and        *)
(* requests up to the point where they are refused, queued or forwarded.   *)
(*                                                                         *)
(* update_runtime() suspends in the offload hook and in the append of an   *)
(* event only; between them other tasks see what it has applied so far.    *)
(***************************************************************************)
EXTENDS PolicyEngine, EventStore, Classifier, SequencesExt

CONSTANTS
  Requests,        \* the inference requests of a behaviour
  Loop,            \* the task of the telemetry loop
  Hints,           \* the hints that each request may carry
  Tokens,          \* the estimated size of each request
  CorrelationId,   \* the id under which each decision is kept
  NoRequest,       \* no decision has this id
  RawSamples,      \* what the sampler returns
  Window,          \* smoothing_window
  Endpoints,       \* number of endpoints, each with a breaker
  RecentLimit      \* recent_decision_limit

ASSUME ControlAssumption ==
  /\ Tasks = Requests \cup {Loop} /\ Loop \notin Requests
  /\ Hints \in [Requests -> SUBSET HintSet]
  /\ Tokens \in [Requests -> Nat]
  /\ NoRequest \notin Requests
  /\ RawSamples \subseteq
       [ram : 0..100, cpu : 0..100, swap : 0..100,
        thermal : {"cool", "warm", "hot", "critical"}, heavy : BOOLEAN]
  /\ Window \in Nat \ {0} /\ Endpoints \in Nat /\ RecentLimit \in Nat \ {0}

VARIABLES
  loop,          \* where the telemetry loop stands
  history,       \* _history; its mean is the telemetry of the state store
  yielding,      \* RamYieldController._active
  unloaded,      \* how many endpoints offload_all() has dealt with
  atGovernor,    \* the report whose limits the endpoint governor has, and whose
                 \* state the state store publishes
  atScheduler,   \* the report whose limits the scheduler has
  place,         \* where each request stands
  metadata,      \* how each request was classified; NoMetadata before
  decision,      \* the decision of each request
  recent,        \* _recent_decisions, the newest first
  index          \* _decision_by_correlation_id

loopVars    == <<loop, history, yielding, unloaded>>
reportVars  == <<atGovernor, atScheduler>>
requestVars == <<place, metadata, decision, recent, index>>
controlVars == <<loopVars, reportVars, requestVars, eventVars>>

Ids == {CorrelationId[r] : r \in Requests}

NoMetadata == [class |-> "none", priority |-> "none"]

-----------------------------------------------------------------------------
(* Samples and reports                                                     *)

\* Mutant of Push: a deque without a bound.
PushAll(h, raw) == Append(h, raw)

\* A deque of maxlen Window.
Push(h, raw) == Append(IF Len(h) < Window THEN h ELSE Tail(h), raw)

Total(h, load) == FoldLeft(LAMBDA sum, raw : sum + raw[load], 0, h)

\* _smooth: means of the loads, the sensors of the last sample.
Smooth(h) ==
  [n |-> Len(h), ram |-> Total(h, "ram"), cpu |-> Total(h, "cpu"), swap |-> Total(h, "swap"),
   thermal |-> IF h = <<>> THEN "cool" ELSE Last(h).thermal,
   heavy |-> h # <<>> /\ Last(h).heavy]

\* What evaluate() returns for the telemetry h with so many breakers open.
Report(h, open) == [signals |-> Signals(Smooth(h)), open |-> open]

\* Before the first report: the governor has its ceilings of one, the
\* scheduler the configured ones, and the state store is normal.
NoReport == [signals |-> Signals(Smooth(<<>>)), open |-> 0]

ControlInit ==
  /\ loop = "off"
  /\ history = <<>>
  /\ yielding = FALSE
  /\ unloaded = 0
  /\ atGovernor = NoReport /\ atScheduler = NoReport
  /\ place = [r \in Requests |-> "new"]
  /\ metadata = [r \in Requests |-> NoMetadata]
  /\ decision = [r \in Requests |-> "none"]
  /\ recent = <<>>
  /\ index = [i \in Ids |-> NoRequest]
  /\ EventInit

-----------------------------------------------------------------------------
(* The telemetry loop                                                      *)

LoopStarts ==
  /\ loop = "off"
  /\ loop' = "sampling"
  /\ UNCHANGED <<history, yielding, unloaded, reportVars, requestVars, eventVars>>

\* Mutant of Enforce: the scheduler is not told of a yield.
EnforceUnlogged(h) ==
  \E open \in 0..Endpoints :
    /\ atGovernor' = Report(h, open)
    /\ loop' = "sleeping"
    /\ atScheduler' = IF Yields(Signals(Smooth(h))) THEN atScheduler ELSE Report(h, open)

\* update_runtime() after the yield controller: the governor and the state
\* store, then an event under yield, then the scheduler. Probes and requests may
\* have left any number of breakers open.
Enforce(h) ==
  \E open \in 0..Endpoints :
    /\ atGovernor' = Report(h, open)
    /\ IF Yields(Signals(Smooth(h)))
         THEN loop' = "logging" /\ UNCHANGED atScheduler
         ELSE loop' = "sleeping" /\ atScheduler' = Report(h, open)

\* The two thresholds of the yield controller.
Activates(t) == ~yielding /\ Reaches(t, t.ram, YieldAt)
Recovers(t)  == yielding /\ t.ram <= RecoverAt * t.n

\* A sample comes in. The yield controller calls the offload hook when it
\* activates; otherwise update_runtime goes on.
Sampled(raw) ==
  /\ loop = "sampling"
  /\ history' = Push(history, raw)
  /\ LET t == Smooth(history')
     IN /\ yielding' = (Activates(t) \/ (yielding /\ ~Recovers(t)))
        /\ IF Activates(t) THEN loop' = "offloading" /\ UNCHANGED reportVars
           ELSE Enforce(history')
  /\ UNCHANGED <<unloaded, requestVars, eventVars>>

\* The adapter of the next endpoint has made its calls, as far as the endpoint
\* supports any. That they failed is logged, and the next endpoint follows.
EndpointUnloaded ==
  /\ loop = "offloading" /\ unloaded < Endpoints
  /\ unloaded' = unloaded + 1
  /\ UNCHANGED <<loop, history, yielding, reportVars, requestVars, eventVars>>

\* offload_all() returns, and update_runtime goes on.
Offloaded ==
  /\ loop = "offloading" /\ unloaded = Endpoints
  /\ unloaded' = 0
  /\ Enforce(history)
  /\ UNCHANGED <<history, yielding, requestVars, eventVars>>

\* Mutant of LoopCatches: an exception ends the loop.
LoopDies ==
  /\ loop \in {"sampling", "offloading"}
  /\ loop' = "died" /\ unloaded' = 0
  /\ UNCHANGED <<history, yielding, reportVars, requestVars, eventVars>>

\* The sampler or the hook raises (an adapter lets through what is not an HTTP
\* error, such as an answer of an unexpected form); the rest of the round is skipped.
LoopCatches ==
  /\ loop \in {"sampling", "offloading"}
  /\ loop' = "sleeping" /\ unloaded' = 0
  /\ UNCHANGED <<history, yielding, reportVars, requestVars, eventVars>>

\* The event of a yield is logged, or dropped by a store that is off.
LoopAppends ==
  /\ loop = "logging"
  /\ AppendBegins(Loop)
  /\ UNCHANGED <<loopVars, reportVars, requestVars>>

\* The report is a local of update_runtime, the one the governor was given.
LoopLogged ==
  /\ loop = "logging"
  /\ AppendReturns(Loop) \/ AppendSkips
  /\ atScheduler' = atGovernor
  /\ loop' = "sleeping"
  /\ UNCHANGED <<history, yielding, unloaded, atGovernor, requestVars>>

Wakes ==
  /\ loop = "sleeping"
  /\ loop' = "sampling"
  /\ UNCHANGED <<history, yielding, unloaded, reportVars, requestVars, eventVars>>

\* TelemetryLoop.stop(): the task is cancelled wherever it waits.
LoopStops ==
  /\ loop \notin {"off", "ended"}
  /\ loop' = "ended" /\ unloaded' = 0
  /\ AppendCancelled(Loop)
  /\ UNCHANGED <<history, yielding, reportVars, requestVars>>

-----------------------------------------------------------------------------
(* Requests                                                                *)

\* Mutant of Remember: the index is trimmed after the deque, by what is last then.
RememberThenTrim(r) ==
  /\ recent' = <<r>> \o SubSeq(recent, 1, AtMost(RecentLimit - 1, Len(recent)))
  /\ index' = [(IF Len(recent') = RecentLimit
                  THEN [index EXCEPT ![CorrelationId[Last(recent')]] = NoRequest] ELSE index)
               EXCEPT ![CorrelationId[r]] = r]

\* record_decision: a full deque loses its oldest decision, and so does the
\* index, by the id of that decision.
Remember(r) ==
  /\ recent' = <<r>> \o SubSeq(recent, 1, AtMost(RecentLimit - 1, Len(recent)))
  /\ index' = [(IF Len(recent) = RecentLimit
                  THEN [index EXCEPT ![CorrelationId[Last(recent)]] = NoRequest] ELSE index)
               EXCEPT ![CorrelationId[r]] = r]

\* classify(), over the hints the request carries.
Classifies(r) ==
  \E h \in Hints[r] : metadata' = [metadata EXCEPT ![r] = Classify(h)]

\* _handle_inference_request up to the append: the pressure is evaluated anew
\* on the last telemetry, whatever has been applied elsewhere.
Admit(r, queued) ==
  /\ place[r] = "new"
  /\ Classifies(r)
  /\ decision' = [decision EXCEPT ![r] =
                    Decide(metadata'[r].class, Tokens[r], Signals(Smooth(history)), queued)]
  /\ Remember(r)
  /\ place' = [place EXCEPT ![r] = "logging"]
  /\ UNCHANGED <<loopVars, reportVars, eventVars>>

RequestAppends(r) ==
  /\ place[r] = "logging"
  /\ AppendBegins(r)
  /\ UNCHANGED <<loopVars, reportVars, requestVars>>

\* After the append the request is answered, submitted to the queue or run.
RequestLogged(r) ==
  /\ place[r] = "logging"
  /\ AppendReturns(r) \/ AppendSkips
  /\ place' = [place EXCEPT ![r] =
       CASE decision[r] \in {"reject", "yield"} -> "refused"
         [] decision[r] = "throttle"            -> "queued"
         [] decision[r] = "allow"               -> "running"]
  /\ UNCHANGED <<loopVars, reportVars, metadata, decision, recent, index>>

-----------------------------------------------------------------------------
LoopNext ==
  \/ LoopStarts \/ Wakes \/ EndpointUnloaded \/ Offloaded \/ LoopCatches \/ LoopAppends \/ LoopLogged
  \/ \E raw \in RawSamples : Sampled(raw)

RequestNext(r) == RequestAppends(r) \/ RequestLogged(r)

EventNext(t) ==
  ThreadNext(t) /\ UNCHANGED <<loopVars, reportVars, requestVars>>

ControlNext ==
  \/ LoopNext
  \/ \E r \in Requests : RequestNext(r)
  \/ \E r \in Requests, queued \in {0, MaxQueueSize} : Admit(r, queued)
  \/ \E t \in Tasks : EventNext(t)
  \/ LoopStops

ControlSpec == ControlInit /\ [][ControlNext]_controlVars

\* Ready tasks and threads run, and the lock is handed on in order. A sampler that
\* is asked over and over does not fail for ever. Nobody has to send requests or
\* to stop the loop.
ControlFairness ==
  /\ WF_controlVars(LoopNext)
  /\ SF_controlVars(\E raw \in RawSamples : Sampled(raw))
  /\ SF_controlVars(LoopAppends \/ LoopLogged)
  /\ \A r \in Requests : SF_controlVars(RequestNext(r))
  /\ WF_controlVars(\E t \in Tasks : EventNext(t))

FairControlSpec == ControlSpec /\ ControlFairness

-----------------------------------------------------------------------------
(* Properties                                                              *)

Reports == [signals : SignalSet, open : 0..Endpoints]

\* Every variable keeps to the values the code gives it.
ControlTypeOK ==
  /\ loop \in {"off", "sampling", "offloading", "logging", "sleeping", "ended"}
  /\ Len(history) <= Window /\ Range(history) \subseteq RawSamples
  /\ yielding \in BOOLEAN
  /\ unloaded \in 0..Endpoints
  /\ atGovernor \in Reports /\ atScheduler \in Reports
  /\ place \in [Requests -> {"new", "logging", "refused", "queued", "running"}]
  /\ metadata \in [Requests -> MetadataSet \cup {NoMetadata}]
  /\ decision \in [Requests -> {"none", "allow", "throttle", "reject", "yield"}]
  /\ Len(recent) <= RecentLimit /\ Range(recent) \subseteq Requests
  /\ index \in [Ids -> Requests \cup {NoRequest}]
  /\ EventTypeOK

\* Whenever the loop samples, sleeps or offloads, the governor, the scheduler and
\* the published state come from one and the same report, although they are set
\* at different times with a disk write between them, and the sampler, the
\* offload or the disk may have failed in any round before.
EnforcedTogether ==
  loop \in {"off", "sampling", "offloading", "sleeping"} =>
    atGovernor = atScheduler

\* When a report replaces one that is no harsher in any dimension, with no fewer
\* breakers open, no limit grows: the rules of compute_concurrency_limits,
\* applied in sequence, never turn more pressure into more capacity.
PressureNeverAddsCapacity ==
  [][/\ NoHarsher(atGovernor.signals, atGovernor'.signals)
     /\ atGovernor.open <= atGovernor'.open
     => NoLarger(Limits(atGovernor'.signals, atGovernor'.open),
                 Limits(atGovernor.signals, atGovernor.open))]_controlVars

\* Background work is stopped exactly under yield: its limits are zero then and
\* positive otherwise, at the scheduler and at every endpoint, so background
\* work in the queue is never left without any slot in a state that still
\* admits it.
StoppedExactlyUnderYield ==
  \A report \in {atGovernor, atScheduler} :
    LET l == Limits(report.signals, report.open) IN
    /\ l.bg = 0 <=> Yields(report.signals)
    /\ l.endpointBg = 0 <=> Yields(report.signals)

\* While writes succeed and the loop is not stopped in the middle of one, the log
\* changes only by a new row at its end or by losing its oldest rows above the
\* retention limit, with any number of tasks that append at the same time.
RetentionLosesOldest ==
  [][loop' = "ended" \/ (\E t \in Tasks : thread'[t] = "failed") \/ Retains(Log, Log')]_controlVars

\* Decisions of distinct ids: GET /decisions/{id} finds a decision exactly while
\* it is among the recent ones.
RecentDecisionsFound ==
  \A i \in Ids : \A r \in Requests :
    index[i] = r <=> CorrelationId[r] = i /\ r \in Range(recent)

\* What waits in the queue has background priority, whatever the hints of a
\* request say and contradict, and under any pressure: admission queues by the class, and
\* the queue and the scheduler go by the priority.
QueuedAreBackground ==
  \A r \in Requests : place[r] = "queued" => metadata[r].priority = "background"

\* Each request gets past its audit event: the lock comes back although writes
\* fail, other tasks want it and the loop may be cancelled while it holds it.
RequestsGetPastTheLog == \A r \in Requests : place[r] = "logging" ~> place[r] # "logging"

\* If the telemetry settles while the loop runs, the scheduler settles on what
\* the policy says of it, whichever hooks, samples and writes failed on the way.
LimitsFollowTelemetry ==
  \A raw \in RawSamples :
    <>[](loop # "ended" /\ history = [i \in 1..Window |-> raw])
      => <>[](atScheduler.signals = Signals(Smooth([i \in 1..Window |-> raw])))
=============================================================================
