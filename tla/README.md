# ComputeCop, specified

ComputeCop is a local proxy in front of inference engines (Ollama, llama.cpp,
OpenAI-compatible servers). It watches the host, decides for each request
whether it runs now, waits in a queue or is refused, and forwards what it
admits to one of the configured endpoints. One asyncio loop runs everything.

This directory holds TLA+ models of the parts that decide in which order things
happen, configurations that check the models with TLC, and proofs that TLAPS
checks for every value of the constants. The source is the reference: each
definition names what it stands for, and `PROJECT.json` maps it to lines.

## 1. The system

`C` below is `src/src/computecop/`.

| component | state | operations | what makes it correct |
| --- | --- | --- | --- |
| request queue, `C/request_queue.py` | lifecycle, heap, running counters, worker states, a future per request | `submit`, `get`, `run_worker`, `pause`, `resume`, `drain`, `close` | one owner per request, at most one answer, no lost wakeup, order and aging, counters that `drain` may trust, nobody waits for ever |
| capacity scheduler, `C/scheduler.py` | effective limits, running counters, waiters on one condition, execution counters, worker tasks | `_acquire_slot`, `_release_slot`, `update_pressure`, `execute_immediate`, `execute_queued`, `start`, `stop` | no slot leaks, no missed slot, limits respected, prompts never starve |
| runtime, `C/app.py` | which services run; `_stopping`, `_stopped` | `start`, `stop`, `_handle_inference_request`, `update_runtime` | an orderly stop that loses nothing and ends |
| forwarding, `C/app.py`, `C/upstream.py` | per request: endpoint, slot, endpoints that failed | `_select_route`, `_forward_upstream`, `_tracked_stream` | slots returned once, failover progresses, failures charged to the endpoint that failed |
| circuit breakers, `C/health.py` | state, failure and trial counts, opening time of each endpoint | `record_success`, `record_failure`, `allows_traffic`, `snapshot` | state agrees with the failures seen; opens and closes when the documentation says |
| endpoint governor, `C/concurrency.py` | ceilings, running counts per endpoint and class, waiters on one condition | `acquire`, `release`, `update_limits` | ceilings kept, no missed slot |
| capability registry, `C/endpoints.py` | probe cache, failure rates | `probe`, `list_records`, `select_compatible`, `invalidate` | selection among allowed endpoints, the better ones first |
| health watcher, `C/health.py` | task | `start`, `stop`, `probe_all`, `_run` | an endpoint that is back serves again, one that is gone does not, whatever one round does |
| policy engine, `C/policy.py` | none | `evaluate`, `budget_for`, `compute_concurrency_limits` | limits in range; background stopped only under yield |
| admission, `C/admission.py` | none | `decide` | a decision for every report, prompts preferred |
| RAM yield, `C/yielding.py`, `C/platform.py` | active, reason | `update` | two thresholds, hooks called once per activation |
| telemetry loop, `C/telemetry_loop.py` | history, task | `start`, `stop`, `_run`, `_smooth`, `_publish` | one failing subscriber does not end it |
| event store, `C/events.py` | a JSONL file, the disabled flag | `append`, `read_events`, `_trim_sync` | retention loses only the oldest events |
| state store, `C/state.py` | snapshots, decision deque and index, histograms | `record_decision`, `decision_for_correlation_id`, updates | the index and the deque agree |
| shutdown coordinator, `C/shutdown.py` | two flags | `request_shutdown`, `shutdown_runtime`, `cancel_task` | the stop is complete and ends, whatever interrupts it |
| dashboard, `C/dashboard_input.py`, `C/dashboard_controls.py`, `C/dashboard.py` | keys read, pending confirmation, one timestamp, `quit_requested` | `poll_keys`, `handle`, `expire_timers`, `start_drain`, `run` | a drain only after a timely confirmation |
| configuration, `C/config.py` | none | `load_effective_config`, `_deep_merge`, `explain_entries` | each value is the one its reported source gives |
| body shaping, `C/app.py` | none | `_shape_body` and one function per API family | no engine gets more than the budget |
| command line, `C/cli.py` | the context of a command | `run`, `dashboard`, `config explain` | the above from start to exit |
| residency and offload, `C/residency.py`, `C/offload.py` | names of models by endpoint, sizes, states | `record_request`, `update_from_*`, `is_model_compatible`, `offload_all` | requests go where their model is; an HTTP failure of one endpoint does not keep the others from being unloaded |
| classifier, `C/classifier.py` | none | `classify` | class and priority agree |
| tokens, telemetry sampling, thermal, processes, responses, logging, panels, doctor | none or I/O | | |

How they interact. A request is classified, the policy is evaluated on the last
telemetry, and admission decides. A refused one is answered. A throttled
background request is submitted to the queue (`execute_queued`), where one of
`max_background_concurrency` workers takes it and asks the scheduler for a slot
through a hook; every other request asks for a slot itself
(`execute_immediate`). With the slot it is forwarded: select an endpoint whose
breaker allows traffic, wait for one of the endpoint's own slots, call. The
telemetry loop calls `update_runtime` for each sample, which moves the limits of
the governor and of the scheduler. The health watcher probes every endpoint and
feeds the breakers, as the answers to requests do. `stop` ends the watcher and the
loop, drains and closes the queue and cancels the workers. All of this is one
process, started by `run`; `dashboard` starts a second one with a runtime of its own,
whose queue is the one that its keys act on, and which nobody sends requests to.
Both load a configuration first.

What is hard here. All state is shared by tasks that interleave at every `await`
that suspends. Four kinds of tasks can be cancelled in five places. Two
components use one condition each for waiters of different classes. Limits,
breakers and the lifecycle of the queue change while tasks wait on what they read
before. An interrupt may arrive at any of them, also while the stop that the first
interrupt began is under way. Aging, deadlines and cool-downs are noticed only when somebody looks.
`PROJECT.json` lists these hazards with their lines and the properties that
would catch them going wrong.

## 2. The modules

| module | models | interacts with |
| --- | --- | --- |
| `RequestLifecycle` | the promise of the queue about each request (abstract) | implemented by `RequestQueue` and `Dispatch` |
| `RequestQueue` | the queue, its workers and callers, the operator | |
| `AdaptiveScheduler` | slots and limits | |
| `Dispatch` | the two together, immediate requests, pressure reports, `stop()` | EXTENDS both |
| `EndpointRoutes` | the configured endpoints | |
| `CircuitBreakers` | the breakers, as functions on records | EXTENDS `EndpointRoutes` |
| `EndpointGovernor` | slots of each endpoint | EXTENDS `EndpointRoutes` |
| `Forwarding` | a request on its way through breakers, slots and failover; streams | EXTENDS both |
| `ModelResidency` | the model names endpoints are known for | EXTENDS `EndpointRoutes` |
| `EndpointRegistry` | the probe cache, the health watcher, `GET /endpoints`, the ranking of endpoints | EXTENDS `CircuitBreakers`, `ModelResidency` |
| `Classifier` | the rules that make a request a prompt or background work: pure | |
| `PolicyEngine` | thresholds, penalties, limits, the context budget, admission: pure | |
| `EventStore` | the log: a lock, threads that append and trim, failing writes | |
| `ControlPlane` | the telemetry loop with `update_runtime`, the yield controller, decisions, requests up to their audit event | EXTENDS the three |
| `Configuration` | layers of settings, profiles, validation, sources: pure | |
| `RequestShaping` | the budget of a request and the limits of its body: pure | |
| `DashboardSession` | the keys, the drawing task, `stop()` under interrupts | |
| `CommandLine` | a process: loads a configuration, then explains it, serves bodies or runs a session | EXTENDS the three |
| `RequestQueue_proofs`, `AdaptiveScheduler_proofs`, `Dispatch_proofs` | theorems and proofs of the request path | EXTEND the module they are about; `Dispatch_proofs` the two others |
| `CircuitBreakers_proofs` | lemmas on the breakers | EXTENDS `CircuitBreakers` |
| `Forwarding_proofs`, `EndpointRegistry_proofs` | theorems and proofs | EXTEND the module they are about and `CircuitBreakers_proofs` |
| `ControlPlane_proofs` | theorems and proofs, those of the policy and of the log included | EXTENDS `ControlPlane` |
| `CommandLine_proofs` | theorems and proofs, those of the session included | EXTENDS `CommandLine` |
| `MC_*` | small instances for TLC | |

**What an action is.** Locks of these classes are held over synchronous code only, so
an uncontended `async with` does not suspend, and neither does `_notify_change`
(its callbacks, the `update_*` methods of the state store, take such a lock too).
An action is therefore everything a task does between two real suspension
points: `condition.wait`, an unset future, the acquire hook when it blocks, the
runner, `sleep`, a disk write, an upstream exchange. For example, `GetTakes` is
the end of `get`, the start of the hook and, if a slot is free, the start of the
runner; `Finishes` is the setting of the future and the whole `finally` block.
A worker that finishes goes on to the next `get` without suspending; the model
lets other tasks run in between, which adds behaviours and removes none.

**Waking.** `condition.wait` is two steps: a sleeper is notified (the set
`notified`, `woken`, or leaving `asleep`), and later runs and checks again. In between any
other task may take what it was woken for. Which sleeper `notify()` picks is
left open.

**Cancellation.** `task.cancel()` and the delivery of the `CancelledError` are
separate. For a caller the future it awaits is cancelled at once
(`CallerCancelled`), and the `cancelled` flag is set when the loop resumes it
(`CallerLeaves`). For a worker `doomed` marks the time in between; the three
`Cancelled...` actions are what the error does at each place it can reach.

**Time.** `age` counts ticks of an item in the heap up to its deadline, for
expiry and aging alike. The deadline of a drain and the cool-down of a breaker
may pass at any moment. In `Dispatch` the drain of `stop()` may time out at any
poll.

**What is abstracted.** Payloads, ids, trace records, statistics and texts. In
`Forwarding` the ranking among the allowed endpoints is a free choice
(`EndpointRegistry` has it) and the HTTP exchange is its outcome: an answer, a
cancellation or one of the classes of failure of `upstream.py`, of which some allow
a failover. In `AdaptiveScheduler` and `Forwarding` the policy is the
range of the limits it can return: foreground limits from 1 to the maximum,
background ones from 0 (`LimitsFloored` in section 4 shows that `PolicyEngine`
returns no others). Wrong
state in snapshots that nothing acts on is not modelled, `workerState` and the
counters excepted. A runner is any length of time.

**The registry.** An endpoint serves, answers with 5xx errors, which a probe counts as a
failure and the answer to a buffered request as a success, or is gone. An engine that
answers may still fail a call (`ExchangeFails`: a timeout, an answer that cannot be decoded, a
stream that it refuses or breaks off), a request that names an endpoint which is closed to it or
does not fit is charged to that endpoint without asking it (`Refused`), and a caller
may leave (`Abandoned`). A probe's verdict is formed when it is recorded, not when the
engine answers; as `EngineTurns` may come at any time, an older verdict is one of an engine
that turned later. The watcher and each caller of `GET /endpoints` go through the
endpoints in order and are suspended in each probe and in each query for models.
`held` is what a prober read in the cache before its probe: an entry it goes on to
change in place, or none, in which case it displaces what another prober has stored
meanwhile. Whether a cached probe is still fresh is left open, and so is which of two
failure rates above zero is lower; that an endpoint has none is exact. Two probers at
one endpoint are told apart exactly, three that share a displaced entry are not.
A listing adds names and the code drops none. `Matching` stands for `model_matches`,
of which the model needs that it is reflexive and symmetric.

**Classification.** A request carries hints: what each of the six fields says, whether
a header flags it, and so on. The rules apply in the code's order.

**The control plane.** `update_runtime` suspends in the offload hook and in the append
of a yield event only, so a round is `Sampled`, then `EndpointUnloaded` for each endpoint and `Offloaded` if the yield
controller has just activated, then `LoopAppends` and `LoopLogged` under yield. A sample
holds percentages; the window holds sums, so that a mean is compared with a
threshold without dividing. `atGovernor` and `atScheduler` are the reports whose
limits are in force at each place. How many breakers are open is any number each time
the policy is asked. An append is the thread's `WriteRow`, `ReadRows`, `Truncate` and
`Restore` under the lock; a write may fail at each of them, which turns the store off.
`LoopStops` cancels the loop wherever it waits, and the thread of an append then
goes on without the lock. Requests that are accepted go on in `Dispatch`.

**Configuration.** A layer is a partial function from settings to values; the nested
tables are flattened to leaf paths, of which the model keeps those that a profile sets
or a command uses. A value is what the validation turns it into, or `Junk`.
`interval_seconds` counts tenths.

**Shaping.** A body is a partial function on the limit fields of its API family, with an
integer or something `int()` refuses (`NotANumber`). The budget is in integers: juice and the memory scale
are percentages. A body that is no object passes as it is. `options` or `metadata` that
are no objects, and infinities, make the handler fail with a 500 and are left out.
`Obeyed` states what the engines make of the fields: llama.cpp reads `max_tokens`
only where `n_predict` is missing. That is an assumption about them.

**The session.** An action of `DashboardSession` is, as above, what a task does between
two real suspension points. `start`, the drain of an empty queue, `close` and the two
locks they take do not suspend. Interrupts are those of `asyncio.run`: the first one
cancels the main task, which cancels what that task waits for; the second one leaves the
loop, whose cleanup cancels every task and waits; the third one ends the process. They arrive
where a task is suspended. Time passes in ticks while the dashboard draws,
and both ages stop one beyond the confirmation timeout, since nothing tells later ones apart.

**Assumed about code outside the module.** In `Dispatch`: every queued request has
background priority (`OnlyBackgroundIsQueued` in section 4 proves it of
`ControlPlane`); one worker per configured
background execution (`AdaptiveScheduler.start`); the drain of `stop()` is the only
one, since the dashboard, which has a drain key, starts a runtime of its own that
serves no requests. Requests may be open while `stop()` runs:
OPERATIONS.md:170-174 has it wait "for in-flight queued work to finish". (uvicorn with
its default settings ends the lifespan only after its open requests; other
servers and callers of the runtime's API need not.) In `Forwarding`: an endpoint
in `Compatible` of a streaming call supports streaming (`select_compatible`
filters by it); calls hold their capacity slot already; an explicit endpoint that is
not configured at all is left out, since its breaker is consulted by nobody.

## 3. The runs

| run | instance | shows |
| --- | --- | --- |
| `queue_safety` | 3 requests of two priorities, 2 workers, heap of 2 | accounting, ownership, wakeups, order and aging, in 950,000 states |
| `queue_liveness` | 2 requests, 1 worker, 1 drain, heap of 1 | callers answered, close ends workers, drain comes back |
| `dispatch` | 2 queued requests, an immediate prompt and background request, 2 workers, heap of 1, 1 + 2 slots | the composition and `stop()`; slot accounting and no missed slot; the contract of a request |
| `dispatch_liveness` | 1 queued request, 1 worker, 2 prompts and 1 immediate background request, 1 + 1 slots | prompts, queued work and `stop()` progress |
| `forwarding` | 3 calls (routed, explicit, stream), 2 endpoints, ceilings of 2 and 1 | slots, failover, breakers (failures are charged once and to the endpoint they happened at; an open one is used only if it opened during the wait), progress at the endpoints |
| `control_plane` | 2 requests and the loop, a window of 2 samples (calm; hot, swapping and nearly full), 2 endpoints, one event and one decision retained | limits, log and decision index, what is queued |
| `control_liveness` | 1 request and the loop, 1 endpoint | a request gets past the log, the scheduler follows the telemetry |
| `registry` | 2 endpoints, the watcher, 1 reader, 2 requests for a model that the first endpoint does not list, one of which names that endpoint | ranking and exclusion while probes interleave and calls fail, in 1,300,000 states |
| `registry_liveness` | the same, requests that name no model, nothing listed, engines that serve or are gone; the request that names an endpoint does not fit it, so that it can be refused for ever | an endpoint that is back lets requests in again and again, however many of its calls fail or are refused, and for good once none does; one that is gone is taken out |
| `commands` | 3 layers with 1 to 4 settings in play, 3 numbers or garbage in each limit field, a session with 3 keys and 3 interrupts, timers of 2 and 1 ticks | true sources, budgets kept, confirmed drains, complete and ending stops |
| `stop_answers` | as `dispatch`, smaller | finding 1 |
| `stream_ceiling` | 2 streams, 1 slot | finding 2 |

**Why the bounds are enough.** Two workers and two sleepers make a notification able to
reach the wrong one; a third request makes a full heap meet a newcomer, and an
interactive item meet two background ones. Timeouts of 3, 2 and 1 ticks with an
aging interval of 1 let an item reach rank zero before it expires and let others
expire first. In `dispatch` four clients over one foreground and two background slots saturate
both classes while others of the same class sleep. Two endpoints with a threshold of
two and two half-open successes reach every state of a breaker from every order
of probes; the calls differ in kind so that each path of `_forward_upstream` is
taken while another call holds the slot it needs. Requests, drains and immediate
calls are made at most once each, which bounds every counter; behaviours that need
more of them are what the theorems are for. The two samples of the control plane
and their mean lie below, between and above the thresholds of the default
configuration; with one row and one decision retained, every append trims and every
decision displaces another. In `registry` engines serve or err: one that errs may do all that
one that is gone may (fail a call, list nothing) and answer besides. In the registry one reader and the watcher are the two probers that it takes to
displace an entry, and the requests ask for a model the first endpoint does not
list, so that the one that names no endpoint goes to the other one or, as a last resort, to the default.
In `commands` each layer can name the profile and the yield threshold, or not,
so that every pair of layers contradicts; three keys are what it takes to arm, disturb and confirm a
drain, and three interrupts are all that `asyncio.run` tells apart. The theorems hold
for any number of either. Symmetry is used in safety runs only,
over sets whose members the model treats alike.

**Deadlock** is checked except in the runs of `Dispatch`, `ControlPlane` and
`CommandLine`, where a stopped runtime with no requests left, or a process that is over,
really has nothing to do.

**Fairness.** Weak fairness for each task: asyncio runs every task that is ready, and
an action that is enabled stays enabled until its task runs, or another task
undoes it and notifies. A runner ends because each upstream call has a timeout
(`timeout_seconds` of its route). Nothing is assumed of requests, cancellations,
the operator, probes, or pressure reports. `queue_liveness` also assumes that
the clock ticks. `ControlPlane` has strong fairness where several tasks want
the log's lock, since `asyncio.Lock` serves its waiters in order, and for a sample to come
in: a sampler that fails may fail again, but not for ever. `EndpointRegistry` has
strong fairness for the watcher's probe of each endpoint, for the same reason: a
round may be given up before it comes to an endpoint, but not every round. So a
probe that raises each time, which would keep the watcher from every endpoint after it, is
outside what `RecoveredEndpointReturns` and `LostEndpointOpens` say. Nothing is assumed of
calls: that an endpoint's breaker closes for good has as its hypothesis that from some time on no
call at it fails and no request that names it is refused. `DashboardSession`
has weak fairness for drawing, for the main task, and for each cancelled task to end;
the HTTP client, which no request of that process uses, closes. Neither keys nor
interrupts have to come. `Dispatch` assumes no strong fairness for slots: that queued work gets
one rests on the finite number of immediate calls in an instance; the code gives
no precedence to waiters, so with endless immediate background work a worker could
wait for ever.

**Findings** (details and quotes in `PROJECT.json`):

1. `stop_answers`: a worker cancelled by `stop()` never settles the future of the
   request it holds, since `except Exception` does not see `CancelledError`, and
   `close()` sweeps only the heap. The caller waits for ever. (It takes a server that
   ends the lifespan while requests are open, or a caller of the runtime's own
   API; uvicorn with its default settings waits first.)
2. `stream_ceiling`: an endpoint slot is released when the streaming response is
   returned and again when the stream ends, so streams do not count against the
   ceiling.

Further differences from the documents are in the models, but no run is spent on them
(see the notes under "hazards"):

- A paused queue hands out nothing (`GetTakes`; `docs/OPERATIONS.md:92`).
- A success recorded during the cool-down closes an open breaker (`Succeeded`;
  `README.md:432-433`).
- A request that names an endpoint which cannot serve it, or whose breaker is open,
  counts as a failure of the endpoint (`RefusesExplicit`; `README.md:430-431`), and so does a
  stream that the upstream refuses with a client error. A buffered answer counts as
  a success whatever its status.
- An exit in the middle of a trim loses the log (`Truncate`; `docs/OPERATIONS.md:341-342`).
- Admission asks the policy, which has one RAM threshold; the controller with two only
  calls the offload hooks (`Admit`, `Activates`, `Recovers`; `docs/OPERATIONS.md:192-197`).
- A class or priority field in the body counts before the header
  `x-computecop-background: true` (`Classify`; `docs/OPERATIONS.md:30` has explicit headers win).
- The first model name a request records makes an endpoint that lists nothing
  incompatible with every unrelated model (`Requested`, `Serves`).
- The keys of the dashboard act on the queue of the dashboard's own process, not on
  that of the proxy it may be started beside (`SessionStarts`; `README.md:173-187`). "ComputeCop
  dashboard stopped" is never printed, since a stop that was reached has recorded its request
  already (`StopsWatcher`, `cli.py:248-254`).
- The proxy does not stop through the shutdown coordinator; its lifespan calls `stop()` itself
  (`docs/OPERATIONS.md:178`).
- A limit below zero, which engines read as none, passes uncut (`Cut`; `docs/OPERATIONS.md:76-78`).
  The header that says whether a body was cut speaks of the last number among the OpenAI keys
  (`ShapedOpenAI`), and beside `n_predict` a `max_tokens` stays as it is (`ShapedLlamaCpp`).
- A value of a profile is reported as a default (`SourceOf`), and the order of the thermal
  thresholds is not validated (`Valid`).
- The fallback to the default endpoint looks neither at the API family nor at the model
  (`Choices`).

**Mutants.** Each property of a passing run comes with a definition of the module
changed as a bug would change it (`...Silently`, `...Unclamped`, `...ForGood` and so
on, each above the definition it replaces); TLC finds the property violated with it.

## 4. What is proved

`AdaptiveScheduler_proofs`, for any finite set of clients and any positive maxima:

- `SchedTypeCorrect`: types. `SchedInvariant`: the inductive invariant `SchedInv`,
  the conjunction of types, `SlotsMatchHolders`, `SlotsWithinConfig` and
  `SleepersCannotRun`. The bound needs the accounting (a release decrements, and does
  not clamp, only because a holder is counted), and `SleepersCannotRun` needs
  every release to notify all.
- From it `SlotsAccounted`, `ConfiguredBound`, `NoMissedSlot`, `TotalIsRedundant` and
  `GrantsUnderLimits`.
- The argument about cardinalities is in `HoldersMove` and `CountsMove`: a client that changes its
  place changes two of the sets of holders by one element.

`RequestQueue_proofs`, for any finite sets of requests and workers:

- `QueueTypeCorrect`: types.
- `OneOwner`, from `OwnerInv`: a request that was never submitted is nowhere, and a
  worker has a job exactly while it acquires or runs. Without the first part, a
  `submit()` could push what a worker already holds; without the second, a worker
  could take a second request and drop the first.
- `CountersExact`, from the same: a worker that gets a request has empty hands and one
  that puts it down was counted, so each count moves by exactly one and the clamp of
  `_mark_running` is idle.
- `NobodyIsForgotten`, from `AnswerInv`: a request that is flagged, or whose caller is on
  its way out, has its answer. Otherwise a purge of the heap would drop a flagged
  request whose caller still waits.
- `NothingStaleIsStarted`, from the same: only the pop of a live item gives a worker a
  job, and a caller that left has flagged its request.
- `NoWakeupIsLost`, from `WakeInv`: the workers are cancelled all at once. Otherwise the
  cancellation of a notified worker would lose its notification while others
  sleep on. The number of notified workers is compared with the size of the heap, so
  the proof counts: a push adds one to both, a pop takes one from each at most.
- `TakenInOrder` and `AgedGoFirst`, from `OrderInv`: sequence numbers are distinct, and an
  item that was submitted earlier is at least as old, or past its deadline (where ages stop).
  A pop takes the least pair of rank and number. The rank is the base rank minus the number
  of whole aging intervals waited, down to zero, and division is monotone (`DivMono`, from the
  range of the quotient): of two items of one priority the earlier one never has the
  greater rank, and one that has waited its base rank in intervals has rank zero.
- `QueueImplementsContract`: the queue implements `RequestLifecycle` under the mapping of
  `RequestQueue`. Every step moves the phases of few requests, each along an arrow of the
  contract (`LocalMove`), and the proof says for each action which (`StepMoves`). Only a close
  moves many at once, and these are the requests in the heap whose callers still wait
  (`HeapUnsettled`); the contract lets a sweep settle them together.

`Dispatch_proofs`, for any number of requests, workers and immediate requests:

- `DispatchInvariant`. A step of the composition is a step of the queue, a refusal in front of
  it or the close of `stop()` (`StepOfQueue`), beside a step of the scheduler. So the
  invariants of the two are kept by their own lemmas, as far as a task asks for a slot only
  when it has none. That is what `PlacesMatchSlots` adds: a worker runs exactly
  while its slot is held and acquires exactly while it waits for one, and an immediate request likewise.
- `TasksAndSlotsAgree`, `NoMissedRoom` and `DispatchImplementsContract` follow from it.
- `CleanStopIsComplete`: the drain of a clean stop ends on an empty heap and a count of zero;
  the count is that of the requests workers hold (`CountersMatchWorkers`), all of which are
  background work, and nobody has closed the queue before (`OpenUntilStopped`).

`CircuitBreakers_proofs`, for any threshold and number of trials: `Sound` says of one breaker
that it is closed exactly while it has counted fewer failures than open it. Each method
keeps it (`SeenSound`, `SucceededSound`, `FailedSound`), so it does not matter who calls
them, nor when. `Looks` and `Judges` say how far a method may move a breaker. It holds only of breakers reached from a closed one: a record of the right
type may be closed with a full count.

`Forwarding_proofs`, for any calls, endpoints, ceilings and thresholds:

- `ForwardInvariant`. Its conjuncts are those the run checks, and `CallsInPlace`: a call has an
  endpoint exactly while it waits, is called or streams. Without it the slot that a failed
  or cancelled call gives back could be one of no endpoint, or another call's. The many actions come
  down to five shapes, for each of which there is one lemma: a call goes to an endpoint, gives its slot back,
  withdraws, begins to stream, or does not move.
- `SlotsOfEndpointsCounted`, `NoMissedEndpointSlot`, `FailoverMovesOn` and
  `ForwardTypeCorrect` are its conjuncts.
- `FailuresStayOwn`: every step moves every breaker in one of two ways (`StepsMoveByRule`). A look
  begins at most a trial (`LookedLooks`); a verdict counts one failure or forgets all
  (`SucceededJudges`, `FailedJudges`), and only an exchange that ends at the endpoint, a refusal of a
  request that names it, or a probe is one. A failure and the looks that go with it in one step are one
  verdict (`SeenAfterFailed`, `FailedAfterSeen`). It needs sound breakers: one that is
  not closed has the threshold's count, so a failure on trial adds nothing to it.
- `OpenMeansWaited`: whoever goes to an endpoint without a wait has looked at its breaker in the same
  step (`AllowedIsNotOpen`).

`EndpointRegistry_proofs`, for any endpoints, readers and requests:

- `RegistryTypeCorrect` and `RegistryInvariant`: types, and sound breakers. The types need
  that a prober with something in hand is at a position of the order, and that the watcher,
  who also counts through the listings, is one only up to the last endpoint.
- `BestEndpointIsChosen`: what is chosen is allowed and among those that the choice looks at; among the allowed
  candidates the two filters, healthy and spotless, leave none that another precedes
  (`BestIsPreferred`); and the default endpoint is taken only if there are none.

`ControlPlane_proofs`, first for every configuration, host and pressure:

- `LimitsFloored` and `LimitsOrdered`. Each of the four rules of
  `compute_concurrency_limits` keeps the floors (`...Floored`) and the order (`...Ordered`)
  of the limits it is given, so their sequence does. The order needs the floors: a rule
  that fires for the harsher report only must not lift a limit to its floor above what
  the milder report leaves.

`ControlPlane_proofs`, then for any window, samples, requests and endpoints:

- `LimitsTogether`: `EnforcedTogether` is inductive, as the loop is in its `logging`
  state exactly while the two places may differ.
- `StoppedOnlyUnderYield` and `PressureShrinks`, from `ReportsAreTyped` and the theorems on
  the policy.
- `OnlyBackgroundIsQueued`, from `AdmissionInv`: a request whose decision is to throttle
  has the background class, and class and priority are classified together.
  Admission looks at the class, the queue and the scheduler at the priority, so this is
  what lets `Dispatch` take them for one.
- `ThreadsRunAlone` and `LogLosesOldestOnly`, from `LogInv`: while the loop is not stopped, a thread
  runs only for the holder of the lock, and what it has read of a file that is too
  long is still that file's end. Nobody else can write between its read and its
  truncation, so the log goes from its rows to its newest ones. A cancelled loop leaves the
  lock and not its thread, which is why the property ends there.
- `FoundIsRecent`: what the index finds is recent and has the id, for any ids. Clients may send
  ids, so they may repeat, and then a decision may be lost while it is
  recent: the oldest one takes the entry of a newer one of the same id with it.
- `RecentAreFound`: with distinct ids (`DistinctIds`, the hypothesis that the comment of
  `RecentDecisionsFound` names) none is lost. The proof needs that no request is
  remembered twice, since only a new one is admitted.
- `ControlTypeCorrect`: types; the window, the recent decisions and the offload count are bounded.

`CommandLine_proofs`, first for any timeouts, keys and interrupts (up to the third) of a session:

- `SessionInvariant`: types, and where each service, the screen, the lifecycle and the
  HTTP client stand for each place of the main task, which grows with the stop: what a step of `stop()` waited
  for stays as it is.
- `StopAlwaysComplete` follows: a cancellation moves the main task only where it waits for the
  dashboard or closes the client.
- `DrainsAlwaysConfirmed`: while a confirmation is pending, the age of the message is the age of
  the D that armed it, because every key that sets a message either ends the
  confirmation or is that D.

`CommandLine_proofs`, then for any files, environments, command lines, bodies and limits:

- `SourcesAlwaysTrue`: the merge and the bookkeeping of sources overlay the same layers in
  the same order (`OverlaidValue`, `SourceValue`); a default needs more, namely that the profile
  in effect is the one whose overlay was applied (`ProfileInEffect`), which holds
  because no overlay names a profile.
- `AlwaysWithinBudget`, from one lemma per API family, and from `ServingKeeps`: what is kept of
  the configuration are the numbers that were validated.

The assumptions are those named `...Assumption` in the modules, no more; TLC
evaluates them in the runs.

Three predicates that runs checked before are left to their theorems, which
say the same of every instance: `GrantsWithinLimits`, `TotalNeverBinds` and
`StoppedExactlyUnderYield`. `SlotsMatchHolders` is a conjunct of `WorkersAndSlotsAgree`.

Every safety property that a passing run checks, action properties and the refinement
included, is thereby a theorem. Only model-checked is all liveness: `CallersAreAnswered`, `CloseEndsWorkers`,
`DrainComesBack`, `PromptsGetSlots`, `QueuedWorkIsAnswered`, `StopComesToAnEnd`,
`EndpointsServePrompts`, `RequestsGetPastTheLog`, `LimitsFollowTelemetry`,
`RecoveredEndpointReturns`, `LostEndpointOpens` and `SessionEnds`. It is out of TLAPS's
reach under fairness (ENABLED). The two findings are counterexamples of TLC.
(`ConfiguredBound`, `SchedTypeCorrect`, `QueueTypeCorrect` and `NothingStaleIsStarted` are the other way
round: proved, and no run repeats them.) What a recursive function computes for all inputs
cannot be proved here either (induction over data); no module declares a RECURSIVE operator.
`Total`, the sum of a window, is a fold, and the theorems use nothing of it but that `Signals`
compares it with something.

## 5. The plan

Done: the request path, the control plane, the endpoint registry, and the process around
them (modules above). Next, in this order:

1. Proofs: that after a stop no slot is held and nothing is queued, in `Dispatch`; what a
   stream that has been read can at most add to an endpoint's load, in `Forwarding`.
2. `ControlPlane` over `AdaptiveScheduler` and `EndpointGovernor` in place of the reports
   alone, so that the time between the two updates meets tasks that hold slots. The product
   is large; it needs a smaller window and one endpoint.
3. The sizes and states that the residency tracker estimates and the ranking of eviction
   candidates over them (pure; nothing in the package calls the ranking).

## 6. Not modelled

- Host sampling (`telemetry.py`, `thermal.py`, `processes.py`, the probing part of
  `platform.py`) and the doctor: what they return is what the host says, and they keep
  no state that a step of another component reads. The models quantify over it (`RawSamples`).
- The panels of the dashboard, logging, responses and the printing commands: formatting.
- The commands `queue pause` and `queue resume`: one HTTP call to the routes whose effect is
  `Pause` and `Resume` of `RequestQueue`.
- Histograms and snapshots of the state store, statistics, traces and reasons: displayed, and
  read by no decision.
- Token estimates: a heuristic over texts, a constant of `ControlPlane`.
- Two processes at one event log: the lock of `events.py` is per process, so the trim of one
  may lose a row of the other. `EventStore` has one process.
- The HTTP exchange itself beyond its outcome, and the engines beyond what `Obeyed` and
  `EngineTurns` assume.
