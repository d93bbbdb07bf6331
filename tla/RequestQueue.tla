---------------------------- MODULE RequestQueue ----------------------------
(***************************************************************************)
(* The bounded priority queue of background inference requests             *)
(* (computecop/request_queue.py, class AsyncRequestQueue) with its workers, *)
(* the callers awaiting a future, and the operator's pause, resume, drain  *)
(* and close.                                                              *)
(*                                                                         *)
(* asyncio runs one task at a time and every lock of the class is held     *)
(* over synchronous code only, so one action is what a task does between   *)
(* two suspension points: condition.wait, awaiting the future, the         *)
(* acquire hook, the runner, and the sleep of drain().                     *)
(***************************************************************************)
EXTENDS Integers, FiniteSets

CONSTANTS
  Requests,       \* every submit() call of a behaviour, each made once
  Workers,        \* worker tasks started on run_worker()
  Drainers,       \* every drain() call of a behaviour, each made once
  NoRequest,      \* what an idle worker holds
  NoDrainer,      \* the drain deadline is not set
  Priority,       \* the priority of each request
  Timeout,        \* the ticks each request may spend in the heap
  MaxSize,        \* QueueConfig.max_size
  AgingInterval   \* QueueConfig.aging_interval_seconds, in ticks

Priorities == {"foreground", "interactive", "background", "bulk"}

ASSUME QueueAssumption ==
  /\ IsFiniteSet(Requests) /\ IsFiniteSet(Workers)
  /\ NoRequest \notin Requests
  /\ NoDrainer \notin Drainers
  /\ Priority \in [Requests -> Priorities]
  /\ Timeout \in [Requests -> Nat \ {0}]
  /\ MaxSize \in Nat \ {0}
  /\ AgingInterval \in Nat \ {0}

VARIABLES
  lifecycle,      \* _lifecycle_state
  drainDeadline,  \* the drain() call whose deadline is stored, if any
  heap,           \* the requests in _heap
  seqno,          \* the sequence number of each item of the heap
  nextSeq,        \* _sequence
  age,            \* the ticks each item of the heap has waited
  future,         \* state of QueuedRequest.future
  cancelled,      \* requests whose cancelled flag is set
  caller,         \* where the submit() call stands
  queueBg,        \* _running_background
  queueFg,        \* _running_foreground
  completed,      \* _completed
  rejected,       \* _rejected
  pc,             \* where each worker task stands
  job,            \* the request each worker holds
  workerState,    \* _worker_states, as the snapshot shows it
  notified,       \* waiting workers whose condition.wait() is released
  doomed,         \* workers with a task cancellation not yet delivered
  drainPc         \* where each drain() call stands

admissionVars == <<lifecycle, drainDeadline, drainPc>>
heapVars      == <<heap, seqno, nextSeq, age>>
callerVars    == <<future, cancelled, caller>>
counterVars   == <<queueBg, queueFg, completed, rejected>>
workerVars    == <<pc, job, workerState, notified, doomed>>
queueVars     == <<admissionVars, heapVars, callerVars, counterVars, workerVars>>

-----------------------------------------------------------------------------
(* Helpers                                                                 *)

Clamp(n) == IF n < 0 THEN 0 ELSE n

Foreground(r) == Priority[r] \in {"foreground", "interactive"}

BaseRank(r) == CASE Priority[r] = "foreground"  -> 0
                 [] Priority[r] = "interactive" -> 1
                 [] Priority[r] = "background"  -> 2
                 [] Priority[r] = "bulk"        -> 3

\* Mutant of Rank: the aging bonus is forgotten.
RankUnaged(r) == BaseRank(r)

\* The rank _rebalance_aging_locked gives each item before any pop.
Rank(r) == Clamp(BaseRank(r) - (age[r] \div AgingInterval))

\* Mutant of Precedes: ties go to the latest item.
PrecedesLatest(r, q) ==
  \/ Rank(r) < Rank(q)
  \/ Rank(r) = Rank(q) /\ seqno[r] > seqno[q]

\* The order of _HeapItem; sequence numbers are unique.
Precedes(r, q) ==
  \/ Rank(r) < Rank(q)
  \/ Rank(r) = Rank(q) /\ seqno[r] < seqno[q]

\* Time stops counting at the deadline: beyond it nothing reads the age.
Expired(r) == age[r] >= Timeout[r]

\* _heap becomes H: an item that leaves takes its number and its age along.
Keep(f, H) == [r \in Requests |-> IF r \in H THEN f[r] ELSE 0]

HeapBecomes(H) ==
  /\ heap' = H
  /\ seqno' = Keep(seqno, H)
  /\ age' = Keep(age, H)

\* What _discard_expired_locked keeps.
Live == {r \in heap : r \notin cancelled /\ ~Expired(r)}

\* Mutant of ExpiryAnswers: expired items are dropped without an answer.
ExpiryUnanswered == future

\* Futures after the discarded items are expired; set_exception is skipped
\* for a future that is done.
ExpiryAnswers ==
  [r \in Requests |-> IF r \in heap /\ r \notin cancelled /\ Expired(r)
                           /\ future[r] = "pending"
                        THEN "timeout" ELSE future[r]]

Sleeping == {w \in Workers : pc[w] = "waiting" /\ w \notin notified /\ w \notin doomed}

\* Mutant of NotifyOne: the push wakes nobody.
NotifyNobody == UNCHANGED notified

\* condition.notify(): one waiter, if any. asyncio wakes the oldest one; the
\* model lets it be any, so nothing below depends on which.
NotifyOne ==
  IF Sleeping = {} THEN UNCHANGED notified
  ELSE \E w \in Sleeping : notified' = notified \cup {w}

NotifyAll == notified' = notified \cup Sleeping

\* _mark_running
MarkRunning(r, delta) ==
  IF Foreground(r)
    THEN queueFg' = Clamp(queueFg + delta) /\ UNCHANGED queueBg
    ELSE queueBg' = Clamp(queueBg + delta) /\ UNCHANGED queueFg

-----------------------------------------------------------------------------
QueueInit ==
  /\ lifecycle = "accepting"
  /\ drainDeadline = NoDrainer
  /\ heap = {}
  /\ seqno = [r \in Requests |-> 0]
  /\ nextSeq = 0
  /\ age = [r \in Requests |-> 0]
  /\ future = [r \in Requests |-> "none"]
  /\ cancelled = {}
  /\ caller = [r \in Requests |-> "new"]
  /\ queueBg = 0 /\ queueFg = 0
  /\ completed = 0 /\ rejected = 0
  /\ pc = [w \in Workers |-> "ready"]
  /\ job = [w \in Workers |-> NoRequest]
  /\ workerState = [w \in Workers |-> "idle"]
  /\ notified = {}
  /\ doomed = {}
  /\ drainPc = [d \in Drainers |-> "idle"]

-----------------------------------------------------------------------------
(* submit()                                                                *)

\* _rejection_for_submit_locked
RefusesNow(r) ==
  \/ lifecycle = "closed"
  \/ lifecycle \in {"paused", "draining"} /\ ~Foreground(r)

SubmitRefused(r) ==
  /\ caller[r] = "new"
  /\ RefusesNow(r)
  /\ rejected' = rejected + 1
  /\ caller' = [caller EXCEPT ![r] = "refused"]
  /\ UNCHANGED <<admissionVars, heapVars, future, cancelled, queueBg, queueFg,
                 completed, workerVars>>

\* Expired and cancelled items are discarded before the size is compared.
SubmitFull(r) ==
  /\ caller[r] = "new"
  /\ ~RefusesNow(r)
  /\ Cardinality(Live) >= MaxSize
  /\ HeapBecomes(Live)
  /\ future' = ExpiryAnswers
  /\ rejected' = rejected + 1
  /\ caller' = [caller EXCEPT ![r] = "refused"]
  /\ UNCHANGED <<admissionVars, nextSeq, cancelled, queueBg,
                 queueFg, completed, workerVars>>

SubmitAccepted(r) ==
  /\ caller[r] = "new"
  /\ ~RefusesNow(r)
  /\ Cardinality(Live) < MaxSize
  /\ heap' = Live \cup {r}
  /\ seqno' = [Keep(seqno, Live) EXCEPT ![r] = nextSeq]
  /\ age' = Keep(age, Live)
  /\ nextSeq' = nextSeq + 1
  /\ future' = [ExpiryAnswers EXCEPT ![r] = "pending"]
  /\ caller' = [caller EXCEPT ![r] = "waiting"]
  /\ NotifyOne
  /\ UNCHANGED <<admissionVars, cancelled, counterVars, pc, job, workerState,
                 doomed>>

\* The caller's task resumes from `await future`.
CallerAnswered(r) ==
  /\ caller[r] = "waiting"
  /\ future[r] # "pending"
  /\ caller' = [caller EXCEPT ![r] = "answered"]
  /\ UNCHANGED <<admissionVars, heapVars, future, cancelled, counterVars, workerVars>>

\* task.cancel() on a caller: the future it awaits is cancelled at once, while
\* the CancelledError reaches submit() only when the loop resumes the caller.
CallerCancelled(r) ==
  /\ caller[r] = "waiting"
  /\ caller' = [caller EXCEPT ![r] = "leaving"]
  /\ future' = [future EXCEPT ![r] = IF @ = "pending" THEN "cancelled" ELSE @]
  /\ UNCHANGED <<admissionVars, heapVars, cancelled, counterVars, workerVars>>

\* submit() handles the CancelledError: QueuedRequest.cancel(), then raise.
CallerLeaves(r) ==
  /\ caller[r] = "leaving"
  /\ caller' = [caller EXCEPT ![r] = "left"]
  /\ cancelled' = cancelled \cup {r}
  /\ UNCHANGED <<admissionVars, heapVars, future, counterVars, workerVars>>

-----------------------------------------------------------------------------
(* pause(), resume(), drain() and close()                                  *)

Pause ==
  /\ lifecycle # "closed"
  /\ lifecycle' = "paused"
  /\ NotifyAll
  /\ UNCHANGED <<drainDeadline, drainPc, heapVars, callerVars, counterVars, pc,
                 job, workerState, doomed>>

Resume ==
  /\ lifecycle # "closed"
  /\ lifecycle' = "accepting"
  /\ drainDeadline' = NoDrainer
  /\ NotifyAll
  /\ UNCHANGED <<drainPc, heapVars, callerVars, counterVars, pc, job,
                 workerState, doomed>>

DrainBegins(d) ==
  /\ drainPc[d] = "idle"
  /\ lifecycle # "closed"
  /\ lifecycle' = "draining"
  /\ drainDeadline' = d
  /\ drainPc' = [drainPc EXCEPT ![d] = "polling"]
  /\ NotifyAll
  /\ UNCHANGED <<heapVars, callerVars, counterVars, pc, job, workerState, doomed>>

DrainOfClosed(d) ==
  /\ drainPc[d] = "idle"
  /\ lifecycle = "closed"
  /\ drainPc' = [drainPc EXCEPT ![d] = "drained"]
  /\ UNCHANGED <<lifecycle, drainDeadline, heapVars, callerVars, counterVars, workerVars>>

\* Mutant of DrainComplete: work in progress is not counted.
DrainedHeap == lifecycle = "closed" \/ heap = {}

DrainComplete == lifecycle = "closed" \/ (heap = {} /\ queueBg = 0)

DrainReturns(d) ==
  /\ drainPc[d] = "polling"
  /\ DrainComplete
  /\ drainPc' = [drainPc EXCEPT ![d] = "drained"]
  /\ UNCHANGED <<lifecycle, drainDeadline, heapVars, callerVars, counterVars, workerVars>>

\* Mutant of DrainTimesOut: the deadline is read only while still draining.
DrainTimesOutDraining(d) ==
  /\ drainPc[d] = "polling"
  /\ ~DrainComplete
  /\ lifecycle = "draining"
  /\ drainPc' = [drainPc EXCEPT ![d] = "timedout"]
  /\ UNCHANGED <<lifecycle, drainDeadline, heapVars, callerVars, counterVars, workerVars>>

\* The deadline may pass between any two polls.
DrainTimesOut(d) ==
  /\ drainPc[d] = "polling"
  /\ ~DrainComplete
  /\ drainPc' = [drainPc EXCEPT ![d] = "timedout"]
  /\ UNCHANGED <<lifecycle, drainDeadline, heapVars, callerVars, counterVars, workerVars>>

\* Mutant of CloseBody: nobody is notified.
CloseSilently ==
  /\ lifecycle' = "closed"
  /\ drainDeadline' = NoDrainer
  /\ cancelled' = cancelled \cup heap
  /\ future' = [r \in Requests |-> IF r \in heap /\ future[r] = "pending"
                                     THEN "cancelled" ELSE future[r]]
  /\ HeapBecomes({})
  /\ UNCHANGED <<nextSeq, caller, counterVars, pc, job, workerState, notified>>

CloseBody ==
  /\ lifecycle' = "closed"
  /\ drainDeadline' = NoDrainer
  /\ cancelled' = cancelled \cup heap
  /\ future' = [r \in Requests |-> IF r \in heap /\ future[r] = "pending"
                                     THEN "cancelled" ELSE future[r]]
  /\ HeapBecomes({})
  /\ workerState' = [w \in Workers |-> IF workerState[w] = "stopped"
                                         THEN "stopped" ELSE "stopping"]
  /\ NotifyAll
  /\ UNCHANGED <<nextSeq, caller, counterVars, pc, job>>

Close == CloseBody /\ UNCHANGED <<drainPc, doomed>>

-----------------------------------------------------------------------------
(* get() and run_worker()                                                  *)

\* The worker runs get(): it starts, comes back from a request, or is woken.
InGet(w) ==
  /\ w \notin doomed
  /\ pc[w] = "ready" \/ (pc[w] = "waiting" /\ w \in notified)

\* get() raises because the queue is closed; run_worker returns.
GetStops(w) ==
  /\ InGet(w)
  /\ lifecycle = "closed" /\ heap = {}
  /\ pc' = [pc EXCEPT ![w] = "stopped"]
  /\ workerState' = [workerState EXCEPT ![w] = "stopped"]
  /\ notified' = notified \ {w}
  /\ UNCHANGED <<admissionVars, heapVars, callerVars, counterVars, job, doomed>>

\* get() finds nothing to run, or the queue is paused.
GetWaits(w) ==
  /\ InGet(w)
  /\ ~(lifecycle = "closed" /\ heap = {})
  /\ Live = {} \/ lifecycle = "paused"
  /\ HeapBecomes(Live)
  /\ future' = ExpiryAnswers
  /\ pc' = [pc EXCEPT ![w] = "waiting"]
  /\ notified' = notified \ {w}
  /\ workerState' = [workerState EXCEPT ![w] = IF pc[w] = "ready" THEN "idle" ELSE @]
  /\ UNCHANGED <<admissionVars, nextSeq, cancelled, caller, counterVars, job, doomed>>

\* Mutant of GetTakes: the item is read and not popped.
GetPeeks(w, r, blocks) ==
  /\ InGet(w)
  /\ lifecycle # "paused"
  /\ r \in Live
  /\ \A q \in Live \ {r} : Precedes(r, q)
  /\ HeapBecomes(Live)
  /\ future' = ExpiryAnswers
  /\ MarkRunning(r, 1)
  /\ job' = [job EXCEPT ![w] = r]
  /\ pc' = [pc EXCEPT ![w] = IF blocks THEN "acquiring" ELSE "running"]
  /\ workerState' = [workerState EXCEPT ![w] = "running"]
  /\ notified' = notified \ {w}
  /\ UNCHANGED <<admissionVars, nextSeq, cancelled, caller, completed, rejected, doomed>>

\* get() pops the first live item, and run_worker calls the acquire hook,
\* which suspends the worker when it blocks and else goes on to the runner.
GetTakes(w, r, blocks) ==
  /\ InGet(w)
  /\ lifecycle # "paused"
  /\ r \in Live
  /\ \A q \in Live \ {r} : Precedes(r, q)
  /\ HeapBecomes(Live \ {r})
  /\ future' = ExpiryAnswers
  /\ MarkRunning(r, 1)
  /\ job' = [job EXCEPT ![w] = r]
  /\ pc' = [pc EXCEPT ![w] = IF blocks THEN "acquiring" ELSE "running"]
  /\ workerState' = [workerState EXCEPT ![w] =
       CASE ~blocks -> "running" [] pc[w] = "ready" -> "idle" [] OTHER -> @]
  /\ notified' = notified \ {w}
  /\ UNCHANGED <<admissionVars, nextSeq, cancelled, caller, completed, rejected, doomed>>

\* The acquire hook returns after blocking.
Acquired(w) ==
  /\ pc[w] = "acquiring" /\ w \notin doomed
  /\ pc' = [pc EXCEPT ![w] = "running"]
  /\ workerState' = [workerState EXCEPT ![w] = "running"]
  /\ UNCHANGED <<admissionVars, heapVars, callerVars, counterVars, job,
                 notified, doomed>>

\* The finally block of run_worker, and the worker's next place.
PutDown(w, next) ==
  /\ MarkRunning(job[w], -1)
  /\ completed' = completed + 1
  /\ job' = [job EXCEPT ![w] = NoRequest]
  /\ pc' = [pc EXCEPT ![w] = next]
  /\ workerState' = [workerState EXCEPT ![w] = "idle"]

\* Mutant of Finishes: the future is set even when it is done.
FinishesAnyway(w) ==
  /\ pc[w] = "running" /\ w \notin doomed
  /\ future' = [future EXCEPT ![job[w]] = "ran"]
  /\ PutDown(w, "ready")
  /\ UNCHANGED <<admissionVars, heapVars, cancelled, caller, rejected,
                 notified, doomed>>

\* The runner returns or raises; its result or exception settles the future
\* unless that is done.
Finishes(w) ==
  /\ pc[w] = "running" /\ w \notin doomed
  /\ future' = [future EXCEPT ![job[w]] = IF @ = "pending" THEN "ran" ELSE @]
  /\ PutDown(w, "ready")
  /\ UNCHANGED <<admissionVars, heapVars, cancelled, caller, rejected,
                 notified, doomed>>

-----------------------------------------------------------------------------
(* AdaptiveScheduler.stop(): every worker task is cancelled                *)

Unfinished == {w \in Workers : pc[w] \notin {"stopped", "dead"}}

CancelWorkers ==
  /\ doomed' = doomed \cup Unfinished
  /\ UNCHANGED <<admissionVars, heapVars, callerVars, counterVars, pc, job,
                 workerState, notified>>

\* Mutant of CancelledInGet: a worker that waits swallows the cancellation.
CancelledBeforeGet(w) ==
  /\ w \in doomed
  /\ pc[w] = "ready"
  /\ pc' = [pc EXCEPT ![w] = "dead"]
  /\ doomed' = doomed \ {w}
  /\ UNCHANGED <<admissionVars, heapVars, callerVars, counterVars, job,
                 notified, workerState>>

\* The CancelledError ends a worker in condition.wait or before its first step.
CancelledInGet(w) ==
  /\ w \in doomed
  /\ pc[w] \in {"ready", "waiting"}
  /\ pc' = [pc EXCEPT ![w] = "dead"]
  /\ doomed' = doomed \ {w}
  /\ notified' = notified \ {w}
  /\ UNCHANGED <<admissionVars, heapVars, callerVars, counterVars, job, workerState>>

\* Mutant of CancelledAcquiring: the running count is kept.
CancelledAcquiringCounted(w) ==
  /\ w \in doomed
  /\ pc[w] = "acquiring"
  /\ job' = [job EXCEPT ![w] = NoRequest]
  /\ pc' = [pc EXCEPT ![w] = "dead"]
  /\ doomed' = doomed \ {w}
  /\ UNCHANGED <<admissionVars, heapVars, callerVars, counterVars,
                 workerState, notified>>

\* It ends a worker in the acquire hook: the running count is given back, the
\* future is left as it is.
CancelledAcquiring(w) ==
  /\ w \in doomed
  /\ pc[w] = "acquiring"
  /\ MarkRunning(job[w], -1)
  /\ job' = [job EXCEPT ![w] = NoRequest]
  /\ pc' = [pc EXCEPT ![w] = "dead"]
  /\ doomed' = doomed \ {w}
  /\ UNCHANGED <<admissionVars, heapVars, callerVars, completed, rejected,
                 workerState, notified>>

\* It ends a worker in the runner: `except Exception` does not see a
\* CancelledError, so only the finally block runs.
CancelledRunning(w) ==
  /\ w \in doomed
  /\ pc[w] = "running"
  /\ PutDown(w, "dead")
  /\ doomed' = doomed \ {w}
  /\ UNCHANGED <<admissionVars, heapVars, callerVars, rejected, notified>>

-----------------------------------------------------------------------------
\* A tick of monotonic(), which every item of the heap sees alike.
Tick ==
  /\ \E r \in heap : ~Expired(r)
  /\ age' = [r \in Requests |-> IF r \in heap /\ ~Expired(r) THEN age[r] + 1 ELSE age[r]]
  /\ UNCHANGED <<admissionVars, heap, seqno, nextSeq, callerVars, counterVars, workerVars>>

CallerNext(r) ==
  \/ SubmitRefused(r) \/ SubmitFull(r) \/ SubmitAccepted(r)
  \/ CallerAnswered(r) \/ CallerCancelled(r) \/ CallerLeaves(r)

DrainNext(d) ==
  DrainBegins(d) \/ DrainOfClosed(d) \/ DrainReturns(d) \/ DrainTimesOut(d)

GetNext(w) ==
  \/ GetStops(w)
  \/ GetWaits(w)
  \/ \E r \in Requests, blocks \in BOOLEAN : GetTakes(w, r, blocks)

CancelNext(w) ==
  CancelledInGet(w) \/ CancelledAcquiring(w) \/ CancelledRunning(w)

WorkerNext(w) ==
  \/ GetNext(w)
  \/ Acquired(w)
  \/ Finishes(w)
  \/ CancelNext(w)

QueueNext ==
  \/ \E r \in Requests : CallerNext(r)
  \/ \E d \in Drainers : DrainNext(d)
  \/ \E w \in Workers : WorkerNext(w)
  \/ Pause \/ Resume \/ Close \/ CancelWorkers
  \/ Tick

QueueSpec == QueueInit /\ [][QueueNext]_queueVars

\* The event loop runs every task that can run, the runner and the acquire
\* hook return, and time passes. Nobody has to submit, leave, pause or close.
QueueFairness ==
  /\ \A r \in Requests : WF_queueVars(CallerAnswered(r) \/ CallerLeaves(r))
  /\ \A d \in Drainers : WF_queueVars(DrainReturns(d) \/ DrainTimesOut(d))
  /\ \A w \in Workers : WF_queueVars(WorkerNext(w))
  /\ WF_queueVars(Tick)

FairQueueSpec == QueueSpec /\ QueueFairness

-----------------------------------------------------------------------------
(* Properties                                                              *)

Holders == {w \in Workers : job[w] # NoRequest}

\* Every variable of the queue keeps to the values the class gives it.
QueueTypeOK ==
  /\ lifecycle \in {"accepting", "paused", "draining", "closed"}
  /\ drainDeadline \in Drainers \cup {NoDrainer}
  /\ heap \subseteq Requests
  /\ seqno \in [Requests -> Nat]
  /\ nextSeq \in Nat
  /\ age \in [Requests -> Nat]
  /\ future \in [Requests -> {"none", "pending", "ran", "timeout", "cancelled"}]
  /\ cancelled \subseteq Requests
  /\ caller \in [Requests -> {"new", "refused", "waiting", "answered",
                              "leaving", "left"}]
  /\ queueBg \in Nat /\ queueFg \in Nat
  /\ completed \in Nat /\ rejected \in Nat
  /\ pc \in [Workers -> {"ready", "waiting", "acquiring", "running",
                          "stopped", "dead"}]
  /\ job \in [Workers -> Requests \cup {NoRequest}]
  /\ workerState \in [Workers -> {"idle", "running", "stopping", "stopped"}]
  /\ notified \subseteq Workers
  /\ doomed \subseteq Workers
  /\ drainPc \in [Drainers -> {"idle", "polling", "drained", "timedout"}]

\* The running counters of the snapshot, which drain() trusts, are the numbers
\* of requests the workers hold, through every failure and cancellation; the
\* clamp at zero of _mark_running never hides a missed decrement.
CountersMatchWorkers ==
  /\ queueBg = Cardinality({w \in Holders : ~Foreground(job[w])})
  /\ queueFg = Cardinality({w \in Holders : Foreground(job[w])})

\* A request is in the heap or with one worker, never both and never with two,
\* and the heap never outgrows max_size.
SingleOwner ==
  /\ Cardinality(heap) <= MaxSize
  /\ \A w \in Holders : job[w] \notin heap
  /\ \A v, w \in Holders : job[v] = job[w] => v = w

\* No lost wakeup: while the queue hands out work, a worker sleeps on the
\* condition only if at least as many other workers have been woken as there
\* are items in the heap, although submit() notifies one worker only and any
\* worker that comes back from a request may take the item first.
NoLostWakeup ==
  lifecycle # "paused" /\ Sleeping # {} => Cardinality(heap) <= Cardinality(notified)

\* Until the worker tasks are cancelled, a caller that still awaits an unset
\* future has its request in the heap or with a worker: nothing drops a
\* request without answering it.
NoForgottenCaller ==
  \A r \in Requests :
    future[r] = "pending" =>
      \/ r \in heap
      \/ \E w \in Workers : job[w] = r
      \/ \E w \in Workers : pc[w] = "dead"

Taken(r) == \E w \in Workers : job[w] # r /\ job'[w] = r

\* Requests of one priority are taken in the order they were submitted,
\* although the heap is rebuilt at every get() with ranks computed anew.
FifoWithinPriority ==
  [][\A r, q \in heap : Taken(r) /\ Priority[r] = Priority[q] /\ q \in heap'
        => seqno[r] < seqno[q]]_queueVars

\* Aging ends starvation: once an item has waited the aging intervals that make
\* up its base rank, nothing submitted after it is taken before it, foreground
\* work included.
AgedNotOvertaken ==
  [][\A r, q \in heap :
        /\ Taken(r)
        /\ q \in heap'
        /\ age[q] >= BaseRank(q) * AgingInterval
        => seqno[r] < seqno[q]]_queueVars

\* A request whose caller has gone, or whose deadline has passed, is never
\* handed to a worker.
NothingStaleStarts ==
  [][\A r \in Requests :
        Taken(r) => caller[r] # "left" /\ ~Expired(r)]_queueVars

\* Bound to the concrete state: what the contract calls the phase of a request.
Phase(r) ==
  CASE caller[r] = "new"               -> "new"
    [] caller[r] = "refused"           -> "refused"
    [] r \in heap                      -> "queued"
    [] \E w \in Workers : job[w] = r   -> "held"
    [] OTHER                           -> "over"

Contract == INSTANCE RequestLifecycle
  WITH phase <- [r \in Requests |-> Phase(r)], outcome <- future

\* The queue implements the contract: bounded, at most one execution and one
\* answer for each request, and no request leaves the heap unanswered.
ImplementsContract == Contract!ContractSpec

\* Every caller that is not refused gets an answer or leaves, unless the queue
\* is paused or the worker tasks are cancelled meanwhile.
CallersAreAnswered ==
  \A r \in Requests :
    caller[r] = "waiting" ~>
      \/ caller[r] \in {"answered", "leaving", "left"}
      \/ lifecycle = "paused"
      \/ doomed # {} \/ \E w \in Workers : pc[w] = "dead"

\* close() wakes and ends every worker: none sleeps on the condition for ever.
CloseEndsWorkers ==
  \A w \in Workers : lifecycle = "closed" ~> pc[w] \in {"stopped", "dead"}

\* drain() comes back even when the queue is paused or resumed under it.
DrainComesBack ==
  \A d \in Drainers : drainPc[d] = "polling" ~> drainPc[d] \in {"drained", "timedout"}

\* OPERATIONS.md of a closed queue: "The queue is shut down and pending work is
\* cancelled." So a caller still waiting when the queue closes is answered in
\* the end.
ClosedQueueAnswersCallers ==
  \A r \in Requests :
    lifecycle = "closed" /\ caller[r] = "waiting" ~> caller[r] # "waiting"

=============================================================================
