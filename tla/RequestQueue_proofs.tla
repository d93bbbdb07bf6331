------------------------ MODULE RequestQueue_proofs ------------------------
(***************************************************************************)
(* For any number of requests, workers and drain() calls, any priorities,  *)
(* timeouts and bounds: the types of the queue, the invariant that says who *)
(* owns a request, that the running counters are exact, and that no wakeup *)
(* is lost.                                                                *)
(***************************************************************************)
EXTENDS RequestQueue, FiniteSetTheorems, TLAPS

-----------------------------------------------------------------------------
(* Helpers                                                                 *)

\* A clamped counter is a natural number.
LEMMA ClampNat == \A n \in Int : Clamp(n) \in Nat
  BY DEF Clamp

\* What leaves the heap takes its number along, so the columns of the heap
\* stay functions to the naturals.
LEMMA KeepNat ==
  ASSUME NEW f \in [Requests -> Nat], NEW H
  PROVE  Keep(f, H) \in [Requests -> Nat]
  BY DEF Keep

\* Expiring answers pending futures only with a timeout.
LEMMA ExpiryAnswersType ==
  ASSUME QueueTypeOK
  PROVE  ExpiryAnswers \in [Requests -> {"none", "pending", "ran", "timeout", "cancelled"}]
  BY DEF ExpiryAnswers, QueueTypeOK

\* Waking one waiter, if any, or all keeps the set of the woken a set of workers.
LEMMA NotifyType ==
  ASSUME QueueTypeOK, NotifyOne \/ NotifyAll
  PROVE  notified' \subseteq Workers
  BY DEF NotifyOne, NotifyAll, Sleeping, QueueTypeOK

\* The running counters stay natural numbers.
LEMMA MarkRunningType ==
  ASSUME QueueTypeOK, NEW r, NEW delta \in {1, -1}, MarkRunning(r, delta)
  PROVE  queueBg' \in Nat /\ queueFg' \in Nat
  BY ClampNat DEF MarkRunning, QueueTypeOK

-----------------------------------------------------------------------------
(* Type correctness                                                        *)

\* The initial values are of the right type.
LEMMA QueueTypeInit == QueueInit => QueueTypeOK
  BY DEF QueueInit, QueueTypeOK

\* A step of a caller keeps the types.
LEMMA CallerTypeStep ==
  ASSUME QueueTypeOK, NEW r \in Requests, CallerNext(r)
  PROVE  QueueTypeOK'
<1> USE DEF QueueTypeOK, admissionVars, heapVars, callerVars, counterVars, workerVars
<1>1. CASE SubmitRefused(r)
  BY <1>1 DEF SubmitRefused
<1>2. CASE SubmitFull(r)
  BY <1>2, KeepNat, ExpiryAnswersType DEF SubmitFull, HeapBecomes, Live
<1>3. CASE SubmitAccepted(r)
  <2>1. heap' \subseteq Requests /\ seqno' \in [Requests -> Nat] /\ age' \in [Requests -> Nat]
    BY <1>3, KeepNat DEF SubmitAccepted, Live
  <2>2. future' \in [Requests -> {"none", "pending", "ran", "timeout", "cancelled"}]
    BY <1>3, ExpiryAnswersType DEF SubmitAccepted
  <2>3. notified' \subseteq Workers
    BY <1>3, NotifyType DEF SubmitAccepted
  <2>4. QED
    BY <1>3, <2>1, <2>2, <2>3 DEF SubmitAccepted
<1>4. CASE CallerAnswered(r)
  BY <1>4 DEF CallerAnswered
<1>5. CASE CallerCancelled(r)
  BY <1>5 DEF CallerCancelled
<1>6. CASE CallerLeaves(r)
  BY <1>6 DEF CallerLeaves
<1>7. QED
  BY <1>1, <1>2, <1>3, <1>4, <1>5, <1>6 DEF CallerNext

\* A step of a drain() call keeps the types.
LEMMA DrainTypeStep ==
  ASSUME QueueTypeOK, NEW d \in Drainers, DrainNext(d)
  PROVE  QueueTypeOK'
<1> USE DEF QueueTypeOK, admissionVars, heapVars, callerVars, counterVars, workerVars
<1>1. CASE DrainBegins(d)
  BY <1>1, NotifyType DEF DrainBegins
<1>2. CASE DrainOfClosed(d)
  BY <1>2 DEF DrainOfClosed
<1>3. CASE DrainReturns(d)
  BY <1>3 DEF DrainReturns
<1>4. CASE DrainTimesOut(d)
  BY <1>4 DEF DrainTimesOut
<1>5. QED
  BY <1>1, <1>2, <1>3, <1>4 DEF DrainNext

\* The operator's calls, and the cancellation of the workers, keep the types.
LEMMA ControlTypeStep ==
  ASSUME QueueTypeOK, Pause \/ Resume \/ Close \/ CancelWorkers \/ Tick
  PROVE  QueueTypeOK'
<1> USE DEF QueueTypeOK, admissionVars, heapVars, callerVars, counterVars, workerVars
<1>1. CASE Pause
  BY <1>1, NotifyType DEF Pause
<1>2. CASE Resume
  BY <1>2, NotifyType DEF Resume
<1>3. CASE Close
  <2>1. notified' \subseteq Workers
    BY <1>3, NotifyType DEF Close, CloseBody
  <2>2. heap' \subseteq Requests /\ seqno' \in [Requests -> Nat] /\ age' \in [Requests -> Nat]
    BY <1>3, KeepNat DEF Close, CloseBody, HeapBecomes
  <2>3. QED
    BY <1>3, <2>1, <2>2 DEF Close, CloseBody
<1>4. CASE CancelWorkers
  BY <1>4 DEF CancelWorkers, Unfinished
<1>5. CASE Tick
  BY <1>5 DEF Tick
<1>6. QED
  BY <1>1, <1>2, <1>3, <1>4, <1>5

\* A step of a worker keeps the types.
LEMMA WorkerTypeStep ==
  ASSUME QueueTypeOK, NEW w \in Workers, WorkerNext(w)
  PROVE  QueueTypeOK'
<1> USE DEF QueueTypeOK, admissionVars, heapVars, callerVars, counterVars, workerVars
<1>1. CASE GetStops(w)
  BY <1>1 DEF GetStops
<1>2. CASE GetWaits(w)
  BY <1>2, KeepNat, ExpiryAnswersType DEF GetWaits, HeapBecomes, Live
<1>3. ASSUME NEW r \in Requests, NEW blocks \in BOOLEAN, GetTakes(w, r, blocks)
      PROVE  QueueTypeOK'
  <2>1. heap' \subseteq Requests /\ seqno' \in [Requests -> Nat] /\ age' \in [Requests -> Nat]
    BY <1>3, KeepNat DEF GetTakes, HeapBecomes, Live
  <2>2. future' \in [Requests -> {"none", "pending", "ran", "timeout", "cancelled"}]
    BY <1>3, ExpiryAnswersType DEF GetTakes
  <2>3. queueBg' \in Nat /\ queueFg' \in Nat
    BY <1>3, MarkRunningType DEF GetTakes
  <2>4. QED
    BY <1>3, <2>1, <2>2, <2>3 DEF GetTakes
<1>4. CASE Acquired(w)
  BY <1>4 DEF Acquired
<1>5. CASE Finishes(w)
  <2>1. future' \in [Requests -> {"none", "pending", "ran", "timeout", "cancelled"}]
    BY <1>5 DEF Finishes
  <2>2. queueBg' \in Nat /\ queueFg' \in Nat
    BY <1>5, MarkRunningType DEF Finishes, PutDown
  <2>3. QED
    BY <1>5, <2>1, <2>2 DEF Finishes, PutDown
<1>6. CASE CancelledInGet(w)
  BY <1>6 DEF CancelledInGet
<1>7. CASE CancelledAcquiring(w)
  BY <1>7, MarkRunningType DEF CancelledAcquiring
<1>8. CASE CancelledRunning(w)
  BY <1>8, MarkRunningType DEF CancelledRunning, PutDown
<1>9. QED
  BY <1>1, <1>2, <1>3, <1>4, <1>5, <1>6, <1>7, <1>8
  DEF WorkerNext, GetNext, CancelNext

\* The type invariant is inductive.
LEMMA QueueTypeStep == QueueTypeOK /\ [QueueNext]_queueVars => QueueTypeOK'
<1> SUFFICES ASSUME QueueTypeOK, [QueueNext]_queueVars PROVE QueueTypeOK'
  OBVIOUS
<1>1. CASE UNCHANGED queueVars
  BY <1>1
  DEF QueueTypeOK, queueVars, admissionVars, heapVars, callerVars, counterVars, workerVars
<1>2. QED
  BY <1>1, CallerTypeStep, DrainTypeStep, ControlTypeStep, WorkerTypeStep DEF QueueNext

\* Type correctness of the queue.
THEOREM QueueTypeCorrect == QueueSpec => []QueueTypeOK
  BY QueueTypeInit, QueueTypeStep, PTL DEF QueueSpec

-----------------------------------------------------------------------------
(* Who owns a request                                                      *)

\* A request that was never admitted is nowhere.
UnsubmittedNowhere ==
  \A r \in Requests :
    caller[r] \in {"new", "refused"} =>
      r \notin heap /\ r \notin cancelled /\ \A w \in Workers : job[w] # r

\* A worker holds a request exactly between get() and its finally block.
JobsMatchPlaces ==
  \A w \in Workers : job[w] # NoRequest <=> pc[w] \in {"acquiring", "running"}

\* Single ownership with what a step needs to know of the one before.
OwnerInv ==
  /\ QueueTypeOK
  /\ UnsubmittedNowhere
  /\ JobsMatchPlaces
  /\ SingleOwner

\* The steps of the queue, flat.
LEMMA QueueSteps ==
  ASSUME [QueueNext]_queueVars
  PROVE  \/ \E r \in Requests :
              \/ SubmitRefused(r) \/ SubmitFull(r) \/ SubmitAccepted(r)
              \/ CallerAnswered(r) \/ CallerCancelled(r) \/ CallerLeaves(r)
         \/ \E d \in Drainers :
              DrainBegins(d) \/ DrainOfClosed(d) \/ DrainReturns(d) \/ DrainTimesOut(d)
         \/ \E w \in Workers :
              \/ GetStops(w) \/ GetWaits(w) \/ Acquired(w) \/ Finishes(w)
              \/ CancelledInGet(w) \/ CancelledAcquiring(w) \/ CancelledRunning(w)
         \/ \E w \in Workers, r \in Requests, blocks \in BOOLEAN : GetTakes(w, r, blocks)
         \/ Pause \/ Resume \/ Close \/ CancelWorkers \/ Tick
         \/ UNCHANGED queueVars
  BY DEF QueueNext, CallerNext, DrainNext, WorkerNext, GetNext, CancelNext

\* A part of the heap is finite and no larger than it.
LEMMA HeapFinite ==
  ASSUME QueueTypeOK, NEW H \in SUBSET heap
  PROVE  /\ IsFiniteSet(H) /\ Cardinality(H) \in Nat
         /\ Cardinality(heap) \in Nat
         /\ Cardinality(H) <= Cardinality(heap)
<1>1. IsFiniteSet(heap)
  BY QueueAssumption, FS_Subset DEF QueueTypeOK
<1>2. QED
  BY <1>1, FS_Subset, FS_CardinalityType

\* Where the heap only loses items and the workers hold what they held or
\* less, nothing changes owner.
LEMMA OwnerQuiet ==
  ASSUME OwnerInv, QueueTypeOK',
         heap' \subseteq heap,
         \A w \in Workers : job'[w] = job[w] \/ job'[w] = NoRequest,
         \A r \in Requests : caller'[r] \in {"new", "refused"} =>
           caller[r] \in {"new", "refused"} /\ (r \in cancelled' => r \in cancelled),
         JobsMatchPlaces'
  PROVE  OwnerInv'
<1>1. UnsubmittedNowhere'
  BY QueueAssumption DEF OwnerInv, UnsubmittedNowhere
<1>2. Cardinality(heap') <= MaxSize
  BY HeapFinite, QueueAssumption DEF OwnerInv, SingleOwner
<1>3. SingleOwner'
  BY <1>2 DEF OwnerInv, SingleOwner, Holders
<1>4. QED
  BY <1>1, <1>3 DEF OwnerInv

\* Nothing is submitted in the beginning.
LEMMA OwnerInit == QueueInit => OwnerInv
<1> SUFFICES ASSUME QueueInit PROVE OwnerInv
  OBVIOUS
<1>1. Cardinality({}) = 0
  BY FS_EmptySet
<1>2. QED
  BY <1>1, QueueTypeInit, QueueAssumption
  DEF QueueInit, OwnerInv, UnsubmittedNowhere, JobsMatchPlaces, SingleOwner, Holders

\* A pushed request is new, and there was room for it.
LEMMA OwnerAccepted ==
  ASSUME OwnerInv, QueueTypeOK', NEW r \in Requests, SubmitAccepted(r)
  PROVE  OwnerInv'
<1> USE DEF OwnerInv
<1>1. /\ caller[r] = "new" /\ caller' = [caller EXCEPT ![r] = "waiting"]
      /\ heap' = Live \cup {r} /\ Cardinality(Live) < MaxSize
      /\ UNCHANGED <<cancelled, job, pc>>
  BY DEF SubmitAccepted
<1>2. Live \subseteq heap /\ r \notin heap
  BY <1>1 DEF Live, UnsubmittedNowhere
<1>3. UnsubmittedNowhere'
  BY <1>1, <1>2 DEF UnsubmittedNowhere, QueueTypeOK
<1>4. JobsMatchPlaces'
  BY <1>1 DEF JobsMatchPlaces
<1>5. Cardinality(heap') <= MaxSize
  <2>1. IsFiniteSet(Live) /\ Cardinality(Live) \in Nat
    BY <1>2, HeapFinite
  <2>2. Cardinality(Live \cup {r}) = Cardinality(Live) + 1
    BY <1>2, <2>1, FS_AddElement
  <2>3. QED
    BY <1>1, <2>1, <2>2, QueueAssumption
<1>6. SingleOwner'
  BY <1>1, <1>2, <1>5 DEF SingleOwner, Holders, UnsubmittedNowhere
<1>7. QED
  BY <1>3, <1>4, <1>6

\* A popped request leaves the heap for a worker that held nothing.
LEMMA OwnerTakes ==
  ASSUME OwnerInv, QueueTypeOK',
         NEW w \in Workers, NEW r \in Requests, NEW blocks \in BOOLEAN,
         GetTakes(w, r, blocks)
  PROVE  OwnerInv'
<1> USE DEF OwnerInv
<1>1. /\ r \in Live /\ heap' = Live \ {r}
      /\ pc[w] \in {"ready", "waiting"}
      /\ job' = [job EXCEPT ![w] = r]
      /\ pc' = [pc EXCEPT ![w] = IF blocks THEN "acquiring" ELSE "running"]
      /\ UNCHANGED <<cancelled, caller>>
  BY DEF GetTakes, HeapBecomes, InGet
<1>2. Live \subseteq heap /\ r \in heap /\ heap' \subseteq heap /\ r \notin heap'
  BY <1>1 DEF Live
<1>3. UnsubmittedNowhere'
  BY <1>1, <1>2 DEF UnsubmittedNowhere, QueueTypeOK
<1>4. JobsMatchPlaces'
  BY <1>1, QueueAssumption DEF JobsMatchPlaces, QueueTypeOK
<1>5. Cardinality(heap') <= MaxSize
  BY <1>2, HeapFinite, QueueAssumption DEF SingleOwner
<1>6. SingleOwner'
  <2>1. \A v \in Workers : v # w => job'[v] = job[v] /\ job[v] # r
    BY <1>1, <1>2, QueueAssumption DEF SingleOwner, Holders, QueueTypeOK
  <2>2. job'[w] = r
    BY <1>1 DEF QueueTypeOK
  <2>3. QED
    BY <1>2, <1>5, <2>1, <2>2 DEF SingleOwner, Holders
<1>7. QED
  BY <1>3, <1>4, <1>6

\* Ownership is inductive.
LEMMA OwnerStep == OwnerInv /\ [QueueNext]_queueVars => OwnerInv'
<1> SUFFICES ASSUME OwnerInv, [QueueNext]_queueVars PROVE OwnerInv'
  OBVIOUS
<1> USE DEF OwnerInv, admissionVars, heapVars, callerVars, counterVars, workerVars
<1>0. QueueTypeOK'
  BY QueueTypeStep
<1>1. ASSUME NEW r \in Requests,
             \/ SubmitRefused(r) \/ SubmitFull(r)
             \/ CallerAnswered(r) \/ CallerCancelled(r) \/ CallerLeaves(r)
      PROVE  OwnerInv'
  <2>1. heap' \subseteq heap /\ UNCHANGED <<job, pc>>
    BY <1>1 DEF SubmitRefused, SubmitFull, CallerAnswered, CallerCancelled, CallerLeaves,
                HeapBecomes, Live
  <2>2. \A q \in Requests : caller'[q] \in {"new", "refused"} =>
          caller[q] \in {"new", "refused"} /\ (q \in cancelled' => q \in cancelled)
    BY <1>1 DEF SubmitRefused, SubmitFull, CallerAnswered, CallerCancelled, CallerLeaves,
                QueueTypeOK
  <2>3. QED
    BY <1>0, <2>1, <2>2, OwnerQuiet DEF JobsMatchPlaces
<1>2. ASSUME NEW d \in Drainers,
             DrainBegins(d) \/ DrainOfClosed(d) \/ DrainReturns(d) \/ DrainTimesOut(d)
      PROVE  OwnerInv'
  <2>1. UNCHANGED <<heap, job, pc, caller, cancelled>>
    BY <1>2 DEF DrainBegins, DrainOfClosed, DrainReturns, DrainTimesOut
  <2>2. QED
    BY <1>0, <2>1, OwnerQuiet DEF JobsMatchPlaces
<1>3. ASSUME NEW w \in Workers,
             \/ GetStops(w) \/ GetWaits(w) \/ Acquired(w) \/ Finishes(w)
             \/ CancelledInGet(w) \/ CancelledAcquiring(w) \/ CancelledRunning(w)
      PROVE  OwnerInv'
  <2>1. heap' \subseteq heap /\ UNCHANGED <<caller, cancelled>>
    BY <1>3 DEF GetStops, GetWaits, Acquired, Finishes, CancelledInGet,
                CancelledAcquiring, CancelledRunning, HeapBecomes, Live
  <2>2. \A v \in Workers : job'[v] = job[v] \/ job'[v] = NoRequest
    BY <1>3 DEF GetStops, GetWaits, Acquired, Finishes, PutDown, CancelledInGet,
                CancelledAcquiring, CancelledRunning, QueueTypeOK
  <2>3. JobsMatchPlaces'
    BY <1>3 DEF JobsMatchPlaces, InGet, GetStops, GetWaits, Acquired, Finishes, PutDown,
                CancelledInGet, CancelledAcquiring, CancelledRunning, QueueTypeOK
  <2>4. QED
    BY <1>0, <2>1, <2>2, <2>3, OwnerQuiet
<1>4. CASE Pause \/ Resume \/ CancelWorkers \/ Tick \/ UNCHANGED queueVars
  <2>1. UNCHANGED <<heap, job, pc, caller, cancelled>>
    BY <1>4 DEF Pause, Resume, CancelWorkers, Tick, queueVars
  <2>2. QED
    BY <1>0, <2>1, OwnerQuiet DEF JobsMatchPlaces
<1>5. CASE Close
  <2>1. heap' \subseteq heap /\ UNCHANGED <<job, pc, caller>> /\ cancelled' = cancelled \cup heap
    BY <1>5 DEF Close, CloseBody, HeapBecomes
  <2>2. QED
    BY <1>0, <2>1, OwnerQuiet DEF JobsMatchPlaces, UnsubmittedNowhere
<1>6. QED
  BY <1>0, <1>1, <1>2, <1>3, <1>4, <1>5, QueueSteps, OwnerAccepted, OwnerTakes

\* Ownership holds of every behaviour.
THEOREM OwnerInvariant == QueueSpec => []OwnerInv
  BY OwnerInit, OwnerStep, PTL DEF QueueSpec

\* A request is in the heap or with one worker, never both and never with two,
\* and the heap is bounded.
THEOREM OneOwner == QueueSpec => []SingleOwner
<1>1. OwnerInv => SingleOwner
  BY DEF OwnerInv
<1>2. QED
  BY <1>1, OwnerInvariant, PTL

-----------------------------------------------------------------------------
(* The running counters                                                    *)

\* The workers that hold a request of the lane fg.
HoldersIn(fg) == {w \in Workers : job[w] # NoRequest /\ Foreground(job[w]) = fg}

\* They are finitely many.
LEMMA HoldersFinite ==
  \A fg \in BOOLEAN : IsFiniteSet(HoldersIn(fg)) /\ Cardinality(HoldersIn(fg)) \in Nat
  BY QueueAssumption, FS_Subset, FS_CardinalityType DEF HoldersIn

\* The counters, over the two lanes, before a step and after it.
LEMMA CountersByLane ==
  /\ CountersMatchWorkers <=>
       queueBg = Cardinality(HoldersIn(FALSE)) /\ queueFg = Cardinality(HoldersIn(TRUE))
  /\ CountersMatchWorkers' <=>
       queueBg' = Cardinality(HoldersIn(FALSE)') /\ queueFg' = Cardinality(HoldersIn(TRUE)')
<1>1. /\ HoldersIn(TRUE) = {w \in Holders : Foreground(job[w])}
      /\ HoldersIn(FALSE) = {w \in Holders : ~Foreground(job[w])}
  BY DEF HoldersIn, Holders, Foreground
<1>2. /\ HoldersIn(TRUE)' = {w \in Holders : Foreground(job[w])}'
      /\ HoldersIn(FALSE)' = {w \in Holders : ~Foreground(job[w])}'
  BY DEF HoldersIn, Holders, Foreground
<1>3. QED
  BY <1>1, <1>2 DEF CountersMatchWorkers

\* Where nobody takes or puts down a request and nobody counts, the counters
\* stay right.
LEMMA CountersQuiet ==
  ASSUME CountersMatchWorkers, UNCHANGED <<job, queueBg, queueFg>>
  PROVE  CountersMatchWorkers'
  BY DEF CountersMatchWorkers, Holders, Foreground

\* A worker with empty hands that takes a request is counted once, in the
\* lane of the request.
LEMMA TakingCounts ==
  ASSUME QueueTypeOK, CountersMatchWorkers,
         NEW w \in Workers, NEW r \in Requests,
         job[w] = NoRequest, job' = [job EXCEPT ![w] = r], MarkRunning(r, 1)
  PROVE  CountersMatchWorkers'
<1> DEFINE L == Foreground(r)
<1>1. L \in BOOLEAN /\ r # NoRequest
  BY QueueAssumption DEF Foreground
<1>2. /\ HoldersIn(L)' = HoldersIn(L) \cup {w} /\ w \notin HoldersIn(L)
      /\ HoldersIn(~L)' = HoldersIn(~L)
  BY <1>1 DEF HoldersIn, QueueTypeOK, Foreground
<1>3. Cardinality(HoldersIn(L)') = Cardinality(HoldersIn(L)) + 1
  BY <1>1, <1>2, HoldersFinite, FS_AddElement
<1>4. /\ queueBg' = IF L THEN queueBg ELSE queueBg + 1
      /\ queueFg' = IF L THEN queueFg + 1 ELSE queueFg
  BY DEF MarkRunning, Clamp, QueueTypeOK
<1>5. CASE L
  BY <1>1, <1>2, <1>3, <1>4, <1>5, CountersByLane
<1>6. CASE ~L
  BY <1>1, <1>2, <1>3, <1>4, <1>6, CountersByLane
<1>7. QED
  BY <1>5, <1>6

\* A worker that puts its request down is counted in its lane, so the clamp of
\* _mark_running is idle and the count goes down by exactly one.
LEMMA PuttingDownCounts ==
  ASSUME QueueTypeOK, CountersMatchWorkers,
         NEW w \in Workers, NEW r \in Requests,
         job[w] = r, job' = [job EXCEPT ![w] = NoRequest], MarkRunning(r, -1)
  PROVE  CountersMatchWorkers'
<1> DEFINE L == Foreground(r)
<1>1. L \in BOOLEAN /\ r # NoRequest
  BY QueueAssumption DEF Foreground
<1>2. /\ HoldersIn(L)' = HoldersIn(L) \ {w} /\ w \in HoldersIn(L)
      /\ HoldersIn(~L)' = HoldersIn(~L)
  BY <1>1 DEF HoldersIn, QueueTypeOK, Foreground
<1>3. /\ Cardinality(HoldersIn(L)') = Cardinality(HoldersIn(L)) - 1
      /\ Cardinality(HoldersIn(L)) > 0
  <2>1. Cardinality(HoldersIn(L) \ {w}) = Cardinality(HoldersIn(L)) - 1
    BY <1>1, <1>2, HoldersFinite, FS_RemoveElement
  <2>2. Cardinality(HoldersIn(L)) # 0
    BY <1>1, <1>2, HoldersFinite, FS_EmptySet
  <2>3. QED
    BY <1>1, <1>2, <2>1, <2>2, HoldersFinite
<1>4. CASE L
  <2>1. queueFg > 0
    BY <1>1, <1>3, <1>4, CountersByLane
  <2>2. queueBg' = queueBg /\ queueFg' = queueFg - 1
    BY <1>4, <2>1 DEF MarkRunning, Clamp, QueueTypeOK
  <2>3. QED
    BY <1>1, <1>2, <1>3, <1>4, <2>2, CountersByLane
<1>5. CASE ~L
  <2>1. queueBg > 0
    BY <1>1, <1>3, <1>5, CountersByLane
  <2>2. queueFg' = queueFg /\ queueBg' = queueBg - 1
    BY <1>5, <2>1 DEF MarkRunning, Clamp, QueueTypeOK
  <2>3. QED
    BY <1>1, <1>2, <1>3, <1>5, <2>2, CountersByLane
<1>6. QED
  BY <1>4, <1>5

\* The counters stay right in every step.
LEMMA CountersStep ==
  OwnerInv /\ CountersMatchWorkers /\ [QueueNext]_queueVars => CountersMatchWorkers'
<1> SUFFICES ASSUME OwnerInv, CountersMatchWorkers, [QueueNext]_queueVars
             PROVE  CountersMatchWorkers'
  OBVIOUS
<1> USE DEF OwnerInv, admissionVars, heapVars, callerVars, counterVars, workerVars
<1>1. ASSUME NEW r \in Requests,
             \/ SubmitRefused(r) \/ SubmitFull(r) \/ SubmitAccepted(r)
             \/ CallerAnswered(r) \/ CallerCancelled(r) \/ CallerLeaves(r)
      PROVE  CountersMatchWorkers'
  BY <1>1, CountersQuiet
  DEF SubmitRefused, SubmitFull, SubmitAccepted, CallerAnswered, CallerCancelled, CallerLeaves
<1>2. ASSUME NEW d \in Drainers,
             DrainBegins(d) \/ DrainOfClosed(d) \/ DrainReturns(d) \/ DrainTimesOut(d)
      PROVE  CountersMatchWorkers'
  BY <1>2, CountersQuiet DEF DrainBegins, DrainOfClosed, DrainReturns, DrainTimesOut
<1>3. ASSUME NEW w \in Workers,
             GetStops(w) \/ GetWaits(w) \/ Acquired(w) \/ CancelledInGet(w)
      PROVE  CountersMatchWorkers'
  BY <1>3, CountersQuiet DEF GetStops, GetWaits, Acquired, CancelledInGet
<1>4. ASSUME NEW w \in Workers,
             Finishes(w) \/ CancelledAcquiring(w) \/ CancelledRunning(w)
      PROVE  CountersMatchWorkers'
  <2>1. /\ MarkRunning(job[w], -1) /\ job' = [job EXCEPT ![w] = NoRequest]
        /\ pc[w] \in {"acquiring", "running"}
    BY <1>4 DEF Finishes, CancelledAcquiring, CancelledRunning, PutDown
  <2>2. job[w] \in Requests
    BY <2>1 DEF JobsMatchPlaces, QueueTypeOK
  <2>3. QED
    BY <2>1, <2>2, PuttingDownCounts
<1>5. ASSUME NEW w \in Workers, NEW r \in Requests, NEW blocks \in BOOLEAN,
             GetTakes(w, r, blocks)
      PROVE  CountersMatchWorkers'
  <2>1. /\ MarkRunning(r, 1) /\ job' = [job EXCEPT ![w] = r]
        /\ pc[w] \in {"ready", "waiting"}
    BY <1>5 DEF GetTakes, InGet
  <2>2. job[w] = NoRequest
    BY <2>1 DEF JobsMatchPlaces
  <2>3. QED
    BY <2>1, <2>2, TakingCounts
<1>6. CASE Pause \/ Resume \/ Close \/ CancelWorkers \/ Tick \/ UNCHANGED queueVars
  BY <1>6, CountersQuiet DEF Pause, Resume, Close, CloseBody, CancelWorkers, Tick, queueVars
<1>7. QED
  BY <1>1, <1>2, <1>3, <1>4, <1>5, <1>6, QueueSteps

\* Nobody holds a request in the beginning.
LEMMA CountersInit == QueueInit => CountersMatchWorkers
<1> SUFFICES ASSUME QueueInit PROVE CountersMatchWorkers
  OBVIOUS
<1>1. HoldersIn(TRUE) = {} /\ HoldersIn(FALSE) = {}
  BY DEF QueueInit, HoldersIn
<1>2. QED
  BY <1>1, CountersByLane, FS_EmptySet DEF QueueInit

\* The running counters drain() trusts are exactly the requests the workers
\* hold, through every failure and cancellation.
THEOREM CountersExact == QueueSpec => []CountersMatchWorkers
  BY CountersInit, CountersStep, OwnerInvariant, PTL DEF QueueSpec

-----------------------------------------------------------------------------
(* Every caller is answered, and nothing stale is started                  *)

\* A request that is flagged, or whose caller is on its way out, has its
\* answer, and a caller that has left has flagged its request.
FlaggedIsDone ==
  \A r \in Requests :
    /\ r \in cancelled \/ caller[r] \in {"leaving", "left"} => future[r] # "pending"
    /\ caller[r] = "left" => r \in cancelled

AnswerInv == OwnerInv /\ FlaggedIsDone /\ NoForgottenCaller

\* What a purge of the heap drops has an answer, and nobody loses one.
LEMMA PurgeAnswers ==
  ASSUME QueueTypeOK, FlaggedIsDone, NEW r \in Requests
  PROVE  /\ ExpiryAnswers[r] = "pending" => future[r] = "pending"
         /\ ExpiryAnswers[r] = "pending" /\ r \in heap => r \in Live
  BY DEF ExpiryAnswers, FlaggedIsDone, Live

\* Where no future becomes pending and no caller leaves without its flag,
\* flagged requests stay done.
LEMMA FlaggedQuiet ==
  ASSUME FlaggedIsDone,
         \A r \in Requests : future'[r] = "pending" => future[r] = "pending",
         UNCHANGED <<cancelled, caller>>
  PROVE  FlaggedIsDone'
  BY DEF FlaggedIsDone

\* A flagged request stays done in every step.
LEMMA FlaggedStep ==
  OwnerInv /\ FlaggedIsDone /\ [QueueNext]_queueVars => FlaggedIsDone'
<1> SUFFICES ASSUME OwnerInv, FlaggedIsDone, [QueueNext]_queueVars
             PROVE  FlaggedIsDone'
  OBVIOUS
<1> USE DEF OwnerInv, admissionVars, heapVars, callerVars, counterVars, workerVars
<1>1. ASSUME NEW r \in Requests, SubmitRefused(r) \/ SubmitFull(r) \/ SubmitAccepted(r)
      PROVE  FlaggedIsDone'
  <2>1. /\ caller[r] = "new" /\ UNCHANGED cancelled
        /\ \E c \in {"refused", "waiting"} : caller' = [caller EXCEPT ![r] = c]
        /\ \A q \in Requests \ {r} : future'[q] = "pending" => future[q] = "pending"
        /\ caller'[r] = "refused" => (future'[r] = "pending" => future[r] = "pending")
    BY <1>1, PurgeAnswers DEF SubmitRefused, SubmitFull, SubmitAccepted, QueueTypeOK, ExpiryAnswers
  <2>2. r \notin cancelled
    BY <2>1 DEF UnsubmittedNowhere
  <2>3. QED
    BY <2>1, <2>2 DEF FlaggedIsDone, QueueTypeOK
<1>2. ASSUME NEW r \in Requests, CallerAnswered(r) \/ CallerCancelled(r) \/ CallerLeaves(r)
      PROVE  FlaggedIsDone'
  BY <1>2 DEF CallerAnswered, CallerCancelled, CallerLeaves, FlaggedIsDone, QueueTypeOK
<1>3. ASSUME NEW d \in Drainers,
             DrainBegins(d) \/ DrainOfClosed(d) \/ DrainReturns(d) \/ DrainTimesOut(d)
      PROVE  FlaggedIsDone'
  BY <1>3, FlaggedQuiet DEF DrainBegins, DrainOfClosed, DrainReturns, DrainTimesOut
<1>4. ASSUME NEW w \in Workers,
             \/ GetStops(w) \/ Acquired(w)
             \/ CancelledInGet(w) \/ CancelledAcquiring(w) \/ CancelledRunning(w)
      PROVE  FlaggedIsDone'
  BY <1>4, FlaggedQuiet
  DEF GetStops, Acquired, CancelledInGet, CancelledAcquiring, CancelledRunning
<1>5. ASSUME NEW w \in Workers,
             \/ GetWaits(w)
             \/ \E r \in Requests, blocks \in BOOLEAN : GetTakes(w, r, blocks)
      PROVE  FlaggedIsDone'
  <2>1. future' = ExpiryAnswers /\ UNCHANGED <<cancelled, caller>>
    BY <1>5 DEF GetWaits, GetTakes
  <2>2. QED
    BY <2>1, PurgeAnswers, FlaggedQuiet
<1>6. ASSUME NEW w \in Workers, Finishes(w)
      PROVE  FlaggedIsDone'
  BY <1>6, FlaggedQuiet DEF Finishes, QueueTypeOK
<1>7. CASE Pause \/ Resume \/ CancelWorkers \/ Tick \/ UNCHANGED queueVars
  BY <1>7, FlaggedQuiet DEF Pause, Resume, CancelWorkers, Tick, queueVars
<1>8. CASE Close
  BY <1>8 DEF Close, CloseBody, FlaggedIsDone, QueueTypeOK
<1>9. QED
  BY <1>1, <1>2, <1>3, <1>4, <1>5, <1>6, <1>7, <1>8, QueueSteps

\* Where nothing leaves the heap or a worker without an answer, and no future
\* becomes pending, no caller is forgotten; the dead stay dead.
LEMMA AnswersQuiet ==
  ASSUME NoForgottenCaller,
         \A w \in Workers : pc[w] = "dead" => pc'[w] = "dead",
         \A r \in Requests : future'[r] = "pending" =>
           /\ future[r] = "pending"
           /\ r \in heap => r \in heap' \/ \E w \in Workers : job'[w] = r
           /\ \A w \in Workers : job[w] = r => job'[w] = r \/ pc'[w] = "dead"
  PROVE  NoForgottenCaller'
  BY DEF NoForgottenCaller

\* No caller is forgotten in any step.
LEMMA AnswersStep ==
  OwnerInv /\ FlaggedIsDone /\ NoForgottenCaller /\ [QueueNext]_queueVars
    => NoForgottenCaller'
<1> SUFFICES ASSUME OwnerInv, FlaggedIsDone, NoForgottenCaller, [QueueNext]_queueVars
             PROVE  NoForgottenCaller'
  OBVIOUS
<1> USE DEF OwnerInv, admissionVars, heapVars, callerVars, counterVars, workerVars
<1>1. ASSUME NEW r \in Requests,
             \/ SubmitRefused(r) \/ SubmitFull(r)
             \/ CallerAnswered(r) \/ CallerCancelled(r) \/ CallerLeaves(r)
      PROVE  NoForgottenCaller'
  <2>1. UNCHANGED <<job, pc>>
    BY <1>1 DEF SubmitRefused, SubmitFull, CallerAnswered, CallerCancelled, CallerLeaves
  <2>2. \A q \in Requests : future'[q] = "pending" =>
          future[q] = "pending" /\ (q \in heap => q \in heap')
    BY <1>1, PurgeAnswers
    DEF SubmitRefused, SubmitFull, CallerAnswered, CallerCancelled, CallerLeaves,
        HeapBecomes, QueueTypeOK
  <2>3. QED
    BY <2>1, <2>2, AnswersQuiet
<1>2. ASSUME NEW r \in Requests, SubmitAccepted(r)
      PROVE  NoForgottenCaller'
  <2>1. /\ heap' = Live \cup {r} /\ UNCHANGED <<job, pc>>
        /\ future' = [ExpiryAnswers EXCEPT ![r] = "pending"]
    BY <1>2 DEF SubmitAccepted
  <2>2. \A q \in Requests \ {r} : future'[q] = ExpiryAnswers[q]
    BY <2>1 DEF ExpiryAnswers
  <2>3. ASSUME NEW q \in Requests, q # r, future'[q] = "pending"
        PROVE  q \in heap' \/ (\E w \in Workers : job'[w] = q)
                           \/ (\E w \in Workers : pc'[w] = "dead")
    BY <2>1, <2>2, <2>3, PurgeAnswers DEF NoForgottenCaller
  <2>4. QED
    BY <2>1, <2>3 DEF NoForgottenCaller
<1>3. ASSUME NEW d \in Drainers,
             DrainBegins(d) \/ DrainOfClosed(d) \/ DrainReturns(d) \/ DrainTimesOut(d)
      PROVE  NoForgottenCaller'
  BY <1>3, AnswersQuiet DEF DrainBegins, DrainOfClosed, DrainReturns, DrainTimesOut
<1>4. ASSUME NEW w \in Workers, GetStops(w) \/ GetWaits(w) \/ Acquired(w)
      PROVE  NoForgottenCaller'
  <2>1. /\ UNCHANGED job
        /\ \A v \in Workers : pc[v] = "dead" => pc'[v] = "dead"
    BY <1>4 DEF GetStops, GetWaits, Acquired, InGet, QueueTypeOK
  <2>2. \A q \in Requests : future'[q] = "pending" =>
          future[q] = "pending" /\ (q \in heap => q \in heap')
    BY <1>4, PurgeAnswers DEF GetStops, GetWaits, Acquired, HeapBecomes
  <2>3. QED
    BY <2>1, <2>2, AnswersQuiet
<1>5. ASSUME NEW w \in Workers, NEW r \in Requests, NEW blocks \in BOOLEAN,
             GetTakes(w, r, blocks)
      PROVE  NoForgottenCaller'
  <2>1. /\ heap' = Live \ {r} /\ future' = ExpiryAnswers
        /\ pc[w] \in {"ready", "waiting"}
        /\ job' = [job EXCEPT ![w] = r]
        /\ \A v \in Workers : pc[v] = "dead" => pc'[v] = "dead"
    BY <1>5 DEF GetTakes, HeapBecomes, InGet, QueueTypeOK
  <2>2. job[w] = NoRequest /\ job'[w] = r /\ \A v \in Workers : v # w => job'[v] = job[v]
    BY <2>1 DEF JobsMatchPlaces, QueueTypeOK
  <2>3. \A q \in Requests : future'[q] = "pending" =>
          future[q] = "pending" /\ (q \in heap => q \in heap' \/ q = r)
    BY <2>1, PurgeAnswers
  <2>4. QED
    BY <2>1, <2>2, <2>3, AnswersQuiet, QueueAssumption
<1>6. ASSUME NEW w \in Workers, Finishes(w)
      PROVE  NoForgottenCaller'
  <2>1. /\ UNCHANGED heap /\ job' = [job EXCEPT ![w] = NoRequest]
        /\ pc[w] = "running" /\ pc' = [pc EXCEPT ![w] = "ready"]
        /\ future' = [future EXCEPT ![job[w]] = IF @ = "pending" THEN "ran" ELSE @]
    BY <1>6 DEF Finishes, PutDown
  <2>2. \A q \in Requests : future'[q] = "pending" => future[q] = "pending" /\ q # job[w]
    BY <2>1 DEF QueueTypeOK
  <2>3. \A v \in Workers : v # w => job'[v] = job[v] /\ pc'[v] = pc[v]
    BY <2>1 DEF QueueTypeOK
  <2>4. QED
    BY <2>1, <2>2, <2>3, AnswersQuiet
<1>7. ASSUME NEW w \in Workers,
             CancelledInGet(w) \/ CancelledAcquiring(w) \/ CancelledRunning(w)
      PROVE  NoForgottenCaller'
  <2>1. pc'[w] = "dead"
    BY <1>7 DEF CancelledInGet, CancelledAcquiring, CancelledRunning, PutDown, QueueTypeOK
  <2>2. QED
    BY <2>1 DEF NoForgottenCaller
<1>8. CASE Pause \/ Resume \/ CancelWorkers \/ Tick \/ UNCHANGED queueVars
  BY <1>8, AnswersQuiet DEF Pause, Resume, CancelWorkers, Tick, queueVars
<1>9. CASE Close
  <2>1. /\ UNCHANGED <<job, pc>>
        /\ \A q \in Requests : future'[q] = "pending" => future[q] = "pending" /\ q \notin heap
    BY <1>9 DEF Close, CloseBody, QueueTypeOK
  <2>2. QED
    BY <2>1, AnswersQuiet
<1>10. QED
  BY <1>1, <1>2, <1>3, <1>4, <1>5, <1>6, <1>7, <1>8, <1>9, QueueSteps

\* Nothing is pending in the beginning.
LEMMA AnswerInit == QueueInit => AnswerInv
<1> SUFFICES ASSUME QueueInit PROVE AnswerInv
  OBVIOUS
<1>1. OwnerInv
  BY OwnerInit
<1>2. QED
  BY <1>1 DEF AnswerInv, QueueInit, FlaggedIsDone, NoForgottenCaller

\* The answers are an invariant.
LEMMA AnswerInvariant == QueueSpec => []AnswerInv
<1>1. AnswerInv /\ [QueueNext]_queueVars => AnswerInv'
  BY OwnerStep, FlaggedStep, AnswersStep DEF AnswerInv
<1>2. QED
  BY <1>1, AnswerInit, PTL DEF QueueSpec

\* As long as no worker task is cancelled, a caller that awaits an unset future
\* has its request in the heap or with a worker.
THEOREM NobodyIsForgotten == QueueSpec => []NoForgottenCaller
<1>1. AnswerInv => NoForgottenCaller
  BY DEF AnswerInv
<1>2. QED
  BY <1>1, AnswerInvariant, PTL

\* A worker comes to hold a request in get() only, which pops a live item that
\* precedes every other one.
LEMMA TakenByGet ==
  ASSUME QueueTypeOK, [QueueNext]_queueVars, NEW r \in Requests, Taken(r)
  PROVE  /\ r \in Live /\ heap' = Live \ {r}
         /\ \A q \in Live \ {r} : Precedes(r, q)
<1> USE DEF admissionVars, heapVars, callerVars, counterVars, workerVars
<1>1. PICK w \in Workers : job[w] # r /\ job'[w] = r
  BY DEF Taken
<1>2. r # NoRequest
  BY QueueAssumption
<1>3. PICK v \in Workers, q \in Requests, blocks \in BOOLEAN : GetTakes(v, q, blocks)
  <2>1. ASSUME NEW q \in Requests,
               \/ SubmitRefused(q) \/ SubmitFull(q) \/ SubmitAccepted(q)
               \/ CallerAnswered(q) \/ CallerCancelled(q) \/ CallerLeaves(q)
        PROVE  FALSE
    BY <1>1, <2>1
    DEF SubmitRefused, SubmitFull, SubmitAccepted, CallerAnswered, CallerCancelled, CallerLeaves
  <2>2. ASSUME NEW d \in Drainers,
               DrainBegins(d) \/ DrainOfClosed(d) \/ DrainReturns(d) \/ DrainTimesOut(d)
        PROVE  FALSE
    BY <1>1, <2>2 DEF DrainBegins, DrainOfClosed, DrainReturns, DrainTimesOut
  <2>3. ASSUME NEW v \in Workers,
               \/ GetStops(v) \/ GetWaits(v) \/ Acquired(v) \/ Finishes(v)
               \/ CancelledInGet(v) \/ CancelledAcquiring(v) \/ CancelledRunning(v)
        PROVE  FALSE
    BY <1>1, <1>2, <2>3
    DEF GetStops, GetWaits, Acquired, Finishes, PutDown, CancelledInGet,
        CancelledAcquiring, CancelledRunning, QueueTypeOK
  <2>4. CASE Pause \/ Resume \/ Close \/ CancelWorkers \/ Tick \/ UNCHANGED queueVars
    BY <1>1, <2>4 DEF Pause, Resume, Close, CloseBody, CancelWorkers, Tick, queueVars
  <2>5. QED
    BY <2>1, <2>2, <2>3, <2>4, QueueSteps
<1>4. q = r
  BY <1>1, <1>3 DEF GetTakes, QueueTypeOK
<1>5. QED
  BY <1>3, <1>4 DEF GetTakes, HeapBecomes

\* No worker takes a request that its caller left or whose deadline has passed,
\* whatever the callers and the clock do between the purge of one get() and the
\* pop of another.
THEOREM NothingStaleIsStarted == QueueSpec => NothingStaleStarts
<1>1. ASSUME AnswerInv, [QueueNext]_queueVars, NEW r \in Requests, Taken(r)
      PROVE  caller[r] # "left" /\ ~Expired(r)
  <2>1. r \in Live
    BY <1>1, TakenByGet DEF AnswerInv, OwnerInv
  <2>2. QED
    BY <1>1, <2>1 DEF Live, AnswerInv, FlaggedIsDone
<1>2. AnswerInv /\ [QueueNext]_queueVars
        => [\A r \in Requests : Taken(r) => caller[r] # "left" /\ ~Expired(r)]_queueVars
  BY <1>1
<1>3. QED
  BY <1>2, AnswerInvariant, PTL DEF QueueSpec, NothingStaleStarts

-----------------------------------------------------------------------------
(* The order of the heap                                                   *)

\* The quotient of the aging bonus and its remainder.
LEMMA DivRange ==
  ASSUME NEW a \in Nat, NEW n \in Nat \ {0}
  PROVE  a \div n \in Nat /\ n * (a \div n) <= a /\ a < n * (a \div n) + n
  BY SMT

\* Who has waited longer has a bonus at least as large.
LEMMA DivMono ==
  ASSUME NEW a \in Nat, NEW b \in Nat, NEW n \in Nat \ {0}, a <= b
  PROVE  a \div n <= b \div n
  BY DivRange, SMTT(30)

\* After k intervals the bonus is k.
LEMMA DivAtLeast ==
  ASSUME NEW a \in Nat, NEW k \in Nat, NEW n \in Nat \ {0}, k * n <= a
  PROVE  k <= a \div n
  BY DivRange, SMTT(30)

\* Items are numbered in the order they were pushed, and one that was pushed
\* earlier has waited at least as long, or to its deadline.
OrderInv ==
  /\ \A r \in heap : seqno[r] < nextSeq
  /\ \A r, q \in heap :
       /\ seqno[r] = seqno[q] => r = q
       /\ seqno[q] < seqno[r] => age[r] <= age[q] \/ Expired(q)

\* What is left of the heap keeps its order.
LEMMA OrderQuiet ==
  ASSUME QueueTypeOK, OrderInv, UNCHANGED nextSeq, heap' \subseteq heap,
         UNCHANGED <<seqno, age>> \/ \E H \in SUBSET heap : HeapBecomes(H)
  PROVE  OrderInv'
<1>1. \A r \in heap' : seqno'[r] = seqno[r] /\ age'[r] = age[r]
  BY DEF HeapBecomes, Keep, QueueTypeOK
<1>2. QED
  BY <1>1 DEF OrderInv, Expired, QueueTypeOK

\* The pushed item has the next number and no age.
LEMMA OrderAccepted ==
  ASSUME QueueTypeOK, OrderInv, UnsubmittedNowhere, NEW r \in Requests, SubmitAccepted(r)
  PROVE  OrderInv'
<1>1. Live \subseteq heap /\ r \notin heap /\ heap' = Live \cup {r} /\ nextSeq' = nextSeq + 1
  BY DEF Live, SubmitAccepted, UnsubmittedNowhere
<1>2. \A q \in Live : seqno'[q] = seqno[q] /\ age'[q] = age[q]
  BY <1>1 DEF SubmitAccepted, Keep, QueueTypeOK
<1>3. seqno'[r] = nextSeq /\ age'[r] = 0
  BY <1>1 DEF SubmitAccepted, Keep, QueueTypeOK
<1>4. nextSeq \in Nat /\ \A q \in heap : seqno[q] \in Nat /\ age[q] \in Nat
  BY DEF QueueTypeOK
<1>5. QED
  BY <1>1, <1>2, <1>3, <1>4 DEF OrderInv, Expired

\* A tick ages all live items alike.
LEMMA OrderTick ==
  ASSUME QueueTypeOK, OrderInv, Tick
  PROVE  OrderInv'
<1>1. UNCHANGED <<heap, seqno, nextSeq>>
  BY DEF Tick
<1>2. \A q \in heap : age'[q] = (IF Expired(q) THEN age[q] ELSE age[q] + 1)
  BY DEF Tick, QueueTypeOK
<1>3. \A q \in heap : age[q] \in Nat /\ Timeout[q] \in Nat
  BY QueueAssumption DEF QueueTypeOK
<1>4. QED
  BY <1>1, <1>2, <1>3 DEF OrderInv, Expired

\* The order is kept by every step.
LEMMA OrderStep ==
  OwnerInv /\ OrderInv /\ [QueueNext]_queueVars => OrderInv'
<1> SUFFICES ASSUME OwnerInv, OrderInv, [QueueNext]_queueVars PROVE OrderInv'
  OBVIOUS
<1> USE DEF OwnerInv, admissionVars, heapVars, callerVars, counterVars, workerVars
<1>0. Live \in SUBSET heap /\ {} \in SUBSET heap /\ \A r : Live \ {r} \in SUBSET heap
  BY DEF Live
<1>1. ASSUME NEW r \in Requests,
             \/ SubmitRefused(r) \/ CallerAnswered(r)
             \/ CallerCancelled(r) \/ CallerLeaves(r)
      PROVE  OrderInv'
  BY <1>1, OrderQuiet DEF SubmitRefused, CallerAnswered, CallerCancelled, CallerLeaves
<1>2. ASSUME NEW r \in Requests, SubmitFull(r)
      PROVE  OrderInv'
  BY <1>0, <1>2, OrderQuiet DEF SubmitFull, HeapBecomes
<1>3. ASSUME NEW r \in Requests, SubmitAccepted(r)
      PROVE  OrderInv'
  BY <1>3, OrderAccepted
<1>4. ASSUME NEW d \in Drainers,
             DrainBegins(d) \/ DrainOfClosed(d) \/ DrainReturns(d) \/ DrainTimesOut(d)
      PROVE  OrderInv'
  BY <1>4, OrderQuiet DEF DrainBegins, DrainOfClosed, DrainReturns, DrainTimesOut
<1>5. ASSUME NEW w \in Workers,
             \/ GetStops(w) \/ Acquired(w) \/ Finishes(w)
             \/ CancelledInGet(w) \/ CancelledAcquiring(w) \/ CancelledRunning(w)
      PROVE  OrderInv'
  BY <1>5, OrderQuiet
  DEF GetStops, Acquired, Finishes, CancelledInGet, CancelledAcquiring, CancelledRunning
<1>6. ASSUME NEW w \in Workers,
             \/ GetWaits(w)
             \/ \E r \in Requests, blocks \in BOOLEAN : GetTakes(w, r, blocks)
      PROVE  OrderInv'
  BY <1>0, <1>6, OrderQuiet DEF GetWaits, GetTakes, HeapBecomes
<1>7. CASE Pause \/ Resume \/ CancelWorkers \/ UNCHANGED queueVars
  BY <1>7, OrderQuiet DEF Pause, Resume, CancelWorkers, queueVars
<1>8. CASE Close
  BY <1>0, <1>8, OrderQuiet DEF Close, CloseBody, HeapBecomes
<1>9. CASE Tick
  BY <1>9, OrderTick
<1>10. QED
  BY <1>1, <1>2, <1>3, <1>4, <1>5, <1>6, <1>7, <1>8, <1>9, QueueSteps

\* The order is an invariant: the heap begins empty.
LEMMA OrderInvariant == QueueSpec => []OrderInv
<1>1. QueueInit => OrderInv
  BY DEF QueueInit, OrderInv
<1>2. QED
  BY <1>1, OrderStep, OwnerInvariant, PTL DEF QueueSpec

\* A base rank is one of four.
LEMMA BaseRankType == \A r \in Requests : BaseRank(r) \in 0..3
  BY QueueAssumption DEF BaseRank, Priorities

\* The rank is the base rank less the bonus, and not below zero.
LEMMA RankType ==
  ASSUME QueueTypeOK, NEW r \in Requests
  PROVE  /\ Rank(r) \in Nat
         /\ (age[r] \div AgingInterval) \in Nat
<1>1. (age[r] \div AgingInterval) \in Nat
  BY QueueAssumption, DivRange DEF QueueTypeOK
<1>2. QED
  BY <1>1, BaseRankType, ClampNat DEF Rank

\* Requests of one priority are taken in the order they were submitted: among
\* live items the earlier one has waited longer, so its rank is no higher.
THEOREM TakenInOrder == QueueSpec => FifoWithinPriority
<1>1. ASSUME QueueTypeOK, OrderInv, [QueueNext]_queueVars,
             NEW r \in heap, NEW q \in heap,
             Taken(r), Priority[r] = Priority[q], q \in heap'
      PROVE  seqno[r] < seqno[q]
  <2>0. r \in Requests /\ q \in Requests
    BY <1>1 DEF QueueTypeOK
  <2>1. q \in Live /\ q # r /\ Precedes(r, q)
    BY <1>1, <2>0, TakenByGet
  <2>2. ~Expired(q) /\ seqno[r] \in Nat /\ seqno[q] \in Nat /\ age[r] \in Nat /\ age[q] \in Nat
    BY <1>1, <2>0, <2>1 DEF Live, QueueTypeOK
  <2>3. SUFFICES ASSUME seqno[q] < seqno[r] PROVE FALSE
    BY <1>1, <2>1, <2>2 DEF OrderInv
  <2>4. age[r] <= age[q]
    BY <1>1, <2>2, <2>3 DEF OrderInv
  <2>5. (age[r] \div AgingInterval) <= (age[q] \div AgingInterval)
    BY <2>2, <2>4, DivMono, QueueAssumption
  <2>6. BaseRank(q) = BaseRank(r)
    BY <1>1 DEF BaseRank
  <2>7. Rank(q) <= Rank(r)
    BY <1>1, <2>0, <2>5, <2>6, BaseRankType, RankType DEF Rank, Clamp
  <2>8. QED
    BY <1>1, <2>0, <2>1, <2>2, <2>3, <2>7, RankType DEF Precedes
<1>2. QueueTypeOK /\ OrderInv /\ [QueueNext]_queueVars
        => [\A r, q \in heap : Taken(r) /\ Priority[r] = Priority[q] /\ q \in heap'
              => seqno[r] < seqno[q]]_queueVars
  BY <1>1
<1>3. QED
  BY <1>2, OrderInvariant, QueueTypeCorrect, PTL DEF QueueSpec, FifoWithinPriority

\* Once an item has waited out its base rank, nothing submitted after it is
\* taken before it, whatever its priority: no rank is below zero.
THEOREM AgedGoFirst == QueueSpec => AgedNotOvertaken
<1>1. ASSUME QueueTypeOK, [QueueNext]_queueVars, NEW r \in heap, NEW q \in heap,
             Taken(r), q \in heap', age[q] >= BaseRank(q) * AgingInterval
      PROVE  seqno[r] < seqno[q]
  <2>0. r \in Requests /\ q \in Requests
    BY <1>1 DEF QueueTypeOK
  <2>1. Precedes(r, q)
    BY <1>1, <2>0, TakenByGet
  <2>2. /\ age[q] \in Nat /\ BaseRank(q) \in Nat /\ AgingInterval \in Nat \ {0}
        /\ BaseRank(q) * AgingInterval <= age[q]
    BY <1>1, <2>0, BaseRankType, QueueAssumption DEF QueueTypeOK
  <2>3. BaseRank(q) <= (age[q] \div AgingInterval)
    BY <2>2, DivAtLeast
  <2>4. Rank(q) = 0
    BY <1>1, <2>0, <2>2, <2>3, RankType DEF Rank, Clamp
  <2>5. QED
    BY <1>1, <2>0, <2>1, <2>4, RankType DEF Precedes
<1>2. QueueTypeOK /\ [QueueNext]_queueVars
        => [\A r, q \in heap :
              /\ Taken(r)
              /\ q \in heap'
              /\ age[q] >= BaseRank(q) * AgingInterval
              => seqno[r] < seqno[q]]_queueVars
  BY <1>1
<1>3. QED
  BY <1>2, QueueTypeCorrect, PTL DEF QueueSpec, AgedNotOvertaken

-----------------------------------------------------------------------------
(* The queue implements the contract                                       *)

\* An item of the heap has an unset future or one its caller cancelled.
HeapUnsettled == \A r \in heap : future[r] \in {"pending", "cancelled"}

ContractInv == OwnerInv /\ FlaggedIsDone /\ HeapUnsettled

HeldBySome(r) == \E w \in Workers : job[w] = r

\* The phase of a request, by where it is.
LEMMA PhaseOf ==
  ASSUME OwnerInv, NEW r \in Requests
  PROVE  /\ Phase(r) = "new" <=> caller[r] = "new"
         /\ Phase(r) = "refused" <=> caller[r] = "refused"
         /\ Phase(r) = "queued" <=> r \in heap
         /\ Phase(r) = "held" <=> HeldBySome(r)
         /\ Phase(r) = "over" <=>
              caller[r] \notin {"new", "refused"} /\ r \notin heap /\ ~HeldBySome(r)
         /\ Phase(r) \in {"new", "refused", "queued", "held", "over"}
         /\ r \in heap => ~HeldBySome(r)
         /\ caller[r] \in {"new", "refused"} => r \notin heap /\ ~HeldBySome(r)
<1>1. caller[r] \in {"new", "refused"} => r \notin heap /\ ~HeldBySome(r)
  BY DEF OwnerInv, UnsubmittedNowhere, HeldBySome
<1>2. r \in heap => ~HeldBySome(r)
  BY QueueAssumption DEF OwnerInv, SingleOwner, Holders, HeldBySome
<1>3. QED
  BY <1>1, <1>2 DEF Phase, HeldBySome

\* The same after a step.
LEMMA PhaseAfter ==
  ASSUME OwnerInv', NEW r \in Requests
  PROVE  /\ Phase(r)' = "new" <=> caller'[r] = "new"
         /\ Phase(r)' = "refused" <=> caller'[r] = "refused"
         /\ Phase(r)' = "queued" <=> r \in heap'
         /\ Phase(r)' = "held" <=> HeldBySome(r)'
         /\ Phase(r)' = "over" <=>
              caller'[r] \notin {"new", "refused"} /\ r \notin heap' /\ ~HeldBySome(r)'
         /\ Phase(r)' \in {"new", "refused", "queued", "held", "over"}
<1>1. caller'[r] \in {"new", "refused"} => r \notin heap' /\ ~HeldBySome(r)'
  BY DEF OwnerInv, UnsubmittedNowhere, HeldBySome
<1>2. r \in heap' => ~HeldBySome(r)'
  BY QueueAssumption DEF OwnerInv, SingleOwner, Holders, HeldBySome
<1>3. QED
  BY <1>1, <1>2 DEF Phase, HeldBySome

\* What a step may do to a request, in terms of the queue.
Stays(r) ==
  /\ caller'[r] = caller[r] \/ {caller[r], caller'[r]} \cap {"new", "refused"} = {}
  /\ r \in heap' <=> r \in heap
  /\ HeldBySome(r)' <=> HeldBySome(r)

Dropped(r) ==
  /\ r \in heap /\ r \notin heap' /\ ~HeldBySome(r)' /\ caller'[r] = caller[r]
  /\ IF future[r] = "pending" THEN future'[r] \in {"timeout", "cancelled"}
                              ELSE future'[r] = future[r]

\* Whatever happens to each request is a move of the contract.
LocalMove(r) ==
  \/ Stays(r) /\ future'[r] = future[r]
  \/ Stays(r) /\ future[r] = "pending" /\ future'[r] = "cancelled"
  \/ caller[r] = "new" /\ r \in heap' /\ future'[r] = "pending"
  \/ caller[r] = "new" /\ caller'[r] = "refused" /\ future'[r] = future[r]
  \/ r \in heap /\ HeldBySome(r)' /\ future'[r] = future[r]
  \/ Dropped(r)
  \/ /\ HeldBySome(r) /\ ~HeldBySome(r)' /\ r \notin heap' /\ caller'[r] = caller[r]
     /\ IF future[r] = "pending" THEN future'[r] \in {"ran", "pending"}
                                 ELSE future'[r] = future[r]

\* The contract counts as the queue does: both take it from FiniteSets.
LEMMA ContractCardinality ==
  ASSUME NEW S
  PROVE  Contract!Cardinality(S) = Cardinality(S)
  BY DEF Contract!Cardinality, Cardinality

\* The whole step: at most one request goes to a worker.
StepMoves ==
  /\ \A r \in Requests : LocalMove(r)
  /\ \A r, q \in heap : HeldBySome(r)' /\ HeldBySome(q)' => r = q

\* A step that moves every request so is a step of the contract.
LEMMA ContractMoves ==
  ASSUME ContractInv, OwnerInv', StepMoves
  PROVE  Contract!ContractNext
<1> USE DEF ContractInv, StepMoves
<1>1. ASSUME NEW r \in Requests
      PROVE  \/ Contract!Rests(r) \/ Contract!Admit(r) \/ Contract!Refuse(r)
             \/ Contract!Execute(r) \/ Contract!Drop(r) \/ Contract!Conclude(r)
             \/ Contract!Withdraw(r)
  <2>1. CASE Stays(r) /\ future'[r] = future[r]
    <3>1. Phase(r)' = Phase(r)
      BY <2>1, PhaseOf, PhaseAfter DEF Stays
    <3>2. QED
      BY <2>1, <3>1 DEF Contract!Rests
  <2>2. CASE Stays(r) /\ future[r] = "pending" /\ future'[r] = "cancelled"
    <3>1. Phase(r)' = Phase(r)
      BY <2>2, PhaseOf, PhaseAfter DEF Stays
    <3>2. QED
      BY <2>2, <3>1 DEF Contract!Withdraw
  <2>3. CASE caller[r] = "new" /\ r \in heap' /\ future'[r] = "pending"
    <3>1. Phase(r) = "new" /\ Phase(r)' = "queued"
      BY <2>3, PhaseOf, PhaseAfter
    <3>2. QED
      BY <2>3, <3>1 DEF Contract!Admit, Contract!Moves
  <2>4. CASE caller[r] = "new" /\ caller'[r] = "refused" /\ future'[r] = future[r]
    <3>1. Phase(r) = "new" /\ Phase(r)' = "refused"
      BY <2>4, PhaseOf, PhaseAfter
    <3>2. QED
      BY <2>4, <3>1 DEF Contract!Refuse, Contract!Moves
  <2>5. CASE r \in heap /\ HeldBySome(r)' /\ future'[r] = future[r]
    <3>1. Phase(r) = "queued" /\ Phase(r)' = "held"
      BY <2>5, PhaseOf, PhaseAfter
    <3>2. QED
      BY <2>5, <3>1 DEF Contract!Execute, Contract!Moves, HeapUnsettled
  <2>6. CASE Dropped(r)
    <3>1. Phase(r) = "queued" /\ Phase(r)' = "over"
      BY <2>6, PhaseOf, PhaseAfter DEF Dropped
    <3>2. QED
      BY <2>6, <3>1 DEF Contract!Drop, Contract!Moves, Contract!Answered, Dropped
  <2>7. CASE /\ HeldBySome(r) /\ ~HeldBySome(r)' /\ r \notin heap' /\ caller'[r] = caller[r]
             /\ IF future[r] = "pending" THEN future'[r] \in {"ran", "pending"}
                                         ELSE future'[r] = future[r]
    <3>1. Phase(r) = "held" /\ Phase(r)' = "over"
      BY <2>7, PhaseOf, PhaseAfter
    <3>2. QED
      BY <2>7, <3>1 DEF Contract!Conclude, Contract!Moves, Contract!Answered
  <2>8. QED
    BY <2>1, <2>2, <2>3, <2>4, <2>5, <2>6, <2>7 DEF LocalMove
<1>2. Cardinality({r \in Requests : Contract!Execute(r)}) <= 1
  <2>1. \A r \in Requests : Contract!Execute(r) => r \in heap /\ HeldBySome(r)'
    BY PhaseOf, PhaseAfter DEF Contract!Execute, Contract!Moves
  <2>2. CASE {r \in Requests : Contract!Execute(r)} = {}
    BY <2>2, FS_EmptySet
  <2>3. CASE \E r \in Requests : Contract!Execute(r)
    <3>1. PICK r \in Requests : Contract!Execute(r)
      BY <2>3
    <3>2. {q \in Requests : Contract!Execute(q)} = {r}
      BY <2>1, <3>1
    <3>3. QED
      BY <3>2, FS_Singleton
  <2>4. QED
    BY <2>2, <2>3
<1>3. Cardinality({r \in Requests : Phase(r)' = "queued"}) <= MaxSize
  <2>1. {r \in Requests : Phase(r)' = "queued"} = heap'
    BY PhaseAfter DEF OwnerInv, QueueTypeOK
  <2>2. QED
    BY <2>1 DEF OwnerInv, SingleOwner
<1>4. Cardinality({r \in Requests : [q \in Requests |-> Phase(q)]'[r] = "queued"}) <= MaxSize
  <2>1. {r \in Requests : [q \in Requests |-> Phase(q)]'[r] = "queued"}
          = {r \in Requests : Phase(r)' = "queued"}
    OBVIOUS
  <2>2. QED
    BY <1>3, <2>1
<1>5. \A r \in Requests :
        \/ Contract!Rests(r) \/ Contract!Admit(r) \/ Contract!Refuse(r)
        \/ Contract!Execute(r) \/ Contract!Drop(r) \/ Contract!Conclude(r)
        \/ Contract!Withdraw(r)
  BY <1>1
<1>6. QED
  BY <1>2, <1>4, <1>5, ContractCardinality, Zenon DEF Contract!ContractNext

\* Such a step leaves no settled item in the heap.
LEMMA UnsettledStep ==
  ASSUME ContractInv, OwnerInv', StepMoves
  PROVE  HeapUnsettled'
<1> SUFFICES ASSUME NEW r \in heap' PROVE future'[r] \in {"pending", "cancelled"}
  BY DEF HeapUnsettled
<1>1. r \in Requests
  BY DEF OwnerInv, QueueTypeOK
<1>2. caller'[r] # "refused" /\ ~HeldBySome(r)'
  BY <1>1, QueueAssumption
  DEF OwnerInv, UnsubmittedNowhere, SingleOwner, Holders, HeldBySome
<1>3. LocalMove(r)
  BY <1>1 DEF StepMoves
<1>4. QED
  BY <1>1, <1>2, <1>3 DEF LocalMove, Stays, Dropped, ContractInv, HeapUnsettled

\* Where no worker takes a request, no item of the heap is held afterwards.
LEMMA NobodyTaken ==
  ASSUME OwnerInv, \A w \in Workers : job'[w] = job[w] \/ job'[w] = NoRequest
  PROVE  \A r \in heap : ~HeldBySome(r)'
<1> SUFFICES ASSUME NEW r \in heap, NEW w \in Workers, job'[w] = r PROVE FALSE
  BY DEF HeldBySome
<1>1. r # NoRequest
  BY QueueAssumption DEF OwnerInv, QueueTypeOK
<1>2. QED
  BY <1>1 DEF OwnerInv, SingleOwner, Holders

\* A purge of the heap keeps a live item, and drops another with its answer.
LEMMA PurgeMoves ==
  ASSUME ContractInv, NEW q \in Requests,
         q \in heap' <=> q \in Live,
         HeldBySome(q)' <=> HeldBySome(q),
         caller'[q] = caller[q], future'[q] = ExpiryAnswers[q]
  PROVE  LocalMove(q)
<1> USE DEF ContractInv
<1>1. q \in heap => ~HeldBySome(q) /\ caller[q] \notin {"new", "refused"}
  BY PhaseOf
<1>2. CASE q \in Live \/ q \notin heap
  <2>1. ExpiryAnswers[q] = future[q] /\ (q \in heap' <=> q \in heap)
    BY <1>2 DEF ExpiryAnswers, Live
  <2>2. QED
    BY <2>1 DEF LocalMove, Stays
<1>3. CASE q \in heap \ Live
  <2>1. IF future[q] = "pending" THEN ExpiryAnswers[q] = "timeout"
                                 ELSE ExpiryAnswers[q] = future[q]
    BY <1>3 DEF ExpiryAnswers, Live, FlaggedIsDone
  <2>2. QED
    BY <1>1, <1>3, <2>1 DEF LocalMove, Dropped
<1>4. QED
  BY <1>2, <1>3

\* A refusal moves one request.
LEMMA RefusalMoves ==
  ASSUME ContractInv, NEW r \in Requests, caller[r] = "new",
         caller' = [caller EXCEPT ![r] = "refused"], UNCHANGED <<heap, future, job>>
  PROVE  StepMoves
<1> USE DEF ContractInv
<1>1. \A q \in Requests : HeldBySome(q)' <=> HeldBySome(q)
  BY DEF HeldBySome
<1>2. LocalMove(r)
  BY DEF LocalMove, OwnerInv, QueueTypeOK
<1>3. \A q \in Requests \ {r} : LocalMove(q)
  BY <1>1 DEF LocalMove, Stays, OwnerInv, QueueTypeOK
<1>4. QED
  BY <1>2, <1>3, NobodyTaken DEF StepMoves

\* The submit() that purges the heap and is refused, or admitted.
LEMMA SubmitMoves ==
  ASSUME ContractInv, NEW r \in Requests, SubmitFull(r) \/ SubmitAccepted(r)
  PROVE  StepMoves
<1> USE DEF ContractInv, callerVars, workerVars
<1>1. /\ caller[r] = "new" /\ UNCHANGED job
      /\ \E c \in {"refused", "waiting"} : caller' = [caller EXCEPT ![r] = c]
      /\ Live \subseteq heap
  BY DEF SubmitFull, SubmitAccepted, Live
<1>2. r \notin heap
  BY <1>1 DEF OwnerInv, UnsubmittedNowhere
<1>3. \A q \in Requests : HeldBySome(q)' <=> HeldBySome(q)
  BY <1>1 DEF HeldBySome
<1>4. ASSUME NEW q \in Requests, q # r PROVE LocalMove(q)
  <2>1. caller'[q] = caller[q]
    BY <1>1, <1>4 DEF OwnerInv, QueueTypeOK
  <2>2. (q \in heap' <=> q \in Live) /\ future'[q] = ExpiryAnswers[q]
    BY <1>4 DEF SubmitFull, SubmitAccepted, HeapBecomes, ExpiryAnswers
  <2>3. QED
    BY <1>3, <2>1, <2>2, PurgeMoves
<1>5. LocalMove(r)
  <2>1. CASE SubmitFull(r)
    <3>1. future'[r] = future[r] /\ caller'[r] = "refused"
      BY <1>2, <2>1 DEF SubmitFull, ExpiryAnswers, OwnerInv, QueueTypeOK
    <3>2. QED
      BY <1>1, <3>1 DEF LocalMove
  <2>2. CASE SubmitAccepted(r)
    <3>1. r \in heap' /\ future'[r] = "pending"
      BY <2>2 DEF SubmitAccepted, ExpiryAnswers
    <3>2. QED
      BY <1>1, <3>1 DEF LocalMove
  <2>3. QED
    BY <2>1, <2>2
<1>6. QED
  BY <1>1, <1>4, <1>5, NobodyTaken DEF StepMoves

\* Where the heap, the workers' jobs and the admissions stay, a future may
\* only be cancelled.
LEMMA QuietMoves ==
  ASSUME ContractInv, UNCHANGED <<heap, job>>,
         \A q \in Requests :
           \/ caller'[q] = caller[q]
           \/ caller[q] \notin {"new", "refused"} /\ caller'[q] \notin {"new", "refused"},
         \A q \in Requests :
           \/ future'[q] = future[q]
           \/ future[q] = "pending" /\ future'[q] = "cancelled"
  PROVE  StepMoves
<1> USE DEF ContractInv
<1>1. \A q \in Requests : Stays(q)
  BY DEF Stays, HeldBySome
<1>2. QED
  BY <1>1, NobodyTaken DEF StepMoves, LocalMove

\* close() drops all that is queued with its future cancelled.
LEMMA CloseMoves ==
  ASSUME ContractInv, CloseBody
  PROVE  StepMoves
<1> USE DEF ContractInv
<1>1. heap' = {} /\ UNCHANGED <<job, caller>>
  BY DEF CloseBody, HeapBecomes
<1>2. \A q \in Requests : HeldBySome(q)' <=> HeldBySome(q)
  BY <1>1 DEF HeldBySome
<1>3. \A q \in Requests :
        future'[q] = IF q \in heap /\ future[q] = "pending" THEN "cancelled" ELSE future[q]
  BY DEF CloseBody
<1>4. \A q \in heap : ~HeldBySome(q)'
  BY <1>1, NobodyTaken
<1>5. \A q \in Requests : LocalMove(q)
  BY <1>1, <1>2, <1>3, <1>4 DEF LocalMove, Stays, Dropped
<1>6. QED
  BY <1>4, <1>5 DEF StepMoves

\* A get() that waits purges the heap; one that takes an item moves it on.
LEMMA GetMoves ==
  ASSUME ContractInv, NEW w \in Workers,
         GetWaits(w) \/ \E r \in Requests, blocks \in BOOLEAN : GetTakes(w, r, blocks)
  PROVE  StepMoves
<1> USE DEF ContractInv, admissionVars, counterVars
<1>1. future' = ExpiryAnswers /\ UNCHANGED caller
  BY DEF GetWaits, GetTakes
<1>2. CASE GetWaits(w)
  <2>1. heap' = Live /\ UNCHANGED job
    BY <1>2 DEF GetWaits, HeapBecomes
  <2>2. \A q \in Requests : HeldBySome(q)' <=> HeldBySome(q)
    BY <2>1 DEF HeldBySome
  <2>3. \A q \in Requests : LocalMove(q)
    BY <1>1, <2>1, <2>2, PurgeMoves
  <2>4. QED
    BY <2>1, <2>3, NobodyTaken DEF StepMoves
<1>3. ASSUME NEW r \in Requests, NEW blocks \in BOOLEAN, GetTakes(w, r, blocks)
      PROVE  StepMoves
  <2>1. /\ r \in Live /\ heap' = Live \ {r} /\ pc[w] \in {"ready", "waiting"}
        /\ job' = [job EXCEPT ![w] = r]
    BY <1>3 DEF GetTakes, HeapBecomes, InGet
  <2>2. job[w] = NoRequest /\ job'[w] = r /\ \A v \in Workers : v # w => job'[v] = job[v]
    BY <2>1 DEF OwnerInv, JobsMatchPlaces, QueueTypeOK
  <2>3. HeldBySome(r)' /\ \A q \in Requests \ {r} : HeldBySome(q)' <=> HeldBySome(q)
    BY <2>2, QueueAssumption DEF HeldBySome
  <2>4. \A q \in Requests \ {r} : LocalMove(q)
    BY <1>1, <2>1, <2>3, PurgeMoves
  <2>5. LocalMove(r)
    BY <1>1, <2>1, <2>3 DEF LocalMove, ExpiryAnswers, Live
  <2>6. \A q \in heap : HeldBySome(q)' => q = r
    <3>1. heap \subseteq Requests
      BY DEF OwnerInv, QueueTypeOK
    <3>2. \A q \in heap : ~HeldBySome(q)
      BY <3>1, PhaseOf
    <3>3. QED
      BY <2>3, <3>1, <3>2
  <2>7. QED
    BY <2>4, <2>5, <2>6 DEF StepMoves
<1>4. QED
  BY <1>2, <1>3

\* A worker that puts its request down concludes it, and settles the future
\* unless it is cut short.
LEMMA PutDownMoves ==
  ASSUME ContractInv, NEW w \in Workers,
         Finishes(w) \/ CancelledAcquiring(w) \/ CancelledRunning(w)
  PROVE  StepMoves
<1> USE DEF ContractInv, admissionVars, heapVars, callerVars
<1>1. /\ UNCHANGED <<heap, caller>> /\ pc[w] \in {"acquiring", "running"}
      /\ job' = [job EXCEPT ![w] = NoRequest]
  BY DEF Finishes, CancelledAcquiring, CancelledRunning, PutDown
<1>2. PICK r \in Requests : job[w] = r /\ r # NoRequest
  BY <1>1 DEF OwnerInv, JobsMatchPlaces, QueueTypeOK
<1>3. job'[w] = NoRequest /\ \A v \in Workers : v # w => job'[v] = job[v]
  BY <1>1 DEF OwnerInv, QueueTypeOK
<1>4. HeldBySome(r) /\ r \notin heap
  BY <1>2 DEF HeldBySome, OwnerInv, SingleOwner, Holders
<1>5. \A v \in Workers : v # w => job[v] # r
  BY <1>2 DEF OwnerInv, SingleOwner, Holders
<1>6. ~HeldBySome(r)'
  BY <1>2, <1>3, <1>5 DEF HeldBySome
<1>7. \A q \in Requests : q # r => (HeldBySome(q)' <=> HeldBySome(q))
  BY <1>2, <1>3, QueueAssumption DEF HeldBySome
<1>8. /\ \A q \in Requests : q # r => future'[q] = future[q]
      /\ IF future[r] = "pending" THEN future'[r] \in {"ran", "pending"}
                                  ELSE future'[r] = future[r]
  BY <1>2 DEF Finishes, CancelledAcquiring, CancelledRunning, OwnerInv, QueueTypeOK
<1>9. LocalMove(r)
  BY <1>1, <1>2, <1>4, <1>6, <1>8 DEF LocalMove
<1>10. \A q \in Requests : q # r => LocalMove(q)
  BY <1>1, <1>7, <1>8 DEF LocalMove, Stays
<1>11. QED
  BY <1>3, <1>9, <1>10, NobodyTaken DEF StepMoves

\* Every step of the queue moves the requests as the contract allows.
LEMMA QueueMoves ==
  ASSUME ContractInv, [QueueNext]_queueVars
  PROVE  StepMoves
<1> USE DEF ContractInv, OwnerInv, admissionVars, heapVars, callerVars, counterVars, workerVars
<1>1. ASSUME NEW r \in Requests, SubmitRefused(r)
      PROVE  StepMoves
  BY <1>1, RefusalMoves DEF SubmitRefused
<1>2. ASSUME NEW r \in Requests, CallerAnswered(r) \/ CallerCancelled(r) \/ CallerLeaves(r)
      PROVE  StepMoves
  <2>1. UNCHANGED <<heap, job>>
    BY <1>2 DEF CallerAnswered, CallerCancelled, CallerLeaves
  <2>2. \A q \in Requests :
          \/ caller'[q] = caller[q]
          \/ caller[q] \notin {"new", "refused"} /\ caller'[q] \notin {"new", "refused"}
    BY <1>2 DEF CallerAnswered, CallerCancelled, CallerLeaves, QueueTypeOK
  <2>3. \A q \in Requests :
          \/ future'[q] = future[q]
          \/ future[q] = "pending" /\ future'[q] = "cancelled"
    BY <1>2 DEF CallerAnswered, CallerCancelled, CallerLeaves, QueueTypeOK
  <2>4. QED
    BY <2>1, <2>2, <2>3, QuietMoves
<1>3. ASSUME NEW d \in Drainers,
             DrainBegins(d) \/ DrainOfClosed(d) \/ DrainReturns(d) \/ DrainTimesOut(d)
      PROVE  StepMoves
  BY <1>3, QuietMoves DEF DrainBegins, DrainOfClosed, DrainReturns, DrainTimesOut
<1>4. ASSUME NEW w \in Workers, GetStops(w) \/ Acquired(w) \/ CancelledInGet(w)
      PROVE  StepMoves
  BY <1>4, QuietMoves DEF GetStops, Acquired, CancelledInGet
<1>5. CASE Pause \/ Resume \/ CancelWorkers \/ Tick \/ UNCHANGED queueVars
  BY <1>5, QuietMoves DEF Pause, Resume, CancelWorkers, Tick, queueVars
<1>6. CASE Close
  BY <1>6, CloseMoves DEF Close
<1>7. QED
  BY <1>1, <1>2, <1>3, <1>4, <1>5, <1>6, SubmitMoves, GetMoves, PutDownMoves, QueueSteps

\* The initial state is one of the contract.
LEMMA ContractBegins == QueueInit => Contract!ContractInit /\ ContractInv
<1> SUFFICES ASSUME QueueInit PROVE Contract!ContractInit /\ ContractInv
  OBVIOUS
<1>1. OwnerInv
  BY OwnerInit
<1>2. \A r \in Requests : Phase(r) = "new"
  BY <1>1, PhaseOf DEF QueueInit
<1>3. Contract!ContractInit
  BY <1>2 DEF Contract!ContractInit, QueueInit
<1>4. QED
  BY <1>1, <1>3 DEF ContractInv, QueueInit, FlaggedIsDone, HeapUnsettled

\* A behaviour that begins so and moves the requests so obeys the contract.
LEMMA ContractStep ==
  ContractInv /\ OwnerInv' /\ FlaggedIsDone' /\ StepMoves
    => ContractInv' /\ Contract!ContractNext
  BY ContractMoves, UnsettledStep DEF ContractInv

\* The queue implements the contract of a request's life, for any number of
\* requests, workers and drain() calls.
THEOREM QueueImplementsContract == QueueSpec => ImplementsContract
<1>1. ContractInv /\ [QueueNext]_queueVars
        => ContractInv' /\ Contract!ContractNext
  <2> SUFFICES ASSUME ContractInv, [QueueNext]_queueVars
               PROVE  ContractInv' /\ Contract!ContractNext
    OBVIOUS
  <2>1. OwnerInv' /\ FlaggedIsDone'
    BY OwnerStep, FlaggedStep DEF ContractInv
  <2>2. QED
    BY <2>1, QueueMoves, ContractStep
<1>2. ContractInv /\ [QueueNext]_queueVars
        => ContractInv' /\ [Contract!ContractNext]_(Contract!contractVars)
  BY <1>1
<1>3. QED
  BY <1>2, ContractBegins, PTL
  DEF QueueSpec, ImplementsContract, Contract!ContractSpec

-----------------------------------------------------------------------------
(* The condition of the queue                                              *)

\* The worker tasks are cancelled all at once, and no worker starts later.
AllDoomed == doomed = {} \/ Unfinished \subseteq doomed

\* A worker that is not cancelled sleeps only if nobody is.
WakeInv == AllDoomed /\ NoLostWakeup

\* Where everybody awake stays awake and the heap does not grow, nothing is lost.
LEMMA WakeQuiet ==
  ASSUME QueueTypeOK, NoLostWakeup, heap' \subseteq heap,
         lifecycle' # "paused" => lifecycle # "paused",
         Sleeping' \subseteq Sleeping,
         notified \subseteq notified', notified' \subseteq Workers
  PROVE  NoLostWakeup'
<1> SUFFICES ASSUME lifecycle' # "paused", Sleeping' # {}
             PROVE  Cardinality(heap') <= Cardinality(notified')
  BY DEF NoLostWakeup
<1>1. Cardinality(heap) <= Cardinality(notified)
  BY DEF NoLostWakeup
<1>2. Cardinality(heap') <= Cardinality(heap) /\ Cardinality(heap) \in Nat
      /\ Cardinality(heap') \in Nat
  BY HeapFinite
<1>3. IsFiniteSet(notified')
  BY QueueAssumption, FS_Subset
<1>4. /\ Cardinality(notified) <= Cardinality(notified')
      /\ Cardinality(notified) \in Nat /\ Cardinality(notified') \in Nat
  <2>1. notified \in SUBSET notified' /\ IsFiniteSet(notified)
    BY <1>3, FS_Subset
  <2>2. QED
    BY <1>3, <2>1, FS_Subset, FS_CardinalityType
<1>5. QED
  BY <1>1, <1>2, <1>4

\* After notify_all() nobody sleeps.
LEMMA AllWoken ==
  ASSUME NotifyAll, UNCHANGED <<pc, doomed>>
  PROVE  Sleeping' = {}
  BY DEF NotifyAll, Sleeping

\* An empty heap needs nobody.
LEMMA WakeEmpty == ASSUME heap' = {}, QueueTypeOK' PROVE NoLostWakeup'
<1>1. IsFiniteSet(notified') /\ Cardinality(notified') \in Nat
  BY QueueAssumption, FS_Subset, FS_CardinalityType DEF QueueTypeOK
<1>2. QED
  BY <1>1, FS_EmptySet DEF NoLostWakeup

\* The push of submit() wakes one worker for the one item it adds.
LEMMA WakeAccepted ==
  ASSUME QueueTypeOK, NoLostWakeup, NEW r \in Requests, SubmitAccepted(r)
  PROVE  NoLostWakeup'
<1> SUFFICES ASSUME lifecycle # "paused", Sleeping' # {}
             PROVE  Cardinality(heap') <= Cardinality(notified')
  BY DEF NoLostWakeup, SubmitAccepted, admissionVars
<1>1. PICK w \in Sleeping : notified' = notified \cup {w}
  BY DEF SubmitAccepted, NotifyOne, Sleeping
<1>2. w \notin notified /\ Cardinality(heap) <= Cardinality(notified)
  BY <1>1 DEF Sleeping, NoLostWakeup
<1>3. IsFiniteSet(notified) /\ Cardinality(notified) \in Nat
  BY QueueAssumption, FS_Subset, FS_CardinalityType DEF QueueTypeOK
<1>4. Cardinality(notified') = Cardinality(notified) + 1
  BY <1>1, <1>2, <1>3, FS_AddElement
<1>5. Live \in SUBSET heap /\ heap' = Live \cup {r}
  BY DEF Live, SubmitAccepted
<1>6. /\ IsFiniteSet(Live) /\ Cardinality(Live) \in Nat /\ Cardinality(heap) \in Nat
      /\ Cardinality(Live) <= Cardinality(heap)
  BY <1>5, HeapFinite
<1>7. Cardinality(heap') <= Cardinality(Live) + 1 /\ Cardinality(heap') \in Nat
  <2>1. /\ IsFiniteSet(Live \cup {r})
        /\ \/ Cardinality(Live \cup {r}) = Cardinality(Live)
           \/ Cardinality(Live \cup {r}) = Cardinality(Live) + 1
    BY <1>6, FS_AddElement
  <2>2. QED
    BY <1>5, <1>6, <2>1
<1>8. QED
  BY <1>2, <1>3, <1>4, <1>6, <1>7

\* A worker that takes an item may use up a wakeup, and takes an item with it.
LEMMA WakeTakes ==
  ASSUME QueueTypeOK, NoLostWakeup,
         NEW w \in Workers, NEW r \in Requests, NEW blocks \in BOOLEAN,
         GetTakes(w, r, blocks)
  PROVE  NoLostWakeup'
<1> SUFFICES ASSUME Sleeping' # {}
             PROVE  Cardinality(heap') <= Cardinality(notified')
  BY DEF NoLostWakeup
<1>1. /\ lifecycle # "paused" /\ r \in Live /\ heap' = Live \ {r}
      /\ notified' = notified \ {w}
  BY DEF GetTakes, HeapBecomes
<1>2. Sleeping # {}
  BY DEF GetTakes, Sleeping, InGet, QueueTypeOK
<1>3. Cardinality(heap) <= Cardinality(notified)
  BY <1>1, <1>2 DEF NoLostWakeup
<1>4. Live \in SUBSET heap
  BY DEF Live
<1>5. /\ IsFiniteSet(Live) /\ Cardinality(Live) \in Nat /\ Cardinality(heap) \in Nat
      /\ Cardinality(Live) <= Cardinality(heap)
  BY <1>4, HeapFinite
<1>6. Cardinality(heap') = Cardinality(Live) - 1
  BY <1>1, <1>5, FS_RemoveElement
<1>7. IsFiniteSet(notified) /\ Cardinality(notified) \in Nat
  BY QueueAssumption, FS_Subset, FS_CardinalityType DEF QueueTypeOK
<1>8. Cardinality(notified') >= Cardinality(notified) - 1 /\ Cardinality(notified') \in Nat
  <2>1. \/ Cardinality(notified \ {w}) = Cardinality(notified)
        \/ w \in notified /\ Cardinality(notified \ {w}) = Cardinality(notified) - 1
    BY <1>7, FS_RemoveElement
  <2>2. IsFiniteSet(notified \ {w})
    BY <1>7, FS_RemoveElement
  <2>3. Cardinality(notified \ {w}) \in Nat
    BY <2>2, FS_CardinalityType
  <2>4. QED
    BY <1>1, <1>7, <2>1, <2>3
<1>9. QED
  BY <1>3, <1>5, <1>6, <1>7, <1>8

\* No wakeup is lost, inductively.
LEMMA WakeStep ==
  QueueTypeOK /\ WakeInv /\ [QueueNext]_queueVars => WakeInv'
<1> SUFFICES ASSUME QueueTypeOK, WakeInv, [QueueNext]_queueVars PROVE WakeInv'
  OBVIOUS
<1> USE DEF WakeInv, admissionVars, heapVars, callerVars, counterVars, workerVars
<1>0. QueueTypeOK'
  BY QueueTypeStep
<1>1. ASSUME NEW r \in Requests,
             \/ SubmitRefused(r) \/ SubmitFull(r)
             \/ CallerAnswered(r) \/ CallerCancelled(r) \/ CallerLeaves(r)
      PROVE  WakeInv'
  <2>1. heap' \subseteq heap /\ UNCHANGED <<lifecycle, pc, doomed, notified>>
    BY <1>1 DEF SubmitRefused, SubmitFull, CallerAnswered, CallerCancelled, CallerLeaves,
                HeapBecomes, Live
  <2>2. QED
    BY <1>0, <2>1, WakeQuiet DEF AllDoomed, Unfinished, Sleeping, QueueTypeOK
<1>2. ASSUME NEW r \in Requests, SubmitAccepted(r)
      PROVE  WakeInv'
  BY <1>2, WakeAccepted DEF SubmitAccepted, AllDoomed, Unfinished
<1>3. ASSUME NEW d \in Drainers,
             DrainOfClosed(d) \/ DrainReturns(d) \/ DrainTimesOut(d)
      PROVE  WakeInv'
  <2>1. UNCHANGED <<heap, lifecycle, pc, doomed, notified>>
    BY <1>3 DEF DrainOfClosed, DrainReturns, DrainTimesOut
  <2>2. QED
    BY <1>0, <2>1, WakeQuiet DEF AllDoomed, Unfinished, Sleeping, QueueTypeOK
<1>4. ASSUME NEW d \in Drainers, DrainBegins(d)
      PROVE  WakeInv'
  <2>1. NotifyAll /\ UNCHANGED <<pc, doomed>>
    BY <1>4 DEF DrainBegins
  <2>2. QED
    BY <2>1, AllWoken DEF NoLostWakeup, AllDoomed, Unfinished
<1>5. CASE Pause \/ Resume \/ Close
  <2>1. NotifyAll /\ UNCHANGED <<pc, doomed>>
    BY <1>5 DEF Pause, Resume, Close, CloseBody
  <2>2. QED
    BY <2>1, AllWoken DEF NoLostWakeup, AllDoomed, Unfinished
<1>6. CASE CancelWorkers
  <2>1. Sleeping' = {}
    BY <1>6 DEF CancelWorkers, Sleeping, Unfinished
  <2>2. AllDoomed'
    BY <1>6 DEF CancelWorkers, AllDoomed, Unfinished
  <2>3. QED
    BY <2>1, <2>2 DEF NoLostWakeup
<1>7. CASE Tick \/ UNCHANGED queueVars
  <2>1. UNCHANGED <<heap, lifecycle, pc, doomed, notified>>
    BY <1>7 DEF Tick, queueVars
  <2>2. QED
    BY <1>0, <2>1, WakeQuiet DEF AllDoomed, Unfinished, Sleeping, QueueTypeOK
<1>8. ASSUME NEW w \in Workers, NEW r \in Requests, NEW blocks \in BOOLEAN,
             GetTakes(w, r, blocks)
      PROVE  WakeInv'
  <2>1. AllDoomed'
    BY <1>8 DEF GetTakes, InGet, AllDoomed, Unfinished, QueueTypeOK
  <2>2. QED
    BY <1>8, <2>1, WakeTakes
<1>9. ASSUME NEW w \in Workers, GetStops(w) \/ (GetWaits(w) /\ Live = {})
      PROVE  WakeInv'
  <2>1. heap' = {}
    BY <1>9 DEF GetStops, GetWaits, HeapBecomes
  <2>2. AllDoomed'
    BY <1>9 DEF GetStops, GetWaits, InGet, AllDoomed, Unfinished, QueueTypeOK
  <2>3. QED
    BY <1>0, <2>1, <2>2, WakeEmpty
<1>10. ASSUME NEW w \in Workers, GetWaits(w), lifecycle = "paused"
       PROVE  WakeInv'
  <2>1. AllDoomed'
    BY <1>10 DEF GetWaits, InGet, AllDoomed, Unfinished, QueueTypeOK
  <2>2. QED
    BY <1>10, <2>1 DEF GetWaits, NoLostWakeup
<1>11. ASSUME NEW w \in Workers, Acquired(w) \/ Finishes(w)
       PROVE  WakeInv'
  <2>1. /\ UNCHANGED <<heap, lifecycle, doomed, notified>>
        /\ \E p \in {"running", "ready"} : pc' = [pc EXCEPT ![w] = p]
        /\ w \notin doomed /\ pc[w] \notin {"stopped", "dead"}
    BY <1>11 DEF Acquired, Finishes, PutDown
  <2>2. Sleeping' \subseteq Sleeping
    BY <2>1 DEF Sleeping, QueueTypeOK
  <2>3. AllDoomed'
    BY <2>1 DEF AllDoomed, Unfinished, QueueTypeOK
  <2>4. QED
    BY <1>0, <2>1, <2>2, <2>3, WakeQuiet DEF QueueTypeOK
<1>12. ASSUME NEW w \in Workers,
              CancelledInGet(w) \/ CancelledAcquiring(w) \/ CancelledRunning(w)
       PROVE  WakeInv'
  <2>1. /\ w \in doomed /\ doomed' = doomed \ {w}
        /\ pc' = [pc EXCEPT ![w] = "dead"]
    BY <1>12 DEF CancelledInGet, CancelledAcquiring, CancelledRunning, PutDown
  <2>2. AllDoomed'
    BY <2>1 DEF AllDoomed, Unfinished, QueueTypeOK
  <2>3. Sleeping' = {}
    BY <2>1 DEF Sleeping, AllDoomed, Unfinished, QueueTypeOK
  <2>4. QED
    BY <2>2, <2>3 DEF NoLostWakeup
<1>13. QED
  <2>1. ASSUME NEW w \in Workers, GetWaits(w) PROVE Live = {} \/ lifecycle = "paused"
    BY <2>1 DEF GetWaits
  <2>2. QED
    BY <1>1, <1>2, <1>3, <1>4, <1>5, <1>6, <1>7, <1>8, <1>9, <1>10, <1>11, <1>12,
       <2>1, QueueSteps

\* Nobody sleeps in the beginning.
LEMMA WakeInit == QueueInit => WakeInv
<1> SUFFICES ASSUME QueueInit PROVE WakeInv
  OBVIOUS
<1>1. Sleeping = {}
  BY DEF QueueInit, Sleeping
<1>2. QED
  BY <1>1 DEF QueueInit, WakeInv, AllDoomed, NoLostWakeup

\* No worker sleeps through work, for any number of workers and requests.
THEOREM NoWakeupIsLost == QueueSpec => []NoLostWakeup
<1>1. QueueSpec => []WakeInv
  BY WakeInit, WakeStep, QueueTypeCorrect, PTL DEF QueueSpec
<1>2. WakeInv => NoLostWakeup
  BY DEF WakeInv
<1>3. QED
  BY <1>1, <1>2, PTL

=============================================================================
