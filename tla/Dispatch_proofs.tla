--------------------------- MODULE Dispatch_proofs ---------------------------
(***************************************************************************)
(* The queue and the scheduler composed, for any number of requests,       *)
(* workers and immediate requests: they agree about every worker, the      *)
(* contract of a request's life survives the composition, and a clean stop *)
(* loses nothing.                                                          *)
(*                                                                         *)
(* A step of the composition is a step of the queue, a refusal in front of *)
(* it or the close of stop(), and a step of the scheduler. What each part  *)
(* keeps it keeps here; new is only that the places of the tasks match     *)
(* their slots, which makes a task ask for a slot only when it has none.   *)
(***************************************************************************)
EXTENDS Dispatch, RequestQueue_proofs, AdaptiveScheduler_proofs

Held    == {"heldFg", "heldBg"}
Waiting == {"waitFg", "waitBg"}

\* A task is where its slot says.
PlacesMatchSlots ==
  /\ \A w \in Workers :
       /\ pc[w] = "running" <=> slot[w] \in Held
       /\ pc[w] = "acquiring" <=> slot[w] \in Waiting
  /\ \A i \in Immediates :
       /\ immPc[i] = "running" <=> slot[i] \in Held
       /\ immPc[i] = "waiting" <=> slot[i] \in Waiting

RunningImmediates == {i \in Immediates : immPc[i] = "running"}
CallsInProgress   == {r \in Requests : caller[r] \in {"waiting", "leaving"}}

EntryInv ==
  /\ immPc \in [Immediates -> {"new", "waiting", "running", "over"}]
  /\ immediate = Cardinality(RunningImmediates)
  /\ queuedExec = Cardinality(CallsInProgress)
  /\ PlacesMatchSlots

\* Only stop() closes the queue.
OpenUntilStopped == runtimePc \in {"up", "stopping", "draining"} => lifecycle # "closed"

QueueInv == ContractInv /\ CountersMatchWorkers

DispatchInv == QueueInv /\ SchedInv /\ EntryInv /\ OpenUntilStopped

\* A client is a worker or an immediate request, not both, and there are finitely
\* many of either.
LEMMA TwoKinds ==
  /\ Workers \subseteq Clients /\ Immediates \subseteq Clients
  /\ Workers \cap Immediates = {}
  /\ IsFiniteSet(Immediates) /\ IsFiniteSet(Requests)
  BY DispatchAssumption, SchedulerAssumption, QueueAssumption, FS_Subset

-----------------------------------------------------------------------------
(* The steps                                                               *)

\* The end of stop(): close() and the cancellation of the workers.
StopCloseStep == StopCloses \/ StopSkipsDrain

\* What a step of the composition is to the queue.
LEMMA StepOfQueue ==
  ASSUME [DispatchNext]_dispatchVars
  PROVE  [QueueNext]_queueVars \/ (\E r \in Requests : TurnedAway(r)) \/ StopCloseStep
<1>1. ASSUME NEW r \in Requests, RequestNext(r)
      PROVE  QueueNext \/ TurnedAway(r)
  BY <1>1 DEF RequestNext, Queues, QueuedCallEnds, QueuedCallCancelled, QueueNext, CallerNext
<1>2. ASSUME NEW w \in Workers, WorkerStep(w)
      PROVE  [QueueNext]_queueVars
  <2>1. CASE WorkerGets(w)
    <3>1. GetNext(w)
      BY <2>1 DEF WorkerGets, GetNext
    <3>2. QED
      BY <3>1 DEF QueueNext, WorkerNext
  <2>2. CASE WorkerAcquires(w)
    BY <2>2 DEF WorkerAcquires, QueueNext, WorkerNext
  <2>3. CASE WorkerFinishes(w)
    BY <2>3 DEF WorkerFinishes, QueueNext, WorkerNext
  <2>4. CASE WorkerCancelled(w)
    <3>1. CancelNext(w)
      BY <2>4 DEF WorkerCancelled, CancelNext
    <3>2. QED
      BY <3>1 DEF QueueNext, WorkerNext
  <2>5. QED
    BY <1>2, <2>1, <2>2, <2>3, <2>4 DEF WorkerStep
<1>3. ASSUME NEW i \in Immediates, ImmediateAsks(i) \/ ImmediateEnds(i) \/ ImmediateCancelled(i)
      PROVE  UNCHANGED queueVars
  BY <1>3 DEF ImmediateAsks, ImmediateEnds, ImmediateCancelled
<1>4. CASE PressureReported \/ StopRequested \/ StopEnds
  BY <1>4 DEF PressureReported, StopRequested, StopEnds
<1>5. CASE OperatorActs \/ TimePasses
  BY <1>5 DEF OperatorActs, TimePasses, QueueNext
<1>6. CASE StopDrains
  <2>1. ShutdownDrain \in Drainers
    BY DispatchAssumption
  <2>2. DrainNext(ShutdownDrain)
    BY <1>6 DEF StopDrains, DrainNext
  <2>3. QED
    BY <2>1, <2>2 DEF QueueNext
<1>7. CASE UNCHANGED dispatchVars
  BY <1>7 DEF dispatchVars
<1>8. QED
  BY <1>1, <1>2, <1>3, <1>4, <1>5, <1>6, <1>7 DEF DispatchNext, StopNext, StopCloseStep

\* What it is to the scheduler: a task that asks has no slot yet.
LEMMA StepOfScheduler ==
  ASSUME DispatchInv, [DispatchNext]_dispatchVars
  PROVE  [SchedNext]_schedVars
<1> USE DEF DispatchInv, EntryInv, SchedInv
<1>0. \A c \in Clients : slot[c] \in {"none"} \cup Held \cup Waiting
  BY DEF SchedTypeOK, Held, Waiting
<1>1. ASSUME NEW c \in Clients, ClientNext(c) PROVE SchedNext
  BY <1>1 DEF SchedNext
<1>2. ASSUME NEW w \in Workers, WorkerStep(w)
      PROVE  [SchedNext]_schedVars
  <2>1. w \in Clients
    BY TwoKinds
  <2>2. CASE WorkerGets(w)
    <3>1. ASSUME NEW r \in Requests, NEW blocks \in BOOLEAN, GetTakes(w, r, blocks)
          PROVE  AsksFor(w)
      <4>1. pc[w] \in {"ready", "waiting"}
        BY <3>1 DEF GetTakes, InGet
      <4>2. QED
        BY <1>0, <2>1, <4>1 DEF PlacesMatchSlots, AsksFor
    <3>2. ASSUME NEW r \in Requests,
                 \/ GetTakes(w, r, FALSE) /\ Grant(w, Foreground(r))
                 \/ GetTakes(w, r, TRUE) /\ Block(w, Foreground(r))
          PROVE  ClientNext(w)
      <4>1. Foreground(r) \in BOOLEAN
        BY DEF Foreground
      <4>2. AsksFor(w)
        BY <3>1, <3>2
      <4>3. QED
        BY <3>2, <4>1, <4>2 DEF ClientNext
    <3>3. QED
      BY <1>1, <2>1, <2>2, <3>2 DEF WorkerGets
  <2>3. CASE WorkerAcquires(w)
    BY <1>1, <2>1, <2>3 DEF WorkerAcquires, ClientNext
  <2>4. CASE WorkerFinishes(w) \/ WorkerCancelled(w)
    BY <1>1, <2>1, <2>4 DEF WorkerFinishes, WorkerCancelled, ClientNext
  <2>5. QED
    BY <1>2, <2>2, <2>3, <2>4 DEF WorkerStep
<1>3. ASSUME NEW i \in Immediates, ImmediateAsks(i) \/ ImmediateEnds(i) \/ ImmediateCancelled(i)
      PROVE  [SchedNext]_schedVars
  <2>1. i \in Clients
    BY TwoKinds
  <2>2. CASE ImmediateAsks(i)
    <3> DEFINE fg == i \in Prompts
    <3>1. fg \in BOOLEAN
      OBVIOUS
    <3>2. AsksFor(i) \/ AsksAgain(i, fg)
      <4>1. immPc[i] = "new" => AsksFor(i)
        BY <1>0, <2>1 DEF PlacesMatchSlots, AsksFor
      <4>2. QED
        BY <2>2, <4>1 DEF ImmediateAsks
    <3>3. Grant(i, fg) \/ Block(i, fg)
      BY <2>2 DEF ImmediateAsks
    <3> HIDE DEF fg
    <3>4. QED
      BY <1>1, <2>1, <3>1, <3>2, <3>3 DEF ClientNext
  <2>3. CASE ImmediateEnds(i) \/ ImmediateCancelled(i)
    BY <1>1, <2>1, <2>3 DEF ImmediateEnds, ImmediateCancelled, ClientNext
  <2>4. QED
    BY <1>3, <2>2, <2>3
<1>4. ASSUME NEW r \in Requests, RequestNext(r)
      PROVE  UNCHANGED schedVars
  BY <1>4 DEF RequestNext, TurnedAway, Queues, QueuedCallEnds, QueuedCallCancelled
<1>5. CASE PressureReported
  BY <1>5 DEF PressureReported, SchedNext
<1>6. CASE OperatorActs \/ StopRequested \/ StopNext \/ TimePasses \/ UNCHANGED dispatchVars
  BY <1>6 DEF OperatorActs, StopRequested, StopNext, StopDrains, StopCloses, StopSkipsDrain,
              StopEnds, CloseAndCancel, TimePasses, dispatchVars
<1>7. QED
  BY <1>2, <1>3, <1>4, <1>5, <1>6 DEF DispatchNext

-----------------------------------------------------------------------------
(* The queue in the composition                                            *)

\* The refusal in front of the queue touches one caller only.
LEMMA TurnedAwayKeeps ==
  ASSUME QueueInv, NEW r \in Requests, TurnedAway(r)
  PROVE  OwnerInv' /\ FlaggedIsDone' /\ CountersMatchWorkers' /\ StepMoves
<1> USE DEF QueueInv, ContractInv, OwnerInv, admissionVars, heapVars, counterVars, workerVars
<1>1. /\ caller[r] = "new" /\ caller' = [caller EXCEPT ![r] = "refused"]
      /\ UNCHANGED <<admissionVars, heapVars, future, cancelled, counterVars, workerVars>>
  BY DEF TurnedAway
<1>2. QueueTypeOK'
  BY <1>1 DEF QueueTypeOK
<1>3. OwnerInv'
  <2>1. \A q \in Requests : caller'[q] \in {"new", "refused"} => caller[q] \in {"new", "refused"}
    BY <1>1 DEF QueueTypeOK
  <2>2. JobsMatchPlaces'
    BY <1>1 DEF JobsMatchPlaces
  <2>3. QED
    BY <1>1, <1>2, <2>1, <2>2, OwnerQuiet
<1>4. FlaggedIsDone'
  BY <1>1 DEF FlaggedIsDone, QueueTypeOK
<1>5. CountersMatchWorkers'
  BY <1>1, CountersQuiet
<1>6. StepMoves
  BY <1>1, RefusalMoves
<1>7. QED
  BY <1>3, <1>4, <1>5, <1>6

\* The close of stop() is that of the queue, with the cancellation of every
\* worker that has not ended.
LEMMA StopCloseKeeps ==
  ASSUME QueueInv, StopCloseStep
  PROVE  OwnerInv' /\ FlaggedIsDone' /\ CountersMatchWorkers' /\ StepMoves
<1> USE DEF QueueInv, ContractInv, OwnerInv, counterVars
<1>1. /\ CloseBody /\ doomed' = Unfinished
      /\ \/ UNCHANGED drainPc
         \/ \E s \in {"drained", "timedout"} : drainPc' = [drainPc EXCEPT ![ShutdownDrain] = s]
  BY DEF StopCloseStep, StopCloses, StopSkipsDrain, CloseAndCancel
<1>2. /\ lifecycle' = "closed" /\ heap' = {} /\ UNCHANGED <<job, pc, caller, counterVars, nextSeq>>
      /\ cancelled' = cancelled \cup heap /\ drainDeadline' = NoDrainer
  BY <1>1 DEF CloseBody, HeapBecomes
<1>3. QueueTypeOK'
  <2>1. notified' \subseteq Workers /\ doomed' \subseteq Workers
    BY <1>1, NotifyType DEF CloseBody, Unfinished
  <2>2. seqno' \in [Requests -> Nat] /\ age' \in [Requests -> Nat]
    BY <1>1, KeepNat DEF CloseBody, HeapBecomes, QueueTypeOK
  <2>3. future' \in [Requests -> {"none", "pending", "ran", "timeout", "cancelled"}]
    BY <1>1 DEF CloseBody, QueueTypeOK
  <2>4. workerState' \in [Workers -> {"idle", "running", "stopping", "stopped"}]
    BY <1>1 DEF CloseBody, QueueTypeOK
  <2>5. drainPc' \in [Drainers -> {"idle", "polling", "drained", "timedout"}]
    BY <1>1 DEF QueueTypeOK
  <2>6. QED
    BY <1>2, <2>1, <2>2, <2>3, <2>4, <2>5 DEF QueueTypeOK
<1>4. OwnerInv'
  <2>1. \A q \in Requests : caller'[q] \in {"new", "refused"} =>
          caller[q] \in {"new", "refused"} /\ (q \in cancelled' => q \in cancelled)
    BY <1>2 DEF UnsubmittedNowhere
  <2>2. JobsMatchPlaces'
    BY <1>2 DEF JobsMatchPlaces
  <2>3. QED
    BY <1>2, <1>3, <2>1, <2>2, OwnerQuiet
<1>5. FlaggedIsDone'
  BY <1>1, <1>2 DEF CloseBody, FlaggedIsDone, QueueTypeOK
<1>6. CountersMatchWorkers'
  BY <1>2, CountersQuiet
<1>7. StepMoves
  BY <1>1, CloseMoves
<1>8. QED
  BY <1>4, <1>5, <1>6, <1>7

\* Every step of the composition keeps what the queue keeps and is a step of the
\* contract.
LEMMA QueueInComposition ==
  ASSUME QueueInv, [DispatchNext]_dispatchVars
  PROVE  QueueInv' /\ Contract!ContractNext
<1> USE DEF QueueInv
<1>1. OwnerInv' /\ FlaggedIsDone' /\ CountersMatchWorkers' /\ StepMoves
  <2>1. CASE [QueueNext]_queueVars
    <3>1. OwnerInv' /\ FlaggedIsDone' /\ CountersMatchWorkers'
      BY <2>1, OwnerStep, FlaggedStep, CountersStep DEF ContractInv
    <3>2. QED
      BY <2>1, <3>1, QueueMoves
  <2>2. QED
    BY <2>1, StepOfQueue, TurnedAwayKeeps, StopCloseKeeps
<1>2. QED
  BY <1>1, ContractStep

-----------------------------------------------------------------------------
(* The tasks and their slots                                               *)

\* What a grant, a block and an end of a hold or of a wait leave in the slots.
LEMMA SlotAfter ==
  ASSUME SchedTypeOK, NEW c \in Clients, NEW fg \in BOOLEAN
  PROVE  /\ \A d \in Clients : d # c /\ (\/ Grant(c, fg) \/ Block(c, fg)
                                         \/ Release(c) \/ GiveUp(c)) => slot'[d] = slot[d]
         /\ Grant(c, fg) => slot'[c] \in Held
         /\ Block(c, fg) => slot'[c] \in Waiting
         /\ Release(c) \/ GiveUp(c) => slot'[c] = "none"
  BY DEF SchedTypeOK, Grant, Block, Release, GiveUp, HeldAs, WaitingAs, Held, Waiting

\* Where no place and no slot changes, they go on matching.
LEMMA PlacesQuiet ==
  ASSUME PlacesMatchSlots, UNCHANGED <<pc, immPc, slot>>
  PROVE  PlacesMatchSlots'
  BY DEF PlacesMatchSlots

\* One client moves, with its place.
LEMMA WorkerPlaced ==
  ASSUME PlacesMatchSlots, NEW w \in Workers, UNCHANGED immPc,
         \A v \in Workers : v # w => pc'[v] = pc[v],
         \A c \in Clients : c # w => slot'[c] = slot[c],
         pc'[w] = "running" <=> slot'[w] \in Held,
         pc'[w] = "acquiring" <=> slot'[w] \in Waiting
  PROVE  PlacesMatchSlots'
  BY TwoKinds DEF PlacesMatchSlots

LEMMA ImmediatePlaced ==
  ASSUME PlacesMatchSlots, NEW i \in Immediates, UNCHANGED pc,
         \A j \in Immediates : j # i => immPc'[j] = immPc[j],
         \A c \in Clients : c # i => slot'[c] = slot[c],
         immPc'[i] = "running" <=> slot'[i] \in Held,
         immPc'[i] = "waiting" <=> slot'[i] \in Waiting
  PROVE  PlacesMatchSlots'
  BY TwoKinds DEF PlacesMatchSlots

\* Held and waited-for slots are different, and neither is none.
LEMMA SlotKinds == Held \cap Waiting = {} /\ "none" \notin Held \cup Waiting
  BY DEF Held, Waiting

\* A step of a worker keeps places and slots together.
LEMMA WorkerKeepsPlaces ==
  ASSUME QueueTypeOK, SchedTypeOK, PlacesMatchSlots, NEW w \in Workers, WorkerStep(w)
  PROVE  PlacesMatchSlots'
<1> USE DEF entryVars
<1>0. w \in Clients /\ UNCHANGED immPc
  BY TwoKinds DEF WorkerStep, WorkerGets, WorkerAcquires, WorkerFinishes, WorkerCancelled
<1>1. ASSUME GetStops(w) \/ GetWaits(w) \/ CancelledInGet(w), UNCHANGED schedVars
      PROVE  PlacesMatchSlots'
  <2>1. /\ pc[w] \in {"ready", "waiting"}
        /\ \E p \in {"stopped", "waiting", "dead"} : pc' = [pc EXCEPT ![w] = p]
        /\ UNCHANGED slot
    BY <1>1 DEF GetStops, GetWaits, CancelledInGet, InGet, schedVars, slotVars
  <2>2. slot[w] \notin Held \cup Waiting
    BY <2>1 DEF PlacesMatchSlots
  <2>3. QED
    BY <1>0, <2>1, <2>2, WorkerPlaced DEF QueueTypeOK
<1>2. ASSUME NEW r \in Requests, NEW fg \in BOOLEAN,
             \/ GetTakes(w, r, FALSE) /\ Grant(w, fg)
             \/ GetTakes(w, r, TRUE) /\ Block(w, fg)
      PROVE  PlacesMatchSlots'
  <2>1. \/ pc' = [pc EXCEPT ![w] = "running"] /\ Grant(w, fg)
        \/ pc' = [pc EXCEPT ![w] = "acquiring"] /\ Block(w, fg)
    BY <1>2 DEF GetTakes
  <2>2. QED
    BY <1>0, <2>1, SlotAfter, SlotKinds, WorkerPlaced DEF QueueTypeOK
<1>3. ASSUME NEW fg \in BOOLEAN, AsksAgain(w, fg),
             (Grant(w, fg) /\ Acquired(w)) \/ (Block(w, fg) /\ UNCHANGED queueVars)
      PROVE  PlacesMatchSlots'
  <2>1. slot[w] \in Waiting /\ pc[w] = "acquiring"
    BY <1>3 DEF AsksAgain, WaitingAs, Waiting, PlacesMatchSlots
  <2>2. \/ pc' = [pc EXCEPT ![w] = "running"] /\ Grant(w, fg)
        \/ UNCHANGED pc /\ Block(w, fg)
    BY <1>3 DEF Acquired, queueVars, workerVars
  <2>3. QED
    BY <1>0, <2>1, <2>2, SlotAfter, SlotKinds, WorkerPlaced DEF QueueTypeOK
<1>4. ASSUME \/ Finishes(w) /\ Release(w)
             \/ CancelledAcquiring(w) /\ GiveUp(w)
             \/ CancelledRunning(w) /\ Release(w)
      PROVE  PlacesMatchSlots'
  <2>1. \E p \in {"ready", "dead"} : pc' = [pc EXCEPT ![w] = p]
    BY <1>4 DEF Finishes, CancelledAcquiring, CancelledRunning, PutDown
  <2>2. slot'[w] = "none" /\ \A d \in Clients : d # w => slot'[d] = slot[d]
    BY <1>0, <1>4, TRUE \in BOOLEAN, SlotAfter
  <2>3. QED
    BY <1>0, <2>1, <2>2, SlotKinds, WorkerPlaced DEF QueueTypeOK
<1>5. CASE WorkerGets(w)
  <2>1. \A r \in Requests : Foreground(r) \in BOOLEAN
    BY DEF Foreground
  <2>2. QED
    BY <1>1, <1>2, <1>5, <2>1 DEF WorkerGets
<1>6. CASE WorkerAcquires(w)
  BY <1>3, <1>6 DEF WorkerAcquires
<1>7. CASE WorkerFinishes(w) \/ WorkerCancelled(w)
  BY <1>1, <1>4, <1>7 DEF WorkerFinishes, WorkerCancelled
<1>8. QED
  BY <1>5, <1>6, <1>7 DEF WorkerStep

\* A step of an immediate request keeps them together and is counted.
LEMMA ImmediateKeepsEntry ==
  ASSUME SchedTypeOK, EntryInv, NEW i \in Immediates,
         ImmediateAsks(i) \/ ImmediateEnds(i) \/ ImmediateCancelled(i)
  PROVE  EntryInv'
<1> USE DEF EntryInv, queueVars, callerVars, workerVars
<1>0. i \in Clients /\ UNCHANGED <<pc, caller, queuedExec>>
  BY TwoKinds DEF ImmediateAsks, ImmediateEnds, ImmediateCancelled
<1>1. /\ IsFiniteSet(RunningImmediates) /\ Cardinality(RunningImmediates) \in Nat
      /\ CallsInProgress' = CallsInProgress
  <2>1. RunningImmediates \in SUBSET Immediates
    BY DEF RunningImmediates
  <2>2. CallsInProgress' = CallsInProgress
    BY <1>0 DEF CallsInProgress
  <2>3. QED
    BY <2>1, <2>2, TwoKinds, FS_Subset, FS_CardinalityType
<1>2. ASSUME NEW p \in {"waiting", "running", "over"}, immPc' = [immPc EXCEPT ![i] = p],
             NEW fg \in BOOLEAN,
             \/ p = "running" /\ Grant(i, fg) /\ immPc[i] # "running"
             \/ p = "waiting" /\ Block(i, fg) /\ immPc[i] # "running"
             \/ p = "over" /\ Release(i) /\ immPc[i] = "running"
             \/ p = "over" /\ GiveUp(i) /\ immPc[i] # "running",
             immediate' = CASE p = "running" -> immediate + 1
                            [] p = "over" /\ immPc[i] = "running" -> AtLeastZero(immediate - 1)
                            [] OTHER -> immediate
      PROVE  EntryInv'
  <2>1. immPc' \in [Immediates -> {"new", "waiting", "running", "over"}]
    BY <1>2
  <2>2. PlacesMatchSlots'
    <3>1. \A j \in Immediates : j # i => immPc'[j] = immPc[j]
      BY <1>2
    <3>2. immPc'[i] = p
      BY <1>2
    <3>3. /\ \A c \in Clients : c # i => slot'[c] = slot[c]
          /\ p = "running" => slot'[i] \in Held
          /\ p = "waiting" => slot'[i] \in Waiting
          /\ p = "over" => slot'[i] = "none"
      BY <1>0, <1>2, SlotAfter
    <3>4. QED
      BY <1>0, <3>1, <3>2, <3>3, SlotKinds, ImmediatePlaced
  <2>3. immediate' = Cardinality(RunningImmediates')
    <3>1. CASE p = "running"
      <4>1. RunningImmediates' = RunningImmediates \cup {i} /\ i \notin RunningImmediates
        BY <1>2, <3>1 DEF RunningImmediates
      <4>2. Cardinality(RunningImmediates \cup {i}) = Cardinality(RunningImmediates) + 1
        BY <1>1, <4>1, FS_AddElement
      <4>3. QED
        BY <1>2, <3>1, <4>1, <4>2
    <3>2. CASE p = "over" /\ immPc[i] = "running"
      <4>1. RunningImmediates' = RunningImmediates \ {i} /\ i \in RunningImmediates
        BY <1>2, <3>2 DEF RunningImmediates
      <4>2. Cardinality(RunningImmediates \ {i}) = Cardinality(RunningImmediates) - 1
        BY <1>1, <4>1, FS_RemoveElement
      <4>3. Cardinality(RunningImmediates) # 0
        BY <1>1, <4>1, FS_EmptySet
      <4>4. immediate' = AtLeastZero(immediate - 1)
        BY <1>2, <3>2
      <4>5. QED
        BY <1>1, <4>1, <4>2, <4>3, <4>4 DEF AtLeastZero
    <3>3. CASE p # "running" /\ immPc[i] # "running"
      <4>1. RunningImmediates' = RunningImmediates
        BY <1>2, <3>3 DEF RunningImmediates
      <4>2. immediate' = immediate
        BY <1>2, <3>3
      <4>3. QED
        BY <4>1, <4>2
    <3>4. QED
      BY <1>2, <3>1, <3>2, <3>3
  <2>4. queuedExec' = Cardinality(CallsInProgress')
    BY <1>0, <1>1
  <2>5. QED
    BY <2>1, <2>2, <2>3, <2>4
<1>3. CASE ImmediateAsks(i)
  <2> DEFINE fg == i \in Prompts
  <2>1. fg \in BOOLEAN
    OBVIOUS
  <2>2. immPc[i] # "running"
    <3>1. AsksAgain(i, fg) => slot[i] \in Waiting
      BY DEF AsksAgain, WaitingAs, Waiting
    <3>2. QED
      BY <1>3, <3>1 DEF ImmediateAsks
  <2>3. \/ /\ Grant(i, fg) /\ immPc' = [immPc EXCEPT ![i] = "running"]
           /\ immediate' = immediate + 1
        \/ /\ Block(i, fg) /\ immPc' = [immPc EXCEPT ![i] = "waiting"]
           /\ immediate' = immediate
    BY <1>3 DEF ImmediateAsks
  <2> HIDE DEF fg
  <2>4. QED
    BY <1>2, <2>1, <2>2, <2>3
<1>4. CASE ImmediateEnds(i)
  <2>1. /\ immPc[i] = "running" /\ immPc' = [immPc EXCEPT ![i] = "over"]
        /\ immediate' = AtLeastZero(immediate - 1) /\ Release(i)
    BY <1>4 DEF ImmediateEnds
  <2>2. QED
    BY <1>2, <2>1, TRUE \in BOOLEAN
<1>5. CASE ImmediateCancelled(i)
  <2>1. /\ immPc[i] = "waiting" /\ immPc' = [immPc EXCEPT ![i] = "over"]
        /\ immediate' = immediate /\ GiveUp(i)
    BY <1>5 DEF ImmediateCancelled
  <2>2. QED
    BY <1>2, <2>1, TRUE \in BOOLEAN
<1>6. QED
  BY <1>3, <1>4, <1>5

\* A step of a queued call is counted.
LEMMA RequestKeepsEntry ==
  ASSUME QueueTypeOK, EntryInv, NEW r \in Requests, RequestNext(r)
  PROVE  EntryInv'
<1> USE DEF EntryInv, schedVars, slotVars, entryVars, callerVars, counterVars, workerVars
<1>1. UNCHANGED <<pc, immPc, slot, immediate>>
  BY DEF RequestNext, TurnedAway, Queues, QueuedCallEnds, QueuedCallCancelled,
         SubmitAccepted, SubmitFull, CallerAnswered, CallerLeaves, CallerCancelled
<1>2. PlacesMatchSlots' /\ RunningImmediates' = RunningImmediates
  BY <1>1, PlacesQuiet DEF RunningImmediates
<1>3. IsFiniteSet(CallsInProgress) /\ Cardinality(CallsInProgress) \in Nat
  <2>1. CallsInProgress \in SUBSET Requests
    BY DEF CallsInProgress
  <2>2. QED
    BY <2>1, TwoKinds, FS_Subset, FS_CardinalityType
<1>4. queuedExec' = Cardinality(CallsInProgress')
  <2>1. CASE SubmitAccepted(r) /\ queuedExec' = queuedExec + 1
    <3>1. CallsInProgress' = CallsInProgress \cup {r} /\ r \notin CallsInProgress
      BY <2>1 DEF SubmitAccepted, CallsInProgress, QueueTypeOK
    <3>2. Cardinality(CallsInProgress \cup {r}) = Cardinality(CallsInProgress) + 1
      BY <1>3, <3>1, FS_AddElement
    <3>3. QED
      BY <2>1, <3>1, <3>2
  <2>2. CASE QueuedCallEnds(r)
    <3>1. CallsInProgress' = CallsInProgress \ {r} /\ r \in CallsInProgress
      BY <2>2 DEF QueuedCallEnds, CallerAnswered, CallerLeaves, CallsInProgress, QueueTypeOK
    <3>2. Cardinality(CallsInProgress \ {r}) = Cardinality(CallsInProgress) - 1
      BY <1>3, <3>1, FS_RemoveElement
    <3>3. Cardinality(CallsInProgress) # 0
      BY <1>3, <3>1, FS_EmptySet
    <3>4. QED
      BY <1>3, <2>2, <3>1, <3>2, <3>3 DEF QueuedCallEnds, AtLeastZero
  <2>3. CASE \/ TurnedAway(r) \/ QueuedCallCancelled(r)
             \/ SubmitFull(r) /\ UNCHANGED queuedExec
    <3>1. UNCHANGED queuedExec
      BY <2>3 DEF TurnedAway, QueuedCallCancelled
    <3>2. CallsInProgress' = CallsInProgress
      BY <2>3 DEF TurnedAway, QueuedCallCancelled, CallerCancelled, SubmitFull,
                  CallsInProgress, QueueTypeOK
    <3>3. QED
      BY <3>1, <3>2
  <2>4. QED
    BY <2>1, <2>2, <2>3 DEF RequestNext, Queues
<1>5. QED
  BY <1>1, <1>2, <1>4

\* Every step keeps tasks, slots and counts together.
LEMMA EntryStep ==
  ASSUME DispatchInv, [DispatchNext]_dispatchVars
  PROVE  EntryInv'
<1> USE DEF DispatchInv, QueueInv, ContractInv, OwnerInv, SchedInv
<1>1. ASSUME UNCHANGED <<pc, immPc, slot, immediate, queuedExec, caller>>
      PROVE  EntryInv'
  BY <1>1, PlacesQuiet DEF EntryInv, RunningImmediates, CallsInProgress
<1>2. ASSUME NEW w \in Workers, WorkerStep(w) PROVE EntryInv'
  <2>1. UNCHANGED <<immPc, immediate, queuedExec, caller>>
    BY <1>2
    DEF WorkerStep, WorkerGets, WorkerAcquires, WorkerFinishes, WorkerCancelled, entryVars,
        GetStops, GetWaits, GetTakes, Acquired, Finishes, CancelledInGet, CancelledAcquiring,
        CancelledRunning, callerVars, queueVars
  <2>2. PlacesMatchSlots'
    BY <1>2, WorkerKeepsPlaces DEF EntryInv
  <2>3. QED
    BY <2>1, <2>2 DEF EntryInv, RunningImmediates, CallsInProgress
<1>3. CASE PressureReported \/ OperatorActs \/ StopRequested \/ StopNext \/ TimePasses
           \/ UNCHANGED dispatchVars
  BY <1>1, <1>3
  DEF PressureReported, UpdatePressure, OperatorActs, Pause, Resume, StopRequested, StopNext,
      StopDrains, DrainBegins, StopCloses, StopSkipsDrain, CloseAndCancel, CloseBody, StopEnds,
      TimePasses, Tick, dispatchVars, queueVars, schedVars, slotVars, entryVars, callerVars,
      workerVars
<1>4. QED
  BY <1>2, <1>3, ImmediateKeepsEntry, RequestKeepsEntry DEF DispatchNext

-----------------------------------------------------------------------------
(* The invariant                                                           *)

\* Nothing closes the queue before stop() does.
LEMMA OpenStep ==
  ASSUME OpenUntilStopped, [DispatchNext]_dispatchVars
  PROVE  OpenUntilStopped'
<1> USE DEF OpenUntilStopped, admissionVars
<1>1. ASSUME UNCHANGED <<lifecycle, runtimePc>> PROVE OpenUntilStopped'
  BY <1>1
<1>2. ASSUME NEW r \in Requests, RequestNext(r) PROVE OpenUntilStopped'
  BY <1>1, <1>2
  DEF RequestNext, TurnedAway, Queues, QueuedCallEnds, QueuedCallCancelled,
      SubmitAccepted, SubmitFull, CallerAnswered, CallerLeaves, CallerCancelled
<1>3. ASSUME NEW w \in Workers, WorkerStep(w) PROVE OpenUntilStopped'
  BY <1>1, <1>3
  DEF WorkerStep, WorkerGets, WorkerAcquires, WorkerFinishes, WorkerCancelled, queueVars,
      GetStops, GetWaits, GetTakes, Acquired, Finishes, CancelledInGet, CancelledAcquiring,
      CancelledRunning
<1>4. ASSUME NEW i \in Immediates, ImmediateAsks(i) \/ ImmediateEnds(i) \/ ImmediateCancelled(i)
      PROVE  OpenUntilStopped'
  BY <1>1, <1>4 DEF ImmediateAsks, ImmediateEnds, ImmediateCancelled, queueVars
<1>5. CASE PressureReported \/ TimePasses \/ UNCHANGED dispatchVars
  BY <1>1, <1>5 DEF PressureReported, TimePasses, Tick, dispatchVars, queueVars
<1>6. CASE OperatorActs
  BY <1>6 DEF OperatorActs, Pause, Resume
<1>7. CASE StopRequested \/ StopEnds
  BY <1>7 DEF StopRequested, StopEnds, queueVars
<1>8. CASE StopDrains
  BY <1>8 DEF StopDrains, DrainBegins
<1>9. CASE StopCloses \/ StopSkipsDrain
  BY <1>9 DEF StopCloses, StopSkipsDrain, CloseAndCancel
<1>10. QED
  BY <1>2, <1>3, <1>4, <1>5, <1>6, <1>7, <1>8, <1>9 DEF DispatchNext, StopNext

\* In the beginning nobody is anywhere.
LEMMA DispatchBegins == DispatchInit => DispatchInv /\ Contract!ContractInit
<1> SUFFICES ASSUME DispatchInit PROVE DispatchInv /\ Contract!ContractInit
  OBVIOUS
<1>1. QueueInv /\ Contract!ContractInit
  BY ContractBegins, CountersInit DEF DispatchInit, QueueInv
<1>2. SchedInv
  BY SchedInvInit DEF DispatchInit
<1>3. RunningImmediates = {} /\ CallsInProgress = {}
  BY DEF DispatchInit, QueueInit, RunningImmediates, CallsInProgress
<1>4. PlacesMatchSlots
  BY TwoKinds
  DEF DispatchInit, QueueInit, SchedInit, PlacesMatchSlots, Held, Waiting
<1>5. EntryInv
  BY <1>3, <1>4, FS_EmptySet DEF EntryInv, DispatchInit
<1>6. OpenUntilStopped
  BY DEF OpenUntilStopped, DispatchInit, QueueInit
<1>7. QED
  BY <1>1, <1>2, <1>5, <1>6 DEF DispatchInv

\* The invariant is inductive, and every step is one of the contract.
LEMMA DispatchStep ==
  DispatchInv /\ [DispatchNext]_dispatchVars => DispatchInv' /\ Contract!ContractNext
<1> SUFFICES ASSUME DispatchInv, [DispatchNext]_dispatchVars
             PROVE  DispatchInv' /\ Contract!ContractNext
  OBVIOUS
<1>1. QueueInv' /\ Contract!ContractNext
  BY QueueInComposition DEF DispatchInv
<1>2. SchedInv'
  BY StepOfScheduler, SchedInvStep DEF DispatchInv
<1>3. EntryInv'
  BY EntryStep
<1>4. OpenUntilStopped'
  BY OpenStep DEF DispatchInv
<1>5. QED
  BY <1>1, <1>2, <1>3, <1>4 DEF DispatchInv

\* The invariant holds of every behaviour of the composition.
THEOREM DispatchInvariant == DispatchSpec => []DispatchInv
<1>1. DispatchInv /\ [DispatchNext]_dispatchVars => DispatchInv'
  BY DispatchStep
<1>2. DispatchInit => DispatchInv
  BY DispatchBegins
<1>3. QED
  BY <1>1, <1>2, PTL DEF DispatchSpec

-----------------------------------------------------------------------------
(* What follows from it                                                    *)

\* Queue and scheduler agree about every worker, and no failure or cancellation
\* leaves a slot or a count behind, for any number of tasks.
THEOREM TasksAndSlotsAgree == DispatchSpec => []WorkersAndSlotsAgree
<1>1. DispatchInv => WorkersAndSlotsAgree
  <2> SUFFICES ASSUME DispatchInv PROVE WorkersAndSlotsAgree
    OBVIOUS
  <2>1. RunningImmediates = {i \in Immediates : slot[i] \in {"heldFg", "heldBg"}}
    BY DEF DispatchInv, EntryInv, PlacesMatchSlots, RunningImmediates, Held
  <2>2. QED
    BY <2>1
    DEF DispatchInv, SchedInv, EntryInv, PlacesMatchSlots, CallsInProgress, Held, Waiting,
        WorkersAndSlotsAgree
<1>2. QED
  BY <1>1, DispatchInvariant, PTL

\* No worker and no immediate request sleeps through room for it.
THEOREM NoMissedRoom == DispatchSpec => []SleepersCannotRun
<1>1. DispatchInv => SleepersCannotRun
  BY DEF DispatchInv, SchedInv
<1>2. QED
  BY <1>1, DispatchInvariant, PTL

\* The contract of a request's life survives the composition: what is refused in
\* front of the queue is refused once, and the close of stop() answers what it
\* sweeps.
THEOREM DispatchImplementsContract == DispatchSpec => ImplementsContract
<1>1. DispatchInit => Contract!ContractInit
  BY DispatchBegins
<1>2. DispatchInv /\ [DispatchNext]_dispatchVars
        => [Contract!ContractNext]_(Contract!contractVars)
  BY DispatchStep
<1>3. QED
  BY <1>1, <1>2, DispatchInvariant, PTL
  DEF DispatchSpec, ImplementsContract, Contract!ContractSpec

\* A stop whose drain succeeded finds the heap empty and the workers without a
\* request: the counter it trusts counts every worker that holds one, as all
\* that is queued is background work.
THEOREM CleanStopIsComplete == DispatchSpec => CleanStopLosesNothing
<1> DEFINE Clean == /\ runtimePc = "draining" /\ runtimePc' = "joining"
                    /\ drainPc'[ShutdownDrain] = "drained"
                    => heap = {} /\ \A w \in Workers : job[w] = NoRequest
<1>1. ASSUME DispatchInv, [DispatchNext]_dispatchVars,
             runtimePc = "draining", runtimePc' = "joining",
             drainPc'[ShutdownDrain] = "drained"
      PROVE  heap = {} /\ \A w \in Workers : job[w] = NoRequest
  <2>1. StopCloses
    <3>1. runtimePc' # runtimePc
      BY <1>1
    <3>2. ASSUME NEW r \in Requests, RequestNext(r) PROVE FALSE
      BY <3>1, <3>2
      DEF RequestNext, TurnedAway, Queues, QueuedCallEnds, QueuedCallCancelled
    <3>3. ASSUME NEW w \in Workers, WorkerStep(w) PROVE FALSE
      BY <3>1, <3>3
      DEF WorkerStep, WorkerGets, WorkerAcquires, WorkerFinishes, WorkerCancelled
    <3>4. ASSUME NEW i \in Immediates,
                 ImmediateAsks(i) \/ ImmediateEnds(i) \/ ImmediateCancelled(i)
          PROVE  FALSE
      BY <3>1, <3>4 DEF ImmediateAsks, ImmediateEnds, ImmediateCancelled
    <3>5. CASE PressureReported \/ OperatorActs \/ TimePasses \/ UNCHANGED dispatchVars
      BY <3>1, <3>5 DEF PressureReported, OperatorActs, TimePasses, dispatchVars
    <3>6. CASE StopRequested \/ StopDrains \/ StopSkipsDrain \/ StopEnds
      BY <1>1, <3>6 DEF StopRequested, StopDrains, StopSkipsDrain, StopEnds
    <3>7. QED
      BY <1>1, <3>2, <3>3, <3>4, <3>5, <3>6 DEF DispatchNext, StopNext
  <2>2. QueueTypeOK /\ CountersMatchWorkers /\ lifecycle # "closed"
    BY <1>1 DEF DispatchInv, QueueInv, ContractInv, OwnerInv, OpenUntilStopped
  <2>3. ShutdownDrain \in Drainers
    BY DispatchAssumption
  <2>4. DrainComplete
    BY <1>1, <2>1, <2>2, <2>3 DEF StopCloses, QueueTypeOK
  <2>5. heap = {} /\ queueBg = 0
    BY <2>2, <2>4 DEF DrainComplete
  <2>6. HoldersIn(FALSE) = {}
    <3>1. IsFiniteSet(HoldersIn(FALSE)) /\ Cardinality(HoldersIn(FALSE)) = 0
      BY <2>2, <2>5, HoldersFinite, CountersByLane
    <3>2. QED
      BY <3>1, FS_EmptySet
  <2>7. ASSUME NEW w \in Workers PROVE job[w] = NoRequest
    <3>1. job[w] \in Requests => ~Foreground(job[w])
      BY DispatchAssumption DEF Foreground
    <3>2. job[w] \in Requests => w \in HoldersIn(FALSE)
      BY <3>1, QueueAssumption DEF HoldersIn, Foreground
    <3>3. QED
      BY <2>2, <2>6, <3>2 DEF QueueTypeOK
  <2>8. QED
    BY <2>5, <2>7
<1>2. DispatchInv /\ [DispatchNext]_dispatchVars => [Clean]_dispatchVars
  BY <1>1
<1>3. QED
  BY <1>2, DispatchInvariant, PTL DEF DispatchSpec, CleanStopLosesNothing

=============================================================================
