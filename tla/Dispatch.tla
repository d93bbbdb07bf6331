------------------------------ MODULE Dispatch ------------------------------
(***************************************************************************)
(* The queue and the scheduler as build_runtime() composes them            *)
(* (computecop/app.py): throttled background requests go through the queue *)
(* to its workers, which take their slots with the scheduler's hooks;      *)
(* other admitted requests run at once in a slot of their own              *)
(* (execute_immediate); the telemetry loop moves the limits; and           *)
(* ComputeCopRuntime.stop() ends everything.                               *)
(***************************************************************************)
EXTENDS RequestQueue, AdaptiveScheduler

CONSTANTS
  Immediates,     \* the execute_immediate() calls of a behaviour
  Prompts,        \* those of foreground or interactive priority
  ShutdownDrain   \* the drain() call that stop() makes

\* start() creates one worker per configured background execution. The
\* classifier gives background priority to every request it calls a background
\* request, and only those are queued.
ASSUME DispatchAssumption ==
  /\ Clients = Workers \cup Immediates
  /\ Workers \cap Immediates = {}
  /\ Cardinality(Workers) = MaxBackground
  /\ Prompts \subseteq Immediates
  /\ Drainers = {ShutdownDrain}
  /\ \A r \in Requests : Priority[r] = "background"

VARIABLES
  immPc,       \* where each execute_immediate() call stands
  immediate,   \* _immediate_executions
  queuedExec,  \* _queued_executions
  runtimePc    \* where ComputeCopRuntime.stop() stands

entryVars    == <<immPc, immediate, queuedExec>>
dispatchVars == <<queueVars, schedVars, entryVars, runtimePc>>

DispatchInit ==
  /\ QueueInit
  /\ SchedInit
  /\ immPc = [i \in Immediates |-> "new"]
  /\ immediate = 0 /\ queuedExec = 0
  /\ runtimePc = "up"

-----------------------------------------------------------------------------
(* A throttled background request: _handle_inference_request and           *)
(* execute_queued                                                          *)

\* accepts_background_work() is false: answered 503 before the queue sees it.
TurnedAway(r) ==
  /\ caller[r] = "new"
  /\ lifecycle # "accepting"
  /\ caller' = [caller EXCEPT ![r] = "refused"]
  /\ UNCHANGED <<admissionVars, heapVars, future, cancelled, counterVars,
                 workerVars, schedVars, entryVars, runtimePc>>

\* A full queue raises at once, so the count of queued executions is back.
Queues(r) ==
  /\ lifecycle = "accepting"
  /\ \/ SubmitAccepted(r) /\ queuedExec' = queuedExec + 1
     \/ SubmitFull(r) /\ UNCHANGED queuedExec
  /\ UNCHANGED <<schedVars, immPc, immediate, runtimePc>>

QueuedCallEnds(r) ==
  /\ CallerAnswered(r) \/ CallerLeaves(r)
  /\ queuedExec' = AtLeastZero(queuedExec - 1)
  /\ UNCHANGED <<schedVars, immPc, immediate, runtimePc>>

QueuedCallCancelled(r) ==
  CallerCancelled(r) /\ UNCHANGED <<schedVars, entryVars, runtimePc>>

-----------------------------------------------------------------------------
(* The workers, with _acquire_for_metadata and _release_for_metadata       *)

WorkerGets(w) ==
  /\ \/ (GetStops(w) \/ GetWaits(w)) /\ UNCHANGED schedVars
     \/ \E r \in Requests :
          LET fg == Foreground(r)
          IN  \/ GetTakes(w, r, FALSE) /\ Grant(w, fg)
              \/ GetTakes(w, r, TRUE) /\ Block(w, fg)
  /\ UNCHANGED <<entryVars, runtimePc>>

WorkerAcquires(w) ==
  /\ w \notin doomed
  /\ \E fg \in BOOLEAN :
       /\ AsksAgain(w, fg)
       /\ \/ Grant(w, fg) /\ Acquired(w)
          \/ Block(w, fg) /\ UNCHANGED queueVars
  /\ UNCHANGED <<entryVars, runtimePc>>

WorkerFinishes(w) ==
  Finishes(w) /\ Release(w) /\ UNCHANGED <<entryVars, runtimePc>>

\* Mutant of WorkerCancelled: a worker cut short keeps its slot.
WorkerCancelledKeepsSlot(w) ==
  /\ CancelNext(w)
  /\ UNCHANGED <<schedVars, entryVars, runtimePc>>

WorkerCancelled(w) ==
  /\ \/ CancelledInGet(w) /\ UNCHANGED schedVars
     \/ CancelledAcquiring(w) /\ GiveUp(w)
     \/ CancelledRunning(w) /\ Release(w)
  /\ UNCHANGED <<entryVars, runtimePc>>

-----------------------------------------------------------------------------
(* execute_immediate                                                       *)

ImmediateAsks(i) ==
  LET fg == i \in Prompts
  IN  /\ \/ immPc[i] = "new"
         \/ immPc[i] = "waiting" /\ AsksAgain(i, fg)
      /\ \/ /\ Grant(i, fg)
            /\ immPc' = [immPc EXCEPT ![i] = "running"]
            /\ immediate' = immediate + 1
         \/ /\ Block(i, fg)
            /\ immPc' = [immPc EXCEPT ![i] = "waiting"]
            /\ UNCHANGED immediate
      /\ UNCHANGED <<queueVars, queuedExec, runtimePc>>

\* The runner returns, raises or is cancelled.
ImmediateEnds(i) ==
  /\ immPc[i] = "running"
  /\ immPc' = [immPc EXCEPT ![i] = "over"]
  /\ immediate' = AtLeastZero(immediate - 1)
  /\ Release(i)
  /\ UNCHANGED <<queueVars, queuedExec, runtimePc>>

ImmediateCancelled(i) ==
  /\ immPc[i] = "waiting"
  /\ immPc' = [immPc EXCEPT ![i] = "over"]
  /\ GiveUp(i)
  /\ UNCHANGED <<queueVars, immediate, queuedExec, runtimePc>>

-----------------------------------------------------------------------------
(* The telemetry loop, the operator and stop()                             *)

\* update_runtime() hands a pressure report to the scheduler, until stop()
\* has stopped the telemetry loop.
PressureReported ==
  /\ runtimePc \in {"up", "stopping"}
  /\ \E f \in ForegroundLimits, b \in BackgroundLimits : UpdatePressure(f, b)
  /\ UNCHANGED <<queueVars, entryVars, runtimePc>>

\* The routes /queue/pause and /queue/resume. The dashboard, which can drain
\* as well, has a runtime of its own, without requests.
OperatorActs == (Pause \/ Resume) /\ UNCHANGED <<schedVars, entryVars, runtimePc>>

\* stop() begins and stops the health watcher and the telemetry loop, each of
\* which it awaits.
StopRequested ==
  /\ runtimePc = "up"
  /\ runtimePc' = "stopping"
  /\ UNCHANGED <<queueVars, schedVars, entryVars>>

StopDrains ==
  /\ runtimePc = "stopping"
  /\ runtimePc' = "draining"
  /\ DrainBegins(ShutdownDrain)
  /\ UNCHANGED <<schedVars, entryVars>>

\* close() and the cancellation of the workers follow the drain without a
\* suspension point.
CloseAndCancel ==
  /\ CloseBody
  /\ doomed' = Unfinished
  /\ runtimePc' = "joining"
  /\ UNCHANGED <<schedVars, entryVars>>

StopCloses ==
  /\ runtimePc = "draining"
  /\ drainPc' = [drainPc EXCEPT ![ShutdownDrain] =
                   IF DrainComplete THEN "drained" ELSE "timedout"]
  /\ CloseAndCancel

\* shutdown_drain_seconds is zero.
StopSkipsDrain ==
  /\ runtimePc = "stopping"
  /\ UNCHANGED drainPc
  /\ CloseAndCancel

StopEnds ==
  /\ runtimePc = "joining"
  /\ Unfinished = {}
  /\ runtimePc' = "stopped"
  /\ UNCHANGED <<queueVars, schedVars, entryVars>>

StopNext == StopDrains \/ StopCloses \/ StopSkipsDrain \/ StopEnds

TimePasses == Tick /\ UNCHANGED <<schedVars, entryVars, runtimePc>>

RequestNext(r) ==
  TurnedAway(r) \/ Queues(r) \/ QueuedCallEnds(r) \/ QueuedCallCancelled(r)

WorkerStep(w) ==
  WorkerGets(w) \/ WorkerAcquires(w) \/ WorkerFinishes(w) \/ WorkerCancelled(w)

DispatchNext ==
  \/ \E r \in Requests : RequestNext(r)
  \/ \E w \in Workers : WorkerStep(w)
  \/ \E i \in Immediates :
       ImmediateAsks(i) \/ ImmediateEnds(i) \/ ImmediateCancelled(i)
  \/ PressureReported \/ OperatorActs
  \/ StopRequested \/ StopNext
  \/ TimePasses

DispatchSpec == DispatchInit /\ [][DispatchNext]_dispatchVars

\* The loop runs what is ready: answered callers, woken workers and immediate
\* requests, and the steps of stop(). A runner ends because every upstream
\* call has a timeout. Nobody has to send a request, press a key or stop, and
\* no pressure report has to come.
DispatchFairness ==
  /\ \A r \in Requests : WF_dispatchVars(QueuedCallEnds(r))
  /\ \A w \in Workers : WF_dispatchVars(WorkerStep(w))
  /\ \A i \in Immediates :
       WF_dispatchVars((immPc[i] = "waiting" /\ ImmediateAsks(i)) \/ ImmediateEnds(i))
  /\ WF_dispatchVars(StopNext)

FairDispatchSpec == DispatchSpec /\ DispatchFairness

-----------------------------------------------------------------------------
(* Properties                                                              *)

\* The queue and the scheduler agree about every worker: it holds a slot
\* exactly while it runs a request, and waits for one exactly while its hook
\* blocks. The slot counters are the executions in progress and the counters of
\* the snapshot the calls in progress, so no failure or cancellation leaves a slot
\* or a count behind.
WorkersAndSlotsAgree ==
  /\ SlotsMatchHolders
  /\ \A w \in Workers :
       /\ pc[w] = "running" <=> slot[w] \in {"heldFg", "heldBg"}
       /\ pc[w] = "acquiring" <=> slot[w] \in {"waitFg", "waitBg"}
  /\ immediate = Cardinality({i \in Immediates : slot[i] \in {"heldFg", "heldBg"}})
  /\ queuedExec = Cardinality({r \in Requests : caller[r] \in {"waiting", "leaving"}})

\* A stop whose drain succeeded sweeps no queued request and cuts no running
\* one short, although the operator may have resumed the queue meanwhile.
CleanStopLosesNothing ==
  [][ /\ runtimePc = "draining" /\ runtimePc' = "joining"
      /\ drainPc'[ShutdownDrain] = "drained"
      => heap = {} /\ \A w \in Workers : job[w] = NoRequest ]_dispatchVars

\* A prompt that waits for a slot gets one or gives up: pressure narrows the
\* foreground limit but never below one, and background work does not count.
PromptsGetSlots ==
  \A i \in Prompts : immPc[i] = "waiting" ~> immPc[i] \in {"running", "over"}

\* A queued request is answered in the end, although every slot it needs may
\* go to immediate requests first, unless the operator pauses the queue,
\* memory yields, or the runtime stops.
QueuedWorkIsAnswered ==
  \A r \in Requests :
    caller[r] = "waiting" ~>
      \/ caller[r] # "waiting"
      \/ lifecycle = "paused" \/ effBg = 0 \/ runtimePc # "up"

\* stop() ends: the workers it cancels all end, wherever they are.
StopComesToAnEnd == runtimePc = "stopping" ~> runtimePc = "stopped"

=============================================================================
