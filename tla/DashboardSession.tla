-------------------------- MODULE DashboardSession -------------------------
(***************************************************************************)
(* One session of the terminal dashboard (computecop/cli.py, dashboard):   *)
(* the keys of the operator with the confirmation of a drain               *)
(* (dashboard_input.py, dashboard_controls.py, dashboard.py), and the way  *)
(* from the end of the dashboard, or an interrupt, through                 *)
(* ComputeCopRuntime.stop to the end of the process (shutdown.py, app.py). *)
(*                                                                         *)
(* The runtime of this process serves no requests, so its queue is always  *)
(* empty: a drain of it ends within the step that begins it, and only its  *)
(* lifecycle is kept. Time is counted in ticks of TickBound and below.     *)
(***************************************************************************)
EXTENDS Integers, Sequences, FiniteSets

CONSTANTS
  ConfirmationTimeout,   \* how long a drain may be confirmed, in ticks
  StatusTimeout,         \* how long a status message is shown
  MaxPresses,            \* bound: the keys pressed in a session
  MaxInterrupts          \* bound: the interrupts the process gets

ASSUME SessionAssumption ==
  /\ StatusTimeout \in Nat /\ ConfirmationTimeout \in Nat
  /\ StatusTimeout < ConfirmationTimeout
  /\ MaxPresses \in Nat
  /\ MaxInterrupts \in 0..3

VARIABLES
  presses,      \* the number of keys pressed so far
  keys,         \* what DashboardKeyReader holds
  batch,        \* the polled keys that are still to be handled
  ui,           \* DashboardInteractionState: whether a drain is pending, and the
                \* age of the status message, or NoAge
  armedFor,     \* history: the age of the press that a confirmation refers to
  quit,         \* quit_requested
  lifecycle,    \* of the queue
  screen,       \* the dashboard task: before, drawing, handling or ended
  screenDue,    \* the dashboard task is to be cancelled when it next suspends
  main,         \* where the main task stands
  services,     \* the tasks that stop() cancels and waits for
  upstream,     \* the HTTP client
  coordinator,  \* the flags of ShutdownCoordinator
  interrupts    \* the number of interrupts so far

keyVars     == <<presses, keys, batch, ui, armedFor, quit>>
stopVars    == <<main, services, upstream, coordinator>>
sessionVars == <<keyVars, lifecycle, screen, screenDue, stopVars, interrupts>>

\* c stands for the escape key as well.
Key == {"q", "p", "r", "d", "c", "t"}

Service == {"watcher", "loop", "workers"}

NoAge == -1
NoStatus == [pending |-> FALSE, age |-> NoAge]
TickBound == ConfirmationTimeout + 1

SessionOver == main \in {"done", "killed"}

SessionInit ==
  /\ presses = 0 /\ keys = <<>> /\ batch = <<>>
  /\ ui = NoStatus /\ armedFor = NoAge
  /\ quit = FALSE
  /\ lifecycle = "accepting"
  /\ screen = "before" /\ screenDue = FALSE
  /\ main = "before"
  /\ services = [s \in Service |-> "before"]
  /\ upstream = "open"
  /\ coordinator = "idle"
  /\ interrupts = 0

\* runtime.start(), then the dashboard task and its key reader. start() does not
\* suspend, so nothing comes in between.
SessionStarts ==
  /\ main = "before"
  /\ main' = "watching"
  /\ services' = [s \in Service |-> "running"]
  /\ screen' = "drawing"
  /\ UNCHANGED <<keyVars, lifecycle, screenDue, upstream, coordinator, interrupts>>

-----------------------------------------------------------------------------
(* The operator and the clock                                              *)

\* The reader thread stores a key, until the dashboard stops it.
Press(k) ==
  /\ screen \in {"drawing", "handling"}
  /\ presses < MaxPresses
  /\ presses' = presses + 1
  /\ keys' = Append(keys, k)
  /\ UNCHANGED <<batch, ui, armedFor, quit, lifecycle, screen, screenDue, stopVars,
                 interrupts>>

Older(age) == IF age \in 0..(TickBound - 1) THEN age + 1 ELSE age

\* One tick, for both ages at once, while the dashboard draws.
TimePasses ==
  /\ screen = "drawing"
  /\ ui' = [ui EXCEPT !.age = Older(@)]
  /\ armedFor' = Older(armedFor)
  /\ UNCHANGED <<presses, keys, batch, quit, lifecycle, screen, screenDue, stopVars,
                 interrupts>>

-----------------------------------------------------------------------------
(* DashboardKeyHandler                                                     *)

\* _set_status with the confirmation pending or not.
Status(pending) == [pending |-> pending, age |-> 0]

\* expire_timers: one timer serves the message and the confirmation.
AfterTimers ==
  IF ui.pending /\ ui.age > ConfirmationTimeout THEN Status(FALSE)
  ELSE IF ~ui.pending /\ ui.age > StatusTimeout THEN NoStatus
  ELSE ui

\* The next key of the batch is k, and no key of it has asked to quit.
Handles(k) ==
  /\ screen = "handling" /\ ~quit
  /\ batch # <<>> /\ k = Head(batch)
  /\ batch' = Tail(batch)
  /\ UNCHANGED <<presses, keys, screen, screenDue, stopVars, interrupts>>

\* A second D: start_drain(), which comes back when the drain of the empty queue
\* has ended.
ConfirmsDrain ==
  /\ AfterTimers.pending
  /\ Handles("d")
  /\ ui' = Status(FALSE) /\ armedFor' = NoAge
  /\ lifecycle' = IF lifecycle = "closed" THEN "closed" ELSE "draining"
  /\ UNCHANGED quit

\* Q is not the quit key while a confirmation is pending.
CancelsDrain ==
  /\ AfterTimers.pending
  /\ Handles("c") \/ Handles("q")
  /\ ui' = Status(FALSE) /\ armedFor' = NoAge
  /\ UNCHANGED <<quit, lifecycle>>

\* Mutant of Unanswered: the prompt is shown again, with a new time.
UnansweredReprompted ==
  /\ AfterTimers.pending
  /\ \E k \in {"p", "r", "t"} : Handles(k)
  /\ ui' = Status(TRUE)
  /\ UNCHANGED <<armedFor, quit, lifecycle>>

\* Every other key is dropped while the confirmation is pending.
Unanswered ==
  /\ AfterTimers.pending
  /\ \E k \in {"p", "r", "t"} : Handles(k)
  /\ ui' = AfterTimers
  /\ UNCHANGED <<armedFor, quit, lifecycle>>

ArmsDrain ==
  /\ ~AfterTimers.pending
  /\ Handles("d")
  /\ ui' = Status(TRUE) /\ armedFor' = 0
  /\ UNCHANGED <<quit, lifecycle>>

Quits ==
  /\ ~AfterTimers.pending
  /\ Handles("q")
  /\ ui' = AfterTimers /\ armedFor' = NoAge
  /\ quit' = TRUE
  /\ UNCHANGED lifecycle

\* pause() and resume() of a queue that is not closed, also while it drains.
PausesOrResumes ==
  /\ ~AfterTimers.pending
  /\ \/ Handles("p") /\ lifecycle' = (IF lifecycle = "closed" THEN "closed" ELSE "paused")
     \/ Handles("r") /\ lifecycle' = (IF lifecycle = "closed" THEN "closed" ELSE "accepting")
  /\ ui' = Status(FALSE) /\ armedFor' = NoAge
  /\ UNCHANGED quit

\* T switches the details, which are only drawn; C means nothing here.
OtherKeys ==
  /\ ~AfterTimers.pending
  /\ \/ Handles("t") /\ ui' = Status(FALSE)
     \/ Handles("c") /\ ui' = AfterTimers
  /\ armedFor' = NoAge
  /\ UNCHANGED <<quit, lifecycle>>

HandlesKey ==
  \/ ConfirmsDrain \/ CancelsDrain \/ Unanswered
  \/ ArmsDrain \/ Quits \/ PausesOrResumes \/ OtherKeys

-----------------------------------------------------------------------------
(* Dashboard.run                                                           *)

\* The screen is drawn and the keys are polled; nothing suspends until the whole
\* batch is handled, so an interrupt waits that long.
PollsKeys ==
  /\ screen = "drawing" /\ ~screenDue
  /\ screen' = "handling"
  /\ batch' = keys /\ keys' = <<>>
  /\ UNCHANGED <<presses, ui, armedFor, quit, lifecycle, screenDue, stopVars, interrupts>>

BatchDone ==
  /\ screen = "handling" /\ batch = <<>> /\ ~quit
  /\ screen' = "drawing"
  /\ ui' = AfterTimers
  /\ UNCHANGED <<presses, keys, batch, armedFor, quit, lifecycle, screenDue, stopVars,
                 interrupts>>

\* The task is over: its state goes with it, and the key reader is stopped.
ScreenGone ==
  /\ screen' = "ended" /\ screenDue' = FALSE
  /\ batch' = <<>> /\ keys' = <<>>
  /\ ui' = NoStatus /\ armedFor' = NoAge
  /\ UNCHANGED <<presses, quit, lifecycle, stopVars, interrupts>>

\* A quit ends the task with a CancelledError of its own and drops what is left of
\* the batch; so does a cancellation, where the task suspends.
ScreenEnds ==
  /\ \/ screen = "handling" /\ quit
     \/ screen = "drawing" /\ screenDue
  /\ ScreenGone

\* Drawing raises: the exception is on its way out while the runtime is stopped.
ScreenFails ==
  /\ screen = "drawing"
  /\ ScreenGone

-----------------------------------------------------------------------------
(* ShutdownCoordinator and ComputeCopRuntime.stop                          *)

\* task.cancel(), before the task is awaited.
CancelService(s) == services' = [services EXCEPT ![s] = IF @ = "running" THEN "cancelled" ELSE @]

\* Mutant of StopsWatcher: stop() waits for a task that nobody has cancelled.
StopsWatcherWaiting ==
  /\ main = "watching" /\ screen = "ended"
  /\ coordinator' = "requested"
  /\ main' = "watcher"
  /\ UNCHANGED <<keyVars, lifecycle, screen, screenDue, services, upstream, interrupts>>

\* The dashboard task is over, in whatever way: cancel_task() finds it done, and
\* shutdown_runtime() calls stop(), which begins with the health watcher.
StopsWatcher ==
  /\ main = "watching" /\ screen = "ended"
  /\ coordinator' = "requested"
  /\ CancelService("watcher")
  /\ main' = "watcher"
  /\ UNCHANGED <<keyVars, lifecycle, screen, screenDue, upstream, interrupts>>

StopsLoop ==
  /\ main = "watcher" /\ services["watcher"] = "ended"
  /\ CancelService("loop")
  /\ main' = "loop"
  /\ UNCHANGED <<keyVars, lifecycle, screen, screenDue, upstream, coordinator, interrupts>>

\* The drain and close() of an empty queue do not suspend, so the workers are
\* cancelled in the same step.
StopsWorkers ==
  /\ main = "loop" /\ services["loop"] = "ended"
  /\ lifecycle' = "closed"
  /\ CancelService("workers")
  /\ main' = "workers"
  /\ UNCHANGED <<keyVars, screen, screenDue, upstream, coordinator, interrupts>>

ClosesUpstream ==
  /\ main = "workers" /\ services["workers"] = "ended"
  /\ upstream' = "closing"
  /\ main' = "upstream"
  /\ UNCHANGED <<keyVars, lifecycle, screen, screenDue, services, coordinator, interrupts>>

StopReturns ==
  /\ main = "upstream"
  /\ upstream' = "closed"
  /\ coordinator' = "complete"
  /\ main' = "done"
  /\ UNCHANGED <<keyVars, lifecycle, screen, screenDue, services, interrupts>>

\* A cancelled task ends. The worker tasks end as well because the queue is closed.
ServiceEnds(s) ==
  /\ ~SessionOver
  /\ services[s] = "cancelled"
  /\ services' = [services EXCEPT ![s] = "ended"]
  /\ UNCHANGED <<keyVars, lifecycle, screen, screenDue, main, upstream, coordinator,
                 interrupts>>

-----------------------------------------------------------------------------
(* Interrupts                                                              *)

\* Mutant of MainCancelled: the wait for the watcher lets the cancellation through,
\* and the finally blocks mark the runtime as stopped.
MainCancelledEverywhere ==
  \/ /\ main \in {"watcher", "upstream"}
     /\ main' = "done" /\ upstream' = IF main = "upstream" THEN "cut" ELSE upstream
     /\ coordinator' = "complete"
     /\ UNCHANGED screenDue
  \/ /\ main = "watching"
     /\ screenDue' = (screen # "ended")
     /\ UNCHANGED <<main, upstream, coordinator>>
  \/ /\ main \notin {"watching", "watcher", "upstream"}
     /\ UNCHANGED <<screenDue, main, upstream, coordinator>>

\* The main task is cancelled: while it waits for the dashboard, the dashboard is.
\* While stop() waits for a task that it has cancelled, that task is cancelled once
\* more and the wait swallows the error, so stop() goes on. Only the close of the
\* HTTP client is cut short, and the finally blocks run.
MainCancelled ==
  \/ /\ main = "watching"
     /\ screenDue' = (screen # "ended")
     /\ UNCHANGED <<main, upstream, coordinator>>
  \/ /\ main = "upstream"
     /\ main' = "done" /\ upstream' = "cut"
     /\ coordinator' = "complete"
     /\ UNCHANGED screenDue
  \/ /\ main \notin {"watching", "upstream"}
     /\ UNCHANGED <<screenDue, main, upstream, coordinator>>

\* asyncio.run has a handler that cancels the main task at the first interrupt.
FirstInterrupt ==
  /\ interrupts = 0 /\ MainCancelled
  /\ UNCHANGED services

\* At the second one the loop is left, and the cleanup of asyncio.run cancels every
\* task and waits for all of them.
SecondInterrupt ==
  /\ interrupts = 1 /\ MainCancelled
  /\ services' = [s \in Service |-> IF services[s] = "running" THEN "cancelled"
                                    ELSE services[s]]

\* The third one interrupts that cleanup, and the process ends where it stands.
ThirdInterrupt ==
  /\ interrupts = 2
  /\ main' = "killed"
  /\ UNCHANGED <<screenDue, services, upstream, coordinator>>

Interrupt ==
  /\ main # "before" /\ ~SessionOver
  /\ interrupts < MaxInterrupts
  /\ FirstInterrupt \/ SecondInterrupt \/ ThirdInterrupt
  /\ interrupts' = interrupts + 1
  /\ UNCHANGED <<keyVars, lifecycle, screen>>

-----------------------------------------------------------------------------
(* The session                                                             *)

ScreenRuns == ~SessionOver /\ (HandlesKey \/ PollsKeys \/ BatchDone \/ ScreenEnds)

MainRuns == StopsWatcher \/ StopsLoop \/ StopsWorkers \/ ClosesUpstream \/ StopReturns

SessionNext ==
  \/ SessionStarts
  \/ ~SessionOver /\ ((\E k \in Key : Press(k)) \/ TimePasses \/ ScreenFails)
  \/ ScreenRuns
  \/ MainRuns
  \/ \E s \in Service : ServiceEnds(s)
  \/ Interrupt

SessionSpec == SessionInit /\ [][SessionNext]_sessionVars

\* Drawing ends, tasks that can run do, cancelled tasks end, and the HTTP client,
\* which no request uses, closes.
SessionFairness ==
  /\ WF_sessionVars(ScreenRuns)
  /\ WF_sessionVars(MainRuns)
  /\ \A s \in Service : WF_sessionVars(ServiceEnds(s))

-----------------------------------------------------------------------------
(* Properties                                                              *)

SessionTypeOK ==
  /\ presses \in Nat /\ keys \in Seq(Key) /\ batch \in Seq(Key)
  /\ ui \in [pending : BOOLEAN, age : NoAge..TickBound]
  /\ armedFor \in NoAge..TickBound
  /\ quit \in BOOLEAN
  /\ lifecycle \in {"accepting", "paused", "draining", "closed"}
  /\ screen \in {"before", "drawing", "handling", "ended"}
  /\ screenDue \in BOOLEAN
  /\ main \in {"before", "watching", "watcher", "loop", "workers", "upstream", "done",
               "killed"}
  /\ services \in [Service -> {"before", "running", "cancelled", "ended"}]
  /\ upstream \in {"open", "closing", "closed", "cut"}
  /\ coordinator \in {"idle", "requested", "complete"}
  /\ interrupts \in 0..3

\* An operator drains the queue on purpose: a D begins a drain only if a D before
\* it has armed it no longer than the confirmation timeout ago, and no key since then
\* has called it off. The one timer of the interface serves the messages of all keys.
DrainsAreConfirmed ==
  [][lifecycle' = "draining" /\ lifecycle # "draining" =>
       armedFor \in 0..ConfirmationTimeout]_sessionVars

\* An interrupt does not cut the stop short: the HTTP client is closed only when no
\* task can use it, and whether the operator quits, the screen fails or interrupts
\* come at any point of the stop, the session ends with every task ended, the queue
\* closed and the client closed, or cut in its close. Only a third interrupt kills it.
StopIsComplete ==
  /\ upstream # "open" =>
       lifecycle = "closed" /\ \A s \in Service : services[s] = "ended"
  /\ main = "done" => upstream \in {"closed", "cut"}
  /\ upstream = "cut" => interrupts > 0

\* A session that the operator quits or interrupts comes to its end.
SessionEnds == quit \/ interrupts > 0 ~> SessionOver

=============================================================================
