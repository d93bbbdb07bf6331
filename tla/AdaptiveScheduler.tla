-------------------------- MODULE AdaptiveScheduler -------------------------
(***************************************************************************)
(* The capacity slots of computecop/scheduler.py (class AdaptiveScheduler): *)
(* foreground and background executions are granted below the limits that  *)
(* update_pressure() sets from the policy, and whoever cannot be granted   *)
(* waits on one condition that every release and every change of the       *)
(* limits notifies.                                                        *)
(*                                                                         *)
(* A client is a task that acquires and releases slots: a queue worker     *)
(* through its hooks, or an immediate request.                             *)
(***************************************************************************)
EXTENDS Integers, FiniteSets

CONSTANTS
  Clients,        \* the tasks that acquire slots
  MaxForeground,  \* PolicyConfig.max_foreground_concurrency
  MaxBackground   \* PolicyConfig.max_background_concurrency

ASSUME SchedulerAssumption ==
  /\ IsFiniteSet(Clients)
  /\ MaxForeground \in Nat \ {0}
  /\ MaxBackground \in Nat \ {0}

VARIABLES
  effFg,    \* _effective_foreground
  effBg,    \* _effective_background
  slotFg,   \* _running_foreground
  slotBg,   \* _running_background
  slot,     \* what each client holds or waits for
  woken     \* waiting clients whose condition.wait() is released

limitVars == <<effFg, effBg>>
slotVars  == <<slotFg, slotBg, slot, woken>>
schedVars == <<limitVars, slotVars>>

TotalCapacity == MaxForeground + MaxBackground

\* What compute_concurrency_limits() can return: background work is stopped
\* only while memory yields, foreground work never.
ForegroundLimits == 1..MaxForeground
BackgroundLimits == 0..MaxBackground

HeldAs(fg)    == IF fg THEN "heldFg" ELSE "heldBg"
WaitingAs(fg) == IF fg THEN "waitFg" ELSE "waitBg"

AtLeastZero(n) == IF n < 0 THEN 0 ELSE n

\* _can_acquire_background_locked
CanAcquireBackground ==
  /\ effBg > 0
  /\ slotBg < effBg
  /\ slotFg + slotBg < TotalCapacity

CanAcquire(fg) == IF fg THEN slotFg < effFg ELSE CanAcquireBackground

Asleep == {c \in Clients : slot[c] \in {"waitFg", "waitBg"} /\ c \notin woken}

SchedInit ==
  /\ effFg = MaxForeground /\ effBg = MaxBackground
  /\ slotFg = 0 /\ slotBg = 0
  /\ slot = [c \in Clients |-> "none"]
  /\ woken = {}

\* The body of _acquire_slot's loop, when it returns.
Grant(c, fg) ==
  /\ CanAcquire(fg)
  /\ slot' = [slot EXCEPT ![c] = HeldAs(fg)]
  /\ IF fg THEN slotFg' = slotFg + 1 /\ UNCHANGED slotBg
           ELSE slotBg' = slotBg + 1 /\ UNCHANGED slotFg
  /\ woken' = woken \ {c}
  /\ UNCHANGED limitVars

\* The body of _acquire_slot's loop, when it waits.
Block(c, fg) ==
  /\ ~CanAcquire(fg)
  /\ slot' = [slot EXCEPT ![c] = WaitingAs(fg)]
  /\ woken' = woken \ {c}
  /\ UNCHANGED <<limitVars, slotFg, slotBg>>

AsksFor(c)       == slot[c] = "none"
AsksAgain(c, fg) == slot[c] = WaitingAs(fg) /\ c \in woken

\* Mutant of Release: the waiters are not notified.
ReleaseSilently(c) ==
  /\ slot[c] \in {"heldFg", "heldBg"}
  /\ slot' = [slot EXCEPT ![c] = "none"]
  /\ IF slot[c] = "heldFg"
       THEN slotFg' = AtLeastZero(slotFg - 1) /\ UNCHANGED slotBg
       ELSE slotBg' = AtLeastZero(slotBg - 1) /\ UNCHANGED slotFg
  /\ UNCHANGED <<limitVars, woken>>

\* _release_slot
Release(c) ==
  /\ slot[c] \in {"heldFg", "heldBg"}
  /\ slot' = [slot EXCEPT ![c] = "none"]
  /\ IF slot[c] = "heldFg"
       THEN slotFg' = AtLeastZero(slotFg - 1) /\ UNCHANGED slotBg
       ELSE slotBg' = AtLeastZero(slotBg - 1) /\ UNCHANGED slotFg
  /\ woken' = woken \cup Asleep
  /\ UNCHANGED limitVars

\* The waiting task is cancelled: condition.wait() raises, nothing was counted.
GiveUp(c) ==
  /\ slot[c] \in {"waitFg", "waitBg"}
  /\ slot' = [slot EXCEPT ![c] = "none"]
  /\ woken' = woken \ {c}
  /\ UNCHANGED <<limitVars, slotFg, slotBg>>

\* Mutant of UpdatePressure: the waiters are not notified.
UpdatePressureSilently(f, b) ==
  /\ f \in ForegroundLimits /\ b \in BackgroundLimits
  /\ effFg' = f /\ effBg' = b
  /\ UNCHANGED slotVars

\* update_pressure
UpdatePressure(f, b) ==
  /\ f \in ForegroundLimits /\ b \in BackgroundLimits
  /\ effFg' = f /\ effBg' = b
  /\ woken' = woken \cup Asleep
  /\ UNCHANGED <<slotFg, slotBg, slot>>

ClientNext(c) ==
  \/ \E fg \in BOOLEAN :
       /\ AsksFor(c) \/ AsksAgain(c, fg)
       /\ Grant(c, fg) \/ Block(c, fg)
  \/ Release(c)
  \/ GiveUp(c)

SchedNext ==
  \/ \E c \in Clients : ClientNext(c)
  \/ \E f \in ForegroundLimits, b \in BackgroundLimits : UpdatePressure(f, b)

SchedSpec == SchedInit /\ [][SchedNext]_schedVars

-----------------------------------------------------------------------------
(* Properties                                                              *)

\* Every variable of the scheduler keeps to the values the class gives it.
SchedTypeOK ==
  /\ effFg \in ForegroundLimits /\ effBg \in BackgroundLimits
  /\ slotFg \in Nat /\ slotBg \in Nat
  /\ slot \in [Clients -> {"none", "waitFg", "waitBg", "heldFg", "heldBg"}]
  /\ woken \subseteq Clients

HoldersOf(s) == {c \in Clients : slot[c] = s}

\* The slot counters are the numbers of executions in progress: grants,
\* releases and cancellations in any order leak no slot and free none twice,
\* and the clamp in _release_slot never acts.
SlotsMatchHolders ==
  /\ slotFg = Cardinality(HoldersOf("heldFg"))
  /\ slotBg = Cardinality(HoldersOf("heldBg"))

\* Shrinking the limits under running work never lets the totals pass the
\* configured ones, at any later time.
SlotsWithinConfig ==
  /\ slotFg <= MaxForeground
  /\ slotBg <= MaxBackground

\* No lost wakeup: a client sleeps only while it could not be granted. With
\* the definition of CanAcquire it also says that a foreground request never
\* waits on background work.
SleepersCannotRun ==
  \A c \in Asleep : ~CanAcquire(slot[c] = "waitFg")

\* Foreground load never keeps background work below its own limit: the check
\* of the total capacity refuses nothing that the background limit grants.
TotalNeverBinds ==
  slotBg < effBg => CanAcquireBackground

\* A grant is within the limits of the pressure report in force when it is
\* made, even to a task that asked under an earlier, wider one.
GrantsWithinLimits ==
  [][ /\ slotFg' > slotFg => slotFg' <= effFg'
      /\ slotBg' > slotBg => slotBg' <= effBg' ]_schedVars

=============================================================================
