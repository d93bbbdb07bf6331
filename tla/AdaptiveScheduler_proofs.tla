---------------------- MODULE AdaptiveScheduler_proofs ----------------------
(***************************************************************************)
(* For any set of clients and any limits: the slot counters are the        *)
(* numbers of executions in progress, they stay within the configured      *)
(* limits, and no client that could be granted sleeps.                     *)
(*                                                                         *)
(* The inductive invariant has a conjunct for each of these. The bounds    *)
(* need the type of the limits, and a sleeper stays blocked because only   *)
(* Release and UpdatePressure can make room, which leave nobody asleep.    *)
(***************************************************************************)
EXTENDS AdaptiveScheduler, FiniteSetTheorems, TLAPS

ClientStates == {"none", "waitFg", "waitBg", "heldFg", "heldBg"}

\* One client moves: the steps of the clients as disjuncts of the next-state
\* relation, for the case analyses below.
LEMMA SchedSteps ==
  ASSUME [SchedNext]_schedVars
  PROVE  \/ \E c \in Clients, fg \in BOOLEAN :
              (AsksFor(c) \/ AsksAgain(c, fg)) /\ Grant(c, fg)
         \/ \E c \in Clients, fg \in BOOLEAN :
              (AsksFor(c) \/ AsksAgain(c, fg)) /\ Block(c, fg)
         \/ \E c \in Clients : Release(c)
         \/ \E c \in Clients : GiveUp(c)
         \/ \E f \in ForegroundLimits, b \in BackgroundLimits : UpdatePressure(f, b)
         \/ UNCHANGED schedVars
  BY DEF SchedNext, ClientNext

\* The initial values are of the right type.
LEMMA SchedTypeInit == SchedInit => SchedTypeOK
  BY SchedulerAssumption
  DEF SchedInit, SchedTypeOK, ForegroundLimits, BackgroundLimits

\* Every step keeps the types: the limits stay in the ranges the policy
\* computes, the counters are clamped at zero.
LEMMA SchedTypeStep == SchedTypeOK /\ [SchedNext]_schedVars => SchedTypeOK'
<1> SUFFICES ASSUME SchedTypeOK, [SchedNext]_schedVars PROVE SchedTypeOK'
  OBVIOUS
<1> USE DEF SchedTypeOK, limitVars, slotVars
<1>1. ASSUME NEW c \in Clients, NEW fg \in BOOLEAN, Grant(c, fg)
      PROVE  SchedTypeOK'
  BY <1>1 DEF Grant, HeldAs
<1>2. ASSUME NEW c \in Clients, NEW fg \in BOOLEAN, Block(c, fg)
      PROVE  SchedTypeOK'
  BY <1>2 DEF Block, WaitingAs
<1>3. ASSUME NEW c \in Clients, Release(c)
      PROVE  SchedTypeOK'
  BY <1>3 DEF Release, AtLeastZero, Asleep
<1>4. ASSUME NEW c \in Clients, GiveUp(c)
      PROVE  SchedTypeOK'
  BY <1>4 DEF GiveUp
<1>5. ASSUME NEW f \in ForegroundLimits, NEW b \in BackgroundLimits,
             UpdatePressure(f, b)
      PROVE  SchedTypeOK'
  BY <1>5 DEF UpdatePressure, Asleep
<1>6. CASE UNCHANGED schedVars
  BY <1>6 DEF schedVars
<1>7. QED
  BY <1>1, <1>2, <1>3, <1>4, <1>5, <1>6, SchedSteps

\* Type correctness of the scheduler.
THEOREM SchedTypeCorrect == SchedSpec => []SchedTypeOK
  BY SchedTypeInit, SchedTypeStep, PTL DEF SchedSpec

-----------------------------------------------------------------------------
(* The counters                                                            *)

\* The clients in a given state are finitely many.
LEMMA SlotHoldersFinite ==
  ASSUME NEW s
  PROVE  IsFiniteSet(HoldersOf(s)) /\ Cardinality(HoldersOf(s)) \in Nat
<1>1. HoldersOf(s) \in SUBSET Clients
  BY DEF HoldersOf
<1>2. QED
  BY <1>1, SchedulerAssumption, FS_Subset, FS_CardinalityType

\* A client that moves to another state leaves the count of its old state and
\* joins that of its new one; the other counts stay.
LEMMA HoldersMove ==
  ASSUME SchedTypeOK, NEW c \in Clients, NEW t \in ClientStates, NEW s,
         slot' = [slot EXCEPT ![c] = t]
  PROVE  Cardinality(HoldersOf(s)') =
           Cardinality(HoldersOf(s)) + (IF t = s THEN 1 ELSE 0)
                                     - (IF slot[c] = s THEN 1 ELSE 0)
<1>0. Cardinality(HoldersOf(s)) \in Nat
  BY SlotHoldersFinite
<1>1. CASE s = t /\ slot[c] # s
  <2>1. HoldersOf(s)' = HoldersOf(s) \cup {c} /\ c \notin HoldersOf(s)
    BY <1>1 DEF HoldersOf, SchedTypeOK
  <2>2. QED
    BY <1>0, <1>1, <2>1, SlotHoldersFinite, FS_AddElement
<1>2. CASE s # t /\ slot[c] = s
  <2>1. HoldersOf(s)' = HoldersOf(s) \ {c} /\ c \in HoldersOf(s)
    BY <1>2 DEF HoldersOf, SchedTypeOK
  <2>2. Cardinality(HoldersOf(s) \ {c}) = Cardinality(HoldersOf(s)) - 1
    BY <2>1, SlotHoldersFinite, FS_RemoveElement
  <2>3. QED
    BY <1>0, <1>2, <2>1, <2>2
<1>3. CASE (s = t) <=> (slot[c] = s)
  <2>1. HoldersOf(s)' = HoldersOf(s)
    BY <1>3 DEF HoldersOf, SchedTypeOK
  <2>2. QED
    BY <1>0, <1>3, <2>1
<1>4. QED
  BY <1>1, <1>2, <1>3

\* The same for the two counts the scheduler keeps.
LEMMA CountsMove ==
  ASSUME SchedTypeOK, SlotsMatchHolders, NEW c \in Clients, NEW t \in ClientStates,
         slot' = [slot EXCEPT ![c] = t],
         slotFg' = slotFg + (IF t = "heldFg" THEN 1 ELSE 0)
                          - (IF slot[c] = "heldFg" THEN 1 ELSE 0),
         slotBg' = slotBg + (IF t = "heldBg" THEN 1 ELSE 0)
                          - (IF slot[c] = "heldBg" THEN 1 ELSE 0)
  PROVE  SlotsMatchHolders'
<1>1. slotFg' = Cardinality(HoldersOf("heldFg")')
  <2>1. Cardinality(HoldersOf("heldFg")) \in Nat
    BY SlotHoldersFinite
  <2>2. QED
    BY <2>1, HoldersMove DEF SlotsMatchHolders
<1>2. slotBg' = Cardinality(HoldersOf("heldBg")')
  <2>1. Cardinality(HoldersOf("heldBg")) \in Nat
    BY SlotHoldersFinite
  <2>2. QED
    BY <2>1, HoldersMove DEF SlotsMatchHolders
<1>3. QED
  BY <1>1, <1>2 DEF SlotsMatchHolders

\* Whoever holds a slot is counted, so the clamp in _release_slot is idle.
LEMMA HeldIsCounted ==
  ASSUME SchedTypeOK, SlotsMatchHolders, NEW c \in Clients
  PROVE  /\ slot[c] = "heldFg" => slotFg > 0
         /\ slot[c] = "heldBg" => slotBg > 0
<1>1. ASSUME NEW s, slot[c] = s PROVE Cardinality(HoldersOf(s)) > 0
  <2>1. c \in HoldersOf(s)
    BY <1>1 DEF HoldersOf
  <2>2. Cardinality(HoldersOf(s)) # 0
    BY <2>1, SlotHoldersFinite, FS_EmptySet
  <2>3. QED
    BY <2>2, SlotHoldersFinite
<1>2. QED
  BY <1>1 DEF SlotsMatchHolders

\* What each step assumes of the one before.
SchedInv ==
  /\ SchedTypeOK
  /\ SlotsMatchHolders
  /\ SlotsWithinConfig
  /\ SleepersCannotRun

\* Nobody holds a slot in the beginning, and nobody sleeps.
LEMMA SchedInvInit == SchedInit => SchedInv
<1> SUFFICES ASSUME SchedInit PROVE SchedInv
  OBVIOUS
<1>1. SchedTypeOK
  BY SchedTypeInit
<1>2. HoldersOf("heldFg") = {} /\ HoldersOf("heldBg") = {} /\ Asleep = {}
  BY DEF SchedInit, HoldersOf, Asleep
<1>3. QED
  BY <1>1, <1>2, FS_EmptySet, SchedulerAssumption
  DEF SchedInv, SchedInit, SlotsMatchHolders, SlotsWithinConfig, SleepersCannotRun

\* A grant adds one holder where the check left room for it.
LEMMA GrantKeepsInv ==
  ASSUME SchedInv, NEW c \in Clients, NEW fg \in BOOLEAN,
         AsksFor(c) \/ AsksAgain(c, fg), Grant(c, fg)
  PROVE  SchedInv'
<1>0. SchedTypeOK'
  BY SchedTypeStep DEF SchedInv, SchedNext, ClientNext
<1>1. slot[c] \notin {"heldFg", "heldBg"}
  BY DEF AsksFor, AsksAgain, WaitingAs
<1>2. HeldAs(fg) \in ClientStates /\ slot' = [slot EXCEPT ![c] = HeldAs(fg)]
  BY DEF HeldAs, ClientStates, Grant
<1>3. SlotsMatchHolders'
  <2>1. /\ slotFg' = slotFg + (IF HeldAs(fg) = "heldFg" THEN 1 ELSE 0)
                           - (IF slot[c] = "heldFg" THEN 1 ELSE 0)
       /\ slotBg' = slotBg + (IF HeldAs(fg) = "heldBg" THEN 1 ELSE 0)
                           - (IF slot[c] = "heldBg" THEN 1 ELSE 0)
    BY <1>1, <1>2 DEF SchedInv, SchedTypeOK, Grant, HeldAs
  <2>2. QED
    BY <2>1, <1>2, CountsMove DEF SchedInv
<1>4. SlotsWithinConfig'
  BY SchedulerAssumption
  DEF SchedInv, SchedTypeOK, SlotsWithinConfig, Grant, CanAcquire,
      CanAcquireBackground, ForegroundLimits, BackgroundLimits
<1>5. SleepersCannotRun'
  <2> SUFFICES ASSUME NEW d \in Clients, (d \in Asleep)'
               PROVE  ~CanAcquire(slot[d] = "waitFg")'
    BY DEF SleepersCannotRun, Asleep
  <2>1. d # c /\ d \in Asleep /\ slot'[d] = slot[d]
    BY <1>2 DEF Asleep, Grant, HeldAs, SchedInv, SchedTypeOK
  <2>2. ~CanAcquire(slot[d] = "waitFg")
    BY <2>1 DEF SchedInv, SleepersCannotRun
  <2>3. QED
    BY <2>1, <2>2, SchedulerAssumption
    DEF Grant, limitVars, CanAcquire, CanAcquireBackground, TotalCapacity, SchedInv, SchedTypeOK,
        ForegroundLimits, BackgroundLimits
<1>6. QED
  BY <1>0, <1>3, <1>4, <1>5 DEF SchedInv

\* A client that blocks takes nothing, and has just been refused.
LEMMA BlockKeepsInv ==
  ASSUME SchedInv, NEW c \in Clients, NEW fg \in BOOLEAN,
         AsksFor(c) \/ AsksAgain(c, fg), Block(c, fg)
  PROVE  SchedInv'
<1>0. SchedTypeOK'
  BY SchedTypeStep DEF SchedInv, SchedNext, ClientNext
<1>1. slot[c] \notin {"heldFg", "heldBg"}
  BY DEF AsksFor, AsksAgain, WaitingAs
<1>2. WaitingAs(fg) \in ClientStates /\ slot' = [slot EXCEPT ![c] = WaitingAs(fg)]
  BY DEF WaitingAs, ClientStates, Block
<1>3. SlotsMatchHolders'
  <2>1. /\ slotFg' = slotFg + (IF WaitingAs(fg) = "heldFg" THEN 1 ELSE 0)
                           - (IF slot[c] = "heldFg" THEN 1 ELSE 0)
       /\ slotBg' = slotBg + (IF WaitingAs(fg) = "heldBg" THEN 1 ELSE 0)
                           - (IF slot[c] = "heldBg" THEN 1 ELSE 0)
    BY <1>1, <1>2 DEF SchedInv, SchedTypeOK, Block, WaitingAs
  <2>2. QED
    BY <2>1, <1>2, CountsMove DEF SchedInv
<1>4. SlotsWithinConfig'
  BY DEF SchedInv, SlotsWithinConfig, Block
<1>5. SleepersCannotRun'
  <2> SUFFICES ASSUME NEW d \in Clients, (d \in Asleep)'
               PROVE  ~CanAcquire(slot[d] = "waitFg")'
    BY DEF SleepersCannotRun, Asleep
  <2>1. CASE d = c
    <3>1. (slot'[d] = "waitFg") = fg
      BY <2>1, <1>2 DEF WaitingAs, SchedInv, SchedTypeOK
    <3>2. QED
      BY <3>1, <2>1 DEF Block, limitVars, CanAcquire, CanAcquireBackground
  <2>2. CASE d # c
    <3>1. d \in Asleep /\ slot'[d] = slot[d]
      BY <2>2, <1>2 DEF Asleep, Block, SchedInv, SchedTypeOK
    <3>2. QED
      BY <3>1
      DEF SchedInv, SleepersCannotRun, Block, limitVars, CanAcquire, CanAcquireBackground
  <2>3. QED
    BY <2>1, <2>2
<1>6. QED
  BY <1>0, <1>3, <1>4, <1>5 DEF SchedInv

\* A release takes one holder away and leaves nobody asleep.
LEMMA ReleaseKeepsInv ==
  ASSUME SchedInv, NEW c \in Clients, Release(c)
  PROVE  SchedInv'
<1>0. SchedTypeOK'
  BY SchedTypeStep DEF SchedInv, SchedNext, ClientNext
<1>1. "none" \in ClientStates /\ slot' = [slot EXCEPT ![c] = "none"]
  BY DEF ClientStates, Release
<1>2. SlotsMatchHolders'
  <2>1. /\ slotFg' = slotFg + (IF "none" = "heldFg" THEN 1 ELSE 0)
                           - (IF slot[c] = "heldFg" THEN 1 ELSE 0)
       /\ slotBg' = slotBg + (IF "none" = "heldBg" THEN 1 ELSE 0)
                           - (IF slot[c] = "heldBg" THEN 1 ELSE 0)
    BY <1>1, HeldIsCounted DEF SchedInv, SchedTypeOK, Release, AtLeastZero
  <2>2. QED
    BY <2>1, <1>1, CountsMove DEF SchedInv
<1>3. SlotsWithinConfig'
  BY SchedulerAssumption
  DEF SchedInv, SchedTypeOK, SlotsWithinConfig, Release, AtLeastZero
<1>4. Asleep' = {}
  BY DEF Asleep, Release, SchedInv, SchedTypeOK
<1>5. QED
  BY <1>0, <1>2, <1>3, <1>4 DEF SchedInv, SleepersCannotRun

\* A waiter that is cancelled changes no count.
LEMMA GiveUpKeepsInv ==
  ASSUME SchedInv, NEW c \in Clients, GiveUp(c)
  PROVE  SchedInv'
<1>0. SchedTypeOK'
  BY SchedTypeStep DEF SchedInv, SchedNext, ClientNext
<1>1. "none" \in ClientStates /\ slot' = [slot EXCEPT ![c] = "none"]
  BY DEF ClientStates, GiveUp
<1>2. SlotsMatchHolders'
  <2>1. /\ slotFg' = slotFg + (IF "none" = "heldFg" THEN 1 ELSE 0)
                           - (IF slot[c] = "heldFg" THEN 1 ELSE 0)
       /\ slotBg' = slotBg + (IF "none" = "heldBg" THEN 1 ELSE 0)
                           - (IF slot[c] = "heldBg" THEN 1 ELSE 0)
    BY <1>1 DEF SchedInv, SchedTypeOK, GiveUp
  <2>2. QED
    BY <2>1, <1>1, CountsMove DEF SchedInv
<1>3. SlotsWithinConfig'
  BY DEF SchedInv, SlotsWithinConfig, GiveUp
<1>4. SleepersCannotRun'
  <2> SUFFICES ASSUME NEW d \in Clients, (d \in Asleep)'
               PROVE  ~CanAcquire(slot[d] = "waitFg")'
    BY DEF SleepersCannotRun, Asleep
  <2>1. d \in Asleep /\ slot'[d] = slot[d]
    BY <1>1 DEF Asleep, GiveUp, SchedInv, SchedTypeOK
  <2>2. QED
    BY <2>1
    DEF SchedInv, SleepersCannotRun, GiveUp, limitVars, CanAcquire, CanAcquireBackground
<1>5. QED
  BY <1>0, <1>2, <1>3, <1>4 DEF SchedInv

\* A change of the limits touches no slot and wakes everybody.
LEMMA UpdateKeepsInv ==
  ASSUME SchedInv, NEW f \in ForegroundLimits, NEW b \in BackgroundLimits,
         UpdatePressure(f, b)
  PROVE  SchedInv'
<1>0. SchedTypeOK'
  BY SchedTypeStep DEF SchedInv, SchedNext
<1>1. SlotsMatchHolders' /\ SlotsWithinConfig'
  BY DEF SchedInv, SlotsMatchHolders, SlotsWithinConfig, HoldersOf, UpdatePressure
<1>2. Asleep' = {}
  BY DEF Asleep, UpdatePressure, SchedInv, SchedTypeOK
<1>3. QED
  BY <1>0, <1>1, <1>2 DEF SchedInv, SleepersCannotRun

\* The invariant is inductive.
LEMMA SchedInvStep == SchedInv /\ [SchedNext]_schedVars => SchedInv'
<1> SUFFICES ASSUME SchedInv, [SchedNext]_schedVars PROVE SchedInv'
  OBVIOUS
<1>1. CASE UNCHANGED schedVars
  BY <1>1
  DEF schedVars, limitVars, slotVars, SchedInv, SchedTypeOK, SlotsMatchHolders,
      HoldersOf, SlotsWithinConfig, SleepersCannotRun, Asleep, CanAcquire,
      CanAcquireBackground
<1>2. QED
  BY <1>1, SchedSteps, GrantKeepsInv, BlockKeepsInv, ReleaseKeepsInv,
     GiveUpKeepsInv, UpdateKeepsInv

\* The invariant holds of every behaviour of the scheduler.
THEOREM SchedInvariant == SchedSpec => []SchedInv
  BY SchedInvInit, SchedInvStep, PTL DEF SchedSpec

-----------------------------------------------------------------------------
(* What follows from it                                                    *)

\* No slot leaks and none is freed twice, for any number of clients.
THEOREM SlotsAccounted == SchedSpec => []SlotsMatchHolders
<1>1. SchedInv => SlotsMatchHolders
  BY DEF SchedInv
<1>2. QED
  BY <1>1, SchedInvariant, PTL

\* Executions in progress never exceed the configured concurrency.
THEOREM ConfiguredBound == SchedSpec => []SlotsWithinConfig
<1>1. SchedInv => SlotsWithinConfig
  BY DEF SchedInv
<1>2. QED
  BY <1>1, SchedInvariant, PTL

\* No client sleeps through room for it.
THEOREM NoMissedSlot == SchedSpec => []SleepersCannotRun
<1>1. SchedInv => SleepersCannotRun
  BY DEF SchedInv
<1>2. QED
  BY <1>1, SchedInvariant, PTL

\* The check of the total capacity never refuses background work that is
\* within its own limit.
THEOREM TotalIsRedundant == SchedSpec => []TotalNeverBinds
<1>1. SchedInv => TotalNeverBinds
  BY SchedulerAssumption
  DEF SchedInv, SchedTypeOK, SlotsWithinConfig, TotalNeverBinds,
      CanAcquireBackground, TotalCapacity, BackgroundLimits
<1>2. QED
  BY <1>1, SchedInvariant, PTL

\* Whoever is granted is granted under the limits of that moment.
THEOREM GrantsUnderLimits == SchedSpec => GrantsWithinLimits
<1>1. SchedTypeOK /\ [SchedNext]_schedVars =>
        [ /\ slotFg' > slotFg => slotFg' <= effFg'
          /\ slotBg' > slotBg => slotBg' <= effBg' ]_schedVars
  <2> SUFFICES ASSUME SchedTypeOK, [SchedNext]_schedVars
               PROVE  /\ slotFg' > slotFg => slotFg' <= effFg'
                      /\ slotBg' > slotBg => slotBg' <= effBg'
    OBVIOUS
  <2> USE SchedulerAssumption
      DEF SchedTypeOK, ForegroundLimits, BackgroundLimits, limitVars, slotVars
  <2>1. ASSUME NEW c \in Clients, NEW fg \in BOOLEAN, Grant(c, fg)
        PROVE  /\ slotFg' > slotFg => slotFg' <= effFg'
               /\ slotBg' > slotBg => slotBg' <= effBg'
    BY <2>1 DEF Grant, CanAcquire, CanAcquireBackground
  <2>2. ASSUME NEW c \in Clients, Release(c)
        PROVE  ~(slotFg' > slotFg) /\ ~(slotBg' > slotBg)
    BY <2>2 DEF Release, AtLeastZero
  <2>3. CASE UNCHANGED <<slotFg, slotBg>>
    BY <2>3
  <2>4. QED
    BY <2>1, <2>2, <2>3, SchedSteps DEF Block, GiveUp, UpdatePressure, schedVars
<1>2. QED
  BY <1>1, SchedTypeCorrect, PTL DEF SchedSpec, GrantsWithinLimits

=============================================================================
