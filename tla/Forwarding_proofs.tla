------------------------- MODULE Forwarding_proofs -------------------------
(***************************************************************************)
(* Forwarding for any number of calls and endpoints, any ceilings and any  *)
(* breaker thresholds: the slots of an endpoint are counted exactly until  *)
(* a stream is read, no call sleeps through room for it, failover never    *)
(* returns to an endpoint that has failed, and an open endpoint gets no    *)
(* request except after a wait.                                            *)
(*                                                                         *)
(* The calls and the slots on the one hand and the breakers on the other   *)
(* hardly depend on each other, so each has its invariant. For the calls,  *)
(* the many actions come down to five shapes: a call goes to an endpoint,  *)
(* gives its slot back, withdraws, starts to stream, or none moves.        *)
(***************************************************************************)
EXTENDS Forwarding, CircuitBreakers_proofs, FiniteSetTheorems

-----------------------------------------------------------------------------
(* The calls and the slots                                                 *)

Stage == {"new", "waiting", "calling", "failover", "returned", "streaming", "over"}

\* The conjuncts of ForwardTypeOK but for the breakers.
CallsTyped ==
  /\ ceiling \in Ceilings
  /\ running \in [Endpoints -> [Class -> Nat]]
  /\ asleep \subseteq Calls
  /\ stage \in [Calls -> Stage]
  /\ route \in [Calls -> Endpoints \cup {NoEndpoint}]
  /\ failed \in [Calls -> SUBSET Endpoints]

\* A call has an endpoint exactly from its selection to its end, only a stream is
\* returned unread, and nothing has failed a call that has not begun.
CallsInPlace ==
  \A q \in Calls :
    /\ route[q] \in Endpoints <=> stage[q] \in {"waiting", "calling", "returned", "streaming"}
    /\ stage[q] \in {"returned", "streaming"} => q \in Streaming
    /\ stage[q] = "new" => failed[q] = {}

\* What a step of a call needs to know of the one before.
CallInv ==
  /\ CallsTyped
  /\ CallsInPlace
  /\ BufferedCallsCounted
  /\ SleepersHaveNoRoom
  /\ NeverBackToFailed

\* The shapes of a step.
Goes(q, e) ==
  /\ stage[q] \in {"new", "failover", "waiting"} /\ q \notin asleep
  /\ e \notin failed[q]
  /\ GoesTo(q, e)

GivesBack(q) ==
  /\ stage[q] \in {"calling", "streaming"}
  /\ Leaves(route[q], ClassOf(q))
  /\ \/ Ends(q)
     \/ /\ stage[q] = "calling"
        /\ stage' = [stage EXCEPT ![q] = "failover"]
        /\ route' = [route EXCEPT ![q] = NoEndpoint]
        /\ failed' = [failed EXCEPT ![q] = @ \cup {route[q]}]

Withdraws(q) ==
  /\ stage[q] \in {"new", "failover", "waiting", "returned"}
  /\ StopsWaiting(q)
  /\ Ends(q)

CallsRest ==
  /\ UNCHANGED callVars
  /\ UNCHANGED governorVars \/ CeilingsChange

\* Selection returns configured endpoints that have not failed the call, and
\* that were let in by their breakers.
LEMMA ChoicesCompatible ==
  ASSUME NEW q \in Calls, NEW X, NEW bs, NEW e \in Choices(q, X, bs)
  PROVE  e \in Endpoints /\ e \notin X /\ Allows(bs[e])
  BY ForwardingAssumption, RoutesAssumption DEF Choices

\* Whoever is asleep waits, so a call that stands elsewhere is not asleep.
LEMMA AwakeElsewhere ==
  ASSUME SleepersHaveNoRoom, NEW q \in Calls, stage[q] # "waiting"
  PROVE  q \notin asleep /\ (UNCHANGED governorVars => StopsWaiting(q))
  BY DEF SleepersHaveNoRoom, governorVars, StopsWaiting

\* Every step has one of the shapes.
LEMMA ShapeOfSteps ==
  ASSUME CallInv, [ForwardNext]_forwardVars
  PROVE  \/ \E q \in Calls, e \in Endpoints : Goes(q, e)
         \/ \E q \in Calls : GivesBack(q)
         \/ \E q \in Calls : Withdraws(q)
         \/ \E q \in Calls : StreamStarts(q)
         \/ CallsRest
<1> USE DEF CallInv
<1>1. ASSUME NEW q \in Calls, Selects(q)
      PROVE  \E e \in Endpoints : Goes(q, e)
  <2>1. PICK e \in Choices(q, failed[q], breakers) : GoesTo(q, e)
    BY <1>1 DEF Selects
  <2>2. e \in Endpoints /\ e \notin failed[q]
    BY <2>1, ChoicesCompatible
  <2>3. stage[q] \in {"new", "failover"} /\ q \notin asleep
    BY <1>1, AwakeElsewhere DEF Selects
  <2>4. QED
    BY <2>1, <2>2, <2>3 DEF Goes
<1>2. ASSUME NEW q \in Calls, SelectsExplicit(q)
      PROVE  \E e \in Endpoints : Goes(q, e)
  <2>1. /\ stage[q] = "new" /\ Explicit[q] \in Endpoints /\ GoesTo(q, Explicit[q])
        /\ failed[q] = {} /\ q \notin asleep
    BY <1>2, AwakeElsewhere, ForwardingAssumption DEF SelectsExplicit, CallsInPlace
  <2>2. QED
    BY <2>1 DEF Goes
<1>3. ASSUME NEW q \in Calls, AcquiresAgain(q)
      PROVE  \E e \in Endpoints : Goes(q, e)
  BY <1>3 DEF AcquiresAgain, Goes, CallsInPlace, NeverBackToFailed
<1>4. ASSUME NEW q \in Calls, Answers(q) \/ FailsOver(q) \/ Fails(q) \/ CallCancelled(q) \/ StreamEnds(q)
      PROVE  GivesBack(q)
  BY <1>4 DEF Answers, FailsOver, Fails, CallCancelled, StreamEnds, GivesBack
<1>5. ASSUME NEW q \in Calls, FindsNone(q) \/ RefusesExplicit(q) \/ StreamDropped(q) \/ WaitCancelled(q)
      PROVE  Withdraws(q)
  BY <1>5, AwakeElsewhere
  DEF FindsNone, RefusesExplicit, StreamDropped, WaitCancelled, Withdraws
<1>6. ASSUME \/ \E e \in Endpoints : ProbeEnds(e) \/ TimePassesAt(e)
             \/ BreakersInspected \/ CeilingsReported \/ UNCHANGED forwardVars
      PROVE  CallsRest
  BY <1>6 DEF ProbeEnds, TimePassesAt, BreakersInspected, CeilingsReported, CallsRest, forwardVars
<1>7. QED
  BY <1>1, <1>2, <1>3, <1>4, <1>5, <1>6 DEF ForwardNext, CallNext

\* Every call has a class.
LEMMA ClassOfCall == \A q : ClassOf(q) \in Class
  BY DEF ClassOf, Class

\* The calls of a class at an endpoint are finitely many.
LEMMA UsingFinite ==
  ASSUME NEW e, NEW c
  PROVE  IsFiniteSet(Using(e, c)) /\ Cardinality(Using(e, c)) \in Nat
<1>1. Using(e, c) \in SUBSET Calls
  BY DEF Using
<1>2. QED
  BY <1>1, ForwardingAssumption, FS_Subset, FS_CardinalityType

\* One call that moves joins those that use the endpoint it comes to, and leaves
\* those of the endpoint it was at.
LEMMA UsingMoves ==
  ASSUME CallsTyped, NEW q \in Calls, NEW s, NEW t,
         stage' = [stage EXCEPT ![q] = s], route' = [route EXCEPT ![q] = t],
         NEW e, NEW c
  PROVE  Cardinality(Using(e, c)') =
           Cardinality(Using(e, c)) + (IF q \in Using(e, c)' THEN 1 ELSE 0)
                                    - (IF q \in Using(e, c) THEN 1 ELSE 0)
<1>0. Cardinality(Using(e, c)) \in Nat
  BY UsingFinite
<1>1. \A p \in Calls : p # q => (p \in Using(e, c)' <=> p \in Using(e, c))
  BY DEF Using, CallsTyped, ClassOf
<1>2. Using(e, c) \subseteq Calls /\ Using(e, c)' \subseteq Calls
  BY DEF Using
<1>3. CASE q \in Using(e, c)' /\ q \notin Using(e, c)
  <2>1. Using(e, c)' = Using(e, c) \cup {q}
    BY <1>1, <1>2, <1>3
  <2>2. Cardinality(Using(e, c) \cup {q}) = Cardinality(Using(e, c)) + 1
    BY <1>3, UsingFinite, FS_AddElement
  <2>3. QED
    BY <1>0, <1>3, <2>1, <2>2
<1>4. CASE q \notin Using(e, c)' /\ q \in Using(e, c)
  <2>1. Using(e, c)' = Using(e, c) \ {q}
    BY <1>1, <1>2, <1>4
  <2>2. Cardinality(Using(e, c) \ {q}) = Cardinality(Using(e, c)) - 1
    BY <1>4, UsingFinite, FS_RemoveElement
  <2>3. QED
    BY <1>0, <1>4, <2>1, <2>2
<1>5. CASE q \in Using(e, c)' <=> q \in Using(e, c)
  <2>1. Using(e, c)' = Using(e, c)
    BY <1>1, <1>2, <1>5
  <2>2. QED
    BY <1>0, <1>5, <2>1
<1>6. QED
  BY <1>3, <1>4, <1>5

-----------------------------------------------------------------------------
(* What each shape keeps                                                   *)

\* Until a stream is read: a class that has none yet had none before.
LEMMA NoStreamBefore ==
  ASSUME CallsTyped, NEW q \in Calls, NEW s \in Stage, NEW c,
         stage' = [stage EXCEPT ![q] = s],
         stage[q] = "streaming" => s = "over", stage[q] # "over",
         NoStreamYet(c)'
  PROVE  NoStreamYet(c)
  BY ForwardingAssumption DEF NoStreamYet, ClassOf, CallsTyped

\* A call that goes to an endpoint takes a slot, sleeps for want of one, or takes
\* one and gives it back.
LEMMA GoesKeeps ==
  ASSUME CallInv, NEW q \in Calls, NEW e \in Endpoints, Goes(q, e)
  PROVE  CallInv'
<1> USE DEF CallInv
<1> DEFINE k == ClassOf(q)
<1>0. k \in Class
  BY ClassOfCall
<1> HIDE DEF k
<1>1. PICK s \in {"calling", "returned", "waiting"} :
         /\ stage' = [stage EXCEPT ![q] = s]
         /\ s = "calling" => Enters(e, k)
         /\ s = "returned" => PassesThrough(e, k) /\ q \in Streaming
         /\ s = "waiting" => Sleeps(q, e, k)
  BY DEF Goes, GoesTo, StreamsAt, k
<1>2. /\ route' = [route EXCEPT ![q] = e] /\ UNCHANGED failed
      /\ stage[q] \in {"new", "failover", "waiting"} /\ q \notin asleep /\ e \notin failed[q]
  BY DEF Goes, GoesTo
<1>3. ceiling' = ceiling /\ asleep' \in {asleep, asleep \cup {q}, {}}
  BY <1>1 DEF Enters, PassesThrough, Sleeps
<1>4. /\ running' \in [Endpoints -> [Class -> Nat]]
      /\ \A f \in Endpoints, c \in Class :
           running'[f][c] = running[f][c] + (IF s = "calling" /\ f = e /\ c = k THEN 1 ELSE 0)
  <2>1. CASE s = "calling"
    <3>1. running' = [running EXCEPT ![e][k] = @ + 1]
      BY <1>1, <2>1 DEF Enters
    <3>2. running' \in [Endpoints -> [Class -> Nat]]
      BY <1>0, <3>1 DEF CallsTyped
    <3>3. ASSUME NEW f \in Endpoints, NEW c \in Class
          PROVE  running'[f][c] = running[f][c] + (IF f = e /\ c = k THEN 1 ELSE 0)
      BY <1>0, <3>1 DEF CallsTyped
    <3>4. QED
      BY <2>1, <3>2, <3>3
  <2>2. CASE s = "returned"
    <3>1. running' = [running EXCEPT ![e][k] = Freed(@ + 1)]
      BY <1>1, <2>2 DEF PassesThrough
    <3>2. Freed(running[e][k] + 1) = running[e][k]
      BY <1>0 DEF Freed, CallsTyped
    <3>3. QED
      BY <1>0, <2>2, <3>1, <3>2 DEF CallsTyped
  <2>3. CASE s = "waiting"
    BY <1>1, <2>3 DEF Sleeps, CallsTyped
  <2>4. QED
    BY <2>1, <2>2, <2>3
<1>5. CallsTyped'
  BY <1>1, <1>2, <1>3, <1>4 DEF CallsTyped, Stage
<1>6. CallsInPlace'
  BY <1>1, <1>2, RoutesAssumption DEF CallsInPlace, CallsTyped
<1>7. BufferedCallsCounted'
  <2> SUFFICES ASSUME NEW f \in Endpoints, NEW c \in Class, NoStreamYet(c)'
               PROVE  running'[f][c] = Cardinality(Using(f, c)')
    BY DEF BufferedCallsCounted
  <2>1. running[f][c] = Cardinality(Using(f, c))
    BY <1>1, <1>2, NoStreamBefore DEF BufferedCallsCounted, Stage
  <2>2. q \notin Using(f, c) /\ (q \in Using(f, c)' <=> s = "calling" /\ f = e /\ c = k)
    BY <1>1, <1>2 DEF Using, CallsTyped, ClassOf, k
  <2>3. Cardinality(Using(f, c)') =
          Cardinality(Using(f, c)) + (IF q \in Using(f, c)' THEN 1 ELSE 0)
                                   - (IF q \in Using(f, c) THEN 1 ELSE 0)
    BY <1>1, <1>2, UsingMoves
  <2>4. QED
    BY <1>4, <2>1, <2>2, <2>3, UsingFinite
<1>8. SleepersHaveNoRoom'
  <2> SUFFICES ASSUME NEW p \in asleep'
               PROVE  stage'[p] = "waiting" /\ ~HasRoom(route[p], ClassOf(p))'
    BY DEF SleepersHaveNoRoom
  <2>1. CASE p = q
    <3>1. s = "waiting" /\ ~HasRoom(e, k) /\ UNCHANGED <<running, ceiling>>
      BY <1>1, <1>2, <2>1 DEF Enters, PassesThrough, Sleeps
    <3>2. QED
      BY <1>1, <1>2, <2>1, <3>1 DEF HasRoom, CallsTyped, ClassOf, k
  <2>2. CASE p # q
    <3>1. p \in asleep /\ p \in Calls
      BY <1>3, <2>2 DEF CallsTyped
    <3>2. stage[p] = "waiting" /\ ~HasRoom(route[p], ClassOf(p)) /\ route[p] \in Endpoints
      BY <3>1 DEF SleepersHaveNoRoom, CallsInPlace
    <3>3. stage'[p] = stage[p] /\ route'[p] = route[p]
      BY <1>1, <1>2, <2>2, <3>1 DEF CallsTyped
    <3>4. running'[route[p]][ClassOf(p)] >= running[route[p]][ClassOf(p)]
          /\ ceiling[ClassOf(p)] \in Int
      BY <1>4, <3>2, ClassOfCall, GovernorAssumption DEF CallsTyped, Ceilings, Class
    <3>5. QED
      BY <1>3, <1>4, <3>2, <3>3, <3>4, ClassOfCall DEF HasRoom, CallsTyped, ClassOf
  <2>3. QED
    BY <2>1, <2>2
<1>9. NeverBackToFailed'
  BY <1>2 DEF NeverBackToFailed, CallsTyped
<1>10. QED
  BY <1>5, <1>6, <1>7, <1>8, <1>9

\* A slot that is given back was counted, and whoever sleeps is woken.
LEMMA GivesBackKeeps ==
  ASSUME CallInv, NEW q \in Calls, GivesBack(q)
  PROVE  CallInv'
<1> USE DEF CallInv
<1> DEFINE k == ClassOf(q)
           e == route[q]
<1>0. k \in Class /\ e \in Endpoints /\ e # NoEndpoint
  BY ClassOfCall, RoutesAssumption DEF GivesBack, CallsInPlace
<1>1. PICK s \in {"failover", "over"} :
         /\ stage' = [stage EXCEPT ![q] = s]
         /\ failed' \in [Calls -> SUBSET Endpoints]
         /\ \A p \in Calls : p # q => failed'[p] = failed[p]
         /\ stage[q] = "streaming" => s = "over"
  BY <1>0 DEF GivesBack, Ends, CallsTyped
<1>2. /\ route' = [route EXCEPT ![q] = NoEndpoint]
      /\ stage[q] \in {"calling", "streaming"}
      /\ running' = [running EXCEPT ![e][k] = Freed(@)]
      /\ asleep' = {} /\ ceiling' = ceiling
  BY DEF GivesBack, Ends, Leaves
<1> HIDE DEF k, e
<1>3. /\ running' \in [Endpoints -> [Class -> Nat]]
      /\ \A f \in Endpoints, c \in Class :
           running'[f][c] = IF f = e /\ c = k THEN Freed(running[f][c]) ELSE running[f][c]
  BY <1>0, <1>2 DEF Freed, CallsTyped
<1>4. CallsTyped'
  BY <1>1, <1>2, <1>3 DEF CallsTyped, Stage
<1>5. CallsInPlace'
  BY <1>1, <1>2, RoutesAssumption DEF CallsInPlace, CallsTyped
<1>6. BufferedCallsCounted'
  <2> SUFFICES ASSUME NEW f \in Endpoints, NEW c \in Class, NoStreamYet(c)'
               PROVE  running'[f][c] = Cardinality(Using(f, c)')
    BY DEF BufferedCallsCounted
  <2>1. q \notin Using(f, c)' /\ (q \in Using(f, c) <=> f = e /\ c = k)
    BY <1>0, <1>1, <1>2 DEF Using, CallsTyped, ClassOf, k, e
  <2>2. Cardinality(Using(f, c)') =
          Cardinality(Using(f, c)) - (IF f = e /\ c = k THEN 1 ELSE 0)
    <3>1. Cardinality(Using(f, c)') =
            Cardinality(Using(f, c)) + (IF q \in Using(f, c)' THEN 1 ELSE 0)
                                     - (IF q \in Using(f, c) THEN 1 ELSE 0)
      BY <1>1, <1>2, UsingMoves
    <3>2. QED
      BY <2>1, <3>1, UsingFinite
  <2>3. f = e /\ c = k => Cardinality(Using(f, c)) > 0
    <3>1. q \in Using(f, c) => Cardinality(Using(f, c)) # 0
      BY UsingFinite, FS_EmptySet
    <3>2. QED
      BY <2>1, <3>1, UsingFinite
  <2>4. running[f][c] = Cardinality(Using(f, c))
    BY <1>1, <1>2, NoStreamBefore DEF BufferedCallsCounted, Stage
  <2>5. QED
    BY <1>3, <2>2, <2>3, <2>4, UsingFinite DEF Freed
<1>7. SleepersHaveNoRoom'
  BY <1>2 DEF SleepersHaveNoRoom
<1>8. NeverBackToFailed'
  <2>1. NoEndpoint \notin failed'[q]
    BY <1>1, RoutesAssumption
  <2>2. QED
    BY <1>1, <1>2, <2>1 DEF NeverBackToFailed, CallsTyped
<1>9. QED
  BY <1>4, <1>5, <1>6, <1>7, <1>8

\* A call that ends without a slot takes its place among the sleepers along.
LEMMA WithdrawsKeeps ==
  ASSUME CallInv, NEW q \in Calls, Withdraws(q)
  PROVE  CallInv'
<1> USE DEF CallInv
<1>1. /\ stage' = [stage EXCEPT ![q] = "over"]
      /\ route' = [route EXCEPT ![q] = NoEndpoint]
      /\ failed' = [failed EXCEPT ![q] = {}]
      /\ stage[q] \in {"new", "failover", "waiting", "returned"}
      /\ asleep' = asleep \ {q} /\ UNCHANGED <<ceiling, running>>
  BY DEF Withdraws, Ends, StopsWaiting
<1>2. CallsTyped'
  BY <1>1 DEF CallsTyped, Stage
<1>3. CallsInPlace'
  BY <1>1, RoutesAssumption DEF CallsInPlace, CallsTyped
<1>4. BufferedCallsCounted'
  <2> SUFFICES ASSUME NEW f \in Endpoints, NEW c \in Class, NoStreamYet(c)'
               PROVE  running'[f][c] = Cardinality(Using(f, c)')
    BY DEF BufferedCallsCounted
  <2>1. q \notin Using(f, c)' /\ q \notin Using(f, c)
    BY <1>1 DEF Using, CallsTyped
  <2>2. running[f][c] = Cardinality(Using(f, c))
    BY <1>1, NoStreamBefore DEF BufferedCallsCounted, Stage
  <2>3. Cardinality(Using(f, c)') =
          Cardinality(Using(f, c)) + (IF q \in Using(f, c)' THEN 1 ELSE 0)
                                   - (IF q \in Using(f, c) THEN 1 ELSE 0)
    BY <1>1, UsingMoves
  <2>4. QED
    BY <1>1, <2>1, <2>2, <2>3, UsingFinite
<1>5. SleepersHaveNoRoom'
  BY <1>1 DEF SleepersHaveNoRoom, CallsTyped, HasRoom, ClassOf
<1>6. NeverBackToFailed'
  BY <1>1 DEF NeverBackToFailed, CallsTyped
<1>7. QED
  BY <1>2, <1>3, <1>4, <1>5, <1>6

\* From the moment a stream is read its class is no longer counted exactly.
LEMMA StreamStartsKeeps ==
  ASSUME CallInv, NEW q \in Calls, StreamStarts(q)
  PROVE  CallInv'
<1> USE DEF CallInv
<1>1. /\ stage[q] = "returned" /\ stage' = [stage EXCEPT ![q] = "streaming"]
      /\ UNCHANGED <<ceiling, running, asleep, route, failed>>
      /\ q \in Streaming
  BY DEF StreamStarts, governorVars, CallsInPlace
<1>2. CallsTyped'
  BY <1>1 DEF CallsTyped, Stage
<1>3. CallsInPlace'
  BY <1>1 DEF CallsInPlace, CallsTyped
<1>4. BufferedCallsCounted'
  <2> SUFFICES ASSUME NEW f \in Endpoints, NEW c \in Class, NoStreamYet(c)'
               PROVE  running'[f][c] = Cardinality(Using(f, c)')
    BY DEF BufferedCallsCounted
  <2>1. c # ClassOf(q)
    BY <1>1 DEF NoStreamYet, CallsTyped, ClassOf
  <2>2. Using(f, c)' = Using(f, c)
    BY <1>1, <2>1 DEF Using, CallsTyped, ClassOf
  <2>3. running[f][c] = Cardinality(Using(f, c))
    BY <1>1, <2>1, ForwardingAssumption DEF BufferedCallsCounted, NoStreamYet, CallsTyped, ClassOf
  <2>4. QED
    BY <1>1, <2>2, <2>3
<1>5. SleepersHaveNoRoom'
  BY <1>1 DEF SleepersHaveNoRoom, CallsTyped, HasRoom, ClassOf
<1>6. NeverBackToFailed'
  BY <1>1 DEF NeverBackToFailed
<1>7. QED
  BY <1>2, <1>3, <1>4, <1>5, <1>6

\* Where no call moves, at most the ceilings change, and everybody is woken then.
LEMMA RestKeeps ==
  ASSUME CallInv, CallsRest
  PROVE  CallInv'
<1> USE DEF CallInv
<1>1. /\ UNCHANGED <<stage, route, failed, running>>
      /\ ceiling' \in Ceilings
      /\ asleep' = {} \/ UNCHANGED <<asleep, ceiling>>
  BY DEF CallsRest, callVars, governorVars, CeilingsChange, CallsTyped
<1>2. CallsTyped' /\ CallsInPlace' /\ NeverBackToFailed'
  BY <1>1 DEF CallsTyped, CallsInPlace, NeverBackToFailed
<1>3. BufferedCallsCounted'
  BY <1>1 DEF BufferedCallsCounted, NoStreamYet, Using, ClassOf
<1>4. SleepersHaveNoRoom'
  BY <1>1 DEF SleepersHaveNoRoom, HasRoom, ClassOf
<1>5. QED
  BY <1>2, <1>3, <1>4

\* The invariant of the calls is inductive.
LEMMA CallStep == CallInv /\ [ForwardNext]_forwardVars => CallInv'
  BY ShapeOfSteps, GoesKeeps, GivesBackKeeps, WithdrawsKeeps, StreamStartsKeeps, RestKeeps

\* Nobody has begun in the beginning.
LEMMA CallInit == ForwardInit => CallInv
<1> SUFFICES ASSUME ForwardInit PROVE CallInv
  OBVIOUS
<1> USE DEF ForwardInit, GovernorInit
<1>1. ceiling \in Ceilings
  BY GovernorAssumption DEF Ceilings, Class
<1>2. CallsTyped /\ CallsInPlace
  BY <1>1, RoutesAssumption DEF CallsTyped, CallsInPlace, Stage
<1>3. BufferedCallsCounted
  <2>1. ASSUME NEW e, NEW c PROVE Using(e, c) = {}
    BY DEF Using
  <2>2. QED
    BY <2>1, FS_EmptySet DEF BufferedCallsCounted
<1>4. SleepersHaveNoRoom /\ NeverBackToFailed
  BY DEF SleepersHaveNoRoom, NeverBackToFailed
<1>5. QED
  BY <1>2, <1>3, <1>4 DEF CallInv

-----------------------------------------------------------------------------
(* The breakers                                                            *)

\* The failure of the endpoint a call uses leaves sound breakers.
LEMMA AfterFailureSound ==
  ASSUME CallInv, AllSound(breakers), NEW q \in Calls, stage[q] \in {"calling", "streaming"}
  PROVE  AllSound(AfterFailure(q))
<1>1. route[q] \in Endpoints
  BY DEF CallInv, CallsInPlace
<1>2. Sound(Failed(breakers[route[q]]))
  BY <1>1, FailedSound DEF AllSound
<1>3. QED
  BY <1>1, <1>2, OneSound DEF AfterFailure

\* So does its success.
LEMMA AfterSuccessSound ==
  ASSUME CallInv, AllSound(breakers), NEW q \in Calls, stage[q] \in {"calling", "streaming"}
  PROVE  AllSound([breakers EXCEPT ![route[q]] = Succeeded(@)])
<1>1. route[q] \in Endpoints
  BY DEF CallInv, CallsInPlace
<1>2. Sound(Succeeded(breakers[route[q]]))
  BY <1>1, SucceededSound DEF AllSound
<1>3. QED
  BY <1>1, <1>2, OneSound

\* The breakers stay sound in every step.
LEMMA BreakerStep ==
  CallInv /\ AllSound(breakers) /\ [ForwardNext]_forwardVars => AllSound(breakers')
<1> SUFFICES ASSUME CallInv, AllSound(breakers), [ForwardNext]_forwardVars
             PROVE  AllSound(breakers')
  OBVIOUS
<1>1. ASSUME NEW q \in Calls, Selects(q) \/ FindsNone(q) \/ SelectsExplicit(q)
      PROVE  AllSound(breakers')
  BY <1>1, LookedSound DEF Selects, FindsNone, SelectsExplicit
<1>2. ASSUME NEW q \in Calls, RefusesExplicit(q)
      PROVE  AllSound(breakers')
  <2>1. Explicit[q] \in Endpoints
    BY <1>2, ForwardingAssumption DEF RefusesExplicit
  <2>2. Sound(Failed(Seen(breakers[Explicit[q]])))
    BY <2>1, SeenSound, FailedSound DEF AllSound
  <2>3. QED
    BY <1>2, <2>1, <2>2, OneSound DEF RefusesExplicit
<1>3. ASSUME NEW q \in Calls, Answers(q) \/ FailsOver(q) \/ Fails(q) \/ StreamEnds(q)
      PROVE  AllSound(breakers')
  <2>1. stage[q] \in {"calling", "streaming"}
    BY <1>3 DEF Answers, FailsOver, Fails, StreamEnds
  <2>2. /\ AllSound(AfterFailure(q))
        /\ AllSound([breakers EXCEPT ![route[q]] = Succeeded(@)])
        /\ \A E : AllSound(Looked(AfterFailure(q), E))
    BY <2>1, AfterFailureSound, AfterSuccessSound, LookedSound
  <2>3. QED
    BY <1>3, <2>2 DEF Answers, FailsOver, Fails, StreamEnds
<1>4. ASSUME NEW e \in Endpoints, ProbeEnds(e)
      PROVE  AllSound(breakers')
  <2>1. PICK healthy \in BOOLEAN : breakers' = [breakers EXCEPT ![e] = Judged(breakers[e], healthy)]
    BY <1>4 DEF ProbeEnds, Probed
  <2>2. Sound(Judged(breakers[e], healthy))
    BY JudgedSound DEF AllSound
  <2>3. QED
    BY <2>1, <2>2, OneSound
<1>5. ASSUME NEW e \in Endpoints, TimePassesAt(e)
      PROVE  AllSound(breakers')
  BY <1>5, CoolsDownSound DEF TimePassesAt
<1>6. CASE BreakersInspected
  BY <1>6, LookedSound DEF BreakersInspected, Inspected
<1>7. CASE UNCHANGED breakers
  BY <1>7
<1>8. QED
  BY <1>1, <1>2, <1>3, <1>4, <1>5, <1>6, <1>7
  DEF ForwardNext, CallNext, forwardVars, AcquiresAgain, CallCancelled, WaitCancelled,
      StreamStarts, StreamDropped, CeilingsReported

-----------------------------------------------------------------------------
(* The theorems                                                            *)

ForwardInv == CallInv /\ AllSound(breakers)

\* The invariant holds of every behaviour.
THEOREM ForwardInvariant == ForwardSpec => []ForwardInv
<1>1. ForwardInit => ForwardInv
  BY CallInit, BreakersInitSound DEF ForwardInit, ForwardInv
<1>2. ForwardInv /\ [ForwardNext]_forwardVars => ForwardInv'
  BY CallStep, BreakerStep DEF ForwardInv
<1>3. QED
  BY <1>1, <1>2, PTL DEF ForwardSpec

\* Type correctness of forwarding and of what it goes through.
THEOREM ForwardTypeCorrect == ForwardSpec => []ForwardTypeOK
<1>1. ForwardInv => ForwardTypeOK
  BY DEF ForwardInv, CallInv, CallsTyped, Stage, AllSound, ForwardTypeOK
<1>2. QED
  BY <1>1, ForwardInvariant, PTL

\* No endpoint slot leaks and none is freed twice, whatever fails or is cancelled,
\* as long as no stream of the class has been read.
THEOREM SlotsOfEndpointsCounted == ForwardSpec => []BufferedCallsCounted
<1>1. ForwardInv => BufferedCallsCounted
  BY DEF ForwardInv, CallInv
<1>2. QED
  BY <1>1, ForwardInvariant, PTL

\* No call sleeps through room at its endpoint.
THEOREM NoMissedEndpointSlot == ForwardSpec => []SleepersHaveNoRoom
<1>1. ForwardInv => SleepersHaveNoRoom
  BY DEF ForwardInv, CallInv
<1>2. QED
  BY <1>1, ForwardInvariant, PTL

\* Failover never returns to an endpoint that has failed the request.
THEOREM FailoverMovesOn == ForwardSpec => []NeverBackToFailed
<1>1. ForwardInv => NeverBackToFailed
  BY DEF ForwardInv, CallInv
<1>2. QED
  BY <1>1, ForwardInvariant, PTL

\* The two ways in which a step may move the breaker of e.
MovesByRule(e) ==
  \/ Looks(breakers[e], breakers'[e])
  \/ VerdictOn(e) /\ Judges(breakers[e], breakers'[e])

\* An exchange that ends is a verdict on the endpoint it used and on no other,
\* though a failover looks at the breakers of others.
LEMMA ExchangeMovesByRule ==
  ASSUME CallInv, AllSound(breakers), NEW q \in Calls,
         Answers(q) \/ FailsOver(q) \/ Fails(q) \/ StreamEnds(q),
         NEW e \in Endpoints
  PROVE  MovesByRule(e)
<1>1. /\ stage[q] \in {"calling", "streaming"} /\ route[q] \in Endpoints
      /\ route'[q] = NoEndpoint
  BY DEF Answers, FailsOver, Fails, StreamEnds, Ends, CallInv, CallsTyped, CallsInPlace
<1>2. \/ breakers' = [breakers EXCEPT ![route[q]] = Succeeded(@)]
      \/ breakers' = AfterFailure(q)
      \/ \E E : breakers' = Looked(AfterFailure(q), E)
      \/ UNCHANGED breakers
  BY DEF Answers, FailsOver, Fails, StreamEnds
<1>3. breakers \in [Endpoints -> Breaker] /\ Sound(breakers[e])
  BY DEF AllSound
<1>4. CASE e = route[q]
  <2>1. VerdictOn(e)
    BY <1>1, <1>4 DEF VerdictOn
  <2>2. AfterFailure(q)[e] = Failed(breakers[e])
    BY <1>3, <1>4 DEF AfterFailure
  <2>3. ASSUME NEW E PROVE Looked(AfterFailure(q), E)[e] = Failed(breakers[e])
    <3>1. Looked(AfterFailure(q), E)[e] =
            IF e \in E THEN Seen(AfterFailure(q)[e]) ELSE AfterFailure(q)[e]
      BY DEF Looked
    <3>2. QED
      BY <1>3, <2>2, <3>1, SeenAfterFailed
  <2>4. \/ breakers'[e] = Succeeded(breakers[e])
        \/ breakers'[e] = Failed(breakers[e])
        \/ breakers'[e] = breakers[e]
    BY <1>2, <1>3, <1>4, <2>2, <2>3
  <2>5. Judges(breakers[e], Succeeded(breakers[e])) /\ Judges(breakers[e], Failed(breakers[e]))
    BY <1>3, SucceededJudges, FailedJudges
  <2>6. Looks(breakers[e], breakers[e])
    BY DEF Looks
  <2>7. QED
    BY <2>1, <2>4, <2>5, <2>6 DEF MovesByRule
<1>5. CASE e # route[q]
  <2>1. AfterFailure(q)[e] = breakers[e]
    BY <1>3, <1>5 DEF AfterFailure
  <2>2. ASSUME NEW E
        PROVE  Looked(AfterFailure(q), E)[e] = IF e \in E THEN Seen(breakers[e]) ELSE breakers[e]
    BY <2>1 DEF Looked
  <2>3. breakers'[e] = breakers[e] \/ breakers'[e] = Seen(breakers[e])
    BY <1>2, <1>3, <1>5, <2>1, <2>2
  <2>4. Looks(breakers[e], breakers[e]) /\ Looks(breakers[e], Seen(breakers[e]))
    BY <1>3, SeenLooks DEF Looks
  <2>5. QED
    BY <2>3, <2>4 DEF MovesByRule
<1>6. QED
  BY <1>4, <1>5

\* Every step moves every breaker by the rule.
LEMMA StepsMoveByRule ==
  ASSUME CallInv, AllSound(breakers), [ForwardNext]_forwardVars, NEW e \in Endpoints
  PROVE  MovesByRule(e)
<1>0. breakers \in [Endpoints -> Breaker] /\ Sound(breakers[e])
  BY DEF AllSound
<1>1. ASSUME NEW E, breakers' = Looked(breakers, E)
      PROVE  MovesByRule(e)
  BY <1>1, LookedLooks DEF MovesByRule
<1>2. CASE UNCHANGED breakers
  BY <1>2 DEF MovesByRule, Looks
<1>3. ASSUME NEW q \in Calls, RefusesExplicit(q)
      PROVE  MovesByRule(e)
  <2>1. /\ breakers' = [breakers EXCEPT ![Explicit[q]] = Failed(Seen(@))]
        /\ stage[q] = "new" /\ stage'[q] = "over"
    BY <1>3 DEF RefusesExplicit, Ends, CallInv, CallsTyped
  <2>2. CASE e = Explicit[q]
    <3>1. breakers'[e] = Failed(Seen(breakers[e]))
      BY <1>0, <2>1, <2>2
    <3>2. VerdictOn(e)
      BY <2>1, <2>2 DEF VerdictOn
    <3>3. QED
      BY <1>0, <3>1, <3>2, FailedAfterSeen DEF MovesByRule
  <2>3. CASE e # Explicit[q]
    BY <1>0, <2>1, <2>3 DEF MovesByRule, Looks
  <2>4. QED
    BY <2>2, <2>3
<1>4. ASSUME NEW f \in Endpoints, ProbeEnds(f)
      PROVE  MovesByRule(e)
  <2>1. PICK healthy \in BOOLEAN :
          breakers' = [breakers EXCEPT ![f] = Judged(breakers[f], healthy)]
    BY <1>4 DEF ProbeEnds, Probed
  <2>2. VerdictOn(e)
    BY <1>4 DEF ProbeEnds, VerdictOn
  <2>3. CASE e = f
    <3>1. breakers'[e] = Judged(breakers[e], healthy)
      BY <1>0, <2>1, <2>3
    <3>2. Judges(breakers[e], Judged(breakers[e], healthy))
      BY <1>0, SucceededJudges, FailedJudges DEF Judged
    <3>3. QED
      BY <2>2, <3>1, <3>2 DEF MovesByRule
  <2>4. CASE e # f
    BY <1>0, <2>1, <2>4 DEF MovesByRule, Looks
  <2>5. QED
    BY <2>3, <2>4
<1>5. ASSUME NEW f \in Endpoints, TimePassesAt(f)
      PROVE  MovesByRule(e)
  <2>1. breakers' = [breakers EXCEPT ![f] = [breakers[f] EXCEPT !.cooled = TRUE]]
    BY <1>5 DEF TimePassesAt, CoolsDown
  <2>2. /\ breakers'[e].failures = breakers[e].failures
        /\ breakers'[e].state = breakers[e].state
    <3>1. CASE e = f
      <4>1. breakers'[e] = [breakers[e] EXCEPT !.cooled = TRUE]
        BY <1>0, <2>1, <3>1
      <4>2. QED
        BY <1>0, <4>1 DEF Sound, Breaker
    <3>2. CASE e # f
      BY <1>0, <2>1, <3>2
    <3>3. QED
      BY <3>1, <3>2
  <2>3. QED
    BY <2>2 DEF MovesByRule, Looks
<1>6. ASSUME NEW q \in Calls, Selects(q) \/ FindsNone(q) \/ SelectsExplicit(q)
      PROVE  MovesByRule(e)
  BY <1>1, <1>6 DEF Selects, FindsNone, SelectsExplicit
<1>7. CASE BreakersInspected
  BY <1>1, <1>7 DEF BreakersInspected, Inspected
<1>8. QED
  BY <1>2, <1>3, <1>4, <1>5, <1>6, <1>7, ExchangeMovesByRule
  DEF ForwardNext, CallNext, forwardVars, AcquiresAgain, CallCancelled, WaitCancelled,
      StreamStarts, StreamDropped, CeilingsReported

\* What takes an endpoint out of service are failures of its own, each of them
\* counted once, and what brings it back is a success or a trial after the cool-down,
\* whatever calls, failovers, streams and probes interleave: for any calls,
\* endpoints, threshold and number of trials.
THEOREM FailuresStayOwn == ForwardSpec => FailuresAreOwn
<1>1. ForwardInv /\ [ForwardNext]_forwardVars =>
        [\A e \in Endpoints : OwnFailuresOnly(e)]_forwardVars
  <2> SUFFICES ASSUME ForwardInv, [ForwardNext]_forwardVars, NEW e \in Endpoints
               PROVE  OwnFailuresOnly(e)
    OBVIOUS
  <2>1. MovesByRule(e)
    BY StepsMoveByRule DEF ForwardInv
  <2>2. QED
    BY <2>1 DEF MovesByRule, Looks, Judges, OwnFailuresOnly
<1>2. QED
  BY <1>1, ForwardInvariant, PTL DEF ForwardSpec, FailuresAreOwn

\* The endpoint a call is sent to or waits for at its selection is one that its
\* breaker, as it is left by the step, lets in.
LEMMA SelectedIsNotOpen ==
  ASSUME CallsTyped, NEW q \in Calls, Selects(q) \/ SelectsExplicit(q)
  PROVE  breakers'[route'[q]].state # "open"
<1>1. CASE Selects(q)
  <2>1. PICK e \in Choices(q, failed[q], breakers) : GoesTo(q, e)
    BY <1>1 DEF Selects
  <2>2. e \in Endpoints /\ Allows(breakers[e])
    BY <2>1, ChoicesCompatible
  <2>3. e \in LookedAt(q, failed[q])
    BY <2>1 DEF Choices, LookedAt
  <2>4. Looked(breakers, LookedAt(q, failed[q]))[e].state # "open"
    BY <2>2, <2>3, AllowedIsNotOpen
  <2>5. route'[q] = e
    BY <2>1 DEF GoesTo, CallsTyped
  <2>6. QED
    BY <1>1, <2>4, <2>5 DEF Selects
<1>2. CASE SelectsExplicit(q)
  <2>1. /\ Explicit[q] \in {Explicit[q]} \cap Endpoints
        /\ Allows(breakers[Explicit[q]])
        /\ breakers' = Looked(breakers, {Explicit[q]})
    BY <1>2, ForwardingAssumption DEF SelectsExplicit
  <2>2. route'[q] = Explicit[q]
    BY <1>2 DEF SelectsExplicit, GoesTo, CallsTyped
  <2>3. QED
    BY <2>1, <2>2, AllowedIsNotOpen
<1>3. QED
  BY <1>1, <1>2

\* An endpoint whose breaker is open gets a request only after a wait for its slot.
THEOREM OpenMeansWaited == ForwardSpec => OpenOnlyAfterWait
<1>1. ASSUME ForwardInv, [ForwardNext]_forwardVars, NEW q \in Calls,
             stage[q] \in {"new", "failover"}, stage'[q] \in {"calling", "returned"}
      PROVE  breakers'[route'[q]].state # "open"
  <2> USE DEF ForwardInv, CallInv
  <2>1. ASSUME NEW p \in Calls,
               \/ FindsNone(p) \/ RefusesExplicit(p) \/ AcquiresAgain(p)
               \/ Answers(p) \/ FailsOver(p) \/ Fails(p)
               \/ CallCancelled(p) \/ WaitCancelled(p)
               \/ StreamStarts(p) \/ StreamDropped(p) \/ StreamEnds(p)
        PROVE  FALSE
    BY <1>1, <2>1
    DEF FindsNone, RefusesExplicit, AcquiresAgain, Answers, FailsOver, Fails, CallCancelled,
        WaitCancelled, StreamStarts, StreamDropped, StreamEnds, Ends, GoesTo, CallsTyped
  <2>2. ASSUME UNCHANGED stage PROVE FALSE
    BY <1>1, <2>2
  <2>3. PICK p \in Calls : Selects(p) \/ SelectsExplicit(p)
    BY <1>1, <2>1, <2>2
    DEF ForwardNext, CallNext, forwardVars, callVars, ProbeEnds, TimePassesAt,
        BreakersInspected, CeilingsReported
  <2>4. p = q
    BY <1>1, <2>3 DEF Selects, SelectsExplicit, GoesTo, CallsTyped
  <2>5. QED
    BY <1>1, <2>3, <2>4, SelectedIsNotOpen
<1>2. ForwardInv /\ [ForwardNext]_forwardVars =>
        [\A q \in Calls :
           /\ stage[q] \in {"new", "failover", "waiting"}
           /\ stage'[q] \in {"calling", "returned"}
           /\ breakers'[route'[q]].state = "open"
           => stage[q] = "waiting"]_forwardVars
  BY <1>1
<1>3. QED
  BY <1>2, ForwardInvariant, PTL DEF ForwardSpec, OpenOnlyAfterWait

=============================================================================
