---------------------- MODULE CircuitBreakers_proofs -----------------------
(***************************************************************************)
(* What the methods of a breaker keep, for any threshold and any number of *)
(* trials. Whoever calls them, in whatever order, finds and leaves breakers *)
(* whose state agrees with their count of failures.                        *)
(***************************************************************************)
EXTENDS CircuitBreakers, TLAPS

\* A breaker of the right type that is closed exactly while it has counted fewer
\* failures than open one.
Sound(b) ==
  /\ b \in Breaker
  /\ b.state = "closed" <=> b.failures < FailureThreshold

AllSound(bs) ==
  /\ bs \in [Endpoints -> Breaker]
  /\ \A e \in Endpoints : Sound(bs[e])

\* The two states a breaker is put into are sound.
LEMMA ResetSound == Sound(Reset) /\ Sound(Tripped(FailureThreshold))
  BY BreakerAssumption DEF Sound, Breaker, Reset, Tripped

\* Looking at a breaker may start its trial and forgets no failure.
LEMMA SeenSound ==
  ASSUME NEW b, Sound(b)
  PROVE  Sound(Seen(b))
<1>1. CASE b.state = "open" /\ b.cooled
  <2>1. Seen(b) = [state |-> "half_open", failures |-> b.failures, trials |-> 0, cooled |-> FALSE]
    BY <1>1 DEF Seen, Sound, Breaker
  <2>2. QED
    BY <1>1, <2>1, BreakerAssumption DEF Sound, Breaker
<1>2. CASE ~(b.state = "open" /\ b.cooled)
  BY <1>2 DEF Seen
<1>3. QED
  BY <1>1, <1>2

\* A success counts as a trial or closes the breaker.
LEMMA SucceededSound ==
  ASSUME NEW b, Sound(b)
  PROVE  Sound(Succeeded(b))
  BY BreakerAssumption, ResetSound DEF Sound, Breaker, Succeeded

\* A failure is counted or opens the breaker.
LEMMA FailedSound ==
  ASSUME NEW b, Sound(b)
  PROVE  Sound(Failed(b))
  BY BreakerAssumption, ResetSound DEF Sound, Breaker, Failed

\* So is the verdict of a probe.
LEMMA JudgedSound ==
  ASSUME NEW b, Sound(b), NEW healthy \in BOOLEAN
  PROVE  Sound(Judged(b, healthy))
  BY SucceededSound, FailedSound DEF Judged

\* Looking at any of the breakers keeps all of them sound.
LEMMA LookedSound ==
  ASSUME NEW bs, AllSound(bs), NEW E
  PROVE  AllSound(Looked(bs, E))
<1>1. ASSUME NEW e \in Endpoints
      PROVE  Looked(bs, E)[e] = IF e \in E THEN Seen(bs[e]) ELSE bs[e]
  BY DEF Looked
<1>2. ASSUME NEW e \in Endpoints
      PROVE  Sound(Looked(bs, E)[e])
  BY <1>1, SeenSound DEF AllSound
<1>3. Looked(bs, E) = [e \in Endpoints |-> Looked(bs, E)[e]]
  BY DEF Looked
<1>4. QED
  BY <1>2, <1>3 DEF AllSound, Sound

\* Replacing one breaker by a sound one keeps all of them sound.
LEMMA OneSound ==
  ASSUME NEW bs, AllSound(bs), NEW e \in Endpoints, NEW b, Sound(b)
  PROVE  AllSound([bs EXCEPT ![e] = b])
  BY DEF AllSound, Sound

\* In the beginning every breaker is closed.
LEMMA BreakersInitSound == BreakersInit => AllSound(breakers)
  BY ResetSound DEF BreakersInit, AllSound, Sound

\* The end of a cool-down is no verdict.
LEMMA CoolsDownSound ==
  ASSUME AllSound(breakers), NEW e \in Endpoints, CoolsDown(e)
  PROVE  AllSound(breakers')
<1>1. Sound([breakers[e] EXCEPT !.cooled = TRUE])
  BY DEF AllSound, Sound, Breaker
<1>2. breakers' = [breakers EXCEPT ![e] = [breakers[e] EXCEPT !.cooled = TRUE]]
  BY DEF CoolsDown
<1>3. QED
  BY <1>1, <1>2, OneSound

\* An endpoint that may be used is not open once it has been looked at.
LEMMA AllowedIsNotOpen ==
  ASSUME NEW bs, NEW E, NEW e \in E \cap Endpoints, Allows(bs[e])
  PROVE  Looked(bs, E)[e].state # "open"
  BY DEF Looked, Allows

-----------------------------------------------------------------------------
(* How a breaker moves                                                     *)

\* From b to c by a look: at most a trial begins, after the cool-down.
Looks(b, c) ==
  /\ c.failures = b.failures
  /\ c.state # b.state => b.state = "open" /\ b.cooled /\ c.state = "half_open"

\* From b to c by a verdict: a failure counts for one and opens a closed breaker only
\* if it is the last one that this takes; a success that closes it forgets all of
\* them, after all trials if there were any; and no trial begins.
Judges(b, c) ==
  /\ c.failures # b.failures => c.failures \in {0, b.failures + 1}
  /\ b.state = "closed" /\ c.state # "closed" =>
       c.state = "open" /\ b.failures + 1 = FailureThreshold
  /\ ~(b.state = "open" /\ c.state = "half_open")
  /\ b.state = "half_open" /\ c.state = "closed" => b.trials + 1 = HalfOpenSuccesses
  /\ b.state # "closed" /\ c.state = "closed" => c.failures = 0

LEMMA SeenLooks ==
  ASSUME NEW b, Sound(b)
  PROVE  Looks(b, Seen(b))
<1>1. CASE b.state = "open" /\ b.cooled
  <2>1. Seen(b) = [state |-> "half_open", failures |-> b.failures, trials |-> 0, cooled |-> FALSE]
    BY <1>1 DEF Seen, Sound, Breaker
  <2>2. QED
    BY <1>1, <2>1 DEF Looks
<1>2. CASE ~(b.state = "open" /\ b.cooled)
  BY <1>2 DEF Seen, Looks
<1>3. QED
  BY <1>1, <1>2

LEMMA LookedLooks ==
  ASSUME NEW bs, AllSound(bs), NEW E, NEW e \in Endpoints
  PROVE  Looks(bs[e], Looked(bs, E)[e])
<1>1. Looked(bs, E)[e] = IF e \in E THEN Seen(bs[e]) ELSE bs[e]
  BY DEF Looked
<1>2. QED
  BY <1>1, SeenLooks DEF AllSound, Looks

LEMMA SucceededJudges ==
  ASSUME NEW b, Sound(b)
  PROVE  Judges(b, Succeeded(b))
<1>1. CASE b.state = "half_open" /\ b.trials + 1 < HalfOpenSuccesses
  BY <1>1 DEF Succeeded, Judges, Sound, Breaker
<1>2. CASE ~(b.state = "half_open" /\ b.trials + 1 < HalfOpenSuccesses)
  <2>1. Succeeded(b) = Reset
    BY <1>2 DEF Succeeded
  <2>2. b.state = "half_open" => b.trials + 1 = HalfOpenSuccesses
    BY <1>2, BreakerAssumption DEF Sound, Breaker
  <2>3. QED
    BY <2>1, <2>2 DEF Reset, Judges
<1>3. QED
  BY <1>1, <1>2

LEMMA FailedJudges ==
  ASSUME NEW b, Sound(b)
  PROVE  Judges(b, Failed(b))
<1>1. CASE b.state = "half_open" \/ b.failures + 1 >= FailureThreshold
  <2>1. Failed(b) = Tripped(FailureThreshold)
    BY <1>1 DEF Failed
  <2>2. b.state # "closed" => b.failures = FailureThreshold
    BY BreakerAssumption DEF Sound, Breaker
  <2>3. b.state = "closed" => b.failures + 1 = FailureThreshold
    BY <1>1, BreakerAssumption DEF Sound, Breaker
  <2>4. QED
    BY <2>1, <2>2, <2>3 DEF Tripped, Judges
<1>2. CASE ~(b.state = "half_open" \/ b.failures + 1 >= FailureThreshold)
  <2>1. Failed(b).failures = b.failures + 1 /\ Failed(b).state = b.state
    BY <1>2 DEF Failed, Sound, Breaker
  <2>2. QED
    BY <2>1 DEF Judges
<1>3. QED
  BY <1>1, <1>2

\* A look right after a failure finds nothing to do: a cool-down has just begun.
LEMMA SeenAfterFailed ==
  ASSUME NEW b, Sound(b)
  PROVE  Seen(Failed(b)) = Failed(b)
<1>1. CASE b.state = "half_open" \/ b.failures + 1 >= FailureThreshold
  BY <1>1 DEF Failed, Tripped, Seen
<1>2. CASE ~(b.state = "half_open" \/ b.failures + 1 >= FailureThreshold)
  <2>1. b.state = "closed"
    BY <1>2, BreakerAssumption DEF Sound, Breaker
  <2>2. Failed(b).state = "closed"
    BY <1>2, <2>1 DEF Failed, Sound, Breaker
  <2>3. QED
    BY <2>2 DEF Seen
<1>3. QED
  BY <1>1, <1>2

\* A look right before it changes nothing of the verdict.
LEMMA FailedAfterSeen ==
  ASSUME NEW b, Sound(b)
  PROVE  Judges(b, Failed(Seen(b)))
<1>1. CASE b.state = "open" /\ b.cooled
  <2>1. Seen(b).state = "half_open"
    BY <1>1 DEF Seen, Sound, Breaker
  <2>2. Failed(Seen(b)) = Tripped(FailureThreshold)
    BY <2>1 DEF Failed
  <2>3. b.failures = FailureThreshold
    BY <1>1, BreakerAssumption DEF Sound, Breaker
  <2>4. QED
    BY <1>1, <2>2, <2>3 DEF Tripped, Judges
<1>2. CASE ~(b.state = "open" /\ b.cooled)
  BY <1>2, FailedJudges DEF Seen
<1>3. QED
  BY <1>1, <1>2

=============================================================================
