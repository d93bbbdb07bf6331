---------------------- MODULE EndpointRegistry_proofs ----------------------
(***************************************************************************)
(* The registry of any number of endpoints, read by any number of callers  *)
(* while the watcher probes: its variables keep to their values, and a     *)
(* request that names no endpoint goes to none that another would be       *)
(* better than, whatever probes are under way.                             *)
(***************************************************************************)
EXTENDS EndpointRegistry, CircuitBreakers_proofs

\* Types, for every prober the same range, and sound breakers.
RegistryInv ==
  /\ RegistryTypeOK
  /\ place \in [Probers -> 0..2 * Last]
  /\ AllSound(breakers)

-----------------------------------------------------------------------------
(* Positions and entries                                                   *)

\* There is an endpoint at every position.
LEMMA OrderPlaces ==
  /\ Last \in Nat \ {0}
  /\ \A i \in 1..Last : Order[i] \in Endpoints
  /\ Watcher \in Probers /\ Readers \subseteq Probers /\ Watcher \notin Readers
  BY RegistryAssumption DEF Last, Probers

\* One more probe leaves an entry of a probed endpoint.
LEMMA CountedEntry ==
  ASSUME NEW entry, NEW healthy
  PROVE  Counted(entry, healthy) \in {"clean", "mixed", "failing"}
  BY DEF Counted

\* A prober that goes to a position, and the ones that hold an entry meanwhile.
LEMMA MovesType ==
  ASSUME RegistryInv, NEW t \in Probers, NEW i \in 0..2 * Last,
         NEW holding \in [Probers -> Entry \cup {"cached"}],
         Moves(t, i, holding)
  PROVE  /\ place' \in [Probers -> 0..2 * Last]
         /\ place'[t] = i
         /\ \A s \in Probers \ {t} : place'[s] = place[s]
         /\ held' \in [Probers -> Entry \cup {"cached"}]
<1>1. place' = [place EXCEPT ![t] = i]
  BY DEF Moves
<1>2. PICK h \in Entry \cup {"cached"} : held' = [holding EXCEPT ![t] = h]
  BY DEF Moves, Entry
<1>3. QED
  BY <1>1, <1>2 DEF RegistryInv

\* What the others hold after a probe is still an entry.
LEMMA HeldAfterType ==
  ASSUME RegistryInv, NEW t \in Probers, place[t] \in 1..Last
  PROVE  HeldAfter(t) \in [Probers -> Entry \cup {"cached"}]
<1>1. cache[Order[place[t]]] \in Entry
  BY OrderPlaces DEF RegistryInv, RegistryTypeOK
<1>2. QED
  BY <1>1 DEF HeldAfter, RegistryInv, RegistryTypeOK

\* The answer of a probe leaves entries and sound breakers.
LEMMA ProbedType ==
  ASSUME RegistryInv, NEW e \in Endpoints, NEW entry, NEW healthy \in BOOLEAN
  PROVE  /\ [cache EXCEPT ![e] = Counted(entry, healthy)] \in [Endpoints -> Entry]
         /\ AllSound([breakers EXCEPT ![e] = Judged(@, healthy)])
<1>1. Counted(entry, healthy) \in Entry
  BY CountedEntry DEF Entry
<1>2. Sound(Judged(breakers[e], healthy))
  BY JudgedSound DEF RegistryInv, AllSound
<1>3. [breakers EXCEPT ![e] = Judged(@, healthy)] = [breakers EXCEPT ![e] = Judged(breakers[e], healthy)]
  OBVIOUS
<1>4. AllSound([breakers EXCEPT ![e] = Judged(breakers[e], healthy)])
  BY <1>2, OneSound DEF RegistryInv
<1>5. [cache EXCEPT ![e] = Counted(entry, healthy)] \in [Endpoints -> Entry]
  BY <1>1 DEF RegistryInv, RegistryTypeOK
<1>6. QED
  BY <1>3, <1>4, <1>5

\* The watcher's step that leaves everything but its own position and its mode.
LEMMA WatcherMoves ==
  ASSUME RegistryInv, NEW i \in 0..2 * Last,
         NEW holding \in [Probers -> Entry \cup {"cached"}], Moves(Watcher, i, holding),
         mode' \in {"off", "round", "sleeping", "ended"}, i > 0 <=> mode' = "round"
  PROVE  /\ place' \in [Probers -> 0..2 * Last]
         /\ \A s \in Readers : place'[s] \in 0..Last
         /\ place'[Watcher] \in 0..2 * Last /\ (place'[Watcher] > 0 <=> mode' = "round")
         /\ held' \in [Probers -> Entry \cup {"cached"}]
<1>1. Watcher \in Probers /\ \A s \in Readers : s \in Probers \ {Watcher}
  BY OrderPlaces
<1>2. /\ place' \in [Probers -> 0..2 * Last]
      /\ place'[Watcher] = i
      /\ \A s \in Probers \ {Watcher} : place'[s] = place[s]
      /\ held' \in [Probers -> Entry \cup {"cached"}]
  BY <1>1, MovesType
<1>3. QED
  BY <1>1, <1>2 DEF RegistryInv, RegistryTypeOK

\* A caller that reads on comes to another endpoint or to the end.
LEMMA ReadsOnType ==
  ASSUME RegistryInv, NEW t \in Readers, NEW i \in 0..Last, NEW bs, AllSound(bs),
         NEW holding \in [Probers -> Entry \cup {"cached"}],
         ReadsOn(t, i, bs, holding), UNCHANGED mode
  PROVE  /\ AllSound(breakers')
         /\ place' \in [Probers -> 0..2 * Last]
         /\ \A s \in Readers : place'[s] \in 0..Last
         /\ place'[Watcher] \in 0..2 * Last /\ (place'[Watcher] > 0 <=> mode' = "round")
         /\ held' \in [Probers -> Entry \cup {"cached"}]
<1>1. PICK j \in i + 1 .. Last + 1 :
        /\ breakers' = Looked(bs, {Order[k] : k \in i + 1 .. j - 1})
        /\ Moves(t, IF j <= Last THEN j ELSE 0, holding)
  BY DEF ReadsOn
<1>2. PICK n \in 0..Last : n = IF j <= Last THEN j ELSE 0
  BY OrderPlaces
<1>3. n \in 0..2 * Last /\ Moves(t, n, holding) /\ t \in Probers /\ t # Watcher
  BY <1>1, <1>2, OrderPlaces
<1>4. /\ place' \in [Probers -> 0..2 * Last]
      /\ place'[t] = n
      /\ \A s \in Probers \ {t} : place'[s] = place[s]
      /\ held' \in [Probers -> Entry \cup {"cached"}]
  BY <1>3, MovesType
<1>5. AllSound(breakers')
  BY <1>1, LookedSound
<1>6. QED
  BY <1>2, <1>3, <1>4, <1>5, OrderPlaces DEF RegistryInv, RegistryTypeOK

\* What the breakers' invariant says of their type.
LEMMA BreakersTyped == ASSUME NEW bs, AllSound(bs) PROVE bs \in [Endpoints -> Breaker]
  BY DEF AllSound

-----------------------------------------------------------------------------
(* The types                                                               *)

LEMMA RegistryInitInv == RegistryInit => RegistryInv
<1> SUFFICES ASSUME RegistryInit PROVE RegistryInv
  OBVIOUS
<1>1. AllSound(breakers) /\ breakers \in [Endpoints -> Breaker]
  BY BreakersInitSound, BreakersTyped DEF RegistryInit
<1>2. place \in [Probers -> 0..2 * Last]
  BY OrderPlaces DEF RegistryInit
<1>3. QED
  BY <1>1, <1>2, OrderPlaces DEF RegistryInv, RegistryTypeOK, RegistryInit, ResidencyInit, Entry

\* The steps of the watcher.
LEMMA WatcherStepInv ==
  ASSUME RegistryInv, WatcherStarts \/ WatcherNext \/ RoundFails \/ WatcherStops
  PROVE  RegistryInv'
<1>0. held \in [Probers -> Entry \cup {"cached"}]
  BY DEF RegistryInv, RegistryTypeOK
<1>1. ASSUME UNCHANGED <<breakers, residencyVars, engine, cache, target>>,
             NEW i \in 0..1, Moves(Watcher, i, held),
             mode' \in {"off", "round", "sleeping", "ended"}, i > 0 <=> mode' = "round"
      PROVE  RegistryInv'
  <2>1. i \in 0..2 * Last
    BY OrderPlaces
  <2>2. /\ place' \in [Probers -> 0..2 * Last]
        /\ \A s \in Readers : place'[s] \in 0..Last
        /\ place'[Watcher] \in 0..2 * Last /\ (place'[Watcher] > 0 <=> mode' = "round")
        /\ held' \in [Probers -> Entry \cup {"cached"}]
    BY <1>0, <1>1, <2>1, WatcherMoves
  <2>3. QED
    BY <1>1, <2>2 DEF RegistryInv, RegistryTypeOK, residencyVars, AllSound
<1>2. CASE WatcherStarts \/ WatcherWakes
  BY <1>1, <1>2 DEF WatcherStarts, WatcherWakes
<1>3. CASE RoundFails \/ WatcherStops
  BY <1>1, <1>3 DEF RoundFails, WatcherStops
<1>4. CASE WatcherProbes
  <2>1. PICK i \in 1..Last : i = place[Watcher]
    BY <1>4 DEF WatcherProbes
  <2>2. Order[i] \in Endpoints /\ i + 1 \in 0..2 * Last /\ i + 1 > 0 /\ Watcher \in Probers
    BY OrderPlaces
  <2>3. Healthy(Order[i]) \in BOOLEAN
    BY DEF Healthy
  <2>4. cache' \in [Endpoints -> Entry] /\ AllSound(breakers')
    BY <1>4, <2>1, <2>2, <2>3, ProbedType DEF WatcherProbes, Recorded, Probed
  <2>5. HeldAfter(Watcher) \in [Probers -> Entry \cup {"cached"}]
    BY <2>1, <2>2, HeldAfterType
  <2>6. Moves(Watcher, i + 1, HeldAfter(Watcher)) /\ mode' = "round"
    BY <1>4, <2>1 DEF WatcherProbes
  <2>7. /\ place' \in [Probers -> 0..2 * Last]
        /\ \A s \in Readers : place'[s] \in 0..Last
        /\ place'[Watcher] \in 0..2 * Last /\ (place'[Watcher] > 0 <=> mode' = "round")
        /\ held' \in [Probers -> Entry \cup {"cached"}]
    BY <2>2, <2>5, <2>6, WatcherMoves
  <2>8. breakers' \in [Endpoints -> Breaker]
    BY <2>4, BreakersTyped
  <2>9. QED
    BY <1>4, <2>4, <2>7, <2>8 DEF WatcherProbes, RegistryInv, RegistryTypeOK, residencyVars
<1>5. CASE WatcherLists
  <2> DEFINE e == Order[place[Watcher] - Last]
  <2>1. PICK i \in Last + 1 .. 2 * Last : i = place[Watcher]
    BY <1>5, OrderPlaces DEF WatcherLists, RegistryInv, RegistryTypeOK
  <2>2. e \in Endpoints
    BY <2>1, OrderPlaces
  <2>3. PICK names \in SUBSET Listable[e] : Listed(e, names)
    BY <1>5 DEF WatcherLists
  <2>4. names \subseteq Models
    BY <2>2, <2>3, ResidencyAssumption
  <2>5. observed' \in [Endpoints -> SUBSET Models] /\ accessed' = accessed
    BY <2>2, <2>3, <2>4 DEF Listed, RegistryInv, RegistryTypeOK
  <2>6. PICK n \in 0..2 * Last : n = IF i < 2 * Last THEN i + 1 ELSE 0
    BY <2>1, OrderPlaces
  <2>7. /\ Moves(Watcher, n, held)
        /\ mode' = IF i < 2 * Last THEN "round" ELSE "sleeping"
        /\ UNCHANGED <<breakers, engine, cache, target>>
    BY <1>5, <2>1, <2>6 DEF WatcherLists
  <2>8. mode' \in {"off", "round", "sleeping", "ended"} /\ (n > 0 <=> mode' = "round")
    <3>1. CASE i < 2 * Last
      BY <2>1, <2>6, <2>7, <3>1, OrderPlaces
    <3>2. CASE ~(i < 2 * Last)
      BY <2>6, <2>7, <3>2
    <3>3. QED
      BY <3>1, <3>2
  <2>9. /\ place' \in [Probers -> 0..2 * Last]
        /\ \A s \in Readers : place'[s] \in 0..Last
        /\ place'[Watcher] \in 0..2 * Last /\ (place'[Watcher] > 0 <=> mode' = "round")
        /\ held' \in [Probers -> Entry \cup {"cached"}]
    BY <1>0, <2>7, <2>8, WatcherMoves
  <2>10. QED
    BY <2>5, <2>7, <2>8, <2>9 DEF RegistryInv, RegistryTypeOK, AllSound
<1>6. QED
  BY <1>2, <1>3, <1>4, <1>5 DEF WatcherNext

\* The steps of a caller of GET /endpoints.
LEMMA ReaderStepInv ==
  ASSUME RegistryInv, NEW t \in Readers, ReaderCalls(t) \/ ReaderProbes(t)
  PROVE  RegistryInv'
<1>1. CASE ReaderCalls(t)
  <2>1. /\ ReadsOn(t, 0, breakers, held)
        /\ UNCHANGED <<residencyVars, engine, cache, mode, target>>
    BY <1>1 DEF ReaderCalls
  <2>2. /\ AllSound(breakers) /\ held \in [Probers -> Entry \cup {"cached"}]
        /\ 0 \in 0..Last
    BY OrderPlaces DEF RegistryInv, RegistryTypeOK
  <2>3. /\ AllSound(breakers')
        /\ place' \in [Probers -> 0..2 * Last]
        /\ \A s \in Readers : place'[s] \in 0..Last
        /\ place'[Watcher] \in 0..2 * Last /\ (place'[Watcher] > 0 <=> mode' = "round")
        /\ held' \in [Probers -> Entry \cup {"cached"}]
    BY <2>1, <2>2, ReadsOnType
  <2>4. breakers' \in [Endpoints -> Breaker]
    BY <2>3, BreakersTyped
  <2>5. QED
    BY <2>1, <2>3, <2>4 DEF RegistryInv, RegistryTypeOK, residencyVars
<1>2. CASE ReaderProbes(t)
  <2>1. PICK i \in 1..Last : i = place[t]
    BY <1>2, OrderPlaces DEF ReaderProbes, RegistryInv, RegistryTypeOK
  <2> DEFINE e == Order[i]
             bs == [breakers EXCEPT ![e] = Judged(@, Healthy(e))]
  <2>2. e \in Endpoints /\ i \in 0..Last /\ t \in Probers /\ Healthy(e) \in BOOLEAN
    BY OrderPlaces DEF Healthy
  <2>3. /\ cache' = [cache EXCEPT ![e] = Counted(Mine(t), Healthy(e))]
        /\ ReadsOn(t, i, bs, HeldAfter(t))
        /\ UNCHANGED <<residencyVars, engine, mode, target>>
    BY <1>2, <2>1 DEF ReaderProbes
  <2>4. cache' \in [Endpoints -> Entry] /\ AllSound(bs)
    BY <2>2, <2>3, ProbedType
  <2>5. HeldAfter(t) \in [Probers -> Entry \cup {"cached"}]
    BY <2>1, <2>2, HeldAfterType
  <2> HIDE DEF e, bs
  <2>6. /\ AllSound(breakers')
        /\ place' \in [Probers -> 0..2 * Last]
        /\ \A s \in Readers : place'[s] \in 0..Last
        /\ place'[Watcher] \in 0..2 * Last /\ (place'[Watcher] > 0 <=> mode' = "round")
        /\ held' \in [Probers -> Entry \cup {"cached"}]
    BY <2>2, <2>3, <2>4, <2>5, ReadsOnType
  <2>7. breakers' \in [Endpoints -> Breaker]
    BY <2>6, BreakersTyped
  <2>8. QED
    BY <2>3, <2>4, <2>6, <2>7 DEF RegistryInv, RegistryTypeOK, residencyVars
<1>3. QED
  BY <1>1, <1>2

\* An endpoint that is chosen is one.
LEMMA ChoicesType ==
  ASSUME NEW r, NEW e \in Choices(r)
  PROVE  e \in Endpoints /\ Allows(breakers[e]) /\ e \in LookedAtFor(r)
<1> DEFINE available == {c \in Candidates(r) : Allows(breakers[c])}
<1>1. Candidates(r) \subseteq Endpoints
  BY DEF Candidates
<1>2. CASE available # {}
  <2>1. Best(available) \subseteq available
    BY DEF Best, Spotless
  <2>2. e \in available
    BY <1>2, <2>1 DEF Choices
  <2>3. QED
    BY <1>1, <2>2 DEF LookedAtFor
<1>3. CASE available = {}
  <2>1. e = DefaultEndpoint /\ Allows(breakers[e])
    BY <1>3 DEF Choices
  <2>2. ~\E c \in Candidates(r) : Allows(breakers[c])
    BY <1>3
  <2>3. QED
    BY <2>1, <2>2, RoutesAssumption DEF LookedAtFor
<1>4. QED
  BY <1>2, <1>3

\* A request that is sent somewhere.
LEMMA SentType ==
  ASSUME RegistryInv, NEW r \in Requests, NEW e \in Endpoints, SentTo(r, e),
         NEW E, breakers' = Looked(breakers, E)
  PROVE  RegistryInv'
<1>1. AllSound(breakers') /\ breakers' \in [Endpoints -> Breaker]
  BY LookedSound, BreakersTyped DEF RegistryInv
<1>2. observed' = observed /\ accessed' \in [Endpoints -> SUBSET Models]
  BY DEF SentTo, Requested, RegistryInv, RegistryTypeOK
<1>3. target' \in [Requests -> Endpoints \cup {NoEndpoint}]
  BY DEF SentTo, RegistryInv, RegistryTypeOK
<1>4. QED
  BY <1>1, <1>2, <1>3 DEF SentTo, RegistryInv, RegistryTypeOK, proberVars

\* An exchange that ends with whatever verdict.
LEMMA EndedType ==
  ASSUME RegistryInv, NEW r \in Requests, Ended(r), AllSound(breakers')
  PROVE  RegistryInv'
<1>1. breakers' \in [Endpoints -> Breaker]
  BY BreakersTyped
<1>2. /\ target' \in [Requests -> Endpoints \cup {NoEndpoint}]
      /\ UNCHANGED <<residencyVars, engine, proberVars>>
  BY DEF Ended, RegistryInv, RegistryTypeOK
<1>3. QED
  BY <1>1, <1>2 DEF RegistryInv, RegistryTypeOK, proberVars, residencyVars

\* The steps of requests.
LEMMA RequestStepInv ==
  ASSUME RegistryInv, NEW r \in Requests,
         \/ Routed(r) \/ RoutedByName(r) \/ Refused(r)
         \/ Answered(r) \/ ExchangeFails(r) \/ Abandoned(r)
  PROVE  RegistryInv'
<1>1. CASE Routed(r)
  <2>1. PICK e \in Choices(r) : SentTo(r, e)
    BY <1>1 DEF Routed
  <2>2. e \in Endpoints
    BY ChoicesType
  <2>3. QED
    BY <1>1, <2>1, <2>2, SentType DEF Routed
<1>2. CASE RoutedByName(r)
  <2>1. Named[r] \in Endpoints
    BY <1>2, RegistryAssumption DEF RoutedByName
  <2>2. QED
    BY <1>2, <2>1, SentType DEF RoutedByName
<1>3. CASE Refused(r)
  <2>1. Named[r] \in Endpoints
    BY <1>3, RegistryAssumption DEF Refused
  <2>2. Sound(Failed(Seen(breakers[Named[r]])))
    BY <2>1, SeenSound, FailedSound DEF RegistryInv, AllSound
  <2>3. breakers' = [breakers EXCEPT ![Named[r]] = Failed(Seen(breakers[Named[r]]))]
    BY <1>3 DEF Refused
  <2>4. AllSound(breakers')
    BY <2>1, <2>2, <2>3, OneSound DEF RegistryInv
  <2>5. breakers' \in [Endpoints -> Breaker]
    BY <2>4, BreakersTyped
  <2>6. QED
    BY <1>3, <2>4, <2>5 DEF Refused, RegistryInv, RegistryTypeOK, proberVars, residencyVars
<1>4. CASE Answered(r) \/ ExchangeFails(r)
  <2>1. PICK e \in Endpoints : e = target[r]
    BY <1>4 DEF Answered, ExchangeFails, Ended, RegistryInv, RegistryTypeOK
  <2>2. PICK fine \in BOOLEAN : breakers' = [breakers EXCEPT ![e] = Judged(@, fine)]
    BY <1>4, <2>1 DEF Answered, ExchangeFails, Probed
  <2>3. AllSound(breakers')
    BY <2>2, ProbedType
  <2>4. QED
    BY <1>4, <2>3, EndedType DEF Answered, ExchangeFails
<1>5. CASE Abandoned(r)
  <2>1. AllSound(breakers')
    BY <1>5 DEF Abandoned, RegistryInv
  <2>2. QED
    BY <1>5, <2>1, EndedType DEF Abandoned
<1>6. QED
  BY <1>1, <1>2, <1>3, <1>4, <1>5

\* The steps of the engines and of the clock.
LEMMA EngineStepInv ==
  ASSUME RegistryInv, NEW e \in Endpoints, EngineTurns(e) \/ BreakerCools(e)
  PROVE  RegistryInv'
<1>1. CASE EngineTurns(e)
  <2>1. engine' \in [Endpoints -> Engine]
    BY <1>1 DEF EngineTurns, RegistryInv, RegistryTypeOK
  <2>2. QED
    BY <1>1, <2>1 DEF EngineTurns, RegistryInv, RegistryTypeOK, AllSound, residencyVars, proberVars
<1>2. CASE BreakerCools(e)
  <2>1. AllSound(breakers')
    BY <1>2, CoolsDownSound DEF BreakerCools, RegistryInv
  <2>2. breakers' \in [Endpoints -> Breaker]
    BY <2>1, BreakersTyped
  <2>3. QED
    BY <1>2, <2>1, <2>2 DEF BreakerCools, RegistryInv, RegistryTypeOK, residencyVars, proberVars
<1>3. QED
  BY <1>1, <1>2

\* Every step keeps the invariant.
LEMMA RegistryStepInv == RegistryInv /\ [RegistryNext]_registryVars => RegistryInv'
<1> SUFFICES ASSUME RegistryInv, [RegistryNext]_registryVars PROVE RegistryInv'
  OBVIOUS
<1>1. CASE WatcherStarts \/ WatcherNext \/ RoundFails \/ WatcherStops
  BY <1>1, WatcherStepInv
<1>2. CASE \E t \in Readers : ReaderCalls(t) \/ ReaderProbes(t)
  BY <1>2, ReaderStepInv
<1>3. CASE \E r \in Requests :
             \/ Routed(r) \/ RoutedByName(r) \/ Refused(r)
             \/ Answered(r) \/ ExchangeFails(r) \/ Abandoned(r)
  BY <1>3, RequestStepInv
<1>4. CASE \E e \in Endpoints : EngineTurns(e) \/ BreakerCools(e)
  BY <1>4, EngineStepInv
<1>5. CASE UNCHANGED registryVars
  BY <1>5 DEF registryVars, proberVars, residencyVars, RegistryInv, RegistryTypeOK, AllSound
<1>6. QED
  BY <1>1, <1>2, <1>3, <1>4, <1>5 DEF RegistryNext

\* The registry's state keeps to its types, and each breaker is closed exactly
\* while it has counted fewer failures than open it.
THEOREM RegistryInvariant == RegistrySpec => []RegistryInv
  BY RegistryInitInv, RegistryStepInv, PTL DEF RegistrySpec

\* Every variable of the registry keeps to its values, and the watcher is at an
\* endpoint exactly during a round.
THEOREM RegistryTypeCorrect == RegistrySpec => []RegistryTypeOK
<1>1. RegistryInv => RegistryTypeOK
  BY DEF RegistryInv
<1>2. QED
  BY <1>1, RegistryInvariant, PTL

-----------------------------------------------------------------------------
(* The choice of an endpoint                                               *)

LEMMA PreferenceValues ==
  /\ Preference["unknown"] = 0 /\ Preference["clean"] = 0
  /\ Preference["mixed"] = 1 /\ Preference["failing"] = 2
  BY DEF Preference

\* The best ones of a set are in it, and no other is preferred to them.
LEMMA BestIsPreferred ==
  ASSUME cache \in [Endpoints -> Entry], NEW E \in SUBSET Endpoints,
         NEW e \in Best(E), NEW c \in E
  PROVE  Preference[cache[e]] <= Preference[cache[c]]
<1>1. e \in E
  BY DEF Best, Spotless
<1>2. cache[e] \in Entry /\ cache[c] \in Entry
  BY <1>1
<1>3. cache[e] = "failing" => cache[c] = "failing"
  BY DEF Best, Spotless
<1>4. cache[e] = "mixed" => cache[c] \in {"mixed", "failing"}
  BY <1>2 DEF Best, Spotless, Entry
<1>5. QED
  BY <1>2, <1>3, <1>4, PreferenceValues DEF Entry

\* A request that names no endpoint is sent to one whose breaker is not open, and
\* to none that the cache and the breakers say another would be better than: not
\* to the default endpoint while a compatible one may be used, and not to one
\* whose probes failed while one of better record may be used. This holds for any
\* number of endpoints and probers, between whatever steps of theirs it falls.
THEOREM BestEndpointIsChosen == RegistrySpec => BetterPreferred
<1> DEFINE Better(r) ==
      Named[r] = NoEndpoint /\ target[r] = NoEndpoint /\ target'[r] # NoEndpoint =>
         /\ breakers'[target'[r]].state # "open"
         /\ \A e \in Candidates(r) :
              Allows(breakers[e]) =>
                /\ target'[r] \in Candidates(r)
                /\ Preference[cache[target'[r]]] <= Preference[cache[e]]
<1>1. ASSUME RegistryInv, RegistryNext, NEW r \in Requests
      PROVE  Better(r)
  <2> SUFFICES ASSUME Named[r] = NoEndpoint, target[r] = NoEndpoint, target'[r] # NoEndpoint
               PROVE  /\ breakers'[target'[r]].state # "open"
                      /\ \A e \in Candidates(r) :
                           Allows(breakers[e]) =>
                             /\ target'[r] \in Candidates(r)
                             /\ Preference[cache[target'[r]]] <= Preference[cache[e]]
    OBVIOUS
  <2>1. Routed(r)
    <3>1. target \in [Requests -> Endpoints \cup {NoEndpoint}]
      BY <1>1 DEF RegistryInv, RegistryTypeOK
    <3>2. target' # target
      OBVIOUS
    <3>3. PICK q \in Requests :
            \/ Routed(q) \/ RoutedByName(q) \/ Refused(q)
            \/ Answered(q) \/ ExchangeFails(q) \/ Abandoned(q)
      BY <1>1, <3>2 DEF RegistryNext, WatcherStarts, WatcherNext, WatcherProbes, WatcherLists,
           WatcherWakes, RoundFails, WatcherStops, ReaderCalls, ReaderProbes, EngineTurns, BreakerCools
    <3>4. PICK x : target' = [target EXCEPT ![q] = x] /\ (Ended(q) => x = NoEndpoint)
      BY <3>2, <3>3 DEF Routed, RoutedByName, Refused, SentTo, Ended, Answered, ExchangeFails, Abandoned
    <3>5. q = r /\ ~Ended(q)
      BY <3>1, <3>4
    <3>6. QED
      BY <3>2, <3>3, <3>5 DEF RoutedByName, Refused, Answered, ExchangeFails, Abandoned
  <2>2. PICK e \in Choices(r) : target' = [target EXCEPT ![r] = e]
    BY <2>1 DEF Routed, SentTo
  <2>3. target'[r] = e
    BY <1>1, <2>2 DEF RegistryInv, RegistryTypeOK
  <2>4. e \in LookedAtFor(r) \cap Endpoints /\ Allows(breakers[e])
    BY ChoicesType
  <2>5. breakers'[e].state # "open"
    BY <2>1, <2>4, AllowedIsNotOpen DEF Routed
  <2>6. ASSUME NEW c \in Candidates(r), Allows(breakers[c])
        PROVE  /\ e \in Candidates(r)
               /\ Preference[cache[e]] <= Preference[cache[c]]
    <3> DEFINE available == {a \in Candidates(r) : Allows(breakers[a])}
    <3>1. c \in available /\ available \subseteq Endpoints
      BY <2>6 DEF Candidates
    <3>2. e \in Best(available)
      BY <3>1 DEF Choices
    <3>3. e \in available
      BY <3>2 DEF Best, Spotless
    <3>4. cache \in [Endpoints -> Entry]
      BY <1>1 DEF RegistryInv, RegistryTypeOK
    <3> HIDE DEF available
    <3>5. Preference[cache[e]] <= Preference[cache[c]]
      BY <3>1, <3>2, <3>4, BestIsPreferred
    <3>6. QED
      BY <3>3, <3>5 DEF available
  <2>7. QED
    BY <2>3, <2>5, <2>6
<1>2. ASSUME UNCHANGED registryVars
      PROVE  \A r \in Requests : target'[r] = target[r]
  BY <1>2 DEF registryVars
<1>3. RegistryInv /\ [RegistryNext]_registryVars
        => [\A r \in Requests : Better(r)]_registryVars
  BY <1>1, <1>2
<1>4. QED
  BY <1>3, RegistryInvariant, PTL DEF RegistrySpec, BetterPreferred

=============================================================================
