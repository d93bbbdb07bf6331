------------------------ MODULE ControlPlane_proofs -------------------------
(***************************************************************************)
(* What the control plane does to the limits, for every configuration,     *)
(* host, window and number of requests and endpoints; and first what the   *)
(* policy engine computes: when the limits are zero, and that they shrink  *)
(* as the pressure grows. Each rule of compute_concurrency_limits keeps    *)
(* the floors and the order of what it is given, so the four rules do in   *)
(* sequence.                                                               *)
(***************************************************************************)
EXTENDS ControlPlane, TLAPS

SlotRecords == [fg : Nat, bg : Nat, endpointFg : Nat, endpointBg : Nat]

\* The limits l respect the floors of the pressure s; background is stopped
\* if s yields.
Floored(s, l) ==
  /\ l \in SlotRecords
  /\ l.fg >= 1 /\ l.endpointFg >= 1
  /\ Yields(s) => l.bg = 0 /\ l.endpointBg = 0
  /\ ~Yields(s) => l.bg >= 1 /\ l.endpointBg >= 1

-----------------------------------------------------------------------------
(* What order in pressure means for the rules                              *)

LEMMA PenaltyNatural ==
  ASSUME NEW s \in SignalSet
  PROVE  Penalty(s) \in Nat
<1>1. RamPenalty(s) \in Nat
  BY DEF SignalSet, RamPenalty
<1>2. ThermalPenalty(s) \in Nat
  BY DEF SignalSet, ThermalPenalty
<1>3. QED
  BY <1>1, <1>2 DEF Penalty

LEMMA PenaltiesOrdered ==
  ASSUME NEW s \in SignalSet, NEW r \in SignalSet, NoHarsher(s, r)
  PROVE  /\ Penalty(s) \in Nat /\ Penalty(r) \in Nat
         /\ Penalty(s) <= Penalty(r)
         /\ Yields(s) => Yields(r)
         /\ s.thermal # "cool" => r.thermal # "cool"
<1>1. /\ RamPenalty(s) \in Nat /\ RamPenalty(r) \in Nat
      /\ Yields(s) => Yields(r)
  BY DEF SignalSet, NoHarsher, RamPenalty, Yields
<1>2. /\ ThermalPenalty(s) \in Nat /\ ThermalPenalty(r) \in Nat
      /\ s.thermal # "cool" => r.thermal # "cool"
  BY DEF SignalSet, NoHarsher, ThermalPenalty
<1>3. /\ Penalty(s) \in Nat /\ Penalty(r) \in Nat
      /\ Penalty(s) <= Penalty(r)
  BY <1>1, <1>2 DEF SignalSet, NoHarsher, Penalty
<1>4. QED
  BY <1>1, <1>2, <1>3

-----------------------------------------------------------------------------
(* The rules, one by one                                                   *)

LEMMA SlotsConfigured ==
  /\ MaxSlots \in SlotRecords
  /\ MaxSlots.fg >= 1 /\ MaxSlots.bg >= 1
  /\ MaxSlots.endpointFg >= 1 /\ MaxSlots.endpointBg >= 1
BY PolicyAssumption DEF SlotRecords

\* What each state of the host leaves of the configured ceilings.
StateLimits(s) ==
  [fg |-> CASE Yields(s) -> AtLeast(1, MaxSlots.fg \div 2)
            [] Pressured(s) -> AtLeast(1, (MaxSlots.fg * 3) \div 4)
            [] OTHER -> MaxSlots.fg,
   bg |-> CASE Yields(s) -> 0
            [] Pressured(s) -> AtLeast(1, MaxSlots.bg \div 2)
            [] Recovering(s) -> AtLeast(1, (MaxSlots.bg * 3) \div 4)
            [] OTHER -> MaxSlots.bg,
   endpointFg |-> CASE Yields(s) -> AtLeast(1, MaxSlots.endpointFg \div 2)
                    [] Pressured(s) -> AtLeast(1, (MaxSlots.endpointFg * 3) \div 4)
                    [] OTHER -> MaxSlots.endpointFg,
   endpointBg |-> CASE Yields(s) -> 0
                    [] Pressured(s) -> AtLeast(1, MaxSlots.endpointBg \div 2)
                    [] Recovering(s) -> AtLeast(1, (MaxSlots.endpointBg * 3) \div 4)
                    [] OTHER -> MaxSlots.endpointBg]

LEMMA StateByField ==
  ASSUME NEW s \in SignalSet
  PROVE  /\ ByState(s, MaxSlots) \in SlotRecords
         /\ ByState(s, MaxSlots).fg = StateLimits(s).fg
         /\ ByState(s, MaxSlots).bg = StateLimits(s).bg
         /\ ByState(s, MaxSlots).endpointFg = StateLimits(s).endpointFg
         /\ ByState(s, MaxSlots).endpointBg = StateLimits(s).endpointBg
<1> USE SlotsConfigured DEF SlotRecords
<1>1. ASSUME Pressured(s) PROVE ~Yields(s) /\ ~Recovering(s)
  BY <1>1, PenaltyNatural DEF Pressured, Recovering
<1>2. ASSUME Recovering(s) PROVE ~Yields(s)
  BY <1>2 DEF Recovering
<1>3. CASE Yields(s)
  BY <1>1, <1>2, <1>3 DEF ByState, StateLimits, AtLeast
<1>4. CASE Pressured(s)
  BY <1>1, <1>4 DEF ByState, StateLimits, AtLeast
<1>5. CASE Recovering(s)
  <2> DEFINE x == AtLeast(1, (MaxSlots.bg * 3) \div 4)
             y == AtLeast(1, (MaxSlots.endpointBg * 3) \div 4)
             m == ByState(s, MaxSlots)
  <2>1. x \in Nat /\ y \in Nat
    BY DEF AtLeast
  <2>2. m = [MaxSlots EXCEPT !.bg = x, !.endpointBg = y]
    BY <1>1, <1>2, <1>5 DEF ByState
  <2>3. /\ m \in SlotRecords
        /\ m.fg = MaxSlots.fg /\ m.bg = x
        /\ m.endpointFg = MaxSlots.endpointFg /\ m.endpointBg = y
    <3> HIDE DEF m, x, y
    <3>1. QED BY <2>1, <2>2
  <2>4. QED
    BY <2>3, <1>1, <1>2, <1>5 DEF StateLimits
<1>6. CASE ~Yields(s) /\ ~Pressured(s) /\ ~Recovering(s)
  BY <1>6 DEF ByState, StateLimits
<1>7. QED
  BY <1>3, <1>4, <1>5, <1>6

LEMMA StateFloored ==
  ASSUME NEW s \in SignalSet
  PROVE  Floored(s, ByState(s, MaxSlots))
<1> USE SlotsConfigured DEF Floored, SlotRecords, StateLimits, AtLeast
<1>1. CASE Yields(s)
  BY <1>1, StateByField DEF Pressured, Recovering
<1>2. CASE ~Yields(s)
  BY <1>2, StateByField DEF Pressured, Recovering
<1>3. QED
  BY <1>1, <1>2

LEMMA SwapFields ==
  ASSUME NEW s \in SignalSet, NEW l, Floored(s, l)
  PROVE  /\ BySwap(s, l) \in SlotRecords
         /\ BySwap(s, l).fg = l.fg /\ BySwap(s, l).endpointFg = l.endpointFg
         /\ BySwap(s, l).bg = IF s.swap THEN AtLeast(BgFloor(s), l.bg \div 2) ELSE l.bg
         /\ BySwap(s, l).endpointBg =
              IF s.swap THEN AtLeast(BgFloor(s), l.endpointBg \div 2) ELSE l.endpointBg
<1> DEFINE x == AtLeast(BgFloor(s), l.bg \div 2)
           y == AtLeast(BgFloor(s), l.endpointBg \div 2)
           m == BySwap(s, l)
<1>1. l \in SlotRecords /\ x \in Nat /\ y \in Nat
  BY DEF Floored, SlotRecords, AtLeast, BgFloor
<1>2. m = IF s.swap THEN [l EXCEPT !.bg = x, !.endpointBg = y] ELSE l
  BY DEF BySwap
<1>3. CASE s.swap
  <2> HIDE DEF m, x, y
  <2>1. m = [l EXCEPT !.bg = x, !.endpointBg = y]
    BY <1>2, <1>3
  <2>2. /\ m \in SlotRecords
        /\ m.fg = l.fg /\ m.bg = x /\ m.endpointFg = l.endpointFg /\ m.endpointBg = y
    BY <1>1, <2>1 DEF SlotRecords
  <2>3. QED
    BY <2>2, <1>3 DEF m, x, y
<1>4. CASE ~s.swap
  BY <1>1, <1>2, <1>4
<1>5. QED
  BY <1>3, <1>4

LEMMA BreakerFields ==
  ASSUME NEW s \in SignalSet, NEW l, Floored(s, l), NEW open \in Nat
  PROVE  /\ ByBreakers(s, open, l) \in SlotRecords
         /\ ByBreakers(s, open, l).fg = l.fg /\ ByBreakers(s, open, l).bg = l.bg
         /\ ByBreakers(s, open, l).endpointFg =
              IF open > 0 THEN AtLeast(1, l.endpointFg - open) ELSE l.endpointFg
         /\ ByBreakers(s, open, l).endpointBg =
              IF open > 0 THEN AtLeast(BgFloor(s), l.endpointBg - open) ELSE l.endpointBg
<1> DEFINE x == AtLeast(1, l.endpointFg - open)
           y == AtLeast(BgFloor(s), l.endpointBg - open)
           m == ByBreakers(s, open, l)
<1>1. l \in SlotRecords /\ x \in Nat /\ y \in Nat
  BY DEF Floored, SlotRecords, AtLeast, BgFloor
<1>2. m = IF open > 0 THEN [l EXCEPT !.endpointFg = x, !.endpointBg = y] ELSE l
  BY DEF ByBreakers
<1>3. CASE open > 0
  <2> HIDE DEF m, x, y
  <2>1. m = [l EXCEPT !.endpointFg = x, !.endpointBg = y]
    BY <1>2, <1>3
  <2>2. /\ m \in SlotRecords
        /\ m.fg = l.fg /\ m.bg = l.bg /\ m.endpointFg = x /\ m.endpointBg = y
    BY <1>1, <2>1 DEF SlotRecords
  <2>3. QED
    BY <2>2, <1>3 DEF m, x, y
<1>4. CASE ~(open > 0)
  BY <1>1, <1>2, <1>4
<1>5. QED
  BY <1>3, <1>4

LEMMA SwapFloored ==
  ASSUME NEW s \in SignalSet, NEW l, Floored(s, l)
  PROVE  Floored(s, BySwap(s, l))
BY SwapFields DEF Floored, SlotRecords, AtLeast, BgFloor

LEMMA ThermalFloored ==
  ASSUME NEW s \in SignalSet, NEW l, Floored(s, l)
  PROVE  Floored(s, ByThermal(s, l))
BY DEF Floored, SlotRecords, ByThermal, AtLeast, BgFloor, Yields

LEMMA BreakersFloored ==
  ASSUME NEW s \in SignalSet, NEW l, Floored(s, l), NEW open \in Nat
  PROVE  Floored(s, ByBreakers(s, open, l))
<1> DEFINE m == ByBreakers(s, open, l)
<1>1. /\ m \in SlotRecords /\ m.fg = l.fg /\ m.bg = l.bg
      /\ m.endpointFg = IF open > 0 THEN AtLeast(1, l.endpointFg - open) ELSE l.endpointFg
      /\ m.endpointBg = IF open > 0 THEN AtLeast(BgFloor(s), l.endpointBg - open)
                                    ELSE l.endpointBg
  BY BreakerFields
<1> HIDE DEF m
<1>2. l \in SlotRecords
  BY DEF Floored
<1>3. m.fg >= 1 /\ m.endpointFg >= 1
  BY <1>1, <1>2 DEF Floored, SlotRecords, AtLeast
<1>4. Yields(s) => m.bg = 0 /\ m.endpointBg = 0
  BY <1>1, <1>2 DEF Floored, SlotRecords, AtLeast, BgFloor
<1>5. ~Yields(s) => m.bg >= 1 /\ m.endpointBg >= 1
  BY <1>1, <1>2 DEF Floored, SlotRecords, AtLeast, BgFloor
<1>6. Floored(s, m)
  BY <1>1, <1>3, <1>4, <1>5 DEF Floored
<1>7. QED
  BY <1>6 DEF m
LEMMA StateOrdered ==
  ASSUME NEW s \in SignalSet, NEW r \in SignalSet, NoHarsher(s, r)
  PROVE  NoLarger(ByState(r, MaxSlots), ByState(s, MaxSlots))
<1> USE SlotsConfigured DEF SlotRecords
<1>1. /\ Penalty(s) \in Nat /\ Penalty(r) \in Nat /\ Penalty(s) <= Penalty(r)
      /\ Yields(s) => Yields(r)
  BY PenaltiesOrdered
<1>3. StateLimits(r).fg <= StateLimits(s).fg
  BY <1>1 DEF StateLimits, Pressured, Recovering, AtLeast
<1>4. StateLimits(r).bg <= StateLimits(s).bg
  BY <1>1 DEF StateLimits, Pressured, Recovering, AtLeast
<1>5. StateLimits(r).endpointFg <= StateLimits(s).endpointFg
  BY <1>1 DEF StateLimits, Pressured, Recovering, AtLeast
<1>6. StateLimits(r).endpointBg <= StateLimits(s).endpointBg
  BY <1>1 DEF StateLimits, Pressured, Recovering, AtLeast
<1>7. QED
  BY StateByField, <1>3, <1>4, <1>5, <1>6 DEF NoLarger

LEMMA SwapOrdered ==
  ASSUME NEW s \in SignalSet, NEW r \in SignalSet, NoHarsher(s, r),
         NEW l, NEW k, Floored(s, l), Floored(r, k), NoLarger(k, l)
  PROVE  NoLarger(BySwap(r, k), BySwap(s, l))
<1>1. (Yields(s) => Yields(r)) /\ (s.swap => r.swap)
  BY PenaltiesOrdered DEF NoHarsher
<1>2. QED
  BY <1>1, SwapFields DEF NoLarger, Floored, SlotRecords, AtLeast, BgFloor, SignalSet

LEMMA ThermalOrdered ==
  ASSUME NEW s \in SignalSet, NEW r \in SignalSet, NoHarsher(s, r),
         NEW l, NEW k, Floored(s, l), Floored(r, k), NoLarger(k, l)
  PROVE  NoLarger(ByThermal(r, k), ByThermal(s, l))
<1>1. (Yields(s) => Yields(r)) /\ (s.thermal # "cool" => r.thermal # "cool")
  BY PenaltiesOrdered
<1>2. QED
  BY <1>1 DEF NoLarger, Floored, SlotRecords, ByThermal, AtLeast, BgFloor

LEMMA BreakersOrdered ==
  ASSUME NEW s \in SignalSet, NEW r \in SignalSet, NoHarsher(s, r),
         NEW l, NEW k, Floored(s, l), Floored(r, k), NoLarger(k, l),
         NEW i \in Nat, NEW j \in Nat, i <= j
  PROVE  NoLarger(ByBreakers(r, j, k), ByBreakers(s, i, l))
<1> DEFINE m == ByBreakers(s, i, l)
           n == ByBreakers(r, j, k)
<1>1. Yields(s) => Yields(r)
  BY PenaltiesOrdered
<1>2. /\ m.fg = l.fg /\ m.bg = l.bg
      /\ m.endpointFg = IF i > 0 THEN AtLeast(1, l.endpointFg - i) ELSE l.endpointFg
      /\ m.endpointBg = IF i > 0 THEN AtLeast(BgFloor(s), l.endpointBg - i)
                                 ELSE l.endpointBg
  BY BreakerFields
<1>3. /\ n.fg = k.fg /\ n.bg = k.bg
      /\ n.endpointFg = IF j > 0 THEN AtLeast(1, k.endpointFg - j) ELSE k.endpointFg
      /\ n.endpointBg = IF j > 0 THEN AtLeast(BgFloor(r), k.endpointBg - j)
                                 ELSE k.endpointBg
  BY BreakerFields
<1> HIDE DEF m, n
<1>4. /\ l.endpointFg \in Nat \ {0} /\ l.endpointBg \in Nat
      /\ k.endpointFg \in Nat \ {0} /\ k.endpointBg \in Nat
      /\ k.endpointFg <= l.endpointFg /\ k.endpointBg <= l.endpointBg
  BY DEF Floored, SlotRecords, NoLarger
<1>5. BgFloor(s) \in {0, 1} /\ BgFloor(r) \in {0, 1} /\ BgFloor(r) <= BgFloor(s)
  BY <1>1 DEF BgFloor
<1>6. BgFloor(s) <= l.endpointBg /\ BgFloor(r) <= l.endpointBg
  BY <1>1, <1>4 DEF BgFloor, Floored
<1>7. n.endpointFg <= m.endpointFg
  BY <1>2, <1>3, <1>4 DEF AtLeast
<1>8. n.endpointBg <= m.endpointBg
  BY <1>2, <1>3, <1>4, <1>5, <1>6 DEF AtLeast
<1>9. NoLarger(n, m)
  BY <1>2, <1>3, <1>7, <1>8 DEF NoLarger
<1>10. QED
  BY <1>9 DEF m, n

-----------------------------------------------------------------------------
(* The rules in sequence                                                   *)

\* Whatever the configuration, the pressure and the number of open breakers, the
\* foreground has a slot everywhere, and the background has one exactly while
\* the host does not yield.
THEOREM LimitsFloored ==
  ASSUME NEW s \in SignalSet, NEW open \in Nat
  PROVE  Floored(s, Limits(s, open))
BY StateFloored, SwapFloored, ThermalFloored, BreakersFloored DEF Limits

\* More pressure and more open breakers never raise a limit.
THEOREM LimitsOrdered ==
  ASSUME NEW s \in SignalSet, NEW r \in SignalSet, NoHarsher(s, r),
         NEW i \in Nat, NEW j \in Nat, i <= j
  PROVE  NoLarger(Limits(r, j), Limits(s, i))
<1> DEFINE State(x)   == ByState(x, MaxSlots)
           Swap(x)    == BySwap(x, State(x))
           Thermal(x) == ByThermal(x, Swap(x))
<1>1. Floored(s, State(s)) /\ Floored(r, State(r)) /\ NoLarger(State(r), State(s))
  BY StateFloored, StateOrdered
<1>2. Floored(s, Swap(s)) /\ Floored(r, Swap(r)) /\ NoLarger(Swap(r), Swap(s))
  <2> HIDE DEF State
  <2>1. QED BY <1>1, SwapFloored, SwapOrdered
<1>3. Floored(s, Thermal(s)) /\ Floored(r, Thermal(r)) /\ NoLarger(Thermal(r), Thermal(s))
  <2> HIDE DEF Swap
  <2>1. QED BY <1>2, ThermalFloored, ThermalOrdered
<1>4. NoLarger(ByBreakers(r, j, Thermal(r)), ByBreakers(s, i, Thermal(s)))
  <2> HIDE DEF Thermal
  <2>1. QED BY <1>3, BreakersOrdered
<1>5. QED
  BY <1>4 DEF Limits

-----------------------------------------------------------------------------
(* Reports in force                                                        *)

\* The history holds samples, and what is in force are reports made of some.
ReportsTyped ==
  /\ history \in Seq(RawSamples)
  /\ atGovernor \in Reports
  /\ atScheduler \in Reports

-----------------------------------------------------------------------------
(* Reports                                                                 *)

LEMMA SignalsTyped ==
  ASSUME NEW t, t.thermal \in {"cool", "warm", "hot", "critical"}
  PROVE  Signals(t) \in SignalSet
<1>1. RamBand(t) \in {"low", "elevated", "yield"}
  BY DEF RamBand
<1>2. Reaches(t, t.cpu, CpuAt) \in BOOLEAN /\ Reaches(t, t.swap, SwapAt) \in BOOLEAN
  BY DEF Reaches
<1>3. (t.n > 0) \in BOOLEAN /\ (t.n > 0 /\ SmallHost) \in BOOLEAN
      /\ (t.n > 0 /\ t.heavy) \in BOOLEAN
  OBVIOUS
<1>4. (IF t.n > 0 THEN t.thermal ELSE "cool") \in {"cool", "warm", "hot", "critical"}
  OBVIOUS
<1>5. QED
  BY <1>1, <1>2, <1>3, <1>4 DEF Signals, SignalSet

LEMMA ThermalOfMean ==
  ASSUME NEW h \in Seq(RawSamples)
  PROVE  Smooth(h).thermal \in {"cool", "warm", "hot", "critical"}
<1>1. Smooth(h).thermal = IF h = <<>> THEN "cool" ELSE Last(h).thermal
  BY DEF Smooth
<1>2. CASE h = <<>>
  BY <1>1, <1>2
<1>3. CASE h # <<>>
  <2>1. Last(h) \in RawSamples
    BY <1>3 DEF Last
  <2>2. QED
    BY <1>1, <1>3, <2>1, ControlAssumption
<1>4. QED
  BY <1>2, <1>3

LEMMA ReportTyped ==
  ASSUME NEW h \in Seq(RawSamples), NEW open \in 0..Endpoints
  PROVE  Report(h, open) \in Reports
<1>1. Signals(Smooth(h)) \in SignalSet
  BY ThermalOfMean, SignalsTyped
<1>2. QED
  BY <1>1 DEF Report, Reports

LEMMA NoReportTyped == NoReport \in Reports
<1> DEFINE s == Signals(Smooth(<<>>))
<1>1. <<>> \in Seq(RawSamples)
  OBVIOUS
<1>2. s \in SignalSet
  <2>1. ASSUME NEW h \in Seq(RawSamples) PROVE Signals(Smooth(h)) \in SignalSet
    BY ThermalOfMean, SignalsTyped
  <2>2. QED
    BY <1>1, <2>1
<1>3. 0 \in 0..Endpoints
  BY ControlAssumption
<1>4. NoReport = [signals |-> s, open |-> 0]
  BY DEF NoReport
<1> HIDE DEF s
<1>5. QED
  BY <1>2, <1>3, <1>4 DEF Reports

LEMMA HistoryTyped ==
  ASSUME NEW h \in Seq(RawSamples), NEW raw \in RawSamples
  PROVE  Push(h, raw) \in Seq(RawSamples)
<1>1. CASE Len(h) < Window
  BY <1>1 DEF Push
<1>2. CASE ~(Len(h) < Window)
  <2>1. h # <<>>
    BY <1>2, ControlAssumption
  <2>2. Tail(h) \in Seq(RawSamples)
    BY <2>1
  <2>3. QED
    BY <1>2, <2>2 DEF Push
<1>3. QED
  BY <1>1, <1>2

-----------------------------------------------------------------------------
(* Steps                                                                   *)

LEMMA EnforceTyped ==
  ASSUME NEW h \in Seq(RawSamples), Enforce(h), ReportsTyped
  PROVE  atGovernor' \in Reports /\ atScheduler' \in Reports
BY ReportTyped DEF Enforce, ReportsTyped

LEMMA ReportsTypedStep ==
  ASSUME ReportsTyped, [ControlNext]_controlVars
  PROVE  ReportsTyped'
<1> USE DEF ReportsTyped
<1>1. CASE UNCHANGED controlVars
  BY <1>1 DEF controlVars, loopVars, reportVars
<1>2. ASSUME NEW raw \in RawSamples, Sampled(raw) PROVE ReportsTyped'
  <2>1. history' \in Seq(RawSamples)
    BY <1>2, HistoryTyped DEF Sampled
  <2>2. Enforce(history') \/ UNCHANGED reportVars
    BY <1>2 DEF Sampled
  <2>3. CASE Enforce(history')
    BY <2>1, <2>3, EnforceTyped
  <2>4. CASE UNCHANGED reportVars
    BY <2>1, <2>4 DEF reportVars
  <2>5. QED
    BY <2>2, <2>3, <2>4
<1>3. CASE Offloaded
  <2>1. Enforce(history) /\ history' = history
    BY <1>3 DEF Offloaded
  <2>2. QED
    BY <2>1, EnforceTyped
<1>4. CASE LoopLogged
  BY <1>4 DEF LoopLogged
<1>5. CASE LoopStarts \/ Wakes \/ EndpointUnloaded \/ LoopCatches \/ LoopAppends \/ LoopStops
  BY <1>5 DEF LoopStarts, Wakes, EndpointUnloaded, LoopCatches, LoopAppends, LoopStops,
              loopVars, reportVars
<1>6. ASSUME NEW r \in Requests, RequestNext(r) \/ \E queued \in {0, MaxQueueSize} : Admit(r, queued)
      PROVE  ReportsTyped'
  BY <1>6 DEF RequestNext, RequestAppends, RequestLogged, Admit, loopVars, reportVars
<1>7. ASSUME NEW t \in Tasks, EventNext(t) PROVE ReportsTyped'
  BY <1>7 DEF EventNext, loopVars, reportVars
<1>8. QED
  BY <1>1, <1>2, <1>3, <1>4, <1>5, <1>6, <1>7 DEF ControlNext, LoopNext

LEMMA ReportsTypedInit == ControlInit => ReportsTyped
BY NoReportTyped DEF ControlInit, ReportsTyped

\* Whatever is in force is a report made of samples.
THEOREM ReportsAreTyped == ControlSpec => []ReportsTyped
<1>1. ReportsTyped /\ [ControlNext]_controlVars => ReportsTyped'
  BY ReportsTypedStep
<1>2. QED
  BY <1>1, ReportsTypedInit, PTL DEF ControlSpec

LEMMA TogetherStep ==
  ASSUME EnforcedTogether, [ControlNext]_controlVars
  PROVE  EnforcedTogether'
<1> USE DEF EnforcedTogether
<1>1. CASE UNCHANGED controlVars
  BY <1>1 DEF controlVars, loopVars, reportVars
<1>2. ASSUME NEW h, Enforce(h) PROVE EnforcedTogether'
  BY <1>2 DEF Enforce
<1>3. ASSUME NEW raw \in RawSamples, Sampled(raw) PROVE EnforcedTogether'
  <2>1. \/ Enforce(history')
        \/ loop' = "offloading" /\ UNCHANGED reportVars /\ loop = "sampling"
    BY <1>3 DEF Sampled
  <2>2. QED
    BY <2>1, <1>2 DEF reportVars
<1>4. CASE Offloaded
  BY <1>2, <1>4 DEF Offloaded
<1>5. CASE LoopLogged
  BY <1>5 DEF LoopLogged
<1>6. CASE LoopStarts \/ Wakes \/ EndpointUnloaded \/ LoopCatches
  BY <1>6 DEF LoopStarts, Wakes, EndpointUnloaded, LoopCatches, reportVars
<1>7. CASE LoopAppends \/ LoopStops
  BY <1>7 DEF LoopAppends, LoopStops, loopVars, reportVars
<1>8. ASSUME NEW r \in Requests, RequestNext(r) \/ \E queued \in {0, MaxQueueSize} : Admit(r, queued)
      PROVE  EnforcedTogether'
  BY <1>8 DEF RequestNext, RequestAppends, RequestLogged, Admit, loopVars, reportVars
<1>9. ASSUME NEW t \in Tasks, EventNext(t) PROVE EnforcedTogether'
  BY <1>9 DEF EventNext, loopVars, reportVars
<1>10. QED
  BY <1>1, <1>3, <1>4, <1>5, <1>6, <1>7, <1>8, <1>9 DEF ControlNext, LoopNext

-----------------------------------------------------------------------------
(* The properties                                                          *)

\* The governor and the scheduler have the limits of one report whenever the
\* loop is between two rounds or before the first, however rounds end.
THEOREM LimitsTogether == ControlSpec => []EnforcedTogether
<1>1. ControlInit => EnforcedTogether
  BY DEF ControlInit, EnforcedTogether
<1>2. EnforcedTogether /\ [ControlNext]_controlVars => EnforcedTogether'
  BY TogetherStep
<1>3. QED
  BY <1>1, <1>2, PTL DEF ControlSpec

LEMMA StoppedIfTyped == ReportsTyped => StoppedExactlyUnderYield
<1> SUFFICES ASSUME ReportsTyped, NEW report \in {atGovernor, atScheduler}
             PROVE  /\ Limits(report.signals, report.open).bg = 0 <=> Yields(report.signals)
                    /\ Limits(report.signals, report.open).endpointBg = 0
                         <=> Yields(report.signals)
  BY DEF StoppedExactlyUnderYield
<1>1. report.signals \in SignalSet /\ report.open \in Nat
  BY ControlAssumption DEF ReportsTyped, Reports
<1>2. Floored(report.signals, Limits(report.signals, report.open))
  BY <1>1, LimitsFloored
<1>3. QED
  BY <1>2 DEF Floored

\* The background has no slot at the scheduler and at the endpoints exactly
\* while the report in force there yields.
THEOREM StoppedOnlyUnderYield == ControlSpec => []StoppedExactlyUnderYield
<1>1. QED
  BY ReportsAreTyped, StoppedIfTyped, PTL

\* A report that is harsher in every respect never raises a limit.
THEOREM PressureShrinks == ControlSpec => PressureNeverAddsCapacity
<1> DEFINE Shrinks ==
      /\ NoHarsher(atGovernor.signals, atGovernor'.signals)
      /\ atGovernor.open <= atGovernor'.open
      => NoLarger(Limits(atGovernor'.signals, atGovernor'.open),
                  Limits(atGovernor.signals, atGovernor.open))
<1>1. ReportsTyped /\ ReportsTyped' => Shrinks
  <2> SUFFICES ASSUME ReportsTyped, ReportsTyped',
                      NoHarsher(atGovernor.signals, atGovernor'.signals),
                      atGovernor.open <= atGovernor'.open
               PROVE  NoLarger(Limits(atGovernor'.signals, atGovernor'.open),
                               Limits(atGovernor.signals, atGovernor.open))
    OBVIOUS
  <2>1. /\ atGovernor.signals \in SignalSet /\ atGovernor.open \in Nat
        /\ atGovernor'.signals \in SignalSet /\ atGovernor'.open \in Nat
    BY ControlAssumption DEF ReportsTyped, Reports
  <2>2. QED
    BY <2>1, LimitsOrdered
<1>2. ReportsTyped /\ ReportsTyped' => [Shrinks]_controlVars
  BY <1>1
<1>3. QED
  BY <1>2, ReportsAreTyped, PTL DEF PressureNeverAddsCapacity

-----------------------------------------------------------------------------
(* What is queued                                                          *)

\* A request is queued on a throttling decision, and that is taken only for work
\* with background priority.
AdmissionInv ==
  /\ DOMAIN place = Requests /\ DOMAIN decision = Requests /\ DOMAIN metadata = Requests
  /\ \A r \in Requests :
       /\ place[r] = "logging" => decision[r] \in {"allow", "throttle", "reject", "yield"}
       /\ place[r] = "queued" => decision[r] = "throttle"
       /\ decision[r] = "throttle" => metadata[r].priority = "background"

LEMMA ClassGivesPriority ==
  ASSUME NEW h
  PROVE  Classify(h).class = "prompt" \/ Classify(h).priority = "background"
BY DEF Classify, ForegroundPrompt, InteractivePrompt, BackgroundWork

LEMMA PromptsAreAllowed ==
  ASSUME NEW tokens, NEW s, NEW queued
  PROVE  Decide("prompt", tokens, s, queued) = "allow"
BY DEF Decide

LEMMA DecisionTyped ==
  ASSUME NEW class, NEW tokens, NEW s, NEW queued
  PROVE  Decide(class, tokens, s, queued) \in {"allow", "throttle", "reject", "yield"}
BY DEF Decide

LEMMA AdmitKeepsAdmission ==
  ASSUME AdmissionInv, NEW r \in Requests, NEW queued, Admit(r, queued)
  PROVE  AdmissionInv'
<1>1. PICK h \in Hints[r] : metadata' = [metadata EXCEPT ![r] = Classify(h)]
  BY DEF Admit, Classifies
<1> DEFINE d == Decide(Classify(h).class, Tokens[r], Signals(Smooth(history)), queued)
<1>2. metadata'[r] = Classify(h)
  BY <1>1 DEF AdmissionInv
<1>3. decision' = [decision EXCEPT ![r] = d] /\ place' = [place EXCEPT ![r] = "logging"]
  BY <1>2 DEF Admit
<1>4. d \in {"allow", "throttle", "reject", "yield"}
  BY DecisionTyped
<1>5. d = "throttle" => Classify(h).priority = "background"
  BY ClassGivesPriority, PromptsAreAllowed
<1> HIDE DEF d
<1>6. QED
  BY <1>1, <1>3, <1>4, <1>5 DEF AdmissionInv

LEMMA LoggedKeepsAdmission ==
  ASSUME AdmissionInv, NEW r \in Requests, RequestLogged(r)
  PROVE  AdmissionInv'
<1>1. place[r] = "logging" /\ UNCHANGED <<metadata, decision>>
  BY DEF RequestLogged
<1>2. place' = [place EXCEPT ![r] =
        CASE decision[r] \in {"reject", "yield"} -> "refused"
          [] decision[r] = "throttle"            -> "queued"
          [] decision[r] = "allow"               -> "running"]
  BY DEF RequestLogged
<1>3. QED
  BY <1>1, <1>2 DEF AdmissionInv

LEMMA AdmissionStep ==
  ASSUME AdmissionInv, [ControlNext]_controlVars
  PROVE  AdmissionInv'
<1>1. CASE UNCHANGED requestVars
  BY <1>1 DEF AdmissionInv, requestVars
<1>2. ASSUME NEW r \in Requests, NEW queued, Admit(r, queued) PROVE AdmissionInv'
  BY <1>2, AdmitKeepsAdmission
<1>3. ASSUME NEW r \in Requests, RequestLogged(r) PROVE AdmissionInv'
  BY <1>3, LoggedKeepsAdmission
<1>4. ASSUME LoopNext \/ LoopStops PROVE UNCHANGED requestVars
  BY <1>4 DEF LoopNext, LoopStarts, Wakes, EndpointUnloaded, Offloaded, LoopCatches, LoopAppends, LoopLogged,
              Sampled, LoopStops
<1>5. ASSUME NEW r \in Requests, RequestAppends(r) PROVE UNCHANGED requestVars
  BY <1>5 DEF RequestAppends
<1>6. ASSUME NEW t \in Tasks, EventNext(t) PROVE UNCHANGED requestVars
  BY <1>6 DEF EventNext
<1>7. QED
  BY <1>1, <1>2, <1>3, <1>4, <1>5, <1>6 DEF ControlNext, RequestNext, controlVars

\* What waits in the queue has background priority, whatever the hints that a
\* request carries, for any policy and pressure.
THEOREM OnlyBackgroundIsQueued == ControlSpec => []QueuedAreBackground
<1>1. ControlInit => AdmissionInv
  BY DEF ControlInit, AdmissionInv
<1>2. AdmissionInv /\ [ControlNext]_controlVars => AdmissionInv'
  BY AdmissionStep
<1>3. AdmissionInv => QueuedAreBackground
  BY DEF AdmissionInv, QueuedAreBackground
<1>4. QED
  BY <1>1, <1>2, <1>3, PTL DEF ControlSpec

-----------------------------------------------------------------------------
(* Which steps concern the log, the requests and the loop                  *)

\* The log is changed by the appends of tasks, by their threads, and by the end of
\* the loop, which is final.
LEMMA EventSteps ==
  ASSUME [ControlNext]_controlVars
  PROVE  \/ LoopStops
         \/ /\ loop = "ended" => loop' = "ended"
            /\ \/ UNCHANGED eventVars
               \/ \E t \in Tasks : AppendBegins(t) \/ AppendReturns(t) \/ ThreadNext(t)
<1>1. CASE UNCHANGED controlVars
  BY <1>1 DEF controlVars, loopVars
<1>2. CASE LoopStarts \/ Wakes \/ EndpointUnloaded \/ Offloaded \/ LoopCatches
  BY <1>2 DEF LoopStarts, Wakes, EndpointUnloaded, Offloaded, LoopCatches
<1>3. ASSUME NEW raw \in RawSamples, Sampled(raw)
      PROVE  loop # "ended" /\ UNCHANGED eventVars
  BY <1>3 DEF Sampled
<1>4. CASE LoopAppends \/ LoopLogged
  <2>1. Loop \in Tasks
    BY ControlAssumption
  <2>2. loop # "ended"
    BY <1>4 DEF LoopAppends, LoopLogged
  <2>3. AppendBegins(Loop) \/ AppendReturns(Loop) \/ UNCHANGED eventVars
    BY <1>4 DEF LoopAppends, LoopLogged, AppendSkips
  <2>4. QED
    BY <2>1, <2>2, <2>3
<1>5. ASSUME NEW r \in Requests, RequestNext(r)
      PROVE  /\ loop' = loop
             /\ AppendBegins(r) \/ AppendReturns(r) \/ UNCHANGED eventVars
             /\ r \in Tasks
  BY <1>5, ControlAssumption DEF RequestNext, RequestAppends, RequestLogged, AppendSkips, loopVars
<1>6. ASSUME NEW r \in Requests, NEW queued, Admit(r, queued)
      PROVE  loop' = loop /\ UNCHANGED eventVars
  BY <1>6 DEF Admit, loopVars
<1>7. ASSUME NEW t \in Tasks, EventNext(t)
      PROVE  loop' = loop /\ ThreadNext(t)
  BY <1>7 DEF EventNext, loopVars
<1>8. QED
  BY <1>1, <1>2, <1>3, <1>4, <1>5, <1>6, <1>7 DEF ControlNext, LoopNext

\* The requests are changed by their own admission and answer.
LEMMA RequestSteps ==
  ASSUME [ControlNext]_controlVars
  PROVE  \/ UNCHANGED requestVars
         \/ \E r \in Requests : RequestLogged(r)
         \/ \E r \in Requests, queued \in {0, MaxQueueSize} : Admit(r, queued)
<1>1. CASE UNCHANGED controlVars
  BY <1>1 DEF controlVars
<1>2. ASSUME LoopNext \/ LoopStops PROVE UNCHANGED requestVars
  BY <1>2 DEF LoopNext, LoopStarts, Wakes, EndpointUnloaded, Offloaded, LoopCatches, LoopAppends,
              LoopLogged, Sampled, LoopStops
<1>3. ASSUME NEW r \in Requests, RequestAppends(r) PROVE UNCHANGED requestVars
  BY <1>3 DEF RequestAppends
<1>4. ASSUME NEW t \in Tasks, EventNext(t) PROVE UNCHANGED requestVars
  BY <1>4 DEF EventNext
<1>5. QED
  BY <1>1, <1>2, <1>3, <1>4 DEF ControlNext, RequestNext

-----------------------------------------------------------------------------
(* The log                                                                 *)

\* While the loop is not stopped, a thread runs only for the task that holds the
\* lock, so what it has read of the file is still what the file holds.
Alone ==
  \A t \in Tasks :
    /\ thread[t] # "none" => lockHolder = t
    /\ thread[t] = "truncate" => Len(rows) > MaxEvents /\ kept[t] = Newest(rows)

LogInv ==
  /\ EventTypeOK
  /\ loop # "ended" => Alone

LEMMA ReverseOfSeq ==
  ASSUME NEW S, NEW s \in Seq(S)
  PROVE  /\ Reverse(s) \in Seq(S) /\ Len(Reverse(s)) = Len(s)
         /\ \A i \in 1..Len(s) : Reverse(s)[i] = s[(Len(s) - i) + 1]
<1>1. \A i \in 1..Len(s) : (Len(s) - i) + 1 \in 1..Len(s)
  OBVIOUS
<1>2. \A i \in 1..Len(s) : s[(Len(s) - i) + 1] \in S
  BY <1>1
<1>3. [i \in 1..Len(s) |-> s[(Len(s) - i) + 1]] \in Seq(S)
  BY <1>2
<1>4. QED
  BY <1>3 DEF Reverse

\* The newest rows of a log that is too long are its end.
LEMMA NewestIsSuffix ==
  ASSUME NEW s \in Seq(Tasks), Len(s) > MaxEvents
  PROVE  /\ Newest(s) \in Seq(Tasks)
         /\ Len(Newest(s)) = MaxEvents
         /\ IsSuffix(Newest(s), s)
<1> DEFINE n == Len(s)
           k == n - MaxEvents
           m == Newest(s)
<1>1. n \in Nat /\ MaxEvents \in Nat \ {0} /\ k \in Nat /\ k + 1 \in 1..n /\ n > MaxEvents
  BY EventAssumption
<1>2. m \in Seq(Tasks) /\ Len(m) = MaxEvents /\ \A i \in 1..MaxEvents : m[i] = s[k + i]
  BY <1>1 DEF Newest
<1> HIDE DEF m
<1>3. /\ Reverse(m) \in Seq(Tasks) /\ Len(Reverse(m)) = MaxEvents
      /\ \A i \in 1..MaxEvents : Reverse(m)[i] = m[(MaxEvents - i) + 1]
  BY <1>2, ReverseOfSeq
<1>4. /\ Reverse(s) \in Seq(Tasks) /\ Len(Reverse(s)) = n
      /\ \A i \in 1..n : Reverse(s)[i] = s[(n - i) + 1]
  BY ReverseOfSeq
<1>5. \A i \in 1..MaxEvents : Reverse(m)[i] = Reverse(s)[i]
  <2>1. TAKE i \in 1..MaxEvents
  <2>2. (MaxEvents - i) + 1 \in 1..MaxEvents /\ i \in 1..n
        /\ k + ((MaxEvents - i) + 1) = (n - i) + 1
    BY <1>1
  <2>3. m[(MaxEvents - i) + 1] = s[k + ((MaxEvents - i) + 1)]
    BY <1>2, <2>2
  <2>4. QED
    BY <1>3, <1>4, <2>2, <2>3
<1>6. SubSeq(Reverse(m), 1, Len(Reverse(m))) = SubSeq(Reverse(s), 1, Len(Reverse(m)))
  <2> DEFINE a == Reverse(m)
             b == Reverse(s)
  <2>1. a \in Seq(Tasks) /\ b \in Seq(Tasks) /\ Len(a) = MaxEvents /\ Len(b) = n
        /\ \A i \in 1..MaxEvents : a[i] = b[i]
    BY <1>3, <1>4, <1>5
  <2> HIDE DEF a, b, n, k
  <2>2. SubSeq(a, 1, Len(a)) = SubSeq(b, 1, Len(a))
    BY <1>1, <2>1
  <2>3. QED
    BY <2>2 DEF a, b
<1>7. Len(Reverse(m)) <= Len(Reverse(s))
  BY <1>1, <1>3, <1>4
<1>8. IsSuffix(m, s)
  BY <1>6, <1>7 DEF IsSuffix, IsPrefix
<1>9. QED
  BY <1>2, <1>8 DEF m

\* The log, as a function of the threads, of what they have read and of the file.
LogOf(th, k, file) ==
  IF \E t \in Tasks : th[t] = "restore" THEN k[CHOOSE t \in Tasks : th[t] = "restore"] ELSE file

LEMMA LogOfFile ==
  ASSUME NEW th, NEW k, NEW file, \A t \in Tasks : th[t] # "restore"
  PROVE  LogOf(th, k, file) = file
BY DEF LogOf

LEMMA LogOfThread ==
  ASSUME NEW th, NEW k, NEW file, NEW t \in Tasks, th[t] = "restore",
         \A u \in Tasks : th[u] = "restore" => u = t
  PROVE  LogOf(th, k, file) = k[t]
<1>1. (CHOOSE u \in Tasks : th[u] = "restore") = t
  OBVIOUS
<1>2. QED
  BY <1>1 DEF LogOf

\* A thread that gets on, by each of its steps.
LEMMA ThreadKeepsType ==
  ASSUME EventTypeOK, NEW t \in Tasks, AppendBegins(t) \/ AppendReturns(t) \/ ThreadNext(t)
  PROVE  EventTypeOK'
<1> USE DEF EventTypeOK
<1>1. CASE AppendBegins(t)
  BY <1>1 DEF AppendBegins
<1>2. CASE AppendReturns(t)
  <2>1. disabled' \in BOOLEAN
    BY <1>2 DEF AppendReturns
  <2>2. <<>> \in Seq(Tasks)
    OBVIOUS
  <2>3. kept' \in [Tasks -> Seq(Tasks)]
    BY <1>2, <2>2 DEF AppendReturns
  <2>4. QED
    BY <1>2, <2>1, <2>3 DEF AppendReturns
<1>3. CASE WriteRow(t)
  BY <1>3 DEF WriteRow
<1>4. CASE ReadRows(t)
  <2>1. CASE Len(rows) > MaxEvents
    <3>1. Newest(rows) \in Seq(Tasks)
      BY <2>1, NewestIsSuffix
    <3>2. kept' = [kept EXCEPT ![t] = Newest(rows)] /\ thread' = [thread EXCEPT ![t] = "truncate"]
      BY <1>4, <2>1 DEF ReadRows
    <3>3. QED
      BY <1>4, <3>1, <3>2 DEF ReadRows
  <2>2. CASE ~(Len(rows) > MaxEvents)
    BY <1>4, <2>2 DEF ReadRows
  <2>3. QED
    BY <2>1, <2>2
<1>5. CASE Truncate(t)
  BY <1>5 DEF Truncate
<1>6. CASE Restore(t)
  BY <1>6 DEF Restore
<1>7. CASE WriteFails(t)
  BY <1>7 DEF WriteFails
<1>8. QED
  BY <1>1, <1>2, <1>3, <1>4, <1>5, <1>6, <1>7 DEF ThreadNext

LEMMA ThreadKeepsAlone ==
  ASSUME EventTypeOK, Alone, NEW t \in Tasks,
         AppendBegins(t) \/ AppendReturns(t) \/ ThreadNext(t)
  PROVE  Alone'
<1> USE DEF EventTypeOK, Alone
<1>1. lockHolder # t => thread[t] = "none"
  OBVIOUS
<1>2. \A u \in Tasks \ {t} : thread[t] # "none" \/ lockHolder = NoTask => thread[u] = "none"
  BY EventAssumption
<1>3. CASE AppendBegins(t)
  <2>1. \A u \in Tasks : thread'[u] = IF u = t THEN "open" ELSE "none"
    BY <1>2, <1>3 DEF AppendBegins
  <2>2. QED
    BY <1>3, <2>1 DEF AppendBegins
<1>4. CASE AppendReturns(t)
  <2>1. \A u \in Tasks : thread'[u] = "none"
    BY <1>2, <1>4 DEF AppendReturns
  <2>2. QED
    BY <2>1
<1>5. CASE ThreadNext(t)
  <2>1. lockHolder = t /\ lockHolder' = t
    BY <1>1, <1>5 DEF ThreadNext, WriteRow, ReadRows, Truncate, Restore, WriteFails
  <2>2. \A u \in Tasks \ {t} : thread'[u] = "none"
    BY <1>2, <1>5 DEF ThreadNext, WriteRow, ReadRows, Truncate, Restore, WriteFails
  <2>3. thread'[t] = "truncate" => Len(rows') > MaxEvents /\ kept'[t] = Newest(rows')
    BY <1>5 DEF ThreadNext, WriteRow, ReadRows, Truncate, Restore, WriteFails
  <2>4. QED
    BY <2>1, <2>2, <2>3
<1>6. QED
  BY <1>3, <1>4, <1>5

LEMMA LogStep ==
  ASSUME LogInv, [ControlNext]_controlVars
  PROVE  LogInv'
<1>1. CASE LoopStops
  <2>1. lockHolder' \in Tasks \cup {NoTask} /\ UNCHANGED <<rows, disabled, thread, kept>>
    BY <1>1 DEF LoopStops, AppendCancelled, LogInv, EventTypeOK
  <2>2. loop' = "ended"
    BY <1>1 DEF LoopStops
  <2>3. QED
    BY <2>1, <2>2 DEF LogInv, EventTypeOK
<1>2. CASE /\ loop = "ended" => loop' = "ended"
           /\ UNCHANGED eventVars
  BY <1>2 DEF LogInv, EventTypeOK, Alone, eventVars
<1>3. ASSUME loop = "ended" => loop' = "ended", NEW t \in Tasks,
             AppendBegins(t) \/ AppendReturns(t) \/ ThreadNext(t)
      PROVE  LogInv'
  BY <1>3, ThreadKeepsType, ThreadKeepsAlone DEF LogInv
<1>4. QED
  BY <1>1, <1>2, <1>3, EventSteps

\* What a step of one thread does to the log, if it is the only one.
LEMMA ThreadRetains ==
  ASSUME EventTypeOK, Alone, NEW t \in Tasks,
         AppendBegins(t) \/ AppendReturns(t) \/ ThreadNext(t),
         \A u \in Tasks : thread'[u] # "failed"
  PROVE  Retains(Log, Log')
<1> DEFINE Before == LogOf(thread, kept, rows)
           After  == LogOf(thread', kept', rows')
<1>1. Log = Before /\ Log' = After
  BY DEF Log, LogOf
<1>2. \A u \in Tasks \ {t} :
        /\ thread'[u] = thread[u]
        /\ thread[u] # "restore"
  <2>1. \A u \in Tasks \ {t} : thread'[u] = thread[u]
    BY DEF EventTypeOK, AppendBegins, AppendReturns, ThreadNext, WriteRow, ReadRows, Truncate,
           Restore, WriteFails
  <2>2. thread[t] # "none" \/ lockHolder = NoTask
    BY DEF AppendBegins, AppendReturns, ThreadNext, WriteRow, ReadRows, Truncate, Restore, WriteFails
  <2>3. QED
    BY <2>1, <2>2, EventAssumption DEF Alone
<1>3. thread[t] # "restore" => Before = rows
  BY <1>2, LogOfFile
<1>4. thread[t] = "restore" => Before = kept[t]
  BY <1>2, LogOfThread
<1>5. thread'[t] # "restore" => After = rows'
  BY <1>2, LogOfFile
<1>6. thread'[t] = "restore" => After = kept'[t]
  BY <1>2, LogOfThread
<1> HIDE DEF Before, After
<1>7. CASE AppendBegins(t) \/ AppendReturns(t) \/ ReadRows(t)
  <2>1. thread[t] # "restore" /\ thread'[t] # "restore" /\ rows' = rows
    BY <1>7 DEF AppendBegins, AppendReturns, ReadRows, EventTypeOK
  <2>2. QED
    BY <1>1, <1>3, <1>5, <2>1 DEF Retains
<1>8. CASE WriteRow(t)
  <2>1. thread[t] # "restore" /\ thread'[t] # "restore" /\ rows' = Append(rows, t)
    BY <1>8 DEF WriteRow, EventTypeOK
  <2>2. QED
    BY <1>1, <1>3, <1>5, <2>1 DEF Retains
<1>9. CASE Truncate(t)
  <2>1. thread[t] # "restore" /\ thread'[t] = "restore" /\ kept' = kept
    BY <1>9 DEF Truncate, EventTypeOK
  <2>2. Len(rows) > MaxEvents /\ kept[t] = Newest(rows) /\ rows \in Seq(Tasks)
    BY <1>9 DEF Truncate, Alone, EventTypeOK
  <2>3. Len(Newest(rows)) = MaxEvents /\ IsSuffix(Newest(rows), rows)
    BY <2>2, NewestIsSuffix
  <2>4. Before = rows /\ After = Newest(rows)
    BY <1>3, <1>6, <2>1, <2>2
  <2>5. QED
    BY <1>1, <2>2, <2>3, <2>4 DEF Retains
<1>10. CASE Restore(t)
  <2>1. thread[t] = "restore" /\ thread'[t] # "restore" /\ rows' = kept[t]
    BY <1>10 DEF Restore, EventTypeOK
  <2>2. QED
    BY <1>1, <1>4, <1>5, <2>1 DEF Retains
<1>11. CASE WriteFails(t)
  <2>1. thread'[t] = "failed"
    BY <1>11 DEF WriteFails, EventTypeOK
  <2>2. QED
    BY <2>1
<1>12. QED
  BY <1>7, <1>8, <1>9, <1>10, <1>11 DEF ThreadNext

LEMMA LogInitInv == ControlInit => LogInv
<1>1. <<>> \in Seq(Tasks)
  OBVIOUS
<1>2. QED
  BY <1>1 DEF ControlInit, EventInit, LogInv, EventTypeOK, Alone

\* The log is typed, and while the loop is not stopped its threads run one by one.
THEOREM ThreadsRunAlone == ControlSpec => []LogInv
<1>1. LogInv /\ [ControlNext]_controlVars => LogInv'
  BY LogStep
<1>2. QED
  BY <1>1, LogInitInv, PTL DEF ControlSpec

\* While writes succeed and the loop is not stopped in the middle of one, the log
\* loses nothing but its oldest rows above the retention limit, for any limit and
\* any number of tasks that append at the same time.
THEOREM LogLosesOldestOnly == ControlSpec => RetentionLosesOldest
<1> DEFINE Kept == loop' = "ended" \/ (\E t \in Tasks : thread'[t] = "failed") \/ Retains(Log, Log')
<1>1. LogInv /\ [ControlNext]_controlVars => [Kept]_controlVars
  <2> SUFFICES ASSUME LogInv, [ControlNext]_controlVars,
                      loop' # "ended", \A t \in Tasks : thread'[t] # "failed"
               PROVE  Retains(Log, Log')
    OBVIOUS
  <2>1. ~LoopStops
    BY DEF LoopStops
  <2>2. CASE UNCHANGED eventVars
    <3>1. Log' = Log
      BY <2>2 DEF eventVars, Log
    <3>2. QED
      BY <3>1 DEF Retains
  <2>3. ASSUME NEW t \in Tasks, loop # "ended",
               AppendBegins(t) \/ AppendReturns(t) \/ ThreadNext(t)
        PROVE  Retains(Log, Log')
    BY <2>3, ThreadRetains DEF LogInv
  <2>4. QED
    BY <2>1, <2>2, <2>3, EventSteps
<1>2. QED
  BY <1>1, ThreadsRunAlone, PTL DEF ControlSpec, RetentionLosesOldest

-----------------------------------------------------------------------------
(* The decisions kept for inspection                                       *)

\* What the index finds is one of the recent decisions, under its id.
OnlyRecentFound ==
  \A i \in Ids, r \in Requests : index[i] = r => CorrelationId[r] = i /\ r \in Range(recent)

\* The recent decisions are of different requests, none of them new, and what the
\* index finds is one of them, under its id.
RecentInv ==
  /\ place \in [Requests -> {"new", "logging", "refused", "queued", "running"}]
  /\ recent \in Seq(Requests) /\ Len(recent) <= RecentLimit
  /\ \A i, j \in 1..Len(recent) : recent[i] = recent[j] => i = j
  /\ \A i \in 1..Len(recent) : place[recent[i]] # "new"
  /\ index \in [Ids -> Requests \cup {NoRequest}]
  /\ OnlyRecentFound

DistinctIds == \A r, q \in Requests : CorrelationId[r] = CorrelationId[q] => r = q

\* While ids are distinct, the index misses none of the recent decisions.
IndexComplete == \A i \in 1..Len(recent) : index[CorrelationId[recent[i]]] = recent[i]

\* A new decision in front, and at most RecentLimit of them.
LEMMA RecentAfter ==
  ASSUME RecentInv, NEW r \in Requests, Remember(r)
  PROVE  /\ recent' \in Seq(Requests) /\ Len(recent') <= RecentLimit /\ Len(recent') > 0
         /\ recent'[1] = r
         /\ \A i \in 2..Len(recent') : i - 1 \in 1..Len(recent) /\ recent'[i] = recent[i - 1]
         /\ Len(recent) < RecentLimit => Len(recent') = Len(recent) + 1
         /\ Len(recent) = RecentLimit => Len(recent') = Len(recent)
<1> DEFINE n == AtMost(RecentLimit - 1, Len(recent))
           old == SubSeq(recent, 1, n)
<1>1. recent \in Seq(Requests) /\ Len(recent) \in Nat /\ Len(recent) <= RecentLimit
      /\ RecentLimit \in Nat \ {0}
  BY ControlAssumption DEF RecentInv
<1>2. /\ n \in Nat /\ n <= Len(recent) /\ n + 1 <= RecentLimit
      /\ Len(recent) < RecentLimit => n = Len(recent)
      /\ Len(recent) = RecentLimit => n + 1 = Len(recent)
  BY <1>1 DEF AtMost
<1> HIDE DEF n
<1>3. old \in Seq(Requests) /\ Len(old) = n /\ \A i \in 1..n : old[i] = recent[i]
  BY <1>1, <1>2
<1>4. <<r>> \in Seq(Requests) /\ Len(<<r>>) = 1 /\ <<r>>[1] = r
  OBVIOUS
<1>5. recent' = <<r>> \o old
  BY DEF Remember, n
<1> HIDE DEF old
<1>6. recent' \in Seq(Requests) /\ Len(recent') = n + 1
  BY <1>2, <1>3, <1>4, <1>5
<1>7. recent'[1] = r
  BY <1>2, <1>3, <1>4, <1>5
<1>8. \A i \in 2..Len(recent') : i - 1 \in 1..n /\ recent'[i] = old[i - 1]
  BY <1>2, <1>3, <1>4, <1>5, <1>6
<1>9. \A i \in 2..Len(recent') : i - 1 \in 1..Len(recent) /\ recent'[i] = recent[i - 1]
  <2>1. TAKE i \in 2..Len(recent')
  <2>2. i - 1 \in 1..n /\ recent'[i] = old[i - 1]
    BY <1>8
  <2>3. old[i - 1] = recent[i - 1] /\ i - 1 \in 1..Len(recent)
    BY <1>1, <1>2, <1>3, <2>2
  <2>4. QED
    BY <2>2, <2>3
<1>10. Len(recent') <= RecentLimit /\ Len(recent') > 0
  BY <1>1, <1>2, <1>6
<1>11. /\ Len(recent) < RecentLimit => Len(recent') = Len(recent) + 1
       /\ Len(recent) = RecentLimit => Len(recent') = Len(recent)
  BY <1>2, <1>6
<1>12. QED
  BY <1>6, <1>7, <1>9, <1>10, <1>11

\* The ids that the index forgets, and the one it learns.
LEMMA IndexAfter ==
  ASSUME RecentInv, NEW r \in Requests, Remember(r)
  PROVE  /\ index' \in [Ids -> Requests \cup {NoRequest}]
         /\ index'[CorrelationId[r]] = r
         /\ \A i \in Ids : i # CorrelationId[r] =>
              index'[i] = IF Len(recent) = RecentLimit /\ i = CorrelationId[Last(recent)]
                            THEN NoRequest ELSE index[i]
<1> DEFINE trimmed == IF Len(recent) = RecentLimit
                        THEN [index EXCEPT ![CorrelationId[Last(recent)]] = NoRequest] ELSE index
<1>1. trimmed \in [Ids -> Requests \cup {NoRequest}]
  BY DEF RecentInv
<1>2. \A i \in Ids :
        trimmed[i] = IF Len(recent) = RecentLimit /\ i = CorrelationId[Last(recent)]
                       THEN NoRequest ELSE index[i]
  BY DEF RecentInv
<1>3. index' = [trimmed EXCEPT ![CorrelationId[r]] = r]
  BY DEF Remember
<1>4. CorrelationId[r] \in Ids
  BY DEF Ids
<1> HIDE DEF trimmed
<1>5. QED
  BY <1>1, <1>2, <1>3, <1>4

LEMMA RememberKeepsRecent ==
  ASSUME RecentInv, NEW r \in Requests, NEW queued, Admit(r, queued)
  PROVE  RecentInv'
<1>1. Remember(r) /\ place[r] = "new" /\ place' = [place EXCEPT ![r] = "logging"]
  BY DEF Admit
<1>2. /\ recent' \in Seq(Requests) /\ Len(recent') <= RecentLimit /\ Len(recent') > 0
      /\ recent'[1] = r
      /\ \A i \in 2..Len(recent') : i - 1 \in 1..Len(recent) /\ recent'[i] = recent[i - 1]
      /\ Len(recent) < RecentLimit => Len(recent') = Len(recent) + 1
      /\ Len(recent) = RecentLimit => Len(recent') = Len(recent)
  BY <1>1, RecentAfter
<1>3. /\ index' \in [Ids -> Requests \cup {NoRequest}]
      /\ index'[CorrelationId[r]] = r
      /\ \A i \in Ids : i # CorrelationId[r] =>
           index'[i] = IF Len(recent) = RecentLimit /\ i = CorrelationId[Last(recent)]
                         THEN NoRequest ELSE index[i]
  BY <1>1, IndexAfter
<1>4. place' \in [Requests -> {"new", "logging", "refused", "queued", "running"}]
  BY <1>1 DEF RecentInv
<1>5. \A i \in 1..Len(recent) : recent[i] # r /\ recent[i] \in Requests
  BY <1>1 DEF RecentInv
<1>6. \A i, j \in 1..Len(recent') : recent'[i] = recent'[j] => i = j
  <2>1. SUFFICES ASSUME NEW i \in 1..Len(recent'), NEW j \in 1..Len(recent'),
                        recent'[i] = recent'[j]
                 PROVE  i = j
    OBVIOUS
  <2>2. Len(recent') \in Nat
    BY <1>2
  <2>3. CASE i = 1
    BY <1>2, <1>5, <2>1, <2>2, <2>3
  <2>4. CASE j = 1
    BY <1>2, <1>5, <2>1, <2>2, <2>4
  <2>5. CASE i # 1 /\ j # 1
    <3>1. i \in 2..Len(recent') /\ j \in 2..Len(recent')
      BY <2>2, <2>5
    <3>2. i - 1 \in 1..Len(recent) /\ j - 1 \in 1..Len(recent) /\ recent[i - 1] = recent[j - 1]
      BY <1>2, <2>1, <3>1
    <3>3. i - 1 = j - 1
      BY <3>2 DEF RecentInv
    <3>4. QED
      BY <3>1, <3>3
  <2>6. QED
    BY <2>3, <2>4, <2>5
<1>7. \A i \in 1..Len(recent') : place'[recent'[i]] # "new"
  <2>1. SUFFICES ASSUME NEW i \in 1..Len(recent') PROVE place'[recent'[i]] # "new"
    OBVIOUS
  <2>2. CASE i = 1
    BY <1>1, <1>2, <2>2 DEF RecentInv
  <2>3. CASE i # 1
    <3>1. i \in 2..Len(recent') /\ i - 1 \in 1..Len(recent) /\ recent'[i] = recent[i - 1]
      BY <1>2, <2>3
    <3>2. place'[recent[i - 1]] = place[recent[i - 1]]
      BY <1>1, <1>5, <3>1 DEF RecentInv
    <3>3. QED
      BY <3>1, <3>2 DEF RecentInv
  <2>4. QED
    BY <2>2, <2>3
<1>8. ASSUME NEW i \in Ids, NEW q \in Requests, index'[i] = q
      PROVE  CorrelationId[q] = i /\ q \in Range(recent')
  <2>1. CASE i = CorrelationId[r]
    <3>1. q = r
      BY <1>3, <1>8, <2>1
    <3>2. recent'[1] = q /\ 1 \in DOMAIN recent'
      BY <1>2, <3>1
    <3>3. QED
      BY <2>1, <3>1, <3>2 DEF Range
  <2>2. CASE i # CorrelationId[r]
    <3>1. /\ index[i] = q
          /\ Len(recent) = RecentLimit => i # CorrelationId[Last(recent)]
      BY <1>3, <1>8, <2>2, ControlAssumption
    <3>2. CorrelationId[q] = i /\ q \in Range(recent)
      BY <3>1 DEF RecentInv, OnlyRecentFound
    <3>3. PICK j \in 1..Len(recent) : recent[j] = q
      BY <3>2 DEF Range, RecentInv
    <3>4. j + 1 \in 2..Len(recent')
      <4>1. Len(recent) \in Nat /\ Len(recent) <= RecentLimit /\ RecentLimit \in Nat
        BY ControlAssumption DEF RecentInv
      <4>2. CASE Len(recent) < RecentLimit
        BY <1>2, <4>1, <4>2
      <4>3. CASE Len(recent) = RecentLimit
        <5>1. j # Len(recent)
          BY <3>1, <3>2, <3>3, <4>3 DEF Last
        <5>2. QED
          BY <1>2, <4>1, <4>3, <5>1
      <4>4. QED
        BY <4>1, <4>2, <4>3
    <3>5. recent'[j + 1] = q /\ j + 1 \in DOMAIN recent'
      <4>1. (j + 1) - 1 = j
        OBVIOUS
      <4>2. recent'[j + 1] = recent[(j + 1) - 1]
        BY <1>2, <3>4
      <4>3. QED
        BY <1>2, <3>3, <3>4, <4>1, <4>2
    <3>6. QED
      BY <3>2, <3>5 DEF Range
  <2>3. QED
    BY <2>1, <2>2
<1>9. QED
  BY <1>2, <1>3, <1>4, <1>6, <1>7, <1>8 DEF RecentInv, OnlyRecentFound

LEMMA RecentStep ==
  ASSUME RecentInv, AdmissionInv, [ControlNext]_controlVars
  PROVE  RecentInv'
<1>1. CASE UNCHANGED requestVars
  BY <1>1 DEF requestVars, RecentInv, OnlyRecentFound
<1>2. ASSUME NEW r \in Requests, RequestLogged(r) PROVE RecentInv'
  <2>1. PICK p \in {"refused", "queued", "running"} : place' = [place EXCEPT ![r] = p]
    <3>1. decision[r] \in {"allow", "throttle", "reject", "yield"}
      BY <1>2 DEF AdmissionInv, RequestLogged
    <3>2. QED
      BY <1>2, <3>1 DEF RequestLogged
  <2>2. UNCHANGED <<recent, index>>
    BY <1>2 DEF RequestLogged
  <2>3. \A i \in 1..Len(recent) : place'[recent[i]] # "new"
    BY <2>1 DEF RecentInv
  <2>4. place' \in [Requests -> {"new", "logging", "refused", "queued", "running"}]
    BY <2>1 DEF RecentInv
  <2>5. QED
    BY <2>2, <2>3, <2>4 DEF RecentInv, OnlyRecentFound
<1>3. ASSUME NEW r \in Requests, NEW queued, Admit(r, queued) PROVE RecentInv'
  BY <1>3, RememberKeepsRecent
<1>4. QED
  BY <1>1, <1>2, <1>3, RequestSteps

LEMMA IndexStep ==
  ASSUME DistinctIds, RecentInv, IndexComplete, [ControlNext]_controlVars
  PROVE  IndexComplete'
<1>1. CASE UNCHANGED requestVars
  BY <1>1 DEF requestVars, IndexComplete
<1>2. ASSUME NEW r \in Requests, RequestLogged(r) PROVE IndexComplete'
  BY <1>2 DEF RequestLogged, IndexComplete
<1>3. ASSUME NEW r \in Requests, NEW queued, Admit(r, queued) PROVE IndexComplete'
  <2>1. Remember(r) /\ place[r] = "new"
    BY <1>3 DEF Admit
  <2>2. /\ recent' \in Seq(Requests) /\ Len(recent') <= RecentLimit /\ Len(recent') > 0
        /\ recent'[1] = r
        /\ \A i \in 2..Len(recent') : i - 1 \in 1..Len(recent) /\ recent'[i] = recent[i - 1]
        /\ Len(recent) < RecentLimit => Len(recent') = Len(recent) + 1
        /\ Len(recent) = RecentLimit => Len(recent') = Len(recent)
    BY <2>1, RecentAfter
  <2>3. /\ index'[CorrelationId[r]] = r
        /\ \A i \in Ids : i # CorrelationId[r] =>
             index'[i] = IF Len(recent) = RecentLimit /\ i = CorrelationId[Last(recent)]
                           THEN NoRequest ELSE index[i]
    BY <2>1, IndexAfter
  <2>4. ASSUME NEW i \in 1..Len(recent')
        PROVE  index'[CorrelationId[recent'[i]]] = recent'[i]
    <3>1. Len(recent') \in Nat /\ Len(recent) \in Nat
      BY <2>2 DEF RecentInv
    <3>2. CASE i = 1
      BY <2>2, <2>3, <3>2
    <3>3. CASE i # 1
      <4>1. i - 1 \in 1..Len(recent) /\ recent'[i] = recent[i - 1]
        BY <2>2, <3>1, <3>3
      <4>2. PICK j \in 1..Len(recent) : j = i - 1
        BY <4>1
      <4>3. PICK q \in Requests : q = recent[j]
        BY <4>2 DEF RecentInv
      <4>4. q # r
        BY <2>1, <4>3 DEF RecentInv
      <4>5. CorrelationId[q] # CorrelationId[r] /\ CorrelationId[q] \in Ids
        BY <4>4 DEF DistinctIds, Ids
      <4>6. Len(recent) = RecentLimit => CorrelationId[q] # CorrelationId[Last(recent)]
        <5>1. SUFFICES ASSUME Len(recent) = RecentLimit
                       PROVE  CorrelationId[q] # CorrelationId[recent[Len(recent)]]
          BY DEF Last
        <5>2. Len(recent) \in 1..Len(recent) /\ j # Len(recent)
          BY <2>2, <3>1, <4>2, <5>1
        <5>3. recent[Len(recent)] # q /\ recent[Len(recent)] \in Requests
          BY <4>3, <5>2 DEF RecentInv
        <5>4. QED
          BY <5>3 DEF DistinctIds
      <4>7. index'[CorrelationId[q]] = index[CorrelationId[q]]
        BY <2>3, <4>5, <4>6
      <4>8. index[CorrelationId[q]] = q
        BY <4>3 DEF IndexComplete
      <4>9. QED
        BY <4>1, <4>2, <4>3, <4>7, <4>8
    <3>4. QED
      BY <3>2, <3>3
  <2>5. QED
    BY <2>4 DEF IndexComplete
<1>4. QED
  BY <1>1, <1>2, <1>3, RequestSteps

LEMMA AdmissionBegins == ControlInit => AdmissionInv
  BY DEF ControlInit, AdmissionInv

LEMMA RecentInitInv == ControlInit => RecentInv /\ IndexComplete
<1> SUFFICES ASSUME ControlInit PROVE RecentInv /\ IndexComplete
  OBVIOUS
<1>1. recent \in Seq(Requests) /\ Len(recent) = 0
  BY DEF ControlInit
<1>2. place \in [Requests -> {"new", "logging", "refused", "queued", "running"}]
  BY DEF ControlInit
<1>3. /\ index \in [Ids -> Requests \cup {NoRequest}]
      /\ \A i \in Ids, r \in Requests : index[i] # r
  BY ControlAssumption DEF ControlInit
<1>4. QED
  BY <1>1, <1>2, <1>3, ControlAssumption DEF RecentInv, IndexComplete, OnlyRecentFound

\* The invariant of the recent decisions holds of every behaviour.
THEOREM RecentInvariant == ControlSpec => []RecentInv
<1>1. RecentInv /\ AdmissionInv /\ [ControlNext]_controlVars => RecentInv' /\ AdmissionInv'
  BY RecentStep, AdmissionStep
<1>2. QED
  BY <1>1, RecentInitInv, AdmissionBegins, PTL DEF ControlSpec

\* What the index finds is one of the recent decisions and has the id that was
\* asked for, also when clients give the same id to several requests: trimming by
\* the id of the oldest decision may lose one of these, and never keeps a stale one.
THEOREM FoundIsRecent == ControlSpec => []OnlyRecentFound
<1>1. RecentInv => OnlyRecentFound
  BY DEF RecentInv
<1>2. QED
  BY <1>1, RecentInvariant, PTL

\* If ids are distinct, GET /decisions/{id} finds a decision exactly while it is
\* among the recent ones, for any limit on these and any number of requests.
THEOREM RecentAreFound == ASSUME DistinctIds PROVE ControlSpec => []RecentDecisionsFound
<1>1. RecentInv /\ IndexComplete /\ [ControlNext]_controlVars => IndexComplete'
  BY IndexStep
<1>2. RecentInv /\ IndexComplete => RecentDecisionsFound
  <2> SUFFICES ASSUME RecentInv, IndexComplete, NEW i \in Ids, NEW r \in Requests
               PROVE  index[i] = r <=> (CorrelationId[r] = i /\ r \in Range(recent))
    BY DEF RecentDecisionsFound
  <2>1. index[i] = r => CorrelationId[r] = i /\ r \in Range(recent)
    BY DEF RecentInv, OnlyRecentFound
  <2>2. ASSUME CorrelationId[r] = i, r \in Range(recent) PROVE index[i] = r
    <3>1. PICK j \in 1..Len(recent) : recent[j] = r
      BY <2>2 DEF Range, RecentInv
    <3>2. QED
      BY <2>2, <3>1 DEF IndexComplete
  <2>3. QED
    BY <2>1, <2>2
<1>3. QED
  BY <1>1, <1>2, RecentInitInv, RecentInvariant, PTL DEF ControlSpec

-----------------------------------------------------------------------------
(* The types                                                               *)

\* The loop and its history, beside what ReportsTyped says of them.
LoopTyped ==
  /\ loop \in {"off", "sampling", "offloading", "logging", "sleeping", "ended"}
  /\ Len(history) <= Window
  /\ yielding \in BOOLEAN
  /\ unloaded \in 0..Endpoints

\* How the requests were classified and decided.
DecisionsTyped ==
  /\ metadata \in [Requests -> MetadataSet \cup {NoMetadata}]
  /\ decision \in [Requests -> {"none", "allow", "throttle", "reject", "yield"}]

\* The deque of samples never grows beyond the window.
LEMMA PushBounded ==
  ASSUME NEW h \in Seq(RawSamples), NEW raw \in RawSamples, Len(h) <= Window
  PROVE  Len(Push(h, raw)) <= Window
<1>1. Window \in Nat \ {0} /\ Len(h) \in Nat
  BY ControlAssumption
<1>2. CASE Len(h) < Window
  BY <1>1, <1>2 DEF Push
<1>3. CASE ~(Len(h) < Window)
  <2>1. h # <<>>
    BY <1>1, <1>3
  <2>2. Tail(h) \in Seq(RawSamples) /\ Len(Tail(h)) = Len(h) - 1
    BY <2>1
  <2>3. Push(h, raw) = Append(Tail(h), raw)
    BY <1>3 DEF Push
  <2>4. Len(Push(h, raw)) = Len(Tail(h)) + 1
    BY <2>2, <2>3
  <2>5. QED
    BY <1>1, <2>2, <2>4
<1>4. QED
  BY <1>2, <1>3

LEMMA LoopTypedStep ==
  ASSUME ReportsTyped, LoopTyped, [ControlNext]_controlVars
  PROVE  LoopTyped'
<1> USE DEF LoopTyped
<1>0. Endpoints \in Nat /\ 0 \in 0..Endpoints
  BY ControlAssumption
<1>1. CASE UNCHANGED loopVars
  BY <1>1 DEF loopVars
<1>2. ASSUME NEW h, Enforce(h) PROVE loop' \in {"logging", "sleeping"}
  BY <1>2 DEF Enforce
<1>3. ASSUME NEW raw \in RawSamples, Sampled(raw) PROVE LoopTyped'
  <2>1. Len(history') <= Window
    BY <1>3, PushBounded DEF Sampled, ReportsTyped
  <2>2. yielding' \in BOOLEAN
    <3>1. PICK t : yielding' = (Activates(t) \/ (yielding /\ ~Recovers(t)))
      BY <1>3 DEF Sampled
    <3>2. (Activates(t) \/ (yielding /\ ~Recovers(t))) \in BOOLEAN
      OBVIOUS
    <3>3. QED
      BY <3>1, <3>2
  <2>3. loop' \in {"offloading", "logging", "sleeping"} /\ unloaded' = unloaded
    BY <1>2, <1>3 DEF Sampled
  <2>4. QED
    BY <2>1, <2>2, <2>3
<1>4. CASE Offloaded
  BY <1>0, <1>2, <1>4 DEF Offloaded
<1>5. CASE EndpointUnloaded
  BY <1>0, <1>5 DEF EndpointUnloaded
<1>6. CASE LoopStarts \/ Wakes \/ LoopCatches \/ LoopLogged \/ LoopStops
  BY <1>0, <1>6 DEF LoopStarts, Wakes, LoopCatches, LoopLogged, LoopStops
<1>7. CASE LoopAppends
  BY <1>1, <1>7 DEF LoopAppends
<1>8. ASSUME NEW r \in Requests, RequestNext(r) \/ \E queued \in {0, MaxQueueSize} : Admit(r, queued)
      PROVE  UNCHANGED loopVars
  BY <1>8 DEF RequestNext, RequestAppends, RequestLogged, Admit
<1>9. ASSUME NEW t \in Tasks, EventNext(t) PROVE UNCHANGED loopVars
  BY <1>9 DEF EventNext
<1>10. UNCHANGED controlVars => UNCHANGED loopVars
  BY DEF controlVars
<1>11. QED
  BY <1>1, <1>3, <1>4, <1>5, <1>6, <1>7, <1>8, <1>9, <1>10 DEF ControlNext, LoopNext

LEMMA ClassifyTyped == ASSUME NEW h PROVE Classify(h) \in MetadataSet
BY DEF Classify, ForegroundPrompt, InteractivePrompt, BackgroundWork, MetadataSet

LEMMA DecisionsTypedStep ==
  ASSUME DecisionsTyped, [ControlNext]_controlVars
  PROVE  DecisionsTyped'
<1> USE DEF DecisionsTyped
<1>1. CASE UNCHANGED requestVars
  BY <1>1 DEF requestVars
<1>2. ASSUME NEW r \in Requests, RequestLogged(r) PROVE DecisionsTyped'
  BY <1>2 DEF RequestLogged
<1>3. ASSUME NEW r \in Requests, NEW queued, Admit(r, queued) PROVE DecisionsTyped'
  <2>1. PICK h : metadata' = [metadata EXCEPT ![r] = Classify(h)]
    BY <1>3 DEF Admit, Classifies
  <2>2. PICK c, s : decision' = [decision EXCEPT ![r] = Decide(c, Tokens[r], s, queued)]
    BY <1>3 DEF Admit
  <2>3. Decide(c, Tokens[r], s, queued) \in {"none", "allow", "throttle", "reject", "yield"}
    BY DecisionTyped
  <2>4. Classify(h) \in MetadataSet
    BY ClassifyTyped
  <2>5. QED
    BY <2>1, <2>2, <2>3, <2>4
<1>4. QED
  BY <1>1, <1>2, <1>3, RequestSteps

LEMMA ControlInitTyped == ControlInit => LoopTyped /\ DecisionsTyped
<1> SUFFICES ASSUME ControlInit PROVE LoopTyped /\ DecisionsTyped
  OBVIOUS
<1>1. Len(history) = 0 /\ Window \in Nat /\ 0 \in 0..Endpoints
  BY ControlAssumption DEF ControlInit
<1>2. LoopTyped
  <2>1. Len(history) <= Window
    BY <1>1
  <2>2. loop = "off" /\ yielding = FALSE /\ unloaded = 0
    BY DEF ControlInit
  <2>3. QED
    BY <1>1, <2>1, <2>2 DEF LoopTyped
<1>3. metadata \in [Requests -> {NoMetadata}]
  BY DEF ControlInit
<1>4. decision \in [Requests -> {"none"}]
  BY DEF ControlInit
<1>5. DecisionsTyped
  BY <1>3, <1>4 DEF DecisionsTyped
<1>6. QED
  BY <1>2, <1>5

\* Every variable of the control plane keeps to its values; in particular the
\* window, the recent decisions and the offload count stay within their bounds.
THEOREM ControlTypeCorrect == ControlSpec => []ControlTypeOK
<1>1. LoopTyped /\ DecisionsTyped /\ ReportsTyped /\ [ControlNext]_controlVars
        => LoopTyped' /\ DecisionsTyped'
  BY LoopTypedStep, DecisionsTypedStep
<1>2. ReportsTyped /\ LoopTyped /\ DecisionsTyped /\ RecentInv /\ LogInv => ControlTypeOK
  <2> SUFFICES ASSUME ReportsTyped, LoopTyped, DecisionsTyped, RecentInv, LogInv
               PROVE  ControlTypeOK
    OBVIOUS
  <2>1. Range(history) \subseteq RawSamples
    BY DEF Range, ReportsTyped
  <2>2. Range(recent) \subseteq Requests
    BY DEF Range, RecentInv
  <2>3. QED
    BY <2>1, <2>2 DEF ControlTypeOK, ReportsTyped, LoopTyped, DecisionsTyped, RecentInv, LogInv
<1>3. QED
  BY <1>1, <1>2, ControlInitTyped, ReportsAreTyped, RecentInvariant, ThreadsRunAlone, PTL
  DEF ControlSpec

=============================================================================
