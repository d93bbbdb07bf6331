---------------------------- MODULE PolicyEngine ----------------------------
(***************************************************************************)
(* From a telemetry sample to limits and decisions: the policy engine      *)
(* (computecop/policy.py), the thresholds of the host (platform.py) and    *)
(* admission (admission.py). Nothing here has state.                       *)
(***************************************************************************)
EXTENDS Integers

CONSTANTS
  MaxSlots,        \* configured ceilings: [fg, bg, endpointFg, endpointBg]
  BaseJuice,       \* background_base_juice_level
  MinJuice,        \* minimum_background_juice_level
  BaseContext,     \* base_context_tokens
  MaxQueueSize,    \* QueueConfig.max_size
  YieldCap,        \* ram_yield_percent
  RecoverCap,      \* ram_recover_percent
  RecoverGap,      \* ram_recover_gap_percent
  ReservePercent,  \* the RAM usage that leaves reserved_free_gb free
  BudgetScale,     \* budget_scale of the host, in percent
  SmallHost,       \* the host has less RAM than minimum_supported_ram_gb
  CpuAt, SwapAt    \* cpu_pressure_percent and swap_pressure_percent

ASSUME PolicyAssumption ==
  /\ MaxSlots \in [fg : Nat \ {0}, bg : Nat \ {0},
                   endpointFg : Nat \ {0}, endpointBg : Nat \ {0}]
  /\ BaseJuice \in 1..100 /\ MinJuice \in 1..100
  /\ BaseContext \in Nat /\ MaxQueueSize \in Nat \ {0}
  /\ YieldCap \in 50..99 /\ RecoverCap \in 30..98 /\ RecoverCap < YieldCap /\ RecoverGap \in 2..30
  /\ ReservePercent \in Int /\ BudgetScale \in 50..100
  /\ SmallHost \in BOOLEAN
  /\ CpuAt \in 10..100 /\ SwapAt \in 0..100

-----------------------------------------------------------------------------
(* Helpers                                                                 *)

AtLeast(floor, n) == IF n < floor THEN floor ELSE n
AtMost(cap, n) == IF n > cap THEN cap ELSE n

-----------------------------------------------------------------------------
(* The thresholds of the host                                              *)

\* dynamic_yield_percent
YieldAt == AtLeast(65, AtMost(YieldCap, ReservePercent))

\* dynamic_recover_percent
RecoverAt == AtLeast(40, AtMost(RecoverCap, YieldAt - RecoverGap))

-----------------------------------------------------------------------------
(* What evaluate() sees in a sample                                        *)

\* A sample holds sums over the smoothing window and their number, which is
\* zero before the first one; the state of the sensors is that of the last.
Reaches(t, total, percent) == t.n > 0 /\ total >= percent * t.n

RamBand(t) ==
  CASE Reaches(t, t.ram, YieldAt)   -> "yield"
    [] Reaches(t, t.ram, RecoverAt) /\ ~Reaches(t, t.ram, YieldAt) -> "elevated"
    [] OTHER -> "low"

\* Whether there is a sample, and the rules of evaluate() it triggers.
Signals(t) ==
  [known   |-> t.n > 0,
   small   |-> t.n > 0 /\ SmallHost,
   ram     |-> RamBand(t),
   cpu     |-> Reaches(t, t.cpu, CpuAt),
   swap    |-> Reaches(t, t.swap, SwapAt),
   thermal |-> IF t.n > 0 THEN t.thermal ELSE "cool",
   heavy   |-> t.n > 0 /\ t.heavy]

SignalSet ==
  [known : BOOLEAN, small : BOOLEAN, ram : {"low", "elevated", "yield"},
   cpu : BOOLEAN, swap : BOOLEAN,
   thermal : {"cool", "warm", "hot", "critical"}, heavy : BOOLEAN]

RamPenalty(s) ==
  CASE s.ram = "yield" -> 55 [] s.ram = "elevated" -> 25 [] s.ram = "low" -> 0

\* _thermal_penalty; an unknown state costs what a cool one does.
ThermalPenalty(s) ==
  CASE s.thermal = "critical" -> 45 [] s.thermal = "hot" -> 30
    [] s.thermal = "warm" -> 10 [] s.thermal = "cool" -> 0

Penalty(s) ==
  (IF s.small THEN 25 ELSE 0) + RamPenalty(s) + (IF s.cpu THEN 15 ELSE 0)
    + (IF s.swap THEN 20 ELSE 0) + ThermalPenalty(s) + (IF s.heavy THEN 10 ELSE 0)

Yields(s) == s.ram = "yield"

Pressured(s) == ~Yields(s) /\ Penalty(s) >= 30
Recovering(s) == ~Yields(s) /\ Penalty(s) \in 1..29

\* global_juice_level
Juice(s) == IF s.known THEN AtLeast(MinJuice, BaseJuice - Penalty(s)) ELSE BaseJuice

\* max_context_tokens of a background budget: base * max(0.05, juice * scale),
\* the scale of the host counting only once there is a sample.
ContextBudget(s) ==
  LET scale == IF s.known THEN BudgetScale ELSE 100
  IN AtLeast(512, (BaseContext * AtLeast(500, Juice(s) * scale)) \div 10000)

-----------------------------------------------------------------------------
(* compute_concurrency_limits(), rule by rule                              *)

\* Under yield the background limits may be zero, else they stay positive.
BgFloor(s) == IF Yields(s) THEN 0 ELSE 1

\* Mutant of ByState: a yield leaves the foreground as it is.
ByStateBgOnly(s, l) ==
  CASE Yields(s) -> [l EXCEPT !.bg = 0, !.endpointBg = 0]
    [] Pressured(s) ->
         [fg |-> AtLeast(1, (l.fg * 3) \div 4), bg |-> AtLeast(1, l.bg \div 2),
          endpointFg |-> AtLeast(1, (l.endpointFg * 3) \div 4),
          endpointBg |-> AtLeast(1, l.endpointBg \div 2)]
    [] OTHER -> l

\* Yielding, pressured and recovering hosts, in that order; no rule otherwise.
ByState(s, l) ==
  CASE Yields(s) ->
         [fg |-> AtLeast(1, l.fg \div 2), bg |-> 0,
          endpointFg |-> AtLeast(1, l.endpointFg \div 2), endpointBg |-> 0]
    [] Pressured(s) ->
         [fg |-> AtLeast(1, (l.fg * 3) \div 4), bg |-> AtLeast(1, l.bg \div 2),
          endpointFg |-> AtLeast(1, (l.endpointFg * 3) \div 4),
          endpointBg |-> AtLeast(1, l.endpointBg \div 2)]
    [] Recovering(s) ->
         [l EXCEPT !.bg = AtLeast(1, (@ * 3) \div 4),
                   !.endpointBg = AtLeast(1, (@ * 3) \div 4)]
    [] OTHER -> l

BySwap(s, l) ==
  IF s.swap THEN [l EXCEPT !.bg = AtLeast(BgFloor(s), @ \div 2),
                           !.endpointBg = AtLeast(BgFloor(s), @ \div 2)]
  ELSE l

ByThermal(s, l) ==
  IF s.thermal # "cool"
    THEN [fg |-> AtLeast(1, l.fg - 1), bg |-> AtLeast(BgFloor(s), l.bg - 1),
          endpointFg |-> AtLeast(1, l.endpointFg - 1),
          endpointBg |-> AtLeast(BgFloor(s), l.endpointBg - 1)]
  ELSE l

ByBreakers(s, open, l) ==
  IF open > 0 THEN [l EXCEPT !.endpointFg = AtLeast(1, @ - open),
                             !.endpointBg = AtLeast(BgFloor(s), @ - open)]
  ELSE l

Limits(s, open) == ByBreakers(s, open, ByThermal(s, BySwap(s, ByState(s, MaxSlots))))

-----------------------------------------------------------------------------
(* AdmissionController.decide()                                            *)

\* For a request of class and size `tokens`, with `queued` items in the heap.
Decide(class, tokens, s, queued) ==
  CASE class = "prompt" -> "allow"
    [] class # "prompt" /\ queued >= MaxQueueSize -> "reject"
    [] class # "prompt" /\ queued < MaxQueueSize /\ Yields(s) -> "yield"
    [] /\ class # "prompt" /\ queued < MaxQueueSize /\ ~Yields(s)
       /\ Pressured(s) \/ Recovering(s) \/ tokens > ContextBudget(s) -> "throttle"
    [] OTHER -> "allow"

-----------------------------------------------------------------------------
(* Properties                                                              *)

\* No dimension of the pressure s is above that of r.
NoHarsher(s, r) ==
  /\ s.small => r.small
  /\ s.cpu => r.cpu
  /\ s.swap => r.swap
  /\ s.heavy => r.heavy
  /\ RamPenalty(s) <= RamPenalty(r)
  /\ ThermalPenalty(s) <= ThermalPenalty(r)

\* No limit of k is above that of l.
NoLarger(k, l) ==
  k.fg <= l.fg /\ k.bg <= l.bg /\ k.endpointFg <= l.endpointFg /\ k.endpointBg <= l.endpointBg
=============================================================================
