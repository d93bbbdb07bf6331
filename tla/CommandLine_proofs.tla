------------------------- MODULE CommandLine_proofs ------------------------
(***************************************************************************)
(* For all layers of settings and all bodies of requests: the sources that *)
(* are reported are true, and a shaped body keeps to its budget. And for a *)
(* dashboard session with any timeouts and any number of keys: its drains  *)
(* are confirmed, and its stop is complete in spite of interrupts.         *)
(*                                                                         *)
(* The merge and the bookkeeping of the sources overlay the same layers in *)
(* the same order, so each setting comes from the layer that is reported;  *)
(* a default comes from the overlay of a profile, which is looked up in    *)
(* those layers too and cannot itself name a profile.                      *)
(*                                                                         *)
(* For the drains, the interface's one timer is the age of the press that  *)
(* armed a pending drain. For the stop, each place of the main task says   *)
(* which tasks have ended by then: stop() waits for them one by one, and   *)
(* an interrupt does not move the main task on except out of the close.    *)
(***************************************************************************)
EXTENDS CommandLine, TLAPS

-----------------------------------------------------------------------------
(* Overlays                                                                *)

\* The value of a setting is that of the strongest layer which gives it.
LEMMA OverlaidValue ==
  ASSUME NEW base, NEW g, NEW s \in DOMAIN base
  PROVE  OverlaidBy(base, g)[s] =
           IF s \in DOMAIN g.cli THEN g.cli[s]
           ELSE IF s \in DOMAIN EnvLayer(g.env) THEN EnvLayer(g.env)[s]
           ELSE IF s \in DOMAIN g.file.layer THEN g.file.layer[s]
           ELSE base[s]
<1> DEFINE one == DeepMerge(base, g.file.layer)
           two == DeepMerge(one, EnvLayer(g.env))
<1>1. /\ s \in DOMAIN one
      /\ s \in DOMAIN g.file.layer => one[s] = g.file.layer[s]
      /\ s \notin DOMAIN g.file.layer => one[s] = base[s]
  BY DEF DeepMerge
<1> HIDE DEF one
<1>2. /\ s \in DOMAIN two
      /\ s \in DOMAIN EnvLayer(g.env) => two[s] = EnvLayer(g.env)[s]
      /\ s \notin DOMAIN EnvLayer(g.env) => two[s] = one[s]
  BY <1>1 DEF DeepMerge
<1> HIDE DEF two
<1>3. /\ s \in DOMAIN g.cli => DeepMerge(two, g.cli)[s] = g.cli[s]
      /\ s \notin DOMAIN g.cli => DeepMerge(two, g.cli)[s] = two[s]
  BY <1>2 DEF DeepMerge
<1>4. OverlaidBy(base, g) = DeepMerge(two, g.cli)
  BY Zenon DEF OverlaidBy, one, two
<1>5. QED
  BY <1>1, <1>2, <1>3, <1>4, Zenon

\* So is the source that is reported for it.
LEMMA SourceValue ==
  ASSUME NEW g, NEW s \in Settings
  PROVE  SourceOf(g)[s] =
           IF s \in DOMAIN g.cli THEN "cli"
           ELSE IF s \in DOMAIN EnvLayer(g.env) THEN "environment"
           ELSE IF s \in DOMAIN g.file.layer THEN "toml"
           ELSE "default"
<1> DEFINE zero == AllFrom(Defaults, "default")
           one == DeepMerge(zero, AllFrom(g.file.layer, "toml"))
           two == DeepMerge(one, AllFrom(EnvLayer(g.env), "environment"))
<1>1. s \in DOMAIN zero /\ zero[s] = "default"
  <2>1. s \in DOMAIN Defaults
    BY DEF Defaults, Settings, Allowed
  <2>2. QED
    BY <2>1 DEF AllFrom
<1> HIDE DEF zero
<1>2. /\ s \in DOMAIN one
      /\ s \in DOMAIN g.file.layer => one[s] = "toml"
      /\ s \notin DOMAIN g.file.layer => one[s] = "default"
  BY <1>1 DEF DeepMerge, AllFrom
<1> HIDE DEF one
<1>3. /\ s \in DOMAIN two
      /\ s \in DOMAIN EnvLayer(g.env) => two[s] = "environment"
      /\ s \notin DOMAIN EnvLayer(g.env) => two[s] = one[s]
  BY <1>2 DEF DeepMerge, AllFrom
<1> HIDE DEF two
<1>4. /\ s \in DOMAIN g.cli => DeepMerge(two, AllFrom(g.cli, "cli"))[s] = "cli"
      /\ s \notin DOMAIN g.cli => DeepMerge(two, AllFrom(g.cli, "cli"))[s] = two[s]
  BY <1>3 DEF DeepMerge, AllFrom
<1>5. SourceOf(g) = DeepMerge(two, AllFrom(g.cli, "cli"))
  BY Zenon DEF SourceOf, zero, one, two
<1>6. QED
  BY <1>2, <1>3, <1>4, <1>5, Zenon

\* No profile sets the profile, and every profile sets settings only.
LEMMA OverlaySettings ==
  ASSUME NEW name \in ProfileNames
  PROVE  DOMAIN Overlay(name) \subseteq Settings \ {"profile"}
BY DEF ProfileNames, Overlay, Settings, Allowed

\* The defaults that the layers are merged over.
LEMMA BaseValue ==
  ASSUME NEW name \in ProfileNames, NEW s \in Settings
  PROVE  LET base == DeepMerge([Defaults EXCEPT !.profile = name], Overlay(name))
         IN  /\ s \in DOMAIN base
             /\ s = "profile" => base[s] = name
             /\ s # "profile" => base[s] = DeepMerge(Defaults, Overlay(name))[s]
<1> DEFINE named == [Defaults EXCEPT !.profile = name]
<1>1. s \in DOMAIN Defaults /\ s \in DOMAIN named
  BY DEF Defaults, Settings, Allowed
<1>2. /\ s = "profile" => named[s] = name
      /\ s # "profile" => named[s] = Defaults[s]
  BY DEF Defaults, Settings, Allowed
<1> HIDE DEF named
<1>3. s = "profile" => s \notin DOMAIN Overlay(name)
  BY OverlaySettings
<1>4. /\ s \in DOMAIN DeepMerge(named, Overlay(name))
      /\ s \in DOMAIN Overlay(name) => DeepMerge(named, Overlay(name))[s] = Overlay(name)[s]
      /\ s \notin DOMAIN Overlay(name) => DeepMerge(named, Overlay(name))[s] = named[s]
  BY <1>1 DEF DeepMerge
<1>5. /\ s \in DOMAIN Overlay(name) =>
           DeepMerge(Defaults, Overlay(name))[s] = Overlay(name)[s]
      /\ s \notin DOMAIN Overlay(name) => DeepMerge(Defaults, Overlay(name))[s] = Defaults[s]
  BY <1>1 DEF DeepMerge
<1>6. QED
  BY <1>2, <1>3, <1>4, <1>5, Zenon DEF named

-----------------------------------------------------------------------------
(* What a load reports                                                     *)

LEMMA SaidByEach ==
  ASSUME NEW s
  PROVE  /\ SaidBy("cli", s) = given.cli[s]
         /\ SaidBy("environment", s) = EnvLayer(given.env)[s]
         /\ SaidBy("toml", s) = given.file.layer[s]
         /\ SaidBy("default", s) = DeepMerge(Defaults, Overlay(config.values.profile))[s]
BY DEF SaidBy

\* The profile in effect is the one whose overlay was applied.
LEMMA ProfileInEffect ==
  ASSUME NEW g, SelectedProfile(g) \in ProfileNames
  PROVE  Merged(g).profile = SelectedProfile(g)
<1> DEFINE name == SelectedProfile(g)
           base == DeepMerge([Defaults EXCEPT !.profile = name], Overlay(name))
           first == [profile |-> "balanced"]
<1>0. "profile" \in Settings
  BY DEF Settings, Allowed
<1>1. "profile" \in DOMAIN base /\ base["profile"] = name
  BY <1>0, BaseValue
<1>2. Merged(g) = OverlaidBy(base, g)
  BY DEF Merged
<1>3. "profile" \in DOMAIN first /\ name = OverlaidBy(first, g)["profile"]
  BY DEF SelectedProfile
<1> HIDE DEF name, base, first
<1>4. OverlaidBy(base, g)["profile"] =
        IF "profile" \in DOMAIN g.cli THEN g.cli["profile"]
        ELSE IF "profile" \in DOMAIN EnvLayer(g.env) THEN EnvLayer(g.env)["profile"]
        ELSE IF "profile" \in DOMAIN g.file.layer THEN g.file.layer["profile"]
        ELSE name
  BY <1>1, OverlaidValue
<1>5. name =
        IF "profile" \in DOMAIN g.cli THEN g.cli["profile"]
        ELSE IF "profile" \in DOMAIN EnvLayer(g.env) THEN EnvLayer(g.env)["profile"]
        ELSE IF "profile" \in DOMAIN g.file.layer THEN g.file.layer["profile"]
        ELSE first["profile"]
  BY <1>3, OverlaidValue
<1>6. OverlaidBy(base, g)["profile"] = name
  BY <1>4, <1>5
<1>7. QED
  BY <1>2, <1>6 DEF name

\* Each value is the one that the reported source gives.
LEMMA LoadTellsTheTruth ==
  ASSUME SelectedProfile(given) \in ProfileNames, config = Loaded(given),
         NEW s \in Settings
  PROVE  config.values[s] = SaidBy(config.sources[s], s)
<1> DEFINE name == SelectedProfile(given)
           base == DeepMerge([Defaults EXCEPT !.profile = name], Overlay(name))
<1>1. config.values = Merged(given) /\ config.sources = SourceOf(given)
  BY DEF Loaded
<1>2. config.values.profile = name
  BY <1>1, ProfileInEffect
<1>3. Merged(given) = OverlaidBy(base, given)
  BY DEF Merged
<1>4. /\ s \in DOMAIN base
      /\ s = "profile" => base[s] = name
      /\ s # "profile" => base[s] = DeepMerge(Defaults, Overlay(name))[s]
  BY BaseValue
<1> HIDE DEF name, base
<1>5. config.values[s] =
        IF s \in DOMAIN given.cli THEN given.cli[s]
        ELSE IF s \in DOMAIN EnvLayer(given.env) THEN EnvLayer(given.env)[s]
        ELSE IF s \in DOMAIN given.file.layer THEN given.file.layer[s]
        ELSE base[s]
  BY <1>1, <1>3, <1>4, OverlaidValue
<1>6. config.sources[s] =
        IF s \in DOMAIN given.cli THEN "cli"
        ELSE IF s \in DOMAIN EnvLayer(given.env) THEN "environment"
        ELSE IF s \in DOMAIN given.file.layer THEN "toml"
        ELSE "default"
  BY <1>1, SourceValue
<1>7. CASE s \in DOMAIN given.cli
  BY <1>5, <1>6, <1>7, SaidByEach
<1>8. CASE s \notin DOMAIN given.cli /\ s \in DOMAIN EnvLayer(given.env)
  BY <1>5, <1>6, <1>8, SaidByEach
<1>9. CASE /\ s \notin DOMAIN given.cli /\ s \notin DOMAIN EnvLayer(given.env)
           /\ s \in DOMAIN given.file.layer
  BY <1>5, <1>6, <1>9, SaidByEach
<1>10. CASE /\ s \notin DOMAIN given.cli /\ s \notin DOMAIN EnvLayer(given.env)
            /\ s \notin DOMAIN given.file.layer
  <2>1. config.values[s] = base[s] /\ config.sources[s] = "default"
    BY <1>5, <1>6, <1>10
  <2>2. CASE s # "profile"
    BY <2>1, <2>2, <1>2, <1>4, SaidByEach
  <2>3. CASE s = "profile"
    <3>1. name = "balanced"
      <4>1. "profile" \in DOMAIN [profile |-> "balanced"]
        OBVIOUS
      <4>2. OverlaidBy([profile |-> "balanced"], given)["profile"] = "balanced"
        BY <4>1, <1>10, <2>3, OverlaidValue
      <4>3. QED
        BY <4>2 DEF name, SelectedProfile
    <3>2. DeepMerge(Defaults, Overlay("balanced"))["profile"] = "balanced"
      <4>1. "balanced" \in ProfileNames
        BY DEF ProfileNames
      <4>2. "profile" \notin DOMAIN Overlay("balanced")
        BY <4>1, OverlaySettings
      <4>3. "profile" \in DOMAIN Defaults /\ Defaults["profile"] = "balanced"
        BY DEF Defaults
      <4>4. QED
        BY <4>2, <4>3 DEF DeepMerge
    <3>3. QED
      BY <2>1, <2>3, <1>2, <1>4, <3>1, <3>2, SaidByEach
  <2>4. QED
    BY <2>2, <2>3
<1>11. QED
  BY <1>7, <1>8, <1>9, <1>10

-----------------------------------------------------------------------------
(* What shaping leaves                                                     *)

Budgets == [juice : Int, context : Int, output : Int]

LEMMA FieldsOfFamilies ==
  /\ OutputFields("openai") = {"max_tokens", "max_completion_tokens"}
  /\ OutputFields("ollama") = {"num_predict"}
  /\ OutputFields("llama_cpp") = {"n_predict", "max_tokens"}
  /\ ContextFields("openai") = {}
  /\ ContextFields("ollama") = {"num_ctx"}
  /\ ContextFields("llama_cpp") = {"n_ctx"}
BY DEF OutputFields, ContextFields

\* A body names fields of its family, with numbers or garbage.
LEMMA BodyFields ==
  ASSUME NEW family, NEW body \in Bodies(family)
  PROVE  /\ DOMAIN body \subseteq OutputFields(family) \cup ContextFields(family)
         /\ \A f : Number(body, f) => body[f] \in Int
<1>1. PICK fields \in SUBSET (OutputFields(family) \cup ContextFields(family)) :
        body \in [fields -> LimitValues \cup {NotANumber}]
  BY DEF Bodies
<1>2. QED
  BY <1>1, CommandLineAssumption DEF Number, Named

\* A limit that has been cut is a number within the cap.
LEMMA CutWithin ==
  ASSUME NEW body, NEW f, NEW cap \in Int, Number(body, f) => body[f] \in Int
  PROVE  Cut(body, f, cap) \in Int /\ Cut(body, f, cap) <= cap
<1>1. ASSUME NEW n \in Int
      PROVE  Min({n, cap}) \in Int /\ Min({n, cap}) <= cap
  <2>1. \E x \in {n, cap} : \A y \in {n, cap} : x <= y
    OBVIOUS
  <2>2. QED
    BY <2>1 DEF Min
<1>2. QED
  BY <1>1 DEF Cut

\* Ollama: both fields are always set.
LEMMA OllamaWithin ==
  ASSUME NEW body \in Bodies("ollama"), NEW b \in Budgets
  PROVE  Within("ollama", ShapedOllama(body, b).limits, b)
<1> DEFINE ctx == Cut(body, "num_ctx", b.context)
           out == Cut(body, "num_predict", b.output)
           one == Put(body, "num_ctx", ctx)
           limits == Put(one, "num_predict", out)
<1>1. /\ ctx \in Int /\ ctx <= b.context
      /\ out \in Int /\ out <= b.output
  BY BodyFields, CutWithin DEF Budgets
<1>2. DOMAIN body \subseteq {"num_predict", "num_ctx"}
  BY BodyFields, FieldsOfFamilies
<1> HIDE DEF ctx, out
<1>3. /\ DOMAIN limits = {"num_predict", "num_ctx"}
      /\ limits["num_ctx"] = ctx /\ limits["num_predict"] = out
  BY <1>2 DEF Put
<1>4. ShapedOllama(body, b).limits = limits
  BY DEF ShapedOllama, ctx, out
<1> HIDE DEF limits
<1>5. Obeyed("ollama", limits) = {"num_predict", "num_ctx"}
  BY <1>3 DEF Obeyed
<1>6. QED
  BY <1>1, <1>3, <1>4, <1>5, FieldsOfFamilies, CommandLineAssumption DEF Within, CapOf

\* llama.cpp: the context is always set, and the name of the output limit that the
\* engine reads.
LEMMA LlamaCppWithin ==
  ASSUME NEW body \in Bodies("llama_cpp"), NEW b \in Budgets
  PROVE  Within("llama_cpp", ShapedLlamaCpp(body, b).limits, b)
<1> DEFINE key == IF ~Named(body, "n_predict") /\ Named(body, "max_tokens")
                    THEN "max_tokens" ELSE "n_predict"
           ctx == Cut(body, "n_ctx", b.context)
           out == Cut(body, key, b.output)
           limits == Put(Put(body, key, out), "n_ctx", ctx)
<1>1. /\ ctx \in Int /\ ctx <= b.context
      /\ out \in Int /\ out <= b.output
  BY BodyFields, CutWithin DEF Budgets
<1>2. DOMAIN body \subseteq {"n_predict", "max_tokens", "n_ctx"}
  BY BodyFields, FieldsOfFamilies
<1>3. ShapedLlamaCpp(body, b).limits = limits
  BY DEF ShapedLlamaCpp
<1>4. /\ key = "max_tokens" => "n_predict" \notin DOMAIN body
      /\ key \in {"n_predict", "max_tokens"}
  BY DEF Named
<1> HIDE DEF ctx, out, key
<1>5. /\ DOMAIN limits = DOMAIN body \cup {key, "n_ctx"}
      /\ limits["n_ctx"] = ctx /\ limits[key] = out
  BY <1>4 DEF Put
<1> HIDE DEF limits
<1>6. Obeyed("llama_cpp", limits) = {key, "n_ctx"}
  BY <1>2, <1>4, <1>5 DEF Obeyed
<1>7. QED
  BY <1>1, <1>3, <1>4, <1>5, <1>6, FieldsOfFamilies, CommandLineAssumption
     DEF Within, CapOf

\* OpenAI: every key that is named is cut, or the first is added.
LEMMA OpenAIWithin ==
  ASSUME NEW body \in Bodies("openai"), NEW b \in Budgets
  PROVE  Within("openai", ShapedOpenAI(body, b).limits, b)
<1> DEFINE out1 == Cut(body, "max_tokens", b.output)
           out2 == ShapedSecondKey(body, b)
           first == IF Named(body, "max_tokens") \/ ~Named(body, "max_completion_tokens")
                      THEN Put(body, "max_tokens", out1) ELSE body
           limits == IF Named(body, "max_completion_tokens")
                       THEN Put(first, "max_completion_tokens", out2) ELSE first
<1>1. /\ out1 \in Int /\ out1 <= b.output
      /\ out2 \in Int /\ out2 <= b.output
  BY BodyFields, CutWithin DEF Budgets, ShapedSecondKey
<1>2. DOMAIN body \subseteq {"max_tokens", "max_completion_tokens"}
  BY BodyFields, FieldsOfFamilies
<1>3. ShapedOpenAI(body, b).limits = limits
  BY DEF ShapedOpenAI
<1> HIDE DEF out1, out2
<1>4. /\ DOMAIN limits \subseteq {"max_tokens", "max_completion_tokens"}
      /\ DOMAIN limits # {}
      /\ "max_tokens" \in DOMAIN limits => limits["max_tokens"] = out1
      /\ "max_completion_tokens" \in DOMAIN limits => limits["max_completion_tokens"] = out2
  BY <1>2 DEF Put, Named
<1> HIDE DEF limits
<1>5. Obeyed("openai", limits) = DOMAIN limits
  BY DEF Obeyed
<1>6. QED
  BY <1>1, <1>3, <1>4, <1>5, FieldsOfFamilies, CommandLineAssumption DEF Within, CapOf

\* Whatever a body names, what is sent keeps to the budget.
LEMMA ShapedWithin ==
  ASSUME NEW family \in Families, NEW body \in Bodies(family), NEW b \in Budgets
  PROVE  Within(family, Shaped(family, body, b).limits, b)
<1>1. CASE family = "openai"
  <2>1. Shaped(family, body, b) = ShapedOpenAI(body, b)
    BY <1>1 DEF Shaped
  <2>2. QED
    BY <1>1, <2>1, OpenAIWithin
<1>2. CASE family = "ollama"
  <2>1. Shaped(family, body, b) = ShapedOllama(body, b)
    BY <1>2 DEF Shaped
  <2>2. QED
    BY <1>2, <2>1, OllamaWithin
<1>3. CASE family = "llama_cpp"
  <2>1. Shaped(family, body, b) = ShapedLlamaCpp(body, b)
    BY <1>3 DEF Shaped
  <2>2. QED
    BY <1>3, <2>1, LlamaCppWithin
<1>4. QED
  BY <1>1, <1>2, <1>3 DEF Families

-----------------------------------------------------------------------------
(* The process                                                             *)

LEMMA AtLeastOfInt ==
  ASSUME NEW floor \in Int, NEW n \in Int
  PROVE  AtLeastOf(floor, n) \in Int
<1>1. \E x \in {floor, n} : \A y \in {floor, n} : x >= y
  OBVIOUS
<1>2. QED
  BY <1>1 DEF AtLeastOf, Max

LEMMA BudgetInBudgets ==
  ASSUME NEW foreground \in BOOLEAN, NEW juice \in 1..100, NEW scale \in 1..100,
         NEW contextTokens \in Int, NEW outputTokens \in Int
  PROVE  Budget(foreground, juice, scale, contextTokens, outputTokens) \in Budgets
<1> DEFINE share == IF foreground THEN scale * 100 ELSE AtLeastOf(500, juice * scale)
           context == (contextTokens * share) \div 10000
           output == (outputTokens * share) \div 10000
<1>1. juice * scale \in Int /\ scale * 100 \in Int
  OBVIOUS
<1>2. share \in Int
  BY <1>1, AtLeastOfInt
<1> HIDE DEF share
<1>3. contextTokens * share \in Int /\ outputTokens * share \in Int
  BY <1>2
<1>4. context \in Int /\ output \in Int
  BY <1>3
<1> HIDE DEF context, output
<1>5. AtLeastOf(512, context) \in Int /\ AtLeastOf(32, output) \in Int
  BY <1>4, AtLeastOfInt
<1>6. Budget(foreground, juice, scale, contextTokens, outputTokens) =
        [juice |-> juice, context |-> AtLeastOf(512, context), output |-> AtLeastOf(32, output)]
  BY SMT DEF Budget, share, context, output
<1>7. QED
  BY <1>5, <1>6 DEF Budgets

\* What the configuration is while it is kept, and what is sent.
CommandInv ==
  /\ phase = "loaded" => Loads(given) /\ config = Loaded(given)
  /\ phase = "serving" =>
       config.values.base_context_tokens \in Int /\ config.values.base_output_tokens \in Int
  /\ WithinBudget

LEMMA ExitsKeeps ==
  ASSUME Exits
  PROVE  CommandInv'
BY DEF Exits, CommandInv, WithinBudget

\* A configuration that is accepted configures budgets.
LEMMA ValidTokens ==
  ASSUME NEW data, Valid(data)
  PROVE  data["base_context_tokens"] \in Int /\ data["base_output_tokens"] \in Int
<1>1. /\ "base_context_tokens" \in Settings
      /\ "base_output_tokens" \in Settings
  BY DEF Settings, Allowed
<1>2. Allowed["base_context_tokens"] \subseteq Int /\ Allowed["base_output_tokens"] \subseteq Int
  BY DEF Allowed
<1>3. \A s \in Settings : data[s] \in Allowed[s]
  BY Zenon DEF Valid
<1>4. QED
  BY <1>1, <1>2, <1>3, Zenon

LEMMA ServingKeeps ==
  ASSUME CommandInv, ServingBegins
  PROVE  CommandInv'
<1>1. Valid(config.values)
  <2>1. phase = "loaded"
    BY DEF ServingBegins
  <2>2. Loads(given) /\ config = Loaded(given)
    BY <2>1 DEF CommandInv
  <2>3. config.values = Merged(given)
    BY <2>2 DEF Loaded
  <2>4. QED
    BY <2>2, <2>3 DEF Loads
<1>2. /\ config.values["base_context_tokens"] \in Int
      /\ config.values["base_output_tokens"] \in Int
  BY <1>1, ValidTokens, Zenon
<1>3. /\ config'.values.base_context_tokens = config.values["base_context_tokens"]
      /\ config'.values.base_output_tokens = config.values["base_output_tokens"]
  <2> DEFINE kept == Restrict(config.values, {"base_context_tokens", "base_output_tokens"})
  <2>1. /\ kept["base_context_tokens"] = config.values["base_context_tokens"]
        /\ kept["base_output_tokens"] = config.values["base_output_tokens"]
    BY DEF Restrict
  <2>2. config' = [values |-> kept]
    BY DEF ServingBegins, Keeps
  <2> HIDE DEF kept
  <2>3. QED
    BY <2>1, <2>2
<1>4. phase' = "serving" /\ served' = served
  BY DEF ServingBegins
<1>5. WithinBudget'
  BY <1>4 DEF CommandInv, WithinBudget
<1>6. QED
  BY <1>2, <1>3, <1>4, <1>5 DEF CommandInv

LEMMA ShapingKeeps ==
  ASSUME CommandInv, ShapesRequest
  PROVE  CommandInv'
<1>1. PICK family \in Families, own \in {"none", Hint}, foreground \in BOOLEAN,
           juice \in JuiceLevels, scale \in MemoryScales :
        \E body \in Bodies(family) : Shapes(family, body, own, foreground, juice, scale)
  BY DEF ShapesRequest
<1>2. PICK body \in Bodies(family) : Shapes(family, body, own, foreground, juice, scale)
  BY <1>1
<1> DEFINE b == Budget(foreground, juice, scale, config.values.base_context_tokens,
                       config.values.base_output_tokens)
<1>3. phase = "serving" /\ UNCHANGED <<phase, config>>
  BY <1>2 DEF Shapes
<1>4. b \in Budgets
  BY <1>3, BudgetInBudgets, CommandLineAssumption DEF CommandInv
<1>5. served' = [family |-> family, asked |-> body, budget |-> b,
                 sent |-> Shaped(family, body, b), hint |-> EngineHint(family, own, b)]
  BY <1>2 DEF Shapes
<1> HIDE DEF b
<1>6. Within(served'.family, served'.sent.limits, served'.budget)
  BY <1>4, <1>5, ShapedWithin
<1>7. WithinBudget'
  BY <1>6 DEF WithinBudget
<1>8. QED
  BY <1>3, <1>7 DEF CommandInv

LEMMA CommandStep ==
  ASSUME CommandInv, [CommandNext]_processVars
  PROVE  CommandInv'
<1>1. CASE Loading
  BY <1>1 DEF Loading, CommandInv, WithinBudget
<1>2. CASE LoadingFails
  BY <1>2, ExitsKeeps DEF LoadingFails
<1>3. CASE Explains
  BY <1>3, ExitsKeeps DEF Explains
<1>4. CASE RefusesToBind
  BY <1>4, ExitsKeeps DEF RefusesToBind
<1>5. CASE ServingBegins
  BY <1>5, ServingKeeps
<1>6. CASE SessionBegins
  BY <1>6 DEF SessionBegins, CommandInv, WithinBudget
<1>7. CASE ShapesRequest
  BY <1>7, ShapingKeeps
<1>8. CASE SendsRequest
  BY <1>8 DEF SendsRequest, CommandInv, WithinBudget
<1>9. CASE InSession
  BY <1>9 DEF InSession, commandVars, CommandInv, WithinBudget
<1>10. CASE SessionReturns
  BY <1>10, ExitsKeeps DEF SessionReturns
<1>11. CASE UNCHANGED processVars
  BY <1>11 DEF processVars, commandVars, CommandInv, WithinBudget
<1>12. QED
  BY <1>1, <1>2, <1>3, <1>4, <1>5, <1>6, <1>7, <1>8, <1>9, <1>10, <1>11 DEF CommandNext

THEOREM CommandInvariant == CommandSpec => []CommandInv
<1>1. CommandInit => CommandInv
  BY DEF CommandInit, CommandInv, WithinBudget
<1>2. CommandInv /\ [CommandNext]_processVars => CommandInv'
  BY CommandStep
<1>3. QED
  BY <1>1, <1>2, PTL DEF CommandSpec

\* Whatever is given and allowed to be given, the reported sources are true
\* (load_effective_config, explain).
THEOREM SourcesAlwaysTrue == CommandSpec => []SourcesAreTrue
<1>1. CommandInv => SourcesAreTrue
  BY LoadTellsTheTruth DEF CommandInv, Loads, SourcesAreTrue
<1>2. QED
  BY <1>1, CommandInvariant, PTL

\* Whatever numbers the clients send, and whatever limits are configured, a shaped
\* body keeps to its budget (_shape_body).
THEOREM AlwaysWithinBudget == CommandSpec => []WithinBudget
<1>1. CommandInv => WithinBudget
  BY DEF CommandInv
<1>2. QED
  BY <1>1, CommandInvariant, PTL

-----------------------------------------------------------------------------
(* A dashboard session                                                     *)

\* While a drain is pending, nothing but its prompt has set the timer.
TimerIsOfPrompt == ui.pending => ui.age \in 0..TickBound /\ armedFor = ui.age

\* Where the main task stands, and what it has done by then.
StopInOrder ==
  /\ main \in {"before", "watching", "watcher", "loop", "workers"} => upstream = "open"
  /\ main = "upstream" => upstream = "closing"
  /\ main \in {"loop", "workers", "upstream", "done"} => services["watcher"] = "ended"
  /\ main \in {"workers", "upstream", "done"} =>
       services["loop"] = "ended" /\ lifecycle = "closed"
  /\ main \in {"upstream", "done"} => services["workers"] = "ended"

SessionInv == SessionTypeOK /\ TimerIsOfPrompt /\ StopInOrder /\ StopIsComplete

-----------------------------------------------------------------------------
(* The timers                                                              *)

LEMMA Timeouts ==
  /\ ConfirmationTimeout \in Nat /\ StatusTimeout \in Nat
  /\ TickBound \in Nat /\ NoAge \in Int /\ NoAge < 0
  /\ ConfirmationTimeout < TickBound
BY SessionAssumption DEF TickBound, NoAge

\* expire_timers() leaves a confirmation pending only within its time, and the timer
\* as it is.
LEMMA TimersKeepPending ==
  ASSUME SessionTypeOK
  PROVE  /\ AfterTimers \in [pending : BOOLEAN, age : NoAge..TickBound]
         /\ AfterTimers.pending => AfterTimers = ui /\ ui.age <= ConfirmationTimeout
<1>1. CASE ui.pending /\ ui.age > ConfirmationTimeout
  BY <1>1, Timeouts DEF AfterTimers, Status, SessionTypeOK, NoAge
<1>2. CASE ~ui.pending /\ ui.age > StatusTimeout
  BY <1>2, Timeouts DEF AfterTimers, NoStatus, SessionTypeOK, NoAge
<1>3. CASE /\ ~(ui.pending /\ ui.age > ConfirmationTimeout)
           /\ ~(~ui.pending /\ ui.age > StatusTimeout)
  <2>1. AfterTimers = ui
    BY <1>3 DEF AfterTimers
  <2>2. QED
    BY <2>1, <1>3, Timeouts DEF SessionTypeOK, NoAge
<1>4. QED
  BY <1>1, <1>2, <1>3

LEMMA OlderKeepsAge ==
  ASSUME NEW age \in NoAge..TickBound
  PROVE  /\ Older(age) \in NoAge..TickBound
         /\ age \in 0..TickBound => Older(age) \in 0..TickBound
BY Timeouts DEF Older, NoAge

LEMMA AgedStatus ==
  ASSUME NEW u \in [pending : BOOLEAN, age : NoAge..TickBound],
         NEW a \in NoAge..TickBound
  PROVE  /\ [u EXCEPT !.age = a] \in [pending : BOOLEAN, age : NoAge..TickBound]
         /\ [u EXCEPT !.age = a].age = a
         /\ [u EXCEPT !.age = a].pending = u.pending
OBVIOUS

-----------------------------------------------------------------------------
(* The steps of a session                                                  *)

LEMMA SessionInitOK == SessionInit => SessionInv
<1>1. ASSUME SessionInit PROVE SessionTypeOK
  <2>1. NoAge \in NoAge..TickBound /\ NoStatus \in [pending : BOOLEAN, age : NoAge..TickBound]
    BY Timeouts DEF NoStatus, NoAge
  <2>2. <<>> \in Seq(Key)
    OBVIOUS
  <2>3. quit \in BOOLEAN /\ screenDue \in BOOLEAN
    BY <1>1, Zenon DEF SessionInit
  <2>4. QED
    BY <1>1, <2>1, <2>2, <2>3 DEF SessionInit, SessionTypeOK
<1>2. ASSUME SessionInit PROVE TimerIsOfPrompt /\ StopInOrder /\ StopIsComplete
  BY <1>2 DEF SessionInit, TimerIsOfPrompt, StopInOrder, StopIsComplete, NoStatus
<1>3. QED
  BY <1>1, <1>2 DEF SessionInv

\* Handling a key leaves the stop alone, and never reopens a closed queue.
LEMMA HandlesKeyOK ==
  ASSUME SessionInv, HandlesKey
  PROVE  SessionInv'
<1>a. SessionTypeOK /\ TimerIsOfPrompt /\ StopInOrder /\ StopIsComplete
  BY DEF SessionInv
<1>b. /\ AfterTimers \in [pending : BOOLEAN, age : NoAge..TickBound]
      /\ AfterTimers.pending => AfterTimers = ui /\ ui.age <= ConfirmationTimeout
  BY <1>a, TimersKeepPending
<1>c. Status(TRUE) \in [pending : BOOLEAN, age : NoAge..TickBound]
      /\ Status(FALSE) \in [pending : BOOLEAN, age : NoAge..TickBound]
      /\ Status(TRUE).age = 0 /\ ~Status(FALSE).pending
  BY Timeouts DEF Status, NoAge
<1>d. /\ NoAge \in NoAge..TickBound /\ 0 \in NoAge..TickBound /\ 0 \in 0..TickBound
  BY Timeouts DEF NoAge
<1>e. \E k \in Key : Handles(k)
  BY DEF HandlesKey, ConfirmsDrain, CancelsDrain, Unanswered, ArmsDrain, Quits,
         PausesOrResumes, OtherKeys, Key
<1>f. /\ batch' \in Seq(Key)
      /\ UNCHANGED <<presses, keys, screen, screenDue, main, services, upstream,
                     coordinator, interrupts>>
  BY <1>a, <1>e DEF Handles, SessionTypeOK, stopVars
<1>1. /\ ui' \in [pending : BOOLEAN, age : NoAge..TickBound]
      /\ armedFor' \in NoAge..TickBound
      /\ quit' \in BOOLEAN
      /\ TimerIsOfPrompt'
  <2>1. CASE ConfirmsDrain
    BY <2>1, <1>a, <1>c, <1>d DEF ConfirmsDrain, TimerIsOfPrompt, SessionTypeOK
  <2>2. CASE CancelsDrain
    BY <2>2, <1>a, <1>c, <1>d DEF CancelsDrain, TimerIsOfPrompt, SessionTypeOK
  <2>3. CASE Unanswered
    BY <2>3, <1>a, <1>b DEF Unanswered, TimerIsOfPrompt, SessionTypeOK
  <2>4. CASE ArmsDrain
    BY <2>4, <1>a, <1>c, <1>d DEF ArmsDrain, TimerIsOfPrompt, SessionTypeOK
  <2>5. CASE Quits
    BY <2>5, <1>a, <1>b, <1>d DEF Quits, TimerIsOfPrompt, SessionTypeOK
  <2>6. CASE PausesOrResumes
    BY <2>6, <1>a, <1>c, <1>d DEF PausesOrResumes, TimerIsOfPrompt, SessionTypeOK
  <2>7. CASE OtherKeys
    BY <2>7, <1>a, <1>b, <1>c, <1>d DEF OtherKeys, TimerIsOfPrompt, SessionTypeOK
  <2>8. QED
    BY <2>1, <2>2, <2>3, <2>4, <2>5, <2>6, <2>7 DEF HandlesKey
<1>2. /\ lifecycle' \in {"accepting", "paused", "draining", "closed"}
      /\ lifecycle = "closed" => lifecycle' = "closed"
  BY <1>a DEF HandlesKey, ConfirmsDrain, CancelsDrain, Unanswered, ArmsDrain, Quits,
              PausesOrResumes, OtherKeys, SessionTypeOK
<1>3. SessionTypeOK'
  BY <1>a, <1>f, <1>1, <1>2 DEF SessionTypeOK
<1>4. StopInOrder' /\ StopIsComplete'
  BY <1>a, <1>f, <1>2 DEF StopInOrder, StopIsComplete
<1>5. QED
  BY <1>1, <1>3, <1>4 DEF SessionInv

\* Outside the handling of keys the interface ages, expires or is given up.
LEMMA ScreenStepsOK ==
  ASSUME SessionInv,
         \/ \E k \in Key : Press(k)
         \/ TimePasses \/ PollsKeys \/ BatchDone \/ ScreenEnds \/ ScreenFails
  PROVE  SessionInv'
<1>a. SessionTypeOK /\ TimerIsOfPrompt /\ StopInOrder /\ StopIsComplete
  BY DEF SessionInv
<1>b. /\ AfterTimers \in [pending : BOOLEAN, age : NoAge..TickBound]
      /\ AfterTimers.pending => AfterTimers = ui /\ ui.age <= ConfirmationTimeout
  BY <1>a, TimersKeepPending
<1>c. /\ NoStatus \in [pending : BOOLEAN, age : NoAge..TickBound]
      /\ ~NoStatus.pending /\ NoAge \in NoAge..TickBound
  BY Timeouts DEF NoStatus, NoAge
<1>1. CASE \E k \in Key : Press(k)
  <2>1. PICK k \in Key : Press(k)
    BY <1>1
  <2>2. presses' \in Nat /\ keys' \in Seq(Key)
    BY <1>a, <2>1 DEF Press, SessionTypeOK
  <2>3. SessionTypeOK'
    BY <1>a, <2>1, <2>2 DEF Press, SessionTypeOK, stopVars
  <2>4. TimerIsOfPrompt' /\ StopInOrder' /\ StopIsComplete'
    BY <1>a, <2>1 DEF Press, TimerIsOfPrompt, StopInOrder, StopIsComplete, stopVars
  <2>5. QED
    BY <2>3, <2>4 DEF SessionInv
<1>2. CASE TimePasses
  <2>1. /\ Older(ui.age) \in NoAge..TickBound /\ Older(armedFor) \in NoAge..TickBound
        /\ ui.age \in 0..TickBound => Older(ui.age) \in 0..TickBound
    BY <1>a, OlderKeepsAge DEF SessionTypeOK
  <2>2. /\ ui' \in [pending : BOOLEAN, age : NoAge..TickBound]
        /\ armedFor' \in NoAge..TickBound
        /\ TimerIsOfPrompt'
    <3>1. ui \in [pending : BOOLEAN, age : NoAge..TickBound]
      BY <1>a DEF SessionTypeOK
    <3>2. /\ ui' \in [pending : BOOLEAN, age : NoAge..TickBound]
          /\ ui'.age = Older(ui.age) /\ ui'.pending = ui.pending
      BY <1>2, <2>1, <3>1, AgedStatus DEF TimePasses
    <3>3. QED
      BY <1>a, <1>2, <2>1, <3>2 DEF TimePasses, TimerIsOfPrompt
  <2>3. SessionTypeOK' /\ StopInOrder' /\ StopIsComplete'
    BY <1>a, <1>2, <2>2 DEF TimePasses, SessionTypeOK, StopInOrder, StopIsComplete, stopVars
  <2>4. QED
    BY <2>2, <2>3 DEF SessionInv
<1>3. CASE PollsKeys
  BY <1>a, <1>3 DEF PollsKeys, SessionInv, SessionTypeOK, TimerIsOfPrompt, StopInOrder,
                    StopIsComplete, stopVars
<1>4. CASE BatchDone
  <2>1. SessionTypeOK' /\ TimerIsOfPrompt'
    BY <1>a, <1>b, <1>4 DEF BatchDone, SessionTypeOK, TimerIsOfPrompt, stopVars
  <2>2. StopInOrder' /\ StopIsComplete'
    BY <1>a, <1>4 DEF BatchDone, StopInOrder, StopIsComplete, stopVars
  <2>3. QED
    BY <2>1, <2>2 DEF SessionInv
<1>5. CASE ScreenEnds \/ ScreenFails
  <2>1. ScreenGone
    BY <1>5 DEF ScreenEnds, ScreenFails
  <2>2. screenDue' \in BOOLEAN
    BY <2>1, Zenon DEF ScreenGone
  <2>3. batch' \in Seq(Key) /\ keys' \in Seq(Key)
    BY <2>1 DEF ScreenGone
  <2>4. SessionTypeOK' /\ TimerIsOfPrompt'
    BY <1>a, <1>c, <2>1, <2>2, <2>3 DEF ScreenGone, SessionTypeOK, TimerIsOfPrompt, stopVars
  <2>5. StopInOrder' /\ StopIsComplete'
    BY <1>a, <2>1 DEF ScreenGone, StopInOrder, StopIsComplete, stopVars
  <2>6. QED
    BY <2>4, <2>5 DEF SessionInv
<1>6. QED
  BY <1>1, <1>2, <1>3, <1>4, <1>5

\* The main task goes on only when the task it waits for has ended.
LEMMA StopStepsOK ==
  ASSUME SessionInv, SessionStarts \/ MainRuns \/ \E s \in Service : ServiceEnds(s)
  PROVE  SessionInv'
<1>a. SessionTypeOK /\ TimerIsOfPrompt /\ StopInOrder /\ StopIsComplete
  BY DEF SessionInv
<1>1. SessionTypeOK' /\ TimerIsOfPrompt'
  <2>1. UNCHANGED <<presses, keys, batch, ui, armedFor, quit, interrupts>>
    BY DEF SessionStarts, MainRuns, StopsWatcher, StopsLoop, StopsWorkers, ClosesUpstream,
           StopReturns, ServiceEnds, keyVars
  <2>2. /\ services' \in [Service -> {"before", "running", "cancelled", "ended"}]
        /\ lifecycle' \in {"accepting", "paused", "draining", "closed"}
        /\ screen' \in {"before", "drawing", "handling", "ended"} /\ screenDue' \in BOOLEAN
        /\ main' \in {"before", "watching", "watcher", "loop", "workers", "upstream", "done",
                      "killed"}
        /\ upstream' \in {"open", "closing", "closed", "cut"}
        /\ coordinator' \in {"idle", "requested", "complete"}
    BY <1>a DEF SessionStarts, MainRuns, StopsWatcher, StopsLoop, StopsWorkers,
                ClosesUpstream, StopReturns, ServiceEnds, CancelService, SessionTypeOK
  <2>3. QED
    BY <1>a, <2>1, <2>2 DEF SessionTypeOK, TimerIsOfPrompt
<1>2. StopInOrder' /\ StopIsComplete'
  <2>1. CASE SessionStarts
    BY <1>a, <2>1 DEF SessionStarts, StopInOrder, StopIsComplete
  <2>2. CASE StopsWatcher
    BY <1>a, <2>2 DEF StopsWatcher, CancelService, StopInOrder, StopIsComplete
  <2>3. CASE StopsLoop
    BY <1>a, <2>3 DEF StopsLoop, CancelService, StopInOrder, StopIsComplete, SessionTypeOK,
                      Service
  <2>4. CASE StopsWorkers
    BY <1>a, <2>4 DEF StopsWorkers, CancelService, StopInOrder, StopIsComplete,
                      SessionTypeOK, Service
  <2>5. CASE ClosesUpstream
    BY <1>a, <2>5 DEF ClosesUpstream, StopInOrder, StopIsComplete, Service
  <2>6. CASE StopReturns
    BY <1>a, <2>6 DEF StopReturns, StopInOrder, StopIsComplete, Service
  <2>7. CASE \E s \in Service : ServiceEnds(s)
    BY <1>a, <2>7 DEF ServiceEnds, StopInOrder, StopIsComplete, SessionTypeOK, Service
  <2>8. QED
    BY <2>1, <2>2, <2>3, <2>4, <2>5, <2>6, <2>7 DEF MainRuns
<1>3. QED
  BY <1>1, <1>2 DEF SessionInv

\* An interrupt ends the waits of the stop nowhere but in the close of the client.
LEMMA InterruptOK ==
  ASSUME SessionInv, Interrupt
  PROVE  SessionInv'
<1>a. SessionTypeOK /\ TimerIsOfPrompt /\ StopInOrder /\ StopIsComplete
  BY DEF SessionInv
<1>b. interrupts' = interrupts + 1 /\ interrupts' \in 0..3 /\ interrupts' > 0
  BY <1>a, SessionAssumption DEF Interrupt, SessionTypeOK
<1>c. /\ services' \in [Service -> {"before", "running", "cancelled", "ended"}]
      /\ \A s \in Service : services[s] = "ended" => services'[s] = "ended"
  BY <1>a DEF Interrupt, FirstInterrupt, SecondInterrupt, ThirdInterrupt, SessionTypeOK
<1>d. /\ UNCHANGED <<presses, keys, batch, ui, armedFor, quit, lifecycle, screen>>
      /\ main # "before" /\ ~SessionOver
  BY DEF Interrupt, keyVars
<1>1. CASE MainCancelled
  <2>0. screenDue' \in BOOLEAN
    BY <1>1, <1>a, Zenon DEF MainCancelled, SessionTypeOK
  <2>1. SessionTypeOK' /\ TimerIsOfPrompt'
    BY <1>1, <1>a, <1>b, <1>c, <1>d, <2>0 DEF MainCancelled, SessionTypeOK, TimerIsOfPrompt
  <2>2. StopInOrder' /\ StopIsComplete'
    BY <1>1, <1>a, <1>b, <1>c, <1>d DEF MainCancelled, StopInOrder, StopIsComplete, Service
  <2>3. QED
    BY <2>1, <2>2 DEF SessionInv
<1>2. CASE ThirdInterrupt
  <2>1. SessionTypeOK' /\ TimerIsOfPrompt'
    BY <1>2, <1>a, <1>b, <1>d DEF ThirdInterrupt, SessionTypeOK, TimerIsOfPrompt
  <2>2. StopInOrder' /\ StopIsComplete'
    BY <1>2, <1>a, <1>b, <1>d DEF ThirdInterrupt, StopInOrder, StopIsComplete
  <2>3. QED
    BY <2>1, <2>2 DEF SessionInv
<1>3. QED
  BY <1>1, <1>2 DEF Interrupt, FirstInterrupt, SecondInterrupt

\* The invariant is inductive.
LEMMA SessionNextOK == SessionInv /\ [SessionNext]_sessionVars => SessionInv'
<1> SUFFICES ASSUME SessionInv, [SessionNext]_sessionVars PROVE SessionInv'
  OBVIOUS
<1>1. CASE HandlesKey
  BY <1>1, HandlesKeyOK
<1>2. CASE \/ \E k \in Key : Press(k)
           \/ TimePasses \/ PollsKeys \/ BatchDone \/ ScreenEnds \/ ScreenFails
  BY <1>2, ScreenStepsOK
<1>3. CASE SessionStarts \/ MainRuns \/ \E s \in Service : ServiceEnds(s)
  BY <1>3, StopStepsOK
<1>4. CASE Interrupt
  BY <1>4, InterruptOK
<1>5. CASE UNCHANGED sessionVars
  BY <1>5 DEF sessionVars, keyVars, stopVars, SessionInv, SessionTypeOK, TimerIsOfPrompt,
              StopInOrder, StopIsComplete
<1>6. QED
  BY <1>1, <1>2, <1>3, <1>4, <1>5 DEF SessionNext, ScreenRuns

-----------------------------------------------------------------------------
(* The theorems                                                            *)

\* The values of a session, its timer and the order of its stop hold throughout, for
\* any timeouts and any number of keys.
THEOREM SessionInvariant == SessionSpec => []SessionInv
BY SessionInitOK, SessionNextOK, PTL DEF SessionSpec

\* Quits, failures of the screen and interrupts at any point leave the stop complete.
THEOREM StopAlwaysComplete == SessionSpec => []StopIsComplete
<1>1. SessionInv => StopIsComplete
  BY DEF SessionInv
<1>2. QED
  BY <1>1, SessionInvariant, PTL

\* No step begins a drain that was not armed within the confirmation timeout.
THEOREM DrainsAlwaysConfirmed == SessionSpec => DrainsAreConfirmed
<1>1. ASSUME SessionInv, [SessionNext]_sessionVars,
             lifecycle' = "draining", lifecycle # "draining"
      PROVE  armedFor \in 0..ConfirmationTimeout
  <2>1. ConfirmsDrain
    BY <1>1 DEF SessionNext, SessionStarts, Press, TimePasses, ScreenFails, ScreenEnds,
                ScreenGone, ScreenRuns, PollsKeys, BatchDone, HandlesKey, CancelsDrain,
                Unanswered, ArmsDrain, Quits, PausesOrResumes, OtherKeys, MainRuns,
                StopsWatcher, StopsLoop, StopsWorkers, ClosesUpstream, StopReturns,
                ServiceEnds, Interrupt, sessionVars
  <2>2. ui.pending /\ ui.age <= ConfirmationTimeout
    BY <1>1, <2>1, TimersKeepPending DEF ConfirmsDrain, SessionInv
  <2>3. QED
    BY <1>1, <2>2, Timeouts DEF SessionInv, TimerIsOfPrompt
<1>2. QED
  BY <1>1, SessionInvariant, PTL DEF SessionSpec, DrainsAreConfirmed

=============================================================================
