--------------------------- MODULE RequestShaping --------------------------
(***************************************************************************)
(* How the body of a request is cut to its budget (computecop/app.py,      *)
(* _shape_body; the budget is that of policy.py, budget_for). A body is a  *)
(* partial function on the fields that limit what the engine computes;     *)
(* Ollama's stand in its options. Nothing here has state.                  *)
(***************************************************************************)
EXTENDS Integers, FiniteSetsExt

CONSTANTS
  NotANumber,       \* a field whose value int() refuses
  Hint              \* the client's own keep_alive or cache_prompt

Families == {"openai", "ollama", "llama_cpp"}

OutputFields(family) ==
  CASE family = "openai"    -> {"max_tokens", "max_completion_tokens"}
    [] family = "ollama"    -> {"num_predict"}
    [] family = "llama_cpp" -> {"n_predict", "max_tokens"}

ContextFields(family) ==
  CASE family = "openai"    -> {}
    [] family = "ollama"    -> {"num_ctx"}
    [] family = "llama_cpp" -> {"n_ctx"}

-----------------------------------------------------------------------------
(* The budget                                                              *)

AtLeastOf(floor, n) == Max({floor, n})

\* budget_for() and clamped(): the memory scale is in percent; background work
\* gets the share that juice and memory leave, but at least a twentieth.
Budget(foreground, juice, scale, contextTokens, outputTokens) ==
  LET share == IF foreground THEN scale * 100 ELSE AtLeastOf(500, juice * scale)
  IN  [juice   |-> juice,
       context |-> AtLeastOf(512, (contextTokens * share) \div 10000),
       output  |-> AtLeastOf(32, (outputTokens * share) \div 10000)]

-----------------------------------------------------------------------------
(* The limits                                                              *)

Named(body, f) == f \in DOMAIN body
Number(body, f) == Named(body, f) /\ body[f] # NotANumber

\* A named limit is cut to the budget; garbage is replaced by the budget.
Cut(body, f, cap) ==
  IF Number(body, f) THEN Min({body[f], cap}) ELSE cap

\* Whether the client asked for more than the budget.
Exceeds(body, f, cap) == Number(body, f) /\ body[f] > cap

\* shaped[f] = n
Put(body, f, n) == [g \in DOMAIN body \cup {f} |-> IF g = f THEN n ELSE body[g]]

\* Mutant of ShapedOpenAI: the loop stops at the first of the two keys.
ShapedOpenAIFirstKey(body, b) ==
  LET key == IF Named(body, "max_completion_tokens") /\ ~Named(body, "max_tokens")
               THEN "max_completion_tokens" ELSE "max_tokens"
  IN  [limits |-> Put(body, key, Cut(body, key, b.output)),
       flag |-> Exceeds(body, key, b.output)]

\* The second key of _shape_openai_body: the number of the first is still there when
\* garbage stands in the second.
ShapedSecondKey(body, b) ==
  IF Number(body, "max_completion_tokens") \/ ~Number(body, "max_tokens")
    THEN Cut(body, "max_completion_tokens", b.output)
    ELSE Cut(body, "max_tokens", b.output)

\* _shape_openai_body. The flag speaks of the last number only.
ShapedOpenAI(body, b) ==
  LET first == IF Named(body, "max_tokens") \/ ~Named(body, "max_completion_tokens")
                 THEN Put(body, "max_tokens", Cut(body, "max_tokens", b.output)) ELSE body
      last  == IF Number(body, "max_completion_tokens") THEN "max_completion_tokens"
               ELSE "max_tokens"
  IN  [limits |-> IF Named(body, "max_completion_tokens")
                    THEN Put(first, "max_completion_tokens", ShapedSecondKey(body, b))
                    ELSE first,
       flag |-> Exceeds(body, last, b.output)]

\* _shape_ollama_body
ShapedOllama(body, b) ==
  [limits |-> Put(Put(body, "num_ctx", Cut(body, "num_ctx", b.context)),
                  "num_predict", Cut(body, "num_predict", b.output)),
   flag |-> Exceeds(body, "num_ctx", b.context) \/ Exceeds(body, "num_predict", b.output)]

\* _shape_llama_cpp_body: of the two names of the output limit one is looked at.
ShapedLlamaCpp(body, b) ==
  LET output == IF ~Named(body, "n_predict") /\ Named(body, "max_tokens")
                  THEN "max_tokens" ELSE "n_predict"
  IN  [limits |-> Put(Put(body, output, Cut(body, output, b.output)),
                      "n_ctx", Cut(body, "n_ctx", b.context)),
       flag |-> Exceeds(body, "n_ctx", b.context) \/ Exceeds(body, output, b.output)]

Shaped(family, body, b) ==
  CASE family = "openai"    -> ShapedOpenAI(body, b)
    [] family = "ollama"    -> ShapedOllama(body, b)
    [] family = "llama_cpp" -> ShapedLlamaCpp(body, b)

\* How long Ollama keeps the model, and whether llama.cpp caches the prompt.
EngineHint(family, own, b) ==
  IF own = Hint THEN Hint
  ELSE CASE family = "openai"    -> "none"
         [] family = "ollama"    -> IF b.juice >= 50 THEN "5m" ELSE "30s"
         [] family = "llama_cpp" -> IF b.juice >= 35 THEN "cached" ELSE "not cached"

-----------------------------------------------------------------------------
(* What the engines make of it (not in this repository)                    *)

\* llama.cpp reads max_tokens only where n_predict is missing; the others obey
\* every field of theirs.
Obeyed(family, limits) ==
  IF family = "llama_cpp" /\ "n_predict" \in DOMAIN limits
    THEN DOMAIN limits \ {"max_tokens"} ELSE DOMAIN limits

=============================================================================
