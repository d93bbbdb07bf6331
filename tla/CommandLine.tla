---------------------------- MODULE CommandLine ----------------------------
(***************************************************************************)
(* What one process does from its command line to its exit                 *)
(* (computecop/cli.py): it loads the configuration, and then prints it, or *)
(* serves requests whose bodies are cut to the budgets it configures, or   *)
(* runs a session of the dashboard. What the proxy does with a request     *)
(* besides is the subject of the other modules.                            *)
(***************************************************************************)
EXTENDS Configuration, RequestShaping, DashboardSession, Functions

CONSTANTS
  Files, Environments, CliLayers,   \* what the operator may give to a command
  LimitValues,                      \* the numbers that clients put into limit fields
  JuiceLevels, MemoryScales         \* juice, and the memory scale of the host in percent

ASSUME CommandLineAssumption ==
  /\ \A file \in Files : DOMAIN file.layer \subseteq Settings
  /\ \A env \in Environments : DOMAIN env \subseteq EnvSettings
  /\ \A cli \in CliLayers : DOMAIN cli \subseteq CliSettings
  /\ LimitValues \subseteq Int /\ NotANumber \notin Int
  /\ JuiceLevels \subseteq 1..100 /\ MemoryScales \subseteq 1..100

VARIABLES
  command,   \* the command of the process
  phase,     \* shell, loaded, serving, session or over
  given,     \* the layers it is given, until they are loaded and used
  config,    \* the configuration in effect: values and sources
  served     \* the request that is shaped, if any

commandVars == <<command, phase, given, config, served>>
processVars == <<commandVars, sessionVars>>

Command == {"run", "dashboard", "config explain"}

Nothing == [none |-> TRUE]

\* Only "run" passes settings of its command line on.
Layers(cmd) ==
  [file : Files, env : Environments, cli : IF cmd = "run" THEN CliLayers ELSE {<<>>}]

CommandInit ==
  /\ SessionInit
  /\ command \in Command /\ given \in Layers(command)
  /\ phase = "shell" /\ config = Nothing /\ served = Nothing

-----------------------------------------------------------------------------
(* Loading the configuration                                               *)

\* _load_or_exit and _load_effective_or_exit: a ConfigError becomes a usage error.
Loading ==
  /\ phase = "shell"
  /\ Loads(given)
  /\ phase' = "loaded" /\ config' = Loaded(given)
  /\ UNCHANGED <<command, given, served, sessionVars>>

Exits ==
  /\ phase' = "over" /\ given' = Nothing /\ config' = Nothing /\ served' = Nothing
  /\ UNCHANGED <<command, sessionVars>>

LoadingFails == phase = "shell" /\ ~Loads(given) /\ Exits

\* config explain prints the values with their sources.
Explains == phase = "loaded" /\ command = "config explain" /\ Exits

BindsRemotely == config.values.host # "loopback"

\* run refuses to listen beyond the loopback unless it is told to.
RefusesToBind ==
  /\ phase = "loaded" /\ command = "run"
  /\ BindsRemotely /\ ~config.values.expose_remote
  /\ Exits

\* Of the configuration, the model keeps what the process goes on to use.
Keeps(settings) ==
  /\ config' = [values |-> Restrict(config.values, settings)]
  /\ given' = Nothing

ServingBegins ==
  /\ phase = "loaded" /\ command = "run"
  /\ BindsRemotely => config.values.expose_remote
  /\ phase' = "serving"
  /\ Keeps({"base_context_tokens", "base_output_tokens"})
  /\ UNCHANGED <<command, served, sessionVars>>

SessionBegins ==
  /\ phase = "loaded" /\ command = "dashboard"
  /\ phase' = "session"
  /\ Keeps({})
  /\ SessionStarts
  /\ UNCHANGED <<command, served>>

-----------------------------------------------------------------------------
(* Serving and watching                                                    *)

Bodies(family) ==
  UNION {[fields -> LimitValues \cup {NotANumber}] :
           fields \in SUBSET (OutputFields(family) \cup ContextFields(family))}

\* A request is admitted with a budget, and its body is cut to it before it is sent.
\* (A body that is no JSON object has no limits and passes as it is.)
Shapes(family, body, own, foreground, juice, scale) ==
  LET b == Budget(foreground, juice, scale, config.values.base_context_tokens,
                  config.values.base_output_tokens)
  IN  /\ phase = "serving" /\ served = Nothing
      /\ served' = [family |-> family, asked |-> body, budget |-> b,
                    sent |-> Shaped(family, body, b), hint |-> EngineHint(family, own, b)]
      /\ UNCHANGED <<command, phase, given, config, sessionVars>>

ShapesRequest ==
  \E family \in Families, own \in {"none", Hint}, foreground \in BOOLEAN,
     juice \in JuiceLevels, scale \in MemoryScales :
    \E body \in Bodies(family) : Shapes(family, body, own, foreground, juice, scale)

\* The shaped body is on its way.
SendsRequest ==
  /\ phase = "serving" /\ served # Nothing
  /\ served' = Nothing
  /\ UNCHANGED <<command, phase, given, config, sessionVars>>

\* The session of a dashboard; then asyncio.run returns and so does the command.
InSession == phase = "session" /\ SessionNext /\ UNCHANGED commandVars

SessionReturns == phase = "session" /\ SessionOver /\ Exits

CommandNext ==
  \/ Loading \/ LoadingFails \/ Explains \/ RefusesToBind
  \/ ServingBegins \/ SessionBegins
  \/ ShapesRequest \/ SendsRequest
  \/ InSession \/ SessionReturns

CommandSpec == CommandInit /\ [][CommandNext]_processVars /\ SessionFairness

-----------------------------------------------------------------------------
(* Properties                                                              *)

\* What a source says of a setting. A default is that of the profile in effect.
SaidBy(source, s) ==
  CASE source = "cli"         -> given.cli[s]
    [] source = "environment" -> EnvLayer(given.env)[s]
    [] source = "toml"        -> given.file.layer[s]
    [] source = "default"     -> DeepMerge(Defaults, Overlay(config.values.profile))[s]

\* config explain tells the truth: the value in effect of every setting is the one
\* that the source it is reported with gives, and the defaults are those of the
\* profile that is reported, although the profile is looked up in the layers before
\* they are merged and its overlay is merged before the file.
SourcesAreTrue ==
  phase = "loaded" =>
    \A s \in Settings : config.values[s] = SaidBy(config.sources[s], s)

CapOf(family, f, b) == IF f \in ContextFields(family) THEN b.context ELSE b.output

\* An engine of the family that is sent these limits keeps to the budget b.
Within(family, limits, b) ==
  /\ \A f \in Obeyed(family, limits) :
       limits[f] # NotANumber /\ limits[f] <= CapOf(family, f, b)
  /\ Obeyed(family, limits) \cap OutputFields(family) # {}
  /\ ContextFields(family) \subseteq Obeyed(family, limits)

\* Whatever limits a body names, in whatever fields and combination, the engine
\* obeys none above the budget and at least one for the output, and one for the
\* context where its API has one. Only a limit below zero, which stands for no limit,
\* passes.
WithinBudget ==
  served # Nothing => Within(served.family, served.sent.limits, served.budget)

=============================================================================
