--------------------------- MODULE Configuration ---------------------------
(***************************************************************************)
(* The effective configuration (computecop/config.py): defaults, the       *)
(* overlay of the selected profile, the TOML file, the environment and the *)
(* command line, merged in that order with a source for each setting.      *)
(*                                                                         *)
(* A layer is a partial function on settings: the nested tables are        *)
(* flattened to their leaf paths. Of the settings, those are kept that a   *)
(* profile sets or that the commands use; interval_seconds counts tenths.  *)
(* Nothing here has state.                                                 *)
(***************************************************************************)
EXTENDS Integers

CONSTANTS
  Blank,    \* what a variable of the environment holds when it is blank
  Junk      \* what no setting accepts: garbage for a number, an unknown name

ProfileNames ==
  {"balanced", "foreground-first", "background-throughput", "battery-saver",
   "thermal-safe", "low-memory"}

\* The values that RuntimeConfig accepts, setting by setting.
Allowed ==
  [profile |-> ProfileNames, host |-> {"loopback", "remote"}, expose_remote |-> BOOLEAN,
   interval_seconds |-> 2..300,
   ram_yield_percent |-> 50..99, ram_recover_percent |-> 30..98,
   cpu_pressure_percent |-> 10..100,
   thermal_warm_celsius |-> 30..110, thermal_hot_celsius |-> 40..115,
   thermal_critical_celsius |-> 50..125,
   base_context_tokens |-> 512..262144, base_output_tokens |-> 32..32768,
   max_background_concurrency |-> 1..32, max_foreground_concurrency |-> 1..64]

Settings == DOMAIN Allowed

\* What the environment and the command line can set; the file sets anything.
EnvSettings ==
  {"profile", "host", "expose_remote", "interval_seconds", "ram_yield_percent",
   "ram_recover_percent", "cpu_pressure_percent"}
CliSettings == {"profile", "host"}

EnvNumbers == EnvSettings \ {"profile", "host", "expose_remote"}

Defaults ==
  [profile |-> "balanced", host |-> "loopback", expose_remote |-> FALSE,
   interval_seconds |-> 10, ram_yield_percent |-> 85, ram_recover_percent |-> 78,
   cpu_pressure_percent |-> 88, thermal_warm_celsius |-> 75, thermal_hot_celsius |-> 88,
   thermal_critical_celsius |-> 95, base_context_tokens |-> 8192,
   base_output_tokens |-> 2048, max_background_concurrency |-> 2,
   max_foreground_concurrency |-> 4]

\* PROFILES
Overlay(name) ==
  CASE name = "balanced" -> <<>>
    [] name = "foreground-first" ->
         [ram_yield_percent |-> 80, ram_recover_percent |-> 72,
          max_background_concurrency |-> 1, max_foreground_concurrency |-> 4]
    [] name = "background-throughput" ->
         [ram_yield_percent |-> 90, ram_recover_percent |-> 82,
          max_background_concurrency |-> 4]
    [] name = "battery-saver" ->
         [interval_seconds |-> 30, cpu_pressure_percent |-> 60,
          max_background_concurrency |-> 1]
    [] name = "thermal-safe" ->
         [thermal_warm_celsius |-> 65, thermal_hot_celsius |-> 75,
          thermal_critical_celsius |-> 80, max_background_concurrency |-> 1]
    [] name = "low-memory" ->
         [ram_yield_percent |-> 75, ram_recover_percent |-> 68,
          max_background_concurrency |-> 1, base_context_tokens |-> 4096,
          base_output_tokens |-> 1024]

-----------------------------------------------------------------------------
(* The layers that the operator gives                                      *)

\* A blank variable counts as unset, and a flag is off unless it says it is on.
EnvLayer(env) ==
  [s \in {v \in DOMAIN env : env[v] # Blank} |->
     IF s = "expose_remote" /\ env[s] = Junk THEN FALSE ELSE env[s]]

\* A file that is named but missing, or is no TOML, is unusable. Garbage for a number
\* of the environment is refused before the merge.
Readable(given) ==
  /\ given.file.usable
  /\ \A s \in DOMAIN given.env \cap EnvNumbers : given.env[s] # Junk

-----------------------------------------------------------------------------
(* load_effective_config                                                   *)

\* _deep_merge
DeepMerge(base, overlay) ==
  [s \in DOMAIN base \cup DOMAIN overlay |->
     IF s \in DOMAIN overlay THEN overlay[s] ELSE base[s]]

\* The three layers of the operator over base, the strongest last.
OverlaidBy(base, given) ==
  DeepMerge(DeepMerge(DeepMerge(base, given.file.layer), EnvLayer(given.env)), given.cli)

\* Mutant of SelectedProfile: the file's profile is looked at last, so it wins.
FileProfileWins(given) ==
  DeepMerge(OverlaidBy([profile |-> "balanced"], given), given.file.layer).profile

\* The name whose overlay is applied, found before anything is merged.
SelectedProfile(given) == OverlaidBy([profile |-> "balanced"], given).profile

\* The merged data, whose profile is first the selected one.
Merged(given) ==
  OverlaidBy(DeepMerge([Defaults EXCEPT !.profile = SelectedProfile(given)],
                       Overlay(SelectedProfile(given))), given)

AllFrom(layer, source) == [s \in DOMAIN layer |-> source]

\* Where each setting comes from. A profile's overlay counts as a default.
SourceOf(given) ==
  DeepMerge(DeepMerge(DeepMerge(AllFrom(Defaults, "default"),
                                AllFrom(given.file.layer, "toml")),
                      AllFrom(EnvLayer(given.env), "environment")),
            AllFrom(given.cli, "cli"))

\* RuntimeConfig.model_validate: the ranges, and the one rule about two settings.
\* The order of the thermal thresholds is not looked at.
Valid(data) ==
  /\ \A s \in Settings : data[s] \in Allowed[s]
  /\ data.ram_recover_percent < data.ram_yield_percent

\* A ConfigError of any of these steps ends the command.
Loads(given) ==
  /\ Readable(given)
  /\ SelectedProfile(given) \in ProfileNames
  /\ Valid(Merged(given))

Loaded(given) == [values |-> Merged(given), sources |-> SourceOf(given)]

=============================================================================
