--------------------------- MODULE MC_CommandLine --------------------------
(* The configurations, requests and sessions of the run "commands". *)
EXTENDS CommandLine, TLC

\* A layer that leaves the setting s alone, or gives it one of these values.
Maybe(s, values) == {<<>>} \cup {s :> v : v \in values}

MCFiles ==
  {[usable |-> FALSE, layer |-> <<>>]}
    \cup {[usable |-> TRUE, layer |-> p @@ y @@ o] :
            p \in Maybe("profile", {"low-memory", Junk}),
            y \in Maybe("ram_yield_percent", {70}),
            o \in Maybe("base_output_tokens", {3000})}

MCEnvironments ==
  {p @@ y @@ r @@ e :
     p \in Maybe("profile", {"foreground-first", Blank}),
     y \in Maybe("ram_yield_percent", {90, Junk}),
     r \in Maybe("ram_recover_percent", {84}),
     e \in Maybe("expose_remote", {TRUE, Junk})}

MCCliLayers ==
  {p @@ h : p \in Maybe("profile", {"thermal-safe"}), h \in Maybe("host", {"remote"})}

MCLimitValues == {-1, 2000, 9000}

=============================================================================
