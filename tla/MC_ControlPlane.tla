--------------------------- MODULE MC_ControlPlane ---------------------------
(***************************************************************************)
(* Instances of ControlPlane: a host whose thresholds are 85 and 78        *)
(* percent, the defaults of the configuration.                             *)
(***************************************************************************)
EXTENDS ControlPlane

CONSTANTS chat, embed, loopTask

MCMaxSlots == [fg |-> 4, bg |-> 2, endpointFg |-> 2, endpointBg |-> 1]
\* A request that gives no hint, one that looks like a chat and names a class that
\* does not exist, and one whose class contradicts all its other hints.
Nothing ==
  [headerClass |-> "nothing", headerPriority |-> "nothing", metaClass |-> "nothing",
   metaPriority |-> "nothing", rootClass |-> "nothing", rootPriority |-> "nothing",
   flagged |-> FALSE, robot |-> FALSE, interactive |-> FALSE, background |-> FALSE,
   chat |-> FALSE]
Talking       == [Nothing EXCEPT !.metaClass = "other", !.rootClass = "background", !.chat = TRUE]
Contradicting == [Nothing EXCEPT !.headerPriority = "prompt", !.flagged = TRUE, !.robot = TRUE]

\* A prompt and a background request; or the background request alone.
TwoRequests == {chat, embed}
TwoTasks == TwoRequests \cup {loopTask}
TwoHints == (chat :> {Contradicting}) @@ (embed :> {Nothing, Talking})
TwoSizes == [r \in TwoRequests |-> 1000]
TwoIds == (chat :> "c") @@ (embed :> "e")

OneRequest == {embed}
OneTask == OneRequest \cup {loopTask}
OneHint == [r \in OneRequest |-> {Nothing}]
OneSize == [r \in OneRequest |-> 1000]
OneId == [r \in OneRequest |-> "e"]

\* A calm host, and one whose RAM is nearly used up, which swaps and is hot; their
\* mean, 79 percent of the RAM, lies between the two thresholds.
Sample(ram, swap, thermal) ==
  [ram |-> ram, cpu |-> 20, swap |-> swap, thermal |-> thermal, heavy |-> FALSE]
MCRawSamples == {Sample(60, 0, "cool"), Sample(98, 62, "hot")}
=============================================================================
