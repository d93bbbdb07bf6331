--------------------------- MODULE MC_Forwarding ----------------------------
(* Small instances of Forwarding for TLC.                                  *)
EXTENDS Forwarding, TLC

CONSTANTS q1, q2, q3, e1, e2

TwoEndpoints   == {e1, e2}

\* A foreground request that any endpoint serves, one that names e1, and a
\* background request that asks for a stream.
ThreeCalls     == {q1, q2, q3}
TwoPrompts     == {q1, q2}
OneStream      == {q3}
NamesOne       == q1 :> NoEndpoint @@ q2 :> e1 @@ q3 :> NoEndpoint
ServedByBoth   == q1 :> {e1, e2} @@ q2 :> {e1} @@ q3 :> {e1}
OnlyFirst      == {e1}

\* Two streams compete for one endpoint.
TwoStreams     == {q1, q2}
NamesNone      == [q \in TwoStreams |-> NoEndpoint]
ServedByFirst  == [q \in TwoStreams |-> {e1}]

OneSlotEach    == [fg |-> 1, bg |-> 1]
TwoSlots       == [fg |-> 2, bg |-> 1]

=============================================================================
