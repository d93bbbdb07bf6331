---------------------------- MODULE MC_Dispatch -----------------------------
(* Small instances of Dispatch for TLC.                                    *)
EXTENDS Dispatch, TLC

CONSTANTS r1, r2, w1, w2, dStop, p1, p2, b1

TwoRequests    == {r1, r2}
TwoWorkers     == {w1, w2}
OneWorker      == {w1}
StopDrain      == {dStop}
OneRequest     == {r1}
OneBackground  == r1 :> "background"
OneTimeout     == r1 :> 1
AllBackground  == [r \in TwoRequests |-> "background"]
ShortTimeout   == [r \in TwoRequests |-> 1]

\* A prompt and a background request that was admitted without throttling.
TwoImmediates    == {p1, b1}
OnePrompt        == {p1}
TwoWorkerClients == TwoWorkers \cup TwoImmediates

\* Two prompts compete for the foreground slot, beside a background request.
ThreeImmediates  == {p1, p2, b1}
TwoPrompts       == {p1, p2}
OneWorkerClients == OneWorker \cup ThreeImmediates

\* One worker beside a background request, for the stop of a small runtime.
OneImmediate     == {b1}
StopClients      == OneWorker \cup OneImmediate

\* Workers are interchangeable, and so are these requests.
DispatchSymmetry == Permutations(TwoWorkers) \cup Permutations(TwoRequests)

=============================================================================
