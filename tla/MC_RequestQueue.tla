-------------------------- MODULE MC_RequestQueue ---------------------------
(* Small instances of RequestQueue for TLC.                                *)
EXTENDS RequestQueue, TLC

CONSTANTS r1, r2, r3, w1, w2, d1

\* Two background items, the first of which can age to rank zero before it
\* expires, and an interactive item that may overtake them.
MixedRequests   == {r1, r2, r3}
MixedPriority   == r1 :> "background" @@ r2 :> "background" @@ r3 :> "interactive"
MixedTimeout    == r1 :> 3 @@ r2 :> 2 @@ r3 :> 1

\* A foreground and a bulk item, for the runs about progress.
PairRequests    == {r1, r2}
PairPriority    == r1 :> "foreground" @@ r2 :> "bulk"
PairTimeout     == r1 :> 1 @@ r2 :> 2

OneWorker       == {w1}
TwoWorkers      == {w1, w2}
OneDrainer      == {d1}

\* Worker tasks are interchangeable.
WorkerSymmetry  == Permutations(TwoWorkers)

=============================================================================
