------------------------- MODULE MC_EndpointRegistry -------------------------
(* A small instance of EndpointRegistry for TLC.                           *)
EXTENDS EndpointRegistry, TLC

CONSTANTS e1, e2, m1, m2, watcher, reader, r1, r2

BothEndpoints == {e1, e2}
InOrder       == <<e1, e2>>
OneFamily     == [e \in BothEndpoints |-> "ollama"]
OneReader     == {reader}

\* The first request names no endpoint and the second one e1. Its model is one that
\* e1 may come not to serve, or its API family is another one.
TwoRequests   == {r1, r2}
SecondNames   == r1 :> NoEndpoint @@ r2 :> e1
OfOneFamily   == [r \in TwoRequests |-> "ollama"]
OfTwoFamilies == r1 :> "ollama" @@ r2 :> "openai"
ForSecond     == [r \in TwoRequests |-> m2]
ForAny        == [r \in TwoRequests |-> NoModel]

\* Two models with unrelated names. The first endpoint lists one, the
\* other none; the request asks for the other model.
TwoModels     == {m1, m2}
OnlyEqual     == [m \in TwoModels |-> {m}]
FirstLists    == e1 :> {m1} @@ e2 :> {}
NothingListed == [e \in BothEndpoints |-> {}]

=============================================================================
