------------------------------ MODULE MCGateway ------------------------------
(* Instances of GatewayDocuments for TLC. *)
EXTENDS GatewayDocuments, TLC

CONSTANTS o1, o2, o3, o4, r1, h1, h2

TwoOrgs       == {o1, o2}
ThreeOrgs     == {o1, o2, o3}
FourOrgs      == {o1, o2, o3, o4}
OneReport     == {r1}
TwoHandlers   == {h1, h2}
OneTick       == 0..1

OnePass   == {"pass"}
OneOutage == {"outage"}
All       == {"pass", "outage", "timeout", "crash"}

\* Threads are interchangeable, and nothing tells them apart.
Symmetric == Permutations({h1, h2})
=============================================================================
