---------------------------- MODULE MCRouteIndex ----------------------------
(* Small instances of RouteIndex.                                          *)
EXTENDS RouteIndex, TLC

CONSTANTS b1, b2, b3, r1, a1

ThreeBuilds == {b1, b2, b3}
OneRequest == {r1}
OneAdmin == {a1}
Anonymous == Permutations(Builds)

\* Who holds the model at first: every engine, or none until it is moved to
\* another server.
FirstServers == {<<e, 0>> : e \in Engines}
SecondServers == {<<e, 1>> : e \in Engines}
=============================================================================
