---------------------------- MODULE MCEngineStore ----------------------------
(* Small instances of EngineStore.                                         *)
EXTENDS EngineStore, TLC

CONSTANTS a1, a2, r1, r2, r3

TwoAdmins == {a1, a2}
ThreeRequests == {r1, r2, r3}
Anonymous == Permutations(TwoAdmins) \cup Permutations(ThreeRequests)
=============================================================================
