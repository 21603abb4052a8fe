---------------------------- MODULE MCCosmosRemote ----------------------------
(* Processes of a node that start in two seconds, and two callers.          *)
EXTENDS CosmosRemote, TLC

CONSTANTS p1, p2, c1, c2

MCProcs == {p1, p2}
MCCallers == {c1, c2}
MCVersions == {1, 2}
MCSymmetry == Permutations(MCCallers) \cup Permutations(MCProcs)

==============================================================================
