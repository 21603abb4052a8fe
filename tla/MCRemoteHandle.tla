---------------------------- MODULE MCRemoteHandle ----------------------------
(* Two processes of the node, two callers, two instances in each process.   *)
EXTENDS RemoteHandle, TLC

CONSTANTS p1, p2, c1, c2

MCProcs == {p1, p2}
MCCallers == {c1, c2}
MCSymmetry == Permutations(MCCallers) \cup Permutations(MCProcs)

==============================================================================
