--------------------------- MODULE MCAtomRegistry ---------------------------
(* Two goroutines, one spawns and one gets; two instances of the name.      *)
EXTENDS AtomRegistry, TLC

CONSTANTS c1, c2

MCCaller == {c1, c2}
MCSpawner == {c1}
MCGetter == {c2}
=============================================================================
