---------------------------- MODULE MCWaitGraph ----------------------------
(* Three actors that call each other, one of which may be still to start. *)
EXTENDS WaitGraph

CONSTANTS a1, a2, a3

MCActors == {a1, a2, a3}
NoClient == {}
MCSpawning == {a2}
=============================================================================
