---------------------------- MODULE MCVersionLock ----------------------------
(* Three processes of one node; their versions are the seconds they start in. *)
EXTENDS VersionLock, TLC

CONSTANTS old, new, third

MCProcs == {old, new, third}

\* Every process starts in a second of its own.
MCVersion == old :> 1 @@ new :> 2 @@ third :> 3
=============================================================================
