------------------------------ MODULE RemoteNode ------------------------------
(***************************************************************************)
(* Who takes part where one process knows of a remote node: the processes  *)
(* that node has in the course of time, and the goroutines here that call  *)
(* it.  CosmosRemote has how the connection to its current version is      *)
(* found, RemoteHandle the IDs of its atoms.                               *)
(***************************************************************************)
EXTENDS Naturals

CONSTANTS
    Procs,     \* the processes of the remote node, in the course of time
    Callers,   \* goroutines of the calling process
    None       \* no process, no connection

ASSUME NoneAssumption == None \notin Procs

===============================================================================
