--------------------------- MODULE MCCosmosProcess ---------------------------
(* A process, a request to kill it and one to drain it, and two failures.    *)
EXTENDS CosmosProcess

CONSTANTS main, kill, drained

MCKillers == {kill}
MCDrains == {drained}

==============================================================================
