----------------------------- MODULE RemoteHandle -----------------------------
(***************************************************************************)
(* The IDs that a process holds of an atom on another node, and the calls  *)
(* that go through them.  An ID is resolved by a call to the version of    *)
(* the node that is current, names the instance of the atom that was found *)
(* there, and keeps ("pins") a connection.  A message goes over the pinned *)
(* connection as long as that one is open, and to the current version      *)
(* after that; the node looks the atom up and compares the instance.       *)
(*                                                                         *)
(* There is one atom name.  What CosmosRemote picks as the current version *)
(* is any process that is registered, or none.  A process numbers the      *)
(* instances of its atoms from one on, as every process does.  A caller    *)
(* has one ID at a time.                                                   *)
(***************************************************************************)
EXTENDS RemoteNode

CONSTANT
    MaxInst    \* bound: instances of the atom in one process

ASSUME MaxInstAssumption == MaxInst \in Nat \ {0}

VARIABLES
    up,        \* the processes that serve
    live,      \* the instance that lives in a process, 0 if none does
    last,      \* instanceSeq: the instances a process has made
    known,     \* the versions in the table of CosmosRemote
    routed,    \* the version calls are routed to
    gone,      \* the versions whose connection was closed
    step, id, via, \* a caller, its ID, the process a call goes to
    hit        \* what the last message of a caller reached

processes == <<up, live, last>>
versions == <<known, routed, gone>>
ids == <<step, id, via, hit>>
handleVars == <<processes, versions, ids>>

NoID == [proc |-> None, inst |-> 0, pin |-> None]
Nothing == [proc |-> None, inst |-> 0, kill |-> FALSE]

IDs == [proc : Procs \cup {None}, inst : 0 .. MaxInst,
        pin : Procs \cup {None}]

Hits == [proc : Procs \cup {None}, inst : 0 .. MaxInst, kill : BOOLEAN]

HandleInit ==
    /\ up = {} /\ known = {} /\ gone = {} /\ routed = None
    /\ live = [p \in Procs |-> 0] /\ last = [p \in Procs |-> 0]
    /\ step = [c \in Callers |-> "idle"]
    /\ id = [c \in Callers |-> NoID]
    /\ via = [c \in Callers |-> None]
    /\ hit = [c \in Callers |-> Nothing]

-----------------------------------------------------------------------------
(* The node, and what CosmosRemote makes of it.                             *)

\* A process starts and is registered.
Start(p) ==
    /\ p \notin up \cup known \cup gone
    /\ up' = up \cup {p}
    /\ known' = known \cup {p}
    /\ UNCHANGED <<live, last, routed, gone, ids>>

\* Another version becomes current, or none is.
Switch ==
    /\ routed' \in known \cup {None}
    /\ UNCHANGED <<processes, known, gone, ids>>

\* A version is deleted: its connection is closed (setDisable).  Its process
\* may still serve.
Deleted(p) ==
    /\ p \in known
    /\ known' = known \ {p}
    /\ gone' = gone \cup {p}
    /\ routed' \in (IF routed = p THEN known' \cup {None} ELSE {routed})
    /\ UNCHANGED <<processes, ids>>

\* A process ends, or is lost.
End(p) ==
    /\ p \in up
    /\ up' = up \ {p}
    /\ live' = [live EXCEPT ![p] = 0]
    /\ UNCHANGED <<last, versions, ids>>

\* The atom halts.
Halt(p) ==
    /\ live[p] # 0
    /\ live' = [live EXCEPT ![p] = 0]
    /\ UNCHANGED <<up, last, versions, ids>>

Respawn(p) ==
    /\ last[p] < MaxInst
    /\ last' = [last EXCEPT ![p] = @ + 1]
    /\ live' = [live EXCEPT ![p] = last[p] + 1]

-----------------------------------------------------------------------------
(* The connection that a call takes.                                        *)

Moves(c, at) == step' = [step EXCEPT ![c] = at]

\* getCurrentClient: the connection of the current version, unless it cannot
\* be dialled.
currentClient == IF routed = None THEN {None} ELSE {routed, None}

\* validPinnedConn: the pin, unless its connection was closed.
validPinnedConn(c) == IF id[c].pin \in gone THEN None ELSE id[c].pin

\* Mutant of getCli: the current version is asked for every call.
getCliCurrent(c) == currentClient

getCli(c) ==
    IF validPinnedConn(c) # None THEN {validPinnedConn(c)}
    ELSE currentClient

-----------------------------------------------------------------------------
(* GetAtomID and SpawnAtom of a remote element.                             *)

\* A new ID is asked for, in place of the old one.
GetAtomID(c) ==
    /\ step[c] = "idle"
    /\ routed # None
    /\ via' = [via EXCEPT ![c] = routed]
    /\ id' = [id EXCEPT ![c] = NoID]
    /\ hit' = [hit EXCEPT ![c] = Nothing]
    /\ Moves(c, "resolve")
    /\ UNCHANGED <<processes, versions>>

\* The process finds the atom that lives, or spawns it.
Resolved(c) ==
    /\ step[c] = "resolve"
    /\ LET p == via[c]
       IN \/ /\ p \in up
             /\ \/ live[p] # 0 /\ UNCHANGED <<live, last>>
                \/ live[p] = 0 /\ Respawn(p)
             /\ id' = [id EXCEPT ![c].proc = p, ![c].inst = live'[p]]
             /\ Moves(c, "pin")
          \/ /\ UNCHANGED <<live, last, id>>
             /\ Moves(c, "idle")
    /\ via' = [via EXCEPT ![c] = None]
    /\ UNCHANGED <<up, versions, hit>>

\* The connection is asked for once more, and pinned.
Pin(c) ==
    /\ step[c] = "pin"
    /\ \E conn \in currentClient: id' = [id EXCEPT ![c].pin = conn]
    /\ Moves(c, "idle")
    /\ UNCHANGED <<processes, versions, via, hit>>

-----------------------------------------------------------------------------
(* SyncMessagingByName, AsyncMessagingByName and KillAtom through an ID.    *)

\* A closed pin is cleared, and the call goes to the current version.
Call(c) ==
    /\ step[c] = "idle"
    /\ id[c].inst # 0
    /\ id' = [id EXCEPT ![c].pin = validPinnedConn(c)]
    /\ hit' = [hit EXCEPT ![c] = Nothing]
    /\ \E conn \in getCli(c), request \in {"message", "kill"}:
        /\ via' = [via EXCEPT ![c] = conn]
        /\ Moves(c, IF conn = None THEN "idle" ELSE request)
    /\ UNCHANGED <<processes, versions>>

\* Mutant of getAtomFromRemote: whatever lives there is taken, and if nothing
\* does, it is spawned again, as for a local caller.
getAtomByName(p, inst) ==
    /\ p \in up
    /\ \/ live[p] # 0 /\ UNCHANGED <<live, last>>
       \/ live[p] = 0 /\ Respawn(p)

\* getAtomFromRemote: the atom must live, as the instance of the ID.
getAtomFromRemote(p, inst) ==
    /\ p \in up
    /\ live[p] = inst
    /\ UNCHANGED <<live, last>>

\* A message is handled, or refused, or the call fails.
Message(c) ==
    /\ step[c] = "message"
    /\ \/ /\ getAtomFromRemote(via[c], id[c].inst)
          /\ hit' = [hit EXCEPT ![c] =
                [proc |-> via[c], inst |-> live'[via[c]], kill |-> FALSE]]
       \/ UNCHANGED <<live, last, hit>>
    /\ via' = [via EXCEPT ![c] = None]
    /\ Moves(c, "idle")
    /\ UNCHANGED <<up, versions, id>>

\* A kill finds the atom by its name alone, as a caller of the process does: if
\* none lives it is spawned again (an element with AutoData), and killed.
KillAtom(c) ==
    /\ step[c] = "kill"
    /\ LET p == via[c]
       IN \/ /\ p \in up
             /\ \/ live[p] # 0 /\ UNCHANGED last
                \/ /\ live[p] = 0 /\ last[p] < MaxInst
                   /\ last' = [last EXCEPT ![p] = @ + 1]
             /\ live' = [live EXCEPT ![p] = 0]
             /\ hit' = [hit EXCEPT ![c] =
                   [proc |-> p, inst |-> last'[p], kill |-> TRUE]]
          \/ UNCHANGED <<live, last, hit>>
    /\ via' = [via EXCEPT ![c] = None]
    /\ Moves(c, "idle")
    /\ UNCHANGED <<up, versions, id>>

-----------------------------------------------------------------------------

HandleNext ==
    \/ Switch
    \/ \E p \in Procs: Start(p) \/ Deleted(p) \/ End(p) \/ Halt(p)
    \/ \E c \in Callers: GetAtomID(c) \/ Resolved(c) \/ Pin(c)
    \/ \E c \in Callers: Call(c) \/ Message(c) \/ KillAtom(c)

HandleSpec == HandleInit /\ [][HandleNext]_handleVars

-----------------------------------------------------------------------------
(* What is checked.                                                         *)

\* Every variable has a value of its type, and an instance lives only in a
\* process that serves and was the last one made there.
HandleTypeOK ==
    /\ up \in SUBSET Procs /\ known \in SUBSET Procs /\ gone \in SUBSET Procs
    /\ live \in [Procs -> 0 .. MaxInst] /\ last \in [Procs -> 0 .. MaxInst]
    /\ step \in [Callers -> {"idle", "resolve", "pin", "message", "kill"}]
    /\ id \in [Callers -> IDs]
    /\ via \in [Callers -> Procs \cup {None}]
    /\ hit \in [Callers -> Hits]
    /\ routed \in known \cup {None} /\ known \cap gone = {}
    /\ \A p \in Procs: live[p] # 0 => p \in up /\ live[p] = last[p]

\* A message that is handled by the process where its ID was resolved is
\* handled by the instance that was found there, never by a later one of the
\* same name.
SameInstance ==
    \A c \in Callers:
        (~hit[c].kill /\ hit[c].proc = id[c].proc) =>
            hit[c].inst = (IF hit[c].proc = None THEN 0 ELSE id[c].inst)

\* What goes through an ID that has pinned a connection to the process of its
\* atom reaches that process, whatever becomes current meanwhile.
KeepsToItsProcess ==
    \A c \in Callers:
        (hit[c] # Nothing /\ id[c].pin = id[c].proc) =>
            hit[c].proc = id[c].proc

\* Stated by the comments and tests on the instance of an ID: a caller whose
\* instance is not the one that lives must resolve it again.
HitsItsInstance ==
    \A c \in Callers:
        hit[c] # Nothing =>
            hit[c].proc = id[c].proc /\ hit[c].inst = id[c].inst

=============================================================================
