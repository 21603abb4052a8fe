----------------------------- MODULE CosmosRemote -----------------------------
(***************************************************************************)
(* What one process knows of a remote node and how it gets a connection to *)
(* it.  The node's processes register in etcd, each under its version, and *)
(* the lock key of the node names the current version.  The watcher of the *)
(* process applies the changes one after the other to its CosmosRemote,    *)
(* which picks the version that calls are routed to; the callers dial that *)
(* version when the first of them needs it, outside the lock.              *)
(*                                                                         *)
(* A process of the node registers once, so its cosmosRemoteVersion is     *)
(* known by it; its version is the second it started in.  Elements and     *)
(* death watchers are left out.                                            *)
(***************************************************************************)
EXTENDS RemoteNode, Sequences, FiniteSets

CONSTANTS
    Versions,   \* the seconds in which they start
    MaxQueue    \* bound: how many events the watcher is behind

ASSUME VersionsAssumption == Versions \subseteq Nat \ {0}

VARIABLES
    version,  \* the version of a process, 0 before it starts
    key,      \* etcd: the process whose registration a version key holds
    shown,    \* etcd: the state that the registration of a process shows
    locked,   \* etcd: Current of the lock key, None without the key
    stage,    \* how far a process is: new, registered, runs, stops, down
    events,   \* the changes that the watcher has not yet applied
    phase,    \* of watchCluster: before its get, before a watch, watching
    missed,   \* a change was made after the get while no watch was there
    lock,     \* lock.Current as the watcher knows it, None if nil
    enable,
    current,
    table,    \* the map version
    info,     \* the state in the info of a version object in table
    dialed,
    client,   \* the connection of a version object, 0 if nil
    dials,    \* dials of a version object so far
    open,     \* connections that are not closed
    late,     \* version objects dialled after they were removed
    pc, obj, conn \* a caller, the version it took, the connection it dials

node == <<version, shown, key, locked, stage>>
watch == <<events, phase, missed>>
route == <<lock, enable, current, table, info>>
links == <<dialed, client, dials, open, late>>
callers == <<pc, obj, conn>>
vars == <<node, watch, route, links, callers>>

Init ==
    /\ version = [p \in Procs |-> 0]
    /\ shown = [p \in Procs |-> "none"]
    /\ key = [v \in Versions |-> None]
    /\ locked = None
    /\ stage = [p \in Procs |-> "new"]
    /\ events = <<>> /\ phase = "get" /\ missed = FALSE
    /\ lock = None /\ enable = FALSE /\ current = None
    /\ table = [v \in Versions |-> None]
    /\ info = [p \in Procs |-> "none"]
    /\ dialed = [p \in Procs |-> FALSE]
    /\ client = [p \in Procs |-> 0]
    /\ dials = [p \in Procs |-> 0]
    /\ open = {} /\ late = {}
    /\ pc = [c \in Callers |-> "idle"]
    /\ obj = [c \in Callers |-> None]
    /\ conn = [c \in Callers |-> 0]

-----------------------------------------------------------------------------
(* The node: what its processes write, and what becomes of it in etcd.      *)

\* A change is an event for a watch, and lost when there is none, between the
\* get and the watch or two watches: each begins with the next change.
Changed(e) ==
    /\ Len(events) < MaxQueue
    /\ events' = IF phase = "watch" THEN Append(events, e) ELSE events
    /\ missed' = (missed \/ phase = "got")

PutVersion(p, s) ==
    /\ key[version[p]] = p
    /\ shown' = [shown EXCEPT ![p] = s]
    /\ Changed([kind |-> "version", of |-> p, state |-> s])
    /\ UNCHANGED key

PutLock(v) ==
    /\ locked' = v
    /\ Changed([kind |-> "lock", of |-> v])

NodeUnchanged == UNCHANGED <<phase, route, links, callers>>

\* The lock key is written before the first process registers.
FirstLock ==
    /\ locked = None
    /\ PutLock(0)
    /\ UNCHANGED <<version, shown, key, stage>>
    /\ NodeUnchanged

At(p, from, to) == stage[p] = from /\ stage' = [stage EXCEPT ![p] = to]

\* A process registers under the second of its start.  One that started in
\* the same second has crashed; its key may still be there.
Register(p) ==
    /\ locked # None
    /\ At(p, "new", "registered")
    /\ \E v \in Versions:
        /\ \A q \in Procs:
              /\ version[q] <= v
              /\ version[q] = v => stage[q] = "down"
        /\ version' = [version EXCEPT ![p] = v]
        /\ key' = [key EXCEPT ![v] = p]
        /\ shown' = [q \in Procs |-> IF q = p THEN "Started"
                                   ELSE IF q = key[v] THEN "none"
                                   ELSE shown[q]]
        /\ Changed([kind |-> "version", of |-> p, state |-> "Started"])
    /\ UNCHANGED locked
    /\ NodeUnchanged

SetCurrent(p) ==
    /\ At(p, "registered", "runs")
    /\ PutLock(version[p])
    /\ UNCHANGED <<version, shown, key>>
    /\ NodeUnchanged

Drain(p) ==
    /\ stage[p] = "runs" /\ shown[p] = "Started"
    /\ PutVersion(p, "Draining")
    /\ UNCHANGED <<version, locked, stage>>
    /\ NodeUnchanged

\* A process that stops, or of which the start failed, gives its place in
\* the lock back, and shows that it stops if it can.
Unset(p) ==
    /\ At(p, "registered", "stops") \/ At(p, "runs", "stops")
    /\ PutLock(IF locked = version[p] THEN 0 ELSE locked)
    /\ UNCHANGED <<version, shown, key>>
    /\ NodeUnchanged

ShowStopping(p) ==
    /\ stage[p] = "stops" /\ shown[p] # "Stopping"
    /\ PutVersion(p, "Stopping")
    /\ UNCHANGED <<version, locked, stage>>
    /\ NodeUnchanged

\* The registration is deleted, by a process that stops, or with the lease
\* of one that crashed.
Leave(p) ==
    /\ stage[p] \in {"stops", "down"}
    /\ key[version[p]] = p
    /\ stage' = [stage EXCEPT ![p] = "down"]
    /\ key' = [key EXCEPT ![version[p]] = None]
    /\ shown' = [shown EXCEPT ![p] = "none"]
    /\ Changed([kind |-> "gone", of |-> version[p]])
    /\ UNCHANGED <<version, locked>>
    /\ NodeUnchanged

Crash(p) ==
    /\ stage[p] \in {"registered", "runs", "stops"}
    /\ stage' = [stage EXCEPT ![p] = "down"]
    /\ UNCHANGED <<version, shown, key, locked, events, missed>>
    /\ NodeUnchanged

-----------------------------------------------------------------------------
(* The watcher: refresh and the operations that end with it.                *)

InTable(t) == {t[v] : v \in Versions} \ {None}

\* The version that calls are routed to: the current one unless it drains,
\* else one that is started, else the current one that drains.
Route(l, t, i) ==
    IF l \in {None, 0} THEN {None}
    ELSE LET cur == IF l \in Versions THEN t[l] ELSE None
             started == {p \in InTable(t) : i[p] = "Started"}
         IN IF cur # None /\ i[cur] # "Draining" THEN {cur}
            ELSE IF started # {} THEN started
            ELSE {cur}

\* Mutant of refresh: the current version is taken though it drains.
refreshCurrent(l, t, i, cur) ==
    LET to == IF l \in Versions THEN t[l] ELSE None
    IN /\ enable' = (to # None)
       /\ current' = IF to = None THEN cur ELSE to

refresh(l, t, i, cur) ==
    \E p \in Route(l, t, i):
        /\ enable' = (p # None)
        /\ current' = IF p = None THEN cur ELSE p

\* The get: the whole of what etcd holds, before the watch begins.
FirstGet ==
    /\ phase = "get"
    /\ phase' = "got"
    /\ table' = key
    /\ info' = shown
    /\ lock' = locked
    /\ refresh(locked, key, shown, None)
    /\ UNCHANGED <<node, events, missed, links, callers>>

\* A watch begins, when all that an earlier one brought is applied.
StartWatch ==
    /\ phase = "got" /\ events = <<>>
    /\ phase' = "watch"
    /\ UNCHANGED <<node, events, missed, route, links, callers>>

\* etcd ends the watch, and its channel is closed behind what it brought.
WatchEnds ==
    /\ phase = "watch"
    /\ phase' = "got"
    /\ UNCHANGED <<node, events, missed, route, links, callers>>

etcdUpdateLock(e) ==
    /\ e.kind = "lock"
    /\ lock' = e.of
    /\ refresh(e.of, table, info, current)
    /\ UNCHANGED <<table, info, links>>

\* Mutant of setDisable: the connection is dropped and not closed.
setDisableOnly(p) ==
    /\ UNCHANGED open
    /\ client' = [client EXCEPT ![p] = 0]
    /\ dialed' = [dialed EXCEPT ![p] = FALSE]

\* setDisable of a version object that is removed.
setDisable(p) ==
    /\ open' = open \ {<<p, client[p]>>}
    /\ client' = [client EXCEPT ![p] = 0]
    /\ dialed' = [dialed EXCEPT ![p] = FALSE]

\* Mutant of etcdUpdateVersion: an update of the same process is dropped.
etcdUpdateVersionOnce(e) ==
    /\ e.kind = "version"
    /\ LET p == e.of
           old == table[version[p]]
       IN IF old = p THEN UNCHANGED <<route, links>>
          ELSE /\ table' = [table EXCEPT ![version[p]] = p]
               /\ info' = [info EXCEPT ![p] = e.state]
               /\ refresh(lock, table', info', current)
               /\ lock' = lock
               /\ IF old = None THEN UNCHANGED <<open, client, dialed>>
                  ELSE setDisable(old)
               /\ UNCHANGED <<dials, late>>

\* A version object is made, gets the new state, or is replaced by that of
\* another process with the same version.
etcdUpdateVersion(e) ==
    /\ e.kind = "version"
    /\ LET p == e.of
           old == table[version[p]]
       IN /\ table' = [table EXCEPT ![version[p]] = p]
          /\ info' = [q \in Procs |-> IF q = p THEN e.state
                                   ELSE IF q = old THEN "none"
                                   ELSE info[q]]
          /\ refresh(lock, table', info', current)
          /\ IF old \in {None, p} THEN UNCHANGED <<open, client, dialed>>
             ELSE setDisable(old)
    /\ UNCHANGED <<lock, dials, late>>

\* The version field of the objects is never set, so that a delete of any
\* version clears the current one; refresh mends it.
etcdDeleteVersion(e) ==
    /\ e.kind = "gone"
    /\ LET old == table[e.of]
       IN IF old = None
          THEN refresh(lock, table, info, current)
               /\ UNCHANGED <<table, info, open, client, dialed>>
          ELSE /\ table' = [table EXCEPT ![e.of] = None]
               /\ info' = [info EXCEPT ![old] = "none"]
               /\ refresh(lock, table', info', None)
               /\ setDisable(old)
    /\ UNCHANGED <<lock, dials, late>>

handleKey ==
    /\ events # <<>>
    /\ \/ etcdUpdateLock(Head(events))
       \/ etcdUpdateVersion(Head(events))
       \/ etcdDeleteVersion(Head(events))
    /\ events' = Tail(events)
    /\ UNCHANGED <<node, phase, missed, callers>>

-----------------------------------------------------------------------------
(* The callers: getCurrentClient.                                           *)

Goto(c, at) == pc' = [pc EXCEPT ![c] = at]

\* The current version is read under the lock; without one the call fails.
Snapshot(c) ==
    /\ phase # "get"
    /\ pc[c] = "idle"
    /\ enable /\ current # None
    /\ obj' = [obj EXCEPT ![c] = current]
    /\ Goto(c, "check")
    /\ UNCHANGED <<node, watch, route, links, conn>>

Return(c) ==
    /\ Goto(c, "idle")
    /\ obj' = [obj EXCEPT ![c] = None]

\* If the version has a connection, that is taken.  Else check: one caller
\* dials, whoever comes while it does, or after it failed, goes without.
check(c) ==
    /\ pc[c] = "check"
    /\ LET p == obj[c]
       IN IF client[p] # 0 \/ dialed[p]
          THEN Return(c) /\ UNCHANGED <<links, conn>>
          ELSE /\ dialed' = [dialed EXCEPT ![p] = TRUE]
               /\ dials' = [dials EXCEPT ![p] = @ + 1]
               /\ conn' = [conn EXCEPT ![c] = dials[p] + 1]
               /\ open' = open \cup {<<p, dials[p] + 1>>}
               /\ late' = IF p \notin InTable(table)
                          THEN late \cup {p} ELSE late
               /\ Goto(c, "dialing")
               /\ UNCHANGED <<client, obj>>
    /\ UNCHANGED <<node, watch, route>>

\* The connection is ready within a second, and is published unless the
\* version was disabled meanwhile; or it is not, and is closed.  That the
\* caller then reads the connection again, and only if the version is still
\* the current one, changes nothing.
EndDial(c) ==
    /\ pc[c] = "dialing"
    /\ LET p == obj[c]
       IN \/ /\ dialed[p]
             /\ client' = [client EXCEPT ![p] = conn[c]]
             /\ UNCHANGED open
          \/ /\ open' = open \ {<<p, conn[c]>>}
             /\ UNCHANGED client
    /\ conn' = [conn EXCEPT ![c] = 0]
    /\ Return(c)
    /\ UNCHANGED <<node, watch, route, dialed, dials, late>>

-----------------------------------------------------------------------------

NodeStep(p) ==
    \/ Register(p) \/ SetCurrent(p) \/ Drain(p) \/ Unset(p)
    \/ ShowStopping(p) \/ Leave(p) \/ Crash(p)

Watch == FirstGet \/ StartWatch \/ WatchEnds \/ handleKey

getCurrentClient(c) == Snapshot(c) \/ check(c) \/ EndDial(c)

Next ==
    \/ FirstLock
    \/ \E p \in Procs: NodeStep(p)
    \/ Watch
    \/ \E c \in Callers: getCurrentClient(c)

Spec == Init /\ [][Next]_vars

-----------------------------------------------------------------------------
(* What is checked.                                                         *)

States == {"none", "Started", "Draining", "Stopping"}
Stages == {"new", "registered", "runs", "stops", "down"}

Events ==
    [kind : {"version"}, of : Procs, state : States]
        \cup [kind : {"lock"}, of : Versions \cup {0, None}]
        \cup [kind : {"gone"}, of : Versions]

\* Every variable has a value of its type, and a process that started has a
\* version.
TypeOK ==
    /\ version \in [Procs -> Versions \cup {0}]
    /\ stage \in [Procs -> Stages]
    /\ \A p \in Procs: stage[p] # "new" => version[p] \in Versions
    /\ shown \in [Procs -> States] /\ info \in [Procs -> States]
    /\ key \in [Versions -> Procs \cup {None}]
    /\ table \in [Versions -> Procs \cup {None}]
    /\ locked \in Versions \cup {0, None} /\ lock \in Versions \cup {0, None}
    /\ events \in Seq(Events) /\ phase \in {"get", "got", "watch"}
    /\ missed \in BOOLEAN /\ enable \in BOOLEAN
    /\ current \in Procs \cup {None}
    /\ dialed \in [Procs -> BOOLEAN]
    /\ dials \in [Procs -> Nat] /\ client \in [Procs -> Nat]
    /\ open \subseteq Procs \X Nat /\ late \subseteq Procs
    /\ pc \in [Callers -> {"idle", "check", "dialing"}]
    /\ obj \in [Callers -> Procs \cup {None}]
    /\ conn \in [Callers -> Nat]
    /\ \A c \in Callers: pc[c] # "idle" => obj[c] \in Procs

\* Calls are routed to a version that is registered as far as the watcher
\* knows, and to one that drains only if none is started.
PrefersStarted ==
    enable =>
        /\ current \in InTable(table)
        /\ info[current] = "Draining" =>
              \A p \in InTable(table): info[p] # "Started"

\* When the watcher has nothing left to apply and no change was made while it
\* had no watch, before its first one or between two of them, it knows
\* what is registered in etcd, with the state of every process, and who is
\* current.
CaughtUp ==
    (phase = "watch" /\ events = <<>> /\ ~missed) =>
        /\ table = key /\ lock = locked
        /\ \A p \in InTable(key): info[p] = shown[p]

\* A version that left has no connection any more, but for one that a caller
\* still dials, and those dialled by a caller that had taken the version
\* before it was removed and dialled it after.
NoConnLeak ==
    \A l \in open:
        \/ l[1] \in InTable(table) /\ client[l[1]] = l[2]
        \/ \E c \in Callers: obj[c] = l[1] /\ conn[c] = l[2]
        \/ l[1] \in late

\* Stated by the comment on the publication of a connection: it is closed
\* "instead of publishing it, otherwise the connection would leak".
NoLateLeak ==
    \A l \in open:
        \/ l[1] \in InTable(table) /\ client[l[1]] = l[2]
        \/ \E c \in Callers: obj[c] = l[1] /\ conn[c] = l[2]

\* Stated by docs/DESIGN_DRAIN_GRADUAL.md: a node is disabled only if all of
\* its versions drain or stop.
EnabledWhileStarted ==
    (\E p \in InTable(table): info[p] = "Started") => enable

=============================================================================
