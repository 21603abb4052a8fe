----------------------------- MODULE VersionLock -----------------------------
(***************************************************************************)
(* The version lock of a node: one etcd key that lists the versions of the *)
(* node that are up, at most maxNodes of them, and names the current one.  *)
(* A hot upgrade starts a new process of the node (a new version) beside   *)
(* the old one and stops the old one afterwards.  Each process reads the   *)
(* key, changes its copy and writes it back on the condition that the key  *)
(* was not written meanwhile; no operation retries.                        *)
(*                                                                         *)
(* A process is a member of Procs and is started once; what happens around *)
(* its lock operations (network, elements, main script) is one step that   *)
(* may fail.  etcd answers a bounded number of requests with an error, and *)
(* a write that is answered so may have been done.                         *)
(***************************************************************************)
EXTENDS Naturals, Sequences, SequencesExt, FiniteSets

CONSTANTS
    Procs,      \* the processes that are started as this node
    Version,    \* the second a process starts in: its version number
    maxNodes,   \* the versions the lock admits
    MaxFaults   \* bound: requests that etcd answers with an error

ASSUME VersionAssumption == Version \in [Procs -> Nat \ {0}]
ASSUME MaxNodesAssumption == maxNodes \in Nat
ASSUME FaultsAssumption == MaxFaults \in Nat

VARIABLES
    lock,    \* the key: times written (0: no key), versions, current
    seen,    \* the key as a process read it last
    pc,      \* where a process is
    faults,  \* requests answered with an error so far
    lost     \* processes that are out and whose unlock was not done

vars == <<lock, seen, pc, faults, lost>>

NoKey == [ver |-> 0, versions |-> <<>>, current |-> 0]

Init ==
    /\ lock = NoKey
    /\ seen = [p \in Procs |-> NoKey]
    /\ pc = [p \in Procs |-> "new"]
    /\ faults = 0
    /\ lost = {}

Listed(v, l) == \E i \in 1..Len(l.versions): l.versions[i] = v

-----------------------------------------------------------------------------
(* What the four operations write back: the key as it was read, changed.    *)

WithVersion(v, l) == [l EXCEPT !.versions = Append(l.versions, v)]
WithCurrent(v, l) == [l EXCEPT !.current = v]
\* Mutant of WithoutVersion: the current version is left as it was.
WithoutVersionOnly(v, l) == [l EXCEPT !.versions = RemoveFirst(l.versions, v)]

WithoutVersion(v, l) ==
    [l EXCEPT !.versions = RemoveFirst(l.versions, v),
              !.current = IF l.current = v THEN 0 ELSE l.current]

\* The transaction: the write is done if the key was written as often as
\* when it was read.
Written(l, next) == [next EXCEPT !.ver = l.ver + 1]

\* Mutant of Committed: the write is not conditional.
CommittedBlind(p, next) == lock' = Written(seen[p], next)

Committed(p, next) ==
    /\ lock.ver = seen[p].ver
    /\ lock' = Written(seen[p], next)

Conflict(p) ==
    /\ lock.ver # seen[p].ver
    /\ UNCHANGED lock

\* Reading the key, and going on at another place.
ReadThen(p, at) ==
    /\ seen' = [seen EXCEPT ![p] = lock]
    /\ pc' = [pc EXCEPT ![p] = at]
    /\ UNCHANGED <<lock, faults>>

\* etcd answers a request with an error: one of the faults allowed.
Fault ==
    /\ faults < MaxFaults
    /\ faults' = faults + 1

ReadFails(p, at) ==
    /\ Fault
    /\ pc' = [pc EXCEPT ![p] = at]
    /\ UNCHANGED <<lock, seen>>

\* A commit: done, refused because the key changed, or answered with an
\* error whether it was done or not.
Commit(p, next, done, failed) ==
    /\ UNCHANGED seen
    /\ \/ /\ Committed(p, next)
          /\ pc' = [pc EXCEPT ![p] = done]
          /\ UNCHANGED faults
       \/ /\ Conflict(p)
          /\ pc' = [pc EXCEPT ![p] = failed]
          /\ UNCHANGED faults
       \/ /\ Fault
          /\ \/ Committed(p, next)
             \/ UNCHANGED lock
          /\ pc' = [pc EXCEPT ![p] = failed]

Moves(p, from, to) ==
    /\ pc[p] = from
    /\ pc' = [pc EXCEPT ![p] = to]
    /\ UNCHANGED <<lock, seen, faults, lost>>

-----------------------------------------------------------------------------
(* Start.                                                                   *)

\* Mutant of TryLocking: one version too many is let in.
TryLockingOneMore(p) ==
    /\ pc[p] = "new"
    /\ \/ /\ Len(lock.versions) <= maxNodes
          /\ ReadThen(p, "locking")
       \/ /\ Len(lock.versions) > maxNodes
          /\ ReadThen(p, "undo")
       \/ ReadFails(p, "undo")
    /\ UNCHANGED lost

\* etcdStartUpTryLockingVersionNodeLock reads the key; a full lock is
\* refused, and a refused start cleans up like any other that fails.
TryLocking(p) ==
    /\ pc[p] = "new"
    /\ \/ /\ Len(lock.versions) < maxNodes
          /\ ReadThen(p, "locking")
       \/ /\ Len(lock.versions) >= maxNodes
          /\ ReadThen(p, "undo")
       \/ ReadFails(p, "undo")
    /\ UNCHANGED lost

\* ... and it writes the key with its version behind the others.
Locking(p) ==
    /\ pc[p] = "locking"
    /\ Commit(p, WithVersion(Version[p], seen[p]), "ready", "undo")
    /\ UNCHANGED lost

\* The rest of the preparation, the elements and the lease are there, and
\* etcdStartedVersionNodeLock reads the key.  That its version is not listed
\* is only logged, and the start goes on.
StartedVersion(p) ==
    /\ pc[p] = "ready"
    /\ \/ /\ Listed(Version[p], lock)
          /\ ReadThen(p, "setting")
       \/ /\ lock.ver # 0
          /\ ~Listed(Version[p], lock)
          /\ ReadThen(p, "script")
       \/ ReadFails(p, "undo")
    /\ UNCHANGED lost

PrepareFails(p) == Moves(p, "ready", "undo")

Setting(p) ==
    /\ pc[p] = "setting"
    /\ Commit(p, WithCurrent(Version[p], seen[p]), "script", "undo")
    /\ UNCHANGED lost

ScriptStarts(p) == Moves(p, "script", "running")
ScriptFails(p) == Moves(p, "script", "undo")

-----------------------------------------------------------------------------
(* Leaving the lock: when a start fails and when a process stops.           *)

Stop(p) == Moves(p, "running", "stop")

\* The unlock reads the key; without a key, or when the read fails, the
\* error is logged and that is all.
ReadToLeave(p, from, to, after) ==
    /\ pc[p] = from
    /\ \/ /\ lock.ver # 0
          /\ ReadThen(p, to)
          /\ UNCHANGED lost
       \/ /\ \/ lock.ver = 0 /\ ReadThen(p, after)
             \/ ReadFails(p, after)
          /\ lost' = lost \cup {p}

\* The unlock writes the key without the version.  Whatever comes back, the
\* process goes on: a conflict is not tried again.
Leave(p, from, after) ==
    /\ pc[p] = from
    /\ Commit(p, WithoutVersion(Version[p], seen[p]), after, after)
    /\ lost' = IF lock' = lock THEN lost \cup {p} ELSE lost

\* Mutant of StartUpFailed: a failed start keeps its place.
StartUpFailedKeeps(p) == Moves(p, "undo", "off")

\* etcdStartUpFailedNodeVersionUnlock; the process is off after it.
StartUpFailed(p) == ReadToLeave(p, "undo", "undoing", "off")
StartUpUnlock(p) == Leave(p, "undoing", "off")

\* etcdStoppingNodeVersionUnlock, the first thing a stop does: the main
\* script and the atomos of the process are stopped after it.
Stopping(p) == ReadToLeave(p, "stop", "unlocking", "closing")
StoppingUnlock(p) == Leave(p, "unlocking", "closing")
Closed(p) == Moves(p, "closing", "off")

\* The machine or the process dies; nothing is written.
Crash(p) ==
    /\ pc[p] \notin {"new", "off", "crashed"}
    /\ pc' = [pc EXCEPT ![p] = "crashed"]
    /\ UNCHANGED <<lock, seen, faults, lost>>

Step(p) ==
    \/ TryLocking(p) \/ Locking(p) \/ StartedVersion(p) \/ PrepareFails(p)
    \/ Setting(p) \/ ScriptStarts(p) \/ ScriptFails(p)
    \/ StartUpFailed(p) \/ StartUpUnlock(p)
    \/ Stop(p) \/ Stopping(p) \/ StoppingUnlock(p) \/ Closed(p)
    \/ Crash(p)

Next == \E p \in Procs: Step(p)

Spec == Init /\ [][Next]_vars

-----------------------------------------------------------------------------
(* Properties.                                                              *)

Places == {"new", "locking", "ready", "setting", "script", "running",
           "stop", "unlocking", "closing", "undo", "undoing", "off",
           "crashed"}

\* A process that took a place in the lock and has not begun to leave it.
Holds(p) == pc[p] \in {"ready", "setting", "script", "running", "stop"}

\* A process whose version no other process has.
Alone(p) == \A q \in Procs \ {p}: Version[q] # Version[p]

Keys == [ver: Nat, versions: Seq(Nat \ {0}), current: Nat]

\* Every variable has its type.
TypeOK ==
    /\ lock \in Keys
    /\ seen \in [Procs -> Keys]
    /\ pc \in [Procs -> Places]
    /\ faults \in 0..MaxFaults
    /\ lost \in SUBSET Procs

\* "there should be no more than two versions in the cluster at the same
\* time": however the reads and the writes of the processes interleave, and
\* whatever etcd answers, the lock never lists more than maxNodes versions.
AtMostMaxNodes == Len(lock.versions) <= maxNodes

\* The current version is a listed one, so that the others never route to a
\* version that left.
CurrentListed == lock.current # 0 => Listed(lock.current, lock)

\* No process loses its place to the write of another one: one that came in
\* and has not begun to leave is listed, as long as no other process was
\* started in the same second.
HoldersListed == \A p \in Procs: Holds(p) /\ Alone(p)
                                    => Listed(Version[p], lock)

\* A place is given back by whoever leaves: a listed version is that of a
\* process that is in or on its way, that died, or whose unlock etcd did not
\* do.  (The last two keep their place for ever: nothing else removes it.)
OnlyLostKept ==
    \A i \in 1..Len(lock.versions):
        \E p \in Procs:
            /\ Version[p] = lock.versions[i]
            /\ \/ pc[p] \notin {"new", "off", "closing"}
               \/ p \in lost

\* The lock lists the versions that are up and no others but the lost ones.
ListMatches == HoldersListed /\ OnlyLostKept

\* The comment on the lock: at most maxNodes versions are in the cluster
\* together.  A process is in it from the moment it is listed until it is
\* off: while it closes, its atoms still run and its key is still there.
AtMostMaxNodesUp ==
    Cardinality({p \in Procs: Holds(p) \/ pc[p] \in {"unlocking", "closing"}})
        <= maxNodes

\* The promise without etcd: every step of the detailed lock is a step of
\* the atomic one or leaves it alone.
Slots == INSTANCE VersionSlots WITH
    Versions <- {Version[p]: p \in Procs},
    slots <- {lock.versions[i]: i \in 1..Len(lock.versions)},
    current <- lock.current

\* The version lock implements the promised one, when no two processes are
\* started in the same second.
Implements == Slots!SlotsSpec
=============================================================================
