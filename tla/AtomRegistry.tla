----------------------------- MODULE AtomRegistry -----------------------------
(***************************************************************************)
(* The atoms of one name in an element: spawn, get, release and stop of     *)
(* element_local.go with the reference counts of atomos_id_tracker.go and   *)
(* the spawn lock of util_sync_map.go.  Each spawn makes an instance with   *)
(* the next instanceID.                                                    *)
(*                                                                         *)
(* e.lock and the mailbox mutexes are state where one is taken under the    *)
(* other; a section of one lock alone is one step that needs the lock free. *)
(* A caller is a goroutine; it holds one IDTracker at a time.              *)
(***************************************************************************)
EXTENDS Naturals, FiniteSets

CONSTANTS Caller,       \* goroutines that spawn, get and release
          Getter,       \* those of them that call GetAtomID
          Spawner,      \* those of them that call SpawnAtom
          MaxInstance,  \* bound: how often the name is spawned
          MaxState,     \* bound: reference states that somebody still refers to
          Persistent,   \* does GetAtomID spawn (AutoData)?
          None

ASSUME AtomRegistryAssumption ==
  /\ MaxInstance \in Nat /\ MaxState \in Nat
  /\ Getter \subseteq Caller /\ Spawner \subseteq Caller
  /\ Persistent \in BOOLEAN
  /\ None \notin Caller

Instance == 1 .. MaxInstance
RefState == 1 .. MaxState
\* The mutexes that spawnLockMap hands out, one for each caller at the most.
SpawnLock == Caller

VARIABLES
  atoms,        \* e.atoms[name]: an instance, 0 if there is none
  made,         \* the number of instances so far
  phase,        \* of each instance, see Phase
  nameElement,  \* of each instance: its node in e.names, 0 is nil
  names,        \* the nodes in e.names, each named after its first instance
  stoppingChan, \* is there a signal in the channel of the instance?
  seen,         \* the reference state that elementAtomStopping has read
  refStates,    \* e.refStates[name]: a reference state, 0 if there is none
  cells,        \* the counts of each reference state
  lockMap,      \* spawnLockMap: the mutex of the name and its count
  elock,        \* the caller that holds e.lock over a mailbox mutex
  mutex,        \* of each instance: the caller that holds its mailbox mutex
  pc,           \* where each caller is
  arg,          \* of each caller: its operation, instance, state, mutex
  tracker,      \* the IDTracker of each caller
  hurried       \* has a spawn gone on after ten seconds? (history)

vars == <<atoms, made, phase, nameElement, names, stoppingChan, seen, refStates,
          cells, lockMap, elock, mutex, pc, arg, tracker, hurried>>

entry == <<atoms, made, nameElement, names>>
life == <<phase, stoppingChan, seen>>
refs == <<refStates, cells>>
locks == <<lockMap, elock, mutex>>
caller == <<arg, tracker, hurried>>

\* "new" is in the map and not started, its state is Halt; "seen" to "leaving"
\* are the steps of elementAtomStopping; "failed": OnSpawn returned an error.
Phase == {"none", "new", "spawning", "running", "stopping", "seen", "unref",
          "leaving", "halt", "failed"}

\* The states of BaseAtomos that a phase stands for.
Running(i) == phase[i] \in {"spawning", "running"}
Stopping(i) == phase[i] \in {"stopping", "seen", "unref", "leaving"}
isNotHalt(i) == Running(i) \/ Stopping(i)
Live(i) == phase[i] \in {"new", "spawning", "running"}

\* "enter" to "unlock": elementAtomSpawn.  "rel": elementAtomRelease.
Section == {"inside", "meet", "waitStop", "make", "starting", "rel", "rel2",
            "rel3", "leave"}
Pc == {"idle", "got", "enter", "lock", "ref", "ref2", "unlock", "drained",
       "drain"} \cup Section

Arg == [spawn : BOOLEAN, at : 0 .. MaxInstance, st : 0 .. MaxState,
        lock : SpawnLock \cup {None}]
NoArg == [spawn |-> FALSE, at |-> 0, st |-> 0, lock |-> None]
\* "early": the reference was added before the instance stopped, and no caller
\* was about to report it as drained.
Tracker == [st : RefState, at : Instance, early : BOOLEAN]

\* nil is not an IDTracker.
ASSUME NoneAssumption == None \notin Tracker

TypeOK ==
  /\ atoms \in 0 .. MaxInstance /\ made \in 0 .. MaxInstance
  /\ phase \in [Instance -> Phase]
  /\ nameElement \in [Instance -> 0 .. MaxInstance]
  /\ names \subseteq Instance
  /\ stoppingChan \in [Instance -> BOOLEAN]
  /\ seen \in [Instance -> 0 .. MaxState]
  /\ refStates \in 0 .. MaxState
  /\ cells \in [RefState -> [Instance -> Nat]]
  /\ lockMap \in [lock : SpawnLock \cup {None}, count : Nat]
  /\ elock \in Caller \cup {None}
  /\ mutex \in [Instance -> Caller \cup {None}]
  /\ pc \in [Caller -> Pc]
  /\ arg \in [Caller -> Arg]
  /\ tracker \in [Caller -> Tracker \cup {None}]
  /\ hurried \in BOOLEAN

Init ==
  /\ atoms = 0 /\ made = 0 /\ names = {}
  /\ phase = [i \in Instance |-> "none"]
  /\ nameElement = [i \in Instance |-> 0]
  /\ stoppingChan = [i \in Instance |-> FALSE]
  /\ seen = [i \in Instance |-> 0]
  /\ refStates = 0
  /\ cells = [s \in RefState |-> [i \in Instance |-> 0]]
  /\ lockMap = [lock |-> None, count |-> 0]
  /\ elock = None
  /\ mutex = [i \in Instance |-> None]
  /\ pc = [c \in Caller |-> "idle"]
  /\ arg = [c \in Caller |-> NoArg]
  /\ tracker = [c \in Caller |-> None]
  /\ hurried = FALSE

\* c goes on at p.
Goto(c, p) == pc' = [pc EXCEPT ![c] = p]
Done(c) == Goto(c, "idle") /\ arg' = [arg EXCEPT ![c] = NoArg]
refCount(s, i) == IF s = 0 THEN 0 ELSE cells[s][i]
isEmpty(s) == s # 0 /\ \A i \in Instance : cells[s][i] = 0

-----------------------------------------------------------------------------
(* GetAtomID looks the atom up under e.lock, and at its state afterwards.   *)
GetAtomID(c) ==
  /\ c \in Getter /\ pc[c] = "idle" /\ tracker[c] = None /\ elock = None
  /\ arg' = [arg EXCEPT ![c].at = atoms]
  /\ Goto(c, "got")
  /\ UNCHANGED <<entry, life, refs, locks, tracker, hurried>>

GetLive(c) ==
  /\ pc[c] = "got"
  /\ arg[c].at # 0 /\ mutex[arg[c].at] = None /\ isNotHalt(arg[c].at)
  /\ Goto(c, "ref")
  /\ UNCHANGED <<entry, life, refs, locks, caller>>

\* Without AutoData the answer is ErrAtomNotExists.
GetNothing(c) ==
  /\ pc[c] = "got"
  /\ arg[c].at # 0 => mutex[arg[c].at] = None /\ ~isNotHalt(arg[c].at)
  /\ IF Persistent THEN Goto(c, "enter") /\ UNCHANGED arg ELSE Done(c)
  /\ UNCHANGED <<entry, life, refs, locks, tracker, hurried>>

SpawnAtom(c) ==
  /\ c \in Spawner /\ pc[c] = "idle" /\ tracker[c] = None
  /\ arg' = [arg EXCEPT ![c].spawn = TRUE]
  /\ Goto(c, "enter")
  /\ UNCHANGED <<entry, life, refs, locks, tracker, hurried>>

\* spawnLockMap.GetOrPut: the mutex of the name, or one of its own.
GetOrPut(c) ==
  /\ pc[c] = "enter"
  /\ LET l == IF lockMap.lock # None THEN lockMap.lock
              ELSE CHOOSE m \in SpawnLock : \A d \in Caller : arg[d].lock # m
     IN /\ lockMap' = [lock |-> l, count |-> lockMap.count + 1]
        /\ arg' = [arg EXCEPT ![c].lock = l]
  /\ Goto(c, "lock")
  /\ UNCHANGED <<entry, life, refs, elock, mutex, tracker, hurried>>

\* c is between lock.Lock and lock.Unlock of elementAtomSpawn.
Holds(c) ==
  arg[c].lock # None /\ pc[c] \in Section \cup {"unlock", "ref", "ref2"}

Lock(c) ==
  /\ pc[c] = "lock"
  /\ \A d \in Caller : Holds(d) => arg[d].lock # arg[c].lock
  /\ Goto(c, "inside")
  /\ UNCHANGED <<entry, life, refs, locks, caller>>

\* Mutant of Leave: the mutex is removed although others wait for it.
LeaveForAll(c) ==
  /\ pc[c] = "leave"
  /\ lockMap' = [lock |-> None, count |-> 0]
  /\ Goto(c, "unlock")
  /\ UNCHANGED <<entry, life, refs, elock, mutex, caller>>

\* spawnLockMap.Remove, then Unlock.
Leave(c) ==
  /\ pc[c] = "leave"
  /\ lockMap' = IF lockMap.count > 1
                THEN [lockMap EXCEPT !.count = @ - 1]
                ELSE [lock |-> None, count |-> 0]
  /\ Goto(c, "unlock")
  /\ UNCHANGED <<entry, life, refs, elock, mutex, caller>>

Unlock(c) ==
  /\ pc[c] = "unlock" /\ Done(c)
  /\ UNCHANGED <<entry, life, refs, locks, tracker, hurried>>

-----------------------------------------------------------------------------
\* elementAtomSpawnUnderLocking.
Look(c) ==
  /\ pc[c] = "inside" /\ elock = None
  /\ arg' = [arg EXCEPT ![c].at = atoms]
  /\ Goto(c, IF atoms = 0 THEN "make" ELSE "meet")
  /\ UNCHANGED <<entry, life, refs, locks, tracker, hurried>>

Meets(c) == pc[c] = "meet" /\ mutex[arg[c].at] = None

(* elementAtomSpawnInternalFoundRunning: an error for a spawn; a get keeps   *)
(* the mailbox mutex while addRefAtom takes e.lock.                         *)
FoundRunning(c) ==
  /\ Meets(c) /\ Running(arg[c].at)
  /\ IF arg[c].spawn
     THEN Goto(c, "leave") /\ UNCHANGED mutex
     ELSE Goto(c, "ref") /\ mutex' = [mutex EXCEPT ![arg[c].at] = c]
  /\ UNCHANGED <<entry, life, refs, lockMap, elock, caller>>

FoundStopping(c) ==
  /\ Meets(c) /\ Stopping(arg[c].at)
  /\ Goto(c, "waitStop")
  /\ UNCHANGED <<entry, life, refs, locks, caller>>

Stopped(c) ==
  /\ pc[c] = "waitStop" /\ stoppingChan[arg[c].at]
  /\ stoppingChan' = [stoppingChan EXCEPT ![arg[c].at] = FALSE]
  /\ Goto(c, "make")
  /\ UNCHANGED <<entry, phase, seen, refs, locks, caller>>

\* Ten seconds have passed.
StopTimeout(c) ==
  /\ pc[c] = "waitStop"
  /\ hurried' = TRUE
  /\ Goto(c, "make")
  /\ UNCHANGED <<entry, life, refs, locks, arg, tracker>>

FoundHalt(c) ==
  /\ Meets(c) /\ ~isNotHalt(arg[c].at)
  /\ Goto(c, "make")
  /\ UNCHANGED <<entry, life, refs, locks, caller>>

\* elementAtomSpawnNewAtom: the new instance takes over the node of the old.
NewAtom(c) ==
  /\ pc[c] = "make" /\ elock = None /\ made < MaxInstance
  /\ LET i == made + 1 old == arg[c].at IN
     /\ atoms' = i /\ made' = i
     /\ phase' = [phase EXCEPT ![i] = "new"]
     /\ IF old = 0
        THEN /\ names' = names \cup {i}
             /\ nameElement' = [nameElement EXCEPT ![i] = i]
        ELSE /\ nameElement' = [nameElement EXCEPT ![i] = nameElement[old]]
             /\ UNCHANGED names
     /\ arg' = [arg EXCEPT ![c].at = i]
  /\ Goto(c, "starting")
  /\ UNCHANGED <<stoppingChan, seen, refs, locks, tracker, hurried>>

Started(c) ==
  /\ pc[c] = "starting" /\ phase[arg[c].at] \notin {"new", "spawning", "failed"}
  /\ Goto(c, "ref")
  /\ UNCHANGED <<entry, life, refs, locks, caller>>

StartFails(c) ==
  /\ pc[c] = "starting" /\ phase[arg[c].at] = "failed"
  /\ Goto(c, "rel")
  /\ UNCHANGED <<entry, life, refs, locks, caller>>

\* What elementAtomRelease and onInstanceRefsDrained do to the entry of i.
RemoveEntry(i) ==
  IF atoms = i
  THEN /\ atoms' = 0
       /\ names' = names \ {nameElement[i]}
       /\ nameElement' = [nameElement EXCEPT ![i] = 0]
  ELSE UNCHANGED <<atoms, names, nameElement>>

ReleaseRead(c) ==
  /\ pc[c] = "rel" /\ elock = None
  /\ arg' = [arg EXCEPT ![c].st = refStates]
  /\ Goto(c, "rel2")
  /\ UNCHANGED <<entry, life, refs, locks, tracker, hurried>>

ReleaseCount(c) ==
  /\ pc[c] = "rel2"
  /\ Goto(c, IF refCount(arg[c].st, arg[c].at) > 0 THEN "leave" ELSE "rel3")
  /\ UNCHANGED <<entry, life, refs, locks, caller>>

elementAtomRelease(c) ==
  /\ pc[c] = "rel3" /\ elock = None
  /\ RemoveEntry(arg[c].at)
  /\ refStates' = IF atoms = arg[c].at /\ isEmpty(arg[c].st)
                  THEN 0 ELSE refStates
  /\ Goto(c, "leave")
  /\ UNCHANGED <<made, life, cells, locks, caller>>

-----------------------------------------------------------------------------
\* Reference states that nobody refers to: a new one is taken from these.
Fresh ==
  {s \in RefState :
     /\ \A c \in Caller : arg[c].st # s
     /\ \A c \in Caller : tracker[c] # None => tracker[c].st # s
     /\ \A i \in Instance : seen[i] # s}

\* addRefAtom: the reference state is found, or made, under e.lock ...
addRefAtom(c) ==
  /\ pc[c] = "ref" /\ elock = None
  /\ IF refStates # 0
     THEN /\ arg' = [arg EXCEPT ![c].st = refStates]
          /\ UNCHANGED refStates
     ELSE /\ Fresh # {}
          /\ LET s == CHOOSE s \in Fresh : \A r \in Fresh : s <= r
             IN refStates' = s /\ arg' = [arg EXCEPT ![c].st = s]
  /\ Goto(c, "ref2")
  /\ UNCHANGED <<entry, life, cells, locks, tracker, hurried>>

\* A caller is between its last Release of i and onInstanceRefsDrained.
Reports(i) == \E d \in Caller : pc[d] \in {"drained", "drain"} /\ arg[d].at = i

\* Mutant of addRef: the reference is not counted.
addRefUncounted(c) ==
  /\ pc[c] = "ref2"
  /\ LET i == arg[c].at s == arg[c].st IN
     /\ tracker' = [tracker EXCEPT ![c] =
                      [st |-> s, at |-> i,
                       early |-> Running(i) /\ ~Reports(i)]]
     /\ mutex' = [mutex EXCEPT ![i] = IF @ = c THEN None ELSE @]
  /\ IF Holds(c)
     THEN Goto(c, "leave") /\ arg' = [arg EXCEPT ![c].at = 0, ![c].st = 0]
     ELSE Done(c)
  /\ UNCHANGED <<entry, life, refs, lockMap, elock, hurried>>

\* ... and the reference is added to it after the unlock.
addRef(c) ==
  /\ pc[c] = "ref2"
  /\ LET i == arg[c].at s == arg[c].st IN
     /\ cells' = [cells EXCEPT ![s][i] = @ + 1]
     /\ tracker' = [tracker EXCEPT ![c] =
                      [st |-> s, at |-> i,
                       early |-> Running(i) /\ ~Reports(i)]]
     /\ mutex' = [mutex EXCEPT ![i] = IF @ = c THEN None ELSE @]
  /\ IF Holds(c)
     THEN Goto(c, "leave") /\ arg' = [arg EXCEPT ![c].at = 0, ![c].st = 0]
     ELSE Done(c)
  /\ UNCHANGED <<entry, life, refStates, lockMap, elock, hurried>>

\* IDTracker.Release: the last reference of the instance is reported.
Release(c) ==
  /\ pc[c] = "idle" /\ tracker[c] # None
  /\ LET t == tracker[c] IN
     /\ cells' = [cells EXCEPT ![t.st][t.at] = @ - 1]
     /\ IF cells[t.st][t.at] = 1
        THEN /\ Goto(c, "drained")
             /\ arg' = [arg EXCEPT ![c].at = t.at, ![c].st = t.st]
        ELSE UNCHANGED <<pc, arg>>
  /\ tracker' = [tracker EXCEPT ![c] = None]
  /\ UNCHANGED <<entry, life, refStates, locks, hurried>>

DrainLock(c) ==
  /\ pc[c] = "drained" /\ elock = None
  /\ elock' = c
  /\ Goto(c, "drain")
  /\ UNCHANGED <<entry, life, refs, lockMap, mutex, caller>>

(* onInstanceRefsDrained holds e.lock while isNotHalt takes the mailbox      *)
(* mutex of the entry, if that is the instance.                             *)
onInstanceRefsDrained(c) ==
  /\ pc[c] = "drain"
  /\ LET i == arg[c].at s == arg[c].st IN
     /\ atoms = i => mutex[i] = None
     /\ IF atoms = i /\ isNotHalt(i)
        THEN UNCHANGED <<atoms, names, nameElement, refStates>>
        ELSE /\ RemoveEntry(i)
             /\ refStates' = IF isEmpty(s) /\ atoms' = 0 THEN 0 ELSE refStates
  /\ elock' = None
  /\ Done(c)
  /\ UNCHANGED <<made, life, cells, lockMap, mutex, tracker, hurried>>

-----------------------------------------------------------------------------
\* The mailbox goroutine of instance i; each changes a.state under the mutex.
Becomes(i, from, to) ==
  /\ phase[i] = from /\ mutex[i] = None
  /\ phase' = [phase EXCEPT ![i] = to]

setSpawning(i) ==
  /\ Becomes(i, "new", "spawning")
  /\ UNCHANGED <<entry, stoppingChan, seen, refs, locks, pc, caller>>

setSpawn(i) ==
  /\ Becomes(i, "spawning", "running")
  /\ UNCHANGED <<entry, stoppingChan, seen, refs, locks, pc, caller>>

SpawnFailed(i) ==
  /\ Becomes(i, "spawning", "failed")
  /\ stoppingChan' = [stoppingChan EXCEPT ![i] = TRUE]
  /\ UNCHANGED <<entry, seen, refs, locks, pc, caller>>

setStopping(i) ==
  /\ Becomes(i, "running", "stopping")
  /\ UNCHANGED <<entry, stoppingChan, seen, refs, locks, pc, caller>>

\* elementAtomStopping reads the reference state under e.lock ...
StoppingRead(i) ==
  /\ phase[i] = "stopping" /\ elock = None
  /\ phase' = [phase EXCEPT ![i] = "seen"]
  /\ seen' = [seen EXCEPT ![i] = refStates]
  /\ UNCHANGED <<entry, stoppingChan, refs, locks, pc, caller>>

\* Mutant of StoppingCount: the references are not counted.
StoppingUncounted(i) ==
  /\ phase[i] = "seen"
  /\ phase' = [phase EXCEPT ![i] = "unref"]
  /\ UNCHANGED <<entry, stoppingChan, seen, refs, locks, pc, caller>>

\* ... its count after it ...
StoppingCount(i) ==
  /\ phase[i] = "seen"
  /\ phase' = [phase EXCEPT ![i] =
                 IF refCount(seen[i], i) > 0 THEN "leaving" ELSE "unref"]
  /\ seen' = IF refCount(seen[i], i) > 0 THEN [seen EXCEPT ![i] = 0] ELSE seen
  /\ UNCHANGED <<entry, stoppingChan, refs, locks, pc, caller>>

\* Mutant of elementAtomStopping: the instance is not compared.
elementAnyStopping(i) ==
  /\ phase[i] = "unref" /\ elock = None
  /\ phase' = [phase EXCEPT ![i] = "leaving"]
  /\ atoms' = 0
  /\ names' = names \ {nameElement[i]}
  /\ nameElement' = [nameElement EXCEPT ![i] = 0]
  /\ refStates' = IF isEmpty(seen[i]) THEN 0 ELSE refStates
  /\ seen' = [seen EXCEPT ![i] = 0]
  /\ UNCHANGED <<made, stoppingChan, cells, locks, pc, caller>>

\* ... and removes entry, node and reference state under e.lock again.
elementAtomStopping(i) ==
  /\ phase[i] = "unref" /\ elock = None
  /\ phase' = [phase EXCEPT ![i] = "leaving"]
  /\ atoms' = IF atoms = i THEN 0 ELSE atoms
  /\ names' = names \ {nameElement[i]}
  /\ nameElement' = [nameElement EXCEPT ![i] = 0]
  /\ refStates' = IF isEmpty(seen[i]) THEN 0 ELSE refStates
  /\ seen' = [seen EXCEPT ![i] = 0]
  /\ UNCHANGED <<made, stoppingChan, cells, locks, pc, caller>>

\* Mutant of setHalted: the channel gets no signal.
setHaltedSilently(i) ==
  /\ Becomes(i, "leaving", "halt")
  /\ UNCHANGED <<entry, stoppingChan, seen, refs, locks, pc, caller>>

setHalted(i) ==
  /\ Becomes(i, "leaving", "halt")
  /\ stoppingChan' = [stoppingChan EXCEPT ![i] = TRUE]
  /\ UNCHANGED <<entry, seen, refs, locks, pc, caller>>

-----------------------------------------------------------------------------
\* The steps of a caller that is inside an operation.
Goes(c) ==
  \/ GetLive(c) \/ GetNothing(c)
  \/ GetOrPut(c) \/ Lock(c) \/ Leave(c) \/ Unlock(c)
  \/ Look(c) \/ FoundRunning(c) \/ FoundStopping(c) \/ FoundHalt(c)
  \/ Stopped(c) \/ NewAtom(c) \/ Started(c) \/ StartFails(c)
  \/ ReleaseRead(c) \/ ReleaseCount(c) \/ elementAtomRelease(c)
  \/ addRefAtom(c) \/ addRef(c) \/ DrainLock(c) \/ onInstanceRefsDrained(c)

Starts(i) == setSpawning(i) \/ setSpawn(i) \/ SpawnFailed(i)
Stops(i) ==
  \/ StoppingRead(i) \/ StoppingCount(i) \/ elementAtomStopping(i)
  \/ setHalted(i)

Next ==
  \/ \E c \in Caller :
       GetAtomID(c) \/ SpawnAtom(c) \/ Release(c) \/ StopTimeout(c) \/ Goes(c)
  \/ \E i \in Instance : Starts(i) \/ setStopping(i) \/ Stops(i)

Spec == Init /\ [][Next]_vars

(* Goroutines run when they can, OnSpawn and OnStopping return.  Nobody has  *)
(* to call, to release or to stop, and ten seconds need not pass.  The       *)
(* mutexes of Go are fair to a waiter, hence strong fairness of Lock and of  *)
(* the sections that need e.lock.  The steps of all instances are finitely   *)
(* many, so that one condition covers each of them.                         *)
Fairness ==
  /\ \A c \in Caller : SF_vars(Goes(c))
  /\ SF_vars(\E i \in Instance : Starts(i) \/ Stops(i))

FairSpec == Spec /\ Fairness
-----------------------------------------------------------------------------
\* One goroutine at a time spawns under the name.
OneSpawner ==
  \A c, d \in Caller :
    pc[c] \in Section /\ pc[d] \in Section /\ arg[c].lock # None
      /\ arg[d].lock # None => c = d

(* An instance that is not stopping is what the name leads to: neither the   *)
(* end of an older instance nor the release of its references drops it, and *)
(* so the name never has two such instances.                                *)
LiveIsEntry == \A i \in Instance : Live(i) => atoms = i

(* As long as a tracker exists the framework does not collect the atom      *)
(* (FRAMEWORK_GUIDE.md): true of references added before the stop and not   *)
(* behind the back of a late onInstanceRefsDrained, unless a respawn         *)
(* replaced the entry or went ahead of a slow stop.                          *)
TrackerKeepsEntry ==
  ~hurried => \A c \in Caller :
    (tracker[c] # None /\ tracker[c].early)
      => (atoms = tracker[c].at \/ made > tracker[c].at)

(* Two goroutines wait for each other: one holds the mailbox mutex of a      *)
(* running atom and wants e.lock, the other the reverse.                    *)
LockRing ==
  \E i \in Instance :
    mutex[i] # None /\ pc[mutex[i]] = "ref" /\ elock # None
      /\ arg[elock].at = i /\ atoms = i

\* A goroutine has reached a bound of the model.
AtBound ==
  \E c \in Caller :
    \/ pc[c] = "make" /\ made = MaxInstance
    \/ pc[c] = "ref" /\ refStates = 0 /\ Fresh = {}

(* Every spawn, get and release returns, unless the two locks are taken in   *)
(* opposite order; the bounds of the model are excepted.  Again and again a  *)
(* caller is idle: that is the same as every call leading to its return.    *)
EveryCallReturns ==
  \A c \in Caller : []<>(pc[c] = "idle" \/ LockRing \/ AtBound)

(* Every atom is in the list along which the element kills its atoms        *)
(* ("Send Kill to all atoms", OnStopping).                                  *)
AllAtomsListed ==
  \A i \in Instance :
    phase[i] = "running" => nameElement[i] # 0 /\ nameElement[i] \in names

(* An entry that elementAtomStopping keeps for the references is collected   *)
(* when they drain (its comment).                                           *)
HaltedCollected ==
  (\A c \in Caller : pc[c] = "idle" /\ tracker[c] = None)
    => \A i \in Instance : phase[i] = "halt" => atoms # i
=============================================================================
