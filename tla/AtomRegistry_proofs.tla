------------------------- MODULE AtomRegistry_proofs -------------------------
(***************************************************************************)
(* Proofs about AtomRegistry: the types, that one goroutine at a time       *)
(* spawns under the name, that an instance that is not stopping is what the *)
(* name leads to, and that a reference keeps the entry of its atom.         *)
(***************************************************************************)
EXTENDS AtomRegistry, QueueLemmas

\* What a caller at each place of its operation knows.
Located(c) ==
  /\ pc[c] = "idle" => arg[c] = NoArg
  /\ pc[c] \in {"got", "enter", "drained", "drain"} => arg[c].lock = None
  /\ pc[c] \in {"lock", "unlock"} \cup Section => arg[c].lock # None
  /\ pc[c] \notin {"idle", "leave", "unlock"} => tracker[c] = None
  /\ pc[c] \in {"meet", "waitStop"} => arg[c].at # 0
  /\ pc[c] \in {"ref", "ref2", "drained", "drain"}
       => arg[c].at # 0 /\ phase[arg[c].at] \notin {"none", "new"}
  /\ pc[c] \in {"ref2", "drained", "drain"} => arg[c].st # 0
  /\ pc[c] = "starting" => arg[c].at # 0 /\ phase[arg[c].at] # "none"
  /\ pc[c] \in {"rel", "rel2", "rel3"}
       => arg[c].at # 0 /\ phase[arg[c].at] = "failed"
  /\ tracker[c] # None => phase[tracker[c].at] \notin {"none", "new"}

\* The callers that GetOrPut gave a mutex, and those that Remove still counts.
WithLock == {c \in Caller : arg[c].lock # None}
Users == {c \in WithLock : pc[c] # "unlock"}

(* The users share the mutex of the name, spawnLockMap counts them, and a    *)
(* mutex has one holder.                                                    *)
Shared == \A c \in Users : arg[c].lock = lockMap.lock
OneHolder ==
  \A c, d \in Caller :
    Holds(c) /\ Holds(d) /\ arg[c].lock = arg[d].lock => c = d
Locks ==
  /\ IsFiniteSet(WithLock)
  /\ Shared
  /\ lockMap.count = Cardinality(Users)
  /\ OneHolder

\* A cell counts the trackers that refer to it.
Holders(s, i) ==
  {c \in Caller : tracker[c] # None /\ tracker[c].st = s /\ tracker[c].at = i}
Counted ==
  \A s \in RefState, i \in Instance :
    IsFiniteSet(Holders(s, i)) /\ cells[s][i] = Cardinality(Holders(s, i))

(* The entry is the last instance or nothing; a spawn that goes on to make   *)
(* one has seen that no instance is live.                                   *)
Entry ==
  /\ LiveIsEntry
  /\ atoms \in {0, made}
  /\ \A i \in Instance : phase[i] = "none" <=> i > made
  /\ \A i \in Instance :
       phase[i] = "new" => \E c \in Caller : pc[c] = "starting" /\ arg[c].at = i
  /\ \A i \in Instance : stoppingChan[i] => phase[i] \in {"halt", "failed"}
  /\ \A c \in Caller :
       pc[c] \in {"meet", "waitStop"} => atoms \in {0, arg[c].at}
  /\ \A c \in Caller :
       pc[c] \in {"waitStop", "make"} => \A i \in Instance : ~Live(i)

(* Unless a spawn did not wait for the end of the old instance, an instance  *)
(* that stops is the entry still, and the references of the entry are in     *)
(* the reference state of the name.                                         *)
InStop(i) == phase[i] \in {"stopping", "seen", "unref"}
Timely ==
  /\ \A i \in Instance : InStop(i) => atoms = i
  /\ \A c \in Caller : pc[c] = "make" => \A i \in Instance : ~InStop(i)
  /\ atoms = made =>
       \A c \in Caller :
         /\ tracker[c] # None /\ tracker[c].at = made
              => tracker[c].st = refStates
         /\ pc[c] = "ref2" /\ arg[c].at = made => arg[c].st = refStates

\* A reference to the last instance that nothing is about to overlook.
Early(c) == tracker[c] # None /\ tracker[c].early /\ tracker[c].at = made
Kept ==
  \A c \in Caller : Early(c) =>
    /\ atoms = made /\ ~Reports(made)
    /\ phase[made] = "seen" => seen[made] = tracker[c].st
    /\ phase[made] # "unref"
    /\ \A d \in Caller : arg[d].at = made =>
         (pc[d] = "rel2" => arg[d].st = tracker[c].st) /\ pc[d] # "rel3"

IInv ==
  /\ TypeOK
  /\ \A c \in Caller : Located(c)
  /\ Locks
  /\ Counted
  /\ Entry
  /\ ~hurried => Timely /\ Kept

-----------------------------------------------------------------------------
(* Some mutex is free when spawnLockMap has none for the name: each caller   *)
(* uses one at the most and c none.                                         *)
LEMMA FreeLock ==
  ASSUME TypeOK, IsFiniteSet(WithLock), NEW c \in Caller, arg[c].lock = None
  PROVE  \E m \in SpawnLock : \A d \in Caller : arg[d].lock # m
<1> DEFINE used == {arg[d].lock : d \in WithLock}
           both == WithLock \cup {c}
           lockOf == [d \in WithLock |-> arg[d].lock]
<1>1. IsFiniteSet(used) /\ Cardinality(used) <= Cardinality(WithLock)
  <2>1. lockOf \in Surjection(WithLock, used)
    BY DEF Surjection
  <2>2. QED
    BY <2>1, FS_Surjection
<1>2. c \notin WithLock
  BY DEF WithLock
<1>3. IsFiniteSet(both) /\ Cardinality(both) = Cardinality(WithLock) + 1
  BY <1>2, FS_AddElement
<1>4. Cardinality(WithLock) \in Nat /\ Cardinality(used) \in Nat
  BY <1>1, FS_CardinalityType
<1>5. ~(both \subseteq used)
  <2>1. both \subseteq used => Cardinality(both) <= Cardinality(used)
    BY <1>1, FS_Subset
  <2>2. QED
    BY <1>1, <1>3, <1>4, <2>1
<1>6. PICK m \in both : m \notin used
  BY <1>5
<1>7. m \in SpawnLock /\ m # None
  BY <1>6, AtomRegistryAssumption DEF WithLock, SpawnLock
<1>8. \A d \in Caller : arg[d].lock # m
  BY <1>6, <1>7 DEF WithLock
<1>9. QED
  BY <1>7, <1>8

\* The mutex that GetOrPut chooses.
LEMMA GetOrPutLock ==
  ASSUME IInv, NEW c \in Caller, pc[c] = "enter",
         lockMap.lock = None
  PROVE  LET m == CHOOSE m \in SpawnLock : \A d \in Caller : arg[d].lock # m
         IN  m \in SpawnLock /\ \A d \in Caller : arg[d].lock # m
<1>1. arg[c].lock = None
  BY DEF IInv, Located
<1>2. QED
  BY <1>1, FreeLock DEF IInv, Locks

\* The reference state that addRefAtom makes is one that nobody refers to.
LEMMA FreshLeast ==
  ASSUME AtomRegistryAssumption, Fresh # {}
  PROVE  (CHOOSE s \in Fresh : \A r \in Fresh : s <= r) \in Fresh
<1>1. Fresh \in SUBSET Nat
  BY DEF Fresh, RefState, AtomRegistryAssumption
<1>2. QED
  BY <1>1, LeastNatural

-----------------------------------------------------------------------------
(* The updates of an operation's record, and the record of an idle caller.   *)
LEMMA ArgUpdates ==
  /\ NoArg \in Arg
  /\ \A r \in Arg :
       /\ \A v \in 0 .. MaxInstance : [r EXCEPT !.at = v] \in Arg
       /\ \A v \in 0 .. MaxState : [r EXCEPT !.st = v] \in Arg
       /\ \A l \in SpawnLock \cup {None} : [r EXCEPT !.lock = l] \in Arg
       /\ [r EXCEPT !.spawn = TRUE] \in Arg
       /\ r.at \in 0 .. MaxInstance /\ r.st \in 0 .. MaxState
       /\ r.lock \in SpawnLock \cup {None}
<1>1. NoArg \in Arg
  BY AtomRegistryAssumption DEF NoArg, Arg
<1>2. QED
  BY <1>1 DEF Arg

(* What the types say of a caller's operation and reference.                 *)
LEMMA Ranges ==
  ASSUME TypeOK, NEW c \in Caller
  PROVE  /\ arg[c] \in Arg
         /\ arg[c].at \in 0 .. MaxInstance /\ arg[c].st \in 0 .. MaxState
         /\ arg[c].at # 0 => arg[c].at \in Instance
         /\ arg[c].st # 0 => arg[c].st \in RefState
         /\ arg[c].lock \in SpawnLock \cup {None}
         /\ tracker[c] # None =>
              /\ tracker[c] \in Tracker
              /\ tracker[c].st \in RefState /\ tracker[c].at \in Instance
<1>1. arg[c] \in Arg
  BY DEF TypeOK
<1>2. /\ arg[c].at \in 0 .. MaxInstance /\ arg[c].st \in 0 .. MaxState
      /\ arg[c].lock \in SpawnLock \cup {None}
  BY <1>1, ArgUpdates
<1>3. /\ arg[c].at # 0 => arg[c].at \in Instance
      /\ arg[c].st # 0 => arg[c].st \in RefState
  BY <1>2, AtomRegistryAssumption
  DEF Instance, RefState, AtomRegistryAssumption
<1>4. tracker[c] # None => tracker[c] \in Tracker
  BY DEF TypeOK
<1>5. tracker[c] # None =>
        tracker[c].st \in RefState /\ tracker[c].at \in Instance
  BY <1>4 DEF Tracker
<1>6. QED
  BY <1>1, <1>2, <1>3, <1>4, <1>5

\* An instance and a reference state are in the ranges with zero too.
LEMMA WithZero ==
  /\ Instance \subseteq 0 .. MaxInstance /\ 0 \in 0 .. MaxInstance
  /\ RefState \subseteq 0 .. MaxState /\ 0 \in 0 .. MaxState
  BY AtomRegistryAssumption DEF Instance, RefState, AtomRegistryAssumption

\* GetOrPut: l is the mutex of the name, or one that nobody has.
LEMMA GetOrPutFacts ==
  ASSUME IInv, NEW c \in Caller, GetOrPut(c)
  PROVE  \E l \in SpawnLock :
           /\ lockMap' = [lock |-> l, count |-> lockMap.count + 1]
           /\ arg' = [arg EXCEPT ![c] = [@ EXCEPT !.lock = l]]
           /\ lockMap.lock # None => l = lockMap.lock
           /\ lockMap.lock = None => \A d \in Caller : arg[d].lock # l
<1> DEFINE m == CHOOSE m \in SpawnLock : \A d \in Caller : arg[d].lock # m
           l == IF lockMap.lock # None THEN lockMap.lock ELSE m
<1>1. /\ lockMap' = [lock |-> l, count |-> lockMap.count + 1]
      /\ arg' = [arg EXCEPT ![c] = [@ EXCEPT !.lock = l]]
  BY DEF GetOrPut
<1>2. lockMap.lock = None =>
        l \in SpawnLock /\ \A d \in Caller : arg[d].lock # l
  BY GetOrPutLock DEF GetOrPut
<1>3. lockMap.lock # None => l \in SpawnLock /\ l = lockMap.lock
  <2>1. lockMap.lock \in SpawnLock \cup {None}
    BY DEF IInv, TypeOK
  <2>2. QED
    BY <2>1
<1> HIDE DEF l, m
<1>4. QED
  BY <1>1, <1>2, <1>3

\* Whatever i is, the entry is dropped or left alone.
LEMMA RemoveEntryFacts ==
  ASSUME TypeOK, NEW i, RemoveEntry(i)
  PROVE  /\ atoms' = IF atoms = i THEN 0 ELSE atoms
         /\ names' \subseteq names
         /\ nameElement' \in [Instance -> 0 .. MaxInstance]
<1>1. names \subseteq Instance
      /\ nameElement \in [Instance -> 0 .. MaxInstance]
      /\ 0 \in 0 .. MaxInstance
  BY AtomRegistryAssumption DEF TypeOK
<1>2. CASE atoms = i
  BY <1>1, <1>2 DEF RemoveEntry
<1>3. CASE atoms # i
  BY <1>1, <1>3 DEF RemoveEntry
<1>4. QED
  BY <1>2, <1>3

\* addRefAtom: s is the reference state of the name, or one nobody refers to.
LEMMA AddRefAtomFacts ==
  ASSUME TypeOK, NEW c \in Caller, addRefAtom(c)
  PROVE  \E s \in RefState :
           /\ refStates' = s
           /\ arg' = [arg EXCEPT ![c] = [@ EXCEPT !.st = s]]
           /\ IF refStates # 0 THEN s = refStates ELSE s \in Fresh
<1>1. CASE refStates # 0
  BY <1>1 DEF addRefAtom, TypeOK, RefState
<1>2. CASE refStates = 0
  <2> DEFINE s == CHOOSE s \in Fresh : \A r \in Fresh : s <= r
  <2>1. /\ refStates' = s
        /\ arg' = [arg EXCEPT ![c] = [@ EXCEPT !.st = s]]
        /\ Fresh # {}
    BY <1>2 DEF addRefAtom
  <2>2. s \in Fresh
    BY <2>1, FreshLeast, AtomRegistryAssumption
  <2>3. s \in RefState
    BY <2>2 DEF Fresh
  <2> HIDE DEF s
  <2>4. QED
    BY <1>2, <2>1, <2>2, <2>3
<1>3. QED
  BY <1>1, <1>2

\* addRef counts a reference and lets the mailbox mutex go.
LEMMA AddRefTypes ==
  ASSUME IInv, NEW c \in Caller, addRef(c)
  PROVE  TypeOK'
<1>1. TypeOK /\ Located(c) /\ pc[c] = "ref2"
  BY DEF IInv, addRef
<1>2. /\ arg[c].at \in Instance /\ arg[c].st \in RefState
      /\ arg[c] \in Arg
  BY <1>1, Ranges DEF Located
<1>3. cells' \in [RefState -> [Instance -> Nat]]
  BY <1>1, <1>2 DEF addRef, TypeOK
<1>4. tracker' \in [Caller -> Tracker \cup {None}]
  BY <1>1, <1>2 DEF addRef, Tracker, Running, TypeOK
<1>5. mutex' \in [Instance -> Caller \cup {None}]
  BY <1>1, <1>2 DEF addRef, TypeOK
<1>6. arg' \in [Caller -> Arg] /\ pc' \in [Caller -> Pc]
  <2>1. CASE Holds(c)
    <3> DEFINE r == [arg[c] EXCEPT !.at = 0]
    <3>1. r \in Arg /\ [r EXCEPT !.st = 0] \in Arg
      BY <1>2, ArgUpdates, WithZero
    <3>2. /\ arg' = [arg EXCEPT ![c] = [r EXCEPT !.st = 0]]
          /\ pc' = [pc EXCEPT ![c] = "leave"]
      BY <2>1 DEF addRef, Goto
    <3> HIDE DEF r
    <3>3. QED
      BY <1>1, <3>1, <3>2 DEF TypeOK, Pc, Section
  <2>2. CASE ~Holds(c)
    <3>1. /\ arg' = [arg EXCEPT ![c] = NoArg]
          /\ pc' = [pc EXCEPT ![c] = "idle"]
      BY <2>2 DEF addRef, Goto, Done
    <3>2. QED
      BY <1>1, <3>1, ArgUpdates DEF TypeOK, Pc
  <2>3. QED
    BY <2>1, <2>2
<1>7. QED
  BY <1>1, <1>3, <1>4, <1>5, <1>6 DEF addRef, entry, life, TypeOK

(* Release takes a reference that the cell counts, so that the count does    *)
(* not go below zero.                                                       *)
LEMMA ReleaseTypes ==
  ASSUME IInv, NEW c \in Caller, Release(c)
  PROVE  TypeOK'
<1> DEFINE t == tracker[c]
<1>1. TypeOK /\ t # None
  BY DEF IInv, Release
<1>2. t \in Tracker /\ t.st \in RefState /\ t.at \in Instance
  BY <1>1, Ranges
<1>3. cells[t.st][t.at] \in Nat \ {0}
  <2>1. c \in Holders(t.st, t.at)
    BY <1>1 DEF Holders
  <2>2. IsFiniteSet(Holders(t.st, t.at))
        /\ cells[t.st][t.at] = Cardinality(Holders(t.st, t.at))
    BY <1>2 DEF IInv, Counted
  <2>3. QED
    BY <2>1, <2>2, FS_EmptySet, FS_CardinalityType
<1>4. cells' = [cells EXCEPT ![t.st][t.at] = @ - 1]
  BY DEF Release
<1>5. arg[c] \in Arg
  BY <1>1, Ranges
<1>6. pc' \in [Caller -> Pc] /\ arg' \in [Caller -> Arg]
  <2> DEFINE r == [arg[c] EXCEPT !.at = t.at]
             q == [r EXCEPT !.st = t.st]
  <2>1. q \in Arg
    BY <1>2, <1>5, ArgUpdates, WithZero
  <2>2. CASE cells[t.st][t.at] = 1
    <3>1. arg' = [arg EXCEPT ![c] = q] /\ pc' = [pc EXCEPT ![c] = "drained"]
      BY <2>2 DEF Release, Goto
    <3> HIDE DEF q
    <3>2. QED
      BY <1>1, <2>1, <3>1 DEF TypeOK, Pc
  <2>3. CASE cells[t.st][t.at] # 1
    BY <1>1, <2>3 DEF Release, TypeOK
  <2>4. QED
    BY <2>2, <2>3
<1>7. tracker' = [tracker EXCEPT ![c] = None]
  BY DEF Release
<1> HIDE DEF t
<1>8. cells' \in [RefState -> [Instance -> Nat]]
  <2>1. cells[t.st][t.at] - 1 \in Nat
    BY <1>3
  <2>2. QED
    BY <1>1, <1>2, <1>4, <2>1 DEF TypeOK
<1>9. QED
  BY <1>1, <1>6, <1>7, <1>8 DEF TypeOK, Release, entry, life, locks

(* Every action but the release of a reference and the removal of a user     *)
(* leaves the types alone whatever the callers are about.                   *)
LEMMA TypeStep ==
  ASSUME IInv, Next
  PROVE  TypeOK'
<1>1. TypeOK /\ AtomRegistryAssumption
  BY AtomRegistryAssumption DEF IInv
<1>2. \A c \in Caller : Located(c)
  BY DEF IInv
<1> USE <1>1 DEF TypeOK, AtomRegistryAssumption, Goto, Done
<1>3. ASSUME NEW c \in Caller, GetAtomID(c) PROVE TypeOK'
  BY <1>3, ArgUpdates DEF GetAtomID, entry, life, refs, locks, caller, Pc,
      Section
<1>4. ASSUME NEW c \in Caller, SpawnAtom(c) PROVE TypeOK'
  BY <1>4, ArgUpdates DEF SpawnAtom, entry, life, refs, locks, caller, Pc,
      Section
<1>5. ASSUME NEW c \in Caller, GetNothing(c) PROVE TypeOK'
  BY <1>5, ArgUpdates DEF GetNothing, entry, life, refs, locks, caller, Pc,
      Section
<1>6. ASSUME NEW c \in Caller, Unlock(c) PROVE TypeOK'
  BY <1>6, ArgUpdates DEF Unlock, entry, life, refs, locks, caller, Pc, Section
<1>7. ASSUME NEW c \in Caller, Look(c) PROVE TypeOK'
  BY <1>7, ArgUpdates DEF Look, entry, life, refs, locks, caller, Pc, Section
<1>8. ASSUME NEW c \in Caller, ReleaseRead(c) PROVE TypeOK'
  BY <1>8, ArgUpdates DEF ReleaseRead, entry, life, refs, locks, caller, Pc,
      Section
<1>9. ASSUME NEW c \in Caller, GetLive(c) PROVE TypeOK'
  BY <1>9 DEF GetLive, entry, life, refs, locks, caller, Pc, Section
<1>10. ASSUME NEW c \in Caller, Lock(c) PROVE TypeOK'
  BY <1>10 DEF Lock, entry, life, refs, locks, caller, Pc, Section
<1>11. ASSUME NEW c \in Caller, Leave(c) PROVE TypeOK'
  BY <1>11 DEF Leave, entry, life, refs, locks, caller, Pc, Section
<1>12. ASSUME NEW c \in Caller, FoundStopping(c) PROVE TypeOK'
  BY <1>12 DEF FoundStopping, entry, life, refs, locks, caller, Pc, Section
<1>13. ASSUME NEW c \in Caller, FoundHalt(c) PROVE TypeOK'
  BY <1>13 DEF FoundHalt, entry, life, refs, locks, caller, Pc, Section
<1>14. ASSUME NEW c \in Caller, Stopped(c) PROVE TypeOK'
  BY <1>14 DEF Stopped, entry, life, refs, locks, caller, Pc, Section
<1>15. ASSUME NEW c \in Caller, StopTimeout(c) PROVE TypeOK'
  BY <1>15 DEF StopTimeout, entry, life, refs, locks, caller, Pc, Section
<1>16. ASSUME NEW c \in Caller, Started(c) PROVE TypeOK'
  BY <1>16 DEF Started, entry, life, refs, locks, caller, Pc, Section
<1>17. ASSUME NEW c \in Caller, StartFails(c) PROVE TypeOK'
  BY <1>17 DEF StartFails, entry, life, refs, locks, caller, Pc, Section
<1>18. ASSUME NEW c \in Caller, ReleaseCount(c) PROVE TypeOK'
  BY <1>18 DEF ReleaseCount, entry, life, refs, locks, caller, Pc, Section
<1>19. ASSUME NEW c \in Caller, DrainLock(c) PROVE TypeOK'
  BY <1>19 DEF DrainLock, entry, life, refs, locks, caller, Pc, Section
<1>20. ASSUME NEW c \in Caller, FoundRunning(c) PROVE TypeOK'
  <2>1. /\ pc' \in [Caller -> Pc]
        /\ mutex' \in [Instance -> Caller \cup {None}]
    <3> DEFINE i == arg[c].at
    <3>1. "leave" \in Pc /\ "ref" \in Pc
      BY DEF Pc, Section
    <3>2. /\ pc \in [Caller -> Pc]
          /\ mutex \in [Instance -> Caller \cup {None}]
      OBVIOUS
    <3>3. \/ Goto(c, "leave") /\ mutex' = mutex
          \/ Goto(c, "ref") /\ mutex' = [mutex EXCEPT ![i] = c]
      BY <1>20 DEF FoundRunning
    <3> HIDE DEF i, TypeOK
    <3>4. CASE Goto(c, "leave") /\ mutex' = mutex
      BY <3>1, <3>2, <3>4 DEF Goto
    <3>5. CASE Goto(c, "ref") /\ mutex' = [mutex EXCEPT ![i] = c]
      BY <3>1, <3>2, <3>5 DEF Goto
    <3>6. QED
      BY <3>3, <3>4, <3>5
  <2>2. UNCHANGED <<entry, life, refs, lockMap, elock, caller>>
    BY <1>20 DEF FoundRunning
  <2>3. QED
    BY <2>1, <2>2 DEF entry, life, refs, caller
<1>21. ASSUME NEW c \in Caller, GetOrPut(c) PROVE TypeOK'
  <2>1. PICK l \in SpawnLock :
          /\ lockMap' = [lock |-> l, count |-> lockMap.count + 1]
          /\ arg' = [arg EXCEPT ![c] = [@ EXCEPT !.lock = l]]
    BY <1>21, GetOrPutFacts
  <2>2. lockMap' \in [lock : SpawnLock \cup {None}, count : Nat]
    BY <2>1
  <2>3. arg' \in [Caller -> Arg]
    BY <2>1, ArgUpdates
  <2>4. QED
    BY <1>21, <2>2, <2>3 DEF GetOrPut, entry, life, refs, Pc
<1>22. ASSUME NEW c \in Caller, NewAtom(c) PROVE TypeOK'
  <2>1. made + 1 \in Instance /\ made + 1 \in 0 .. MaxInstance
    BY <1>22 DEF NewAtom, Instance
  <2>2. arg' \in [Caller -> Arg]
    BY <1>22, <2>1, ArgUpdates DEF NewAtom
  <2>3. phase' \in [Instance -> Phase]
    BY <1>22 DEF NewAtom, Phase
  <2>4. /\ names' \subseteq Instance
        /\ nameElement' \in [Instance -> 0 .. MaxInstance]
    <3>1. CASE arg[c].at = 0
      BY <1>22, <2>1, <3>1 DEF NewAtom
    <3>2. CASE arg[c].at # 0
      <4>1. arg[c].at \in Instance
        BY <1>1, <3>2, Ranges
      <4>2. nameElement[arg[c].at] \in 0 .. MaxInstance
        BY <4>1
      <4>3. QED
        BY <1>22, <3>2, <4>2 DEF NewAtom
    <3>3. QED
      BY <3>1, <3>2
  <2>5. QED
    BY <1>22, <2>1, <2>2, <2>3, <2>4 DEF NewAtom, refs, locks, Pc, Section
<1>23. ASSUME NEW c \in Caller, elementAtomRelease(c) PROVE TypeOK'
  <2>1. /\ atoms' \in 0 .. MaxInstance /\ names' \subseteq Instance
        /\ nameElement' \in [Instance -> 0 .. MaxInstance]
    BY <1>23, RemoveEntryFacts DEF elementAtomRelease
  <2>2. refStates' \in 0 .. MaxState
    BY <1>23 DEF elementAtomRelease
  <2>3. QED
    BY <1>23, <2>1, <2>2 DEF elementAtomRelease, life, locks, caller, Pc,
        Section
<1>24. ASSUME NEW c \in Caller, addRefAtom(c) PROVE TypeOK'
  <2>1. PICK s \in RefState :
          /\ refStates' = s
          /\ arg' = [arg EXCEPT ![c] = [@ EXCEPT !.st = s]]
    BY <1>24, AddRefAtomFacts
  <2>2. refStates' \in 0 .. MaxState /\ arg' \in [Caller -> Arg]
    BY <2>1, Ranges, ArgUpdates, WithZero
  <2>3. QED
    BY <1>24, <2>2 DEF addRefAtom, entry, life, locks, Pc
<1>25. ASSUME NEW c \in Caller, onInstanceRefsDrained(c) PROVE TypeOK'
  <2>1. /\ atoms' \in 0 .. MaxInstance /\ names' \subseteq Instance
        /\ nameElement' \in [Instance -> 0 .. MaxInstance]
        /\ refStates' \in 0 .. MaxState
    BY <1>25, RemoveEntryFacts DEF onInstanceRefsDrained
  <2>2. elock' = None /\ arg' \in [Caller -> Arg] /\ pc' \in [Caller -> Pc]
    BY <1>25, ArgUpdates DEF onInstanceRefsDrained, Pc
  <2>3. QED
    BY <1>25, <2>1, <2>2 DEF onInstanceRefsDrained, life
<1>26. ASSUME NEW i \in Instance, setSpawning(i) PROVE TypeOK'
  BY <1>26 DEF setSpawning, entry, life, refs, locks, caller, Phase, Becomes
<1>27. ASSUME NEW i \in Instance, setSpawn(i) PROVE TypeOK'
  BY <1>27 DEF setSpawn, entry, life, refs, locks, caller, Phase, Becomes
<1>28. ASSUME NEW i \in Instance, SpawnFailed(i) PROVE TypeOK'
  BY <1>28 DEF SpawnFailed, entry, life, refs, locks, caller, Phase, Becomes
<1>29. ASSUME NEW i \in Instance, setStopping(i) PROVE TypeOK'
  BY <1>29 DEF setStopping, entry, life, refs, locks, caller, Phase, Becomes
<1>30. ASSUME NEW i \in Instance, setHalted(i) PROVE TypeOK'
  BY <1>30 DEF setHalted, entry, life, refs, locks, caller, Phase, Becomes
<1>31. ASSUME NEW i \in Instance, StoppingRead(i) PROVE TypeOK'
  BY <1>31 DEF StoppingRead, entry, life, refs, locks, caller, Phase, Becomes
<1>32. ASSUME NEW i \in Instance, StoppingCount(i) PROVE TypeOK'
  BY <1>32 DEF StoppingCount, entry, life, refs, locks, caller, Phase, Becomes
<1>33. ASSUME NEW i \in Instance, elementAtomStopping(i) PROVE TypeOK'
  <2>1. /\ nameElement' \in [Instance -> 0 .. MaxInstance]
        /\ atoms' \in 0 .. MaxInstance /\ refStates' \in 0 .. MaxState
        /\ seen' \in [Instance -> 0 .. MaxState]
    BY <1>33, WithZero DEF elementAtomStopping
  <2>2. phase' \in [Instance -> Phase]
    BY <1>33 DEF elementAtomStopping, Phase
  <2>3. QED
    BY <1>33, <2>1, <2>2 DEF elementAtomStopping, locks, caller
<1>34. QED
  BY <1>3, <1>4, <1>5, <1>6, <1>7, <1>8, <1>9, <1>10, <1>11, <1>12, <1>13,
      <1>14, <1>15, <1>16, <1>17, <1>18, <1>19, <1>20, <1>21, <1>22, <1>23,
      <1>24, <1>25, <1>26, <1>27, <1>28, <1>29, <1>30, <1>31, <1>32, <1>33,
      AddRefTypes, ReleaseTypes
  DEF Next, Goes, Starts, Stops
-----------------------------------------------------------------------------
(* A step of one caller leaves the others alone, and an instance does not go *)
(* back.                                                                    *)
CallerStep(c) ==
  GetAtomID(c) \/ SpawnAtom(c) \/ Release(c) \/ StopTimeout(c) \/ Goes(c)
InstanceStep(i) == Starts(i) \/ setStopping(i) \/ Stops(i)

Stays(d) ==
  /\ pc'[d] = pc[d] /\ arg'[d] = arg[d] /\ tracker'[d] = tracker[d]
PhasesMove ==
  \A i \in Instance :
    /\ phase[i] # "none" => phase'[i] # "none"
    /\ phase[i] \notin {"none", "new"} => phase'[i] \notin {"none", "new"}
    /\ phase[i] = "failed" => phase'[i] = "failed"

\* A step of c leaves the other callers alone.
LEMMA OthersStay ==
  ASSUME TypeOK, NEW c \in Caller, CallerStep(c), NEW d \in Caller, d # c
  PROVE  Stays(d)
<1> USE DEF TypeOK, Stays, Goto, Done, caller
<1>1. CASE GetAtomID(c)
  BY <1>1 DEF GetAtomID
<1>2. CASE SpawnAtom(c)
  BY <1>2 DEF SpawnAtom
<1>3. CASE Release(c)
  BY <1>3 DEF Release
<1>4. CASE StopTimeout(c)
  BY <1>4 DEF StopTimeout
<1>5. CASE GetLive(c)
  BY <1>5 DEF GetLive
<1>6. CASE GetNothing(c)
  BY <1>6 DEF GetNothing
<1>7. CASE GetOrPut(c)
  BY <1>7 DEF GetOrPut
<1>8. CASE Lock(c)
  BY <1>8 DEF Lock
<1>9. CASE Leave(c)
  BY <1>9 DEF Leave
<1>10. CASE Unlock(c)
  BY <1>10 DEF Unlock
<1>11. CASE Look(c)
  BY <1>11 DEF Look
<1>12. CASE FoundRunning(c)
  BY <1>12 DEF FoundRunning
<1>13. CASE FoundStopping(c)
  BY <1>13 DEF FoundStopping
<1>14. CASE FoundHalt(c)
  BY <1>14 DEF FoundHalt
<1>15. CASE Stopped(c)
  BY <1>15 DEF Stopped
<1>16. CASE NewAtom(c)
  BY <1>16 DEF NewAtom
<1>17. CASE Started(c)
  BY <1>17 DEF Started
<1>18. CASE StartFails(c)
  BY <1>18 DEF StartFails
<1>19. CASE ReleaseRead(c)
  BY <1>19 DEF ReleaseRead
<1>20. CASE ReleaseCount(c)
  BY <1>20 DEF ReleaseCount
<1>21. CASE elementAtomRelease(c)
  BY <1>21 DEF elementAtomRelease
<1>22. CASE addRefAtom(c)
  BY <1>22 DEF addRefAtom
<1>23. CASE addRef(c)
  BY <1>23 DEF addRef
<1>24. CASE DrainLock(c)
  BY <1>24 DEF DrainLock
<1>25. CASE onInstanceRefsDrained(c)
  BY <1>25 DEF onInstanceRefsDrained
<1>26. QED
  BY <1>1, <1>2, <1>3, <1>4, <1>5, <1>6, <1>7, <1>8, <1>9, <1>10, <1>11,
      <1>12, <1>13, <1>14, <1>15, <1>16, <1>17, <1>18, <1>19, <1>20, <1>21,
      <1>22, <1>23, <1>24, <1>25
  DEF CallerStep, Goes

\* A step of an instance leaves the callers and the references alone.
LEMMA InstanceStays ==
  ASSUME NEW i \in Instance, InstanceStep(i)
  PROVE  UNCHANGED <<pc, arg, tracker, made, cells, hurried, lockMap, elock,
                     mutex>>
  BY DEF InstanceStep, Starts, Stops, setSpawning, setSpawn, SpawnFailed,
      setStopping, StoppingRead, StoppingCount, elementAtomStopping,
      setHalted, entry, refs, locks, caller, Becomes

\* An instance goes through its phases in their order.
LEMMA PhasesGoOn ==
  ASSUME IInv, Next
  PROVE  PhasesMove
<1>1. TypeOK /\ AtomRegistryAssumption /\ Entry
  BY AtomRegistryAssumption DEF IInv
<1>2. ASSUME NEW c \in Caller, CallerStep(c) PROVE PhasesMove
  <2>1. CASE NewAtom(c)
    <3>1. made + 1 \in Instance /\ phase[made + 1] = "none"
      BY <1>1, <2>1
      DEF NewAtom, TypeOK, AtomRegistryAssumption, Entry, Instance
    <3>2. phase' = [phase EXCEPT ![made + 1] = "new"]
      BY <2>1 DEF NewAtom
    <3>3. QED
      BY <1>1, <3>1, <3>2 DEF TypeOK, PhasesMove
  <2>2. CASE ~NewAtom(c)
    <3>1. phase' = phase
      BY <1>2, <2>2
      DEF CallerStep, Goes, life, GetAtomID, SpawnAtom, Release, StopTimeout,
          GetLive, GetNothing, GetOrPut, Lock, Leave, Unlock, Look,
          FoundRunning, FoundStopping, FoundHalt, Stopped, Started,
          StartFails, ReleaseRead, ReleaseCount, elementAtomRelease,
          addRefAtom, addRef, DrainLock, onInstanceRefsDrained
    <3>2. QED
      BY <3>1 DEF PhasesMove
  <2>3. QED
    BY <2>1, <2>2
<1>3. ASSUME NEW i \in Instance, InstanceStep(i) PROVE PhasesMove
  BY <1>1, <1>3
  DEF TypeOK, PhasesMove, InstanceStep, Starts, Stops, Becomes,
      setSpawning, setSpawn, SpawnFailed, setStopping, StoppingRead,
      StoppingCount, elementAtomStopping, setHalted
<1>4. QED
  BY <1>2, <1>3 DEF Next, CallerStep, InstanceStep

\* What a caller knows it goes on to know while others take steps.
LEMMA StaysLocated ==
  ASSUME TypeOK, PhasesMove, NEW d \in Caller, Located(d), Stays(d)
  PROVE  Located(d)'
<1>1. /\ arg[d].at # 0 => arg[d].at \in Instance
      /\ tracker[d] # None => tracker[d].at \in Instance
  BY Ranges
<1>2. QED
  BY <1>1 DEF Stays, PhasesMove, Located

\* Every step leaves each caller where it can be.
LEMMA LocatedStep ==
  ASSUME IInv, Next
  PROVE  \A c \in Caller : Located(c)'
<1>1. TypeOK /\ PhasesMove
  BY PhasesGoOn DEF IInv
<1>2. \A c \in Caller : Located(c)
  BY DEF IInv
<1>3. ASSUME NEW i \in Instance, InstanceStep(i)
      PROVE  \A c \in Caller : Located(c)'
  BY <1>1, <1>2, <1>3, InstanceStays, StaysLocated DEF Stays
<1>4. ASSUME NEW c \in Caller, CallerStep(c) PROVE Located(c)'
  <2>1. /\ Located(c)
        /\ arg[c].at # 0 => arg[c].at \in Instance
        /\ arg[c].st # 0 => arg[c].st \in RefState
        /\ tracker[c] # None =>
             /\ tracker[c] \in Tracker
             /\ tracker[c].st \in RefState /\ tracker[c].at \in Instance
        /\ arg[c] \in Arg
    BY <1>1, <1>2, Ranges
  <2> USE <1>1, <2>1 DEF TypeOK, Goto, Located, caller, PhasesMove
  <2>2. CASE GetAtomID(c)
    BY <2>2 DEF GetAtomID, Done, NoArg, Section
  <2>3. CASE SpawnAtom(c)
    BY <2>3 DEF SpawnAtom, Done, NoArg, Section
  <2>4. CASE Release(c)
    <3> DEFINE t == tracker[c]
    <3>1. /\ pc[c] = "idle" /\ t # None /\ arg[c] = NoArg
          /\ phase[t.at] \notin {"none", "new"} /\ tracker'[c] = None
      BY <2>4 DEF Release
    <3>2. t.at # 0 /\ t.st # 0
      <4>1. t.at \in Instance /\ t.st \in RefState
        BY <2>1, <3>1
      <4>2. 0 \notin Instance /\ 0 \notin RefState
        BY DEF Instance, RefState
      <4>3. QED
        BY ONLY <4>1, <4>2
    <3>3. CASE cells[t.st][t.at] = 1
      <4>1. pc'[c] = "drained" /\ arg'[c].at = t.at /\ arg'[c].st = t.st
            /\ arg'[c].lock = arg[c].lock
        <5> DEFINE r == [arg[c] EXCEPT !.at = t.at]
        <5>1. arg' = [arg EXCEPT ![c] = [r EXCEPT !.st = t.st]]
              /\ pc' = [pc EXCEPT ![c] = "drained"]
          BY <2>4, <3>3 DEF Release
        <5>2. [r EXCEPT !.st = t.st].at = t.at
              /\ [r EXCEPT !.st = t.st].st = t.st
              /\ [r EXCEPT !.st = t.st].lock = arg[c].lock
          BY <2>1 DEF Arg
        <5> HIDE DEF r
        <5>3. QED
          BY <5>1, <5>2
      <4>2. arg'[c].lock = None
        BY <3>1, <4>1 DEF NoArg
      <4>3. QED
        BY <3>1, <3>2, <4>1, <4>2 DEF Section
    <3>4. CASE cells[t.st][t.at] # 1
      <4>1. pc' = pc /\ arg' = arg
        BY <2>4, <3>4 DEF Release
      <4>2. QED
        BY <3>1, <4>1 DEF Section
    <3>5. QED
      BY <3>3, <3>4
  <2>5. CASE StopTimeout(c)
    BY <2>5 DEF StopTimeout, Done, NoArg, Section
  <2>6. CASE GetLive(c)
    BY <2>6 DEF GetLive, isNotHalt, Running, Stopping, Section, life
  <2>7. CASE GetNothing(c)
    <3>1. CASE Persistent
      <4>1. pc[c] = "got" /\ pc'[c] = "enter" /\ UNCHANGED <<arg, tracker>>
        BY <2>7, <3>1 DEF GetNothing
      <4>2. QED
        BY <4>1 DEF Section
    <3>2. CASE ~Persistent
      <4>1. /\ pc[c] = "got" /\ pc'[c] = "idle" /\ arg'[c] = NoArg
            /\ UNCHANGED tracker
        BY <2>7, <3>2 DEF GetNothing, Done
      <4>2. QED
        BY <4>1 DEF NoArg, Section
    <3>3. QED
      BY <3>1, <3>2
  <2>8. CASE GetOrPut(c)
    <3>1. PICK l \in SpawnLock :
            arg' = [arg EXCEPT ![c] = [@ EXCEPT !.lock = l]]
      BY <2>8, GetOrPutFacts
    <3>2. l # None
      BY AtomRegistryAssumption DEF AtomRegistryAssumption, SpawnLock
    <3>3. arg'[c].lock # None
      BY <2>1, <3>1, <3>2 DEF Arg
    <3>4. pc[c] = "enter" /\ pc'[c] = "lock" /\ tracker' = tracker
      BY <2>8 DEF GetOrPut
    <3>5. QED
      BY <3>3, <3>4 DEF Section
  <2>9. CASE Lock(c)
    BY <2>9 DEF Lock, Done, NoArg, Section
  <2>10. CASE Leave(c)
    BY <2>10 DEF Leave, Done, NoArg, Section
  <2>11. CASE Unlock(c)
    BY <2>11 DEF Unlock, Done, NoArg, Section
  <2>12. CASE Look(c)
    BY <2>12 DEF Look, Done, NoArg, Section
  <2>13. CASE FoundRunning(c)
    <3>1. pc[c] = "meet" /\ Running(arg[c].at)
      BY <2>13 DEF FoundRunning, Meets
    <3>2. pc' = [pc EXCEPT ![c] = "leave"] \/ pc' = [pc EXCEPT ![c] = "ref"]
      BY <2>13 DEF FoundRunning
    <3>3. arg' = arg /\ tracker' = tracker
      BY <2>13 DEF FoundRunning
    <3>4. phase[arg[c].at] \notin {"none", "new"} /\ arg[c].at # 0
      BY <3>1 DEF Running, Section
    <3>5. QED
      BY <3>1, <3>2, <3>3, <3>4 DEF Section
  <2>14. CASE FoundStopping(c)
    BY <2>14 DEF FoundStopping, Meets, Section
  <2>15. CASE FoundHalt(c)
    BY <2>15 DEF FoundHalt, Meets, Section
  <2>16. CASE Stopped(c)
    BY <2>16 DEF Stopped, Done, NoArg, Section
  <2>17. CASE NewAtom(c)
    <3>1. made + 1 \in Instance /\ made + 1 # 0
      BY <2>17, AtomRegistryAssumption
      DEF NewAtom, AtomRegistryAssumption, Instance
    <3>2. arg' = [arg EXCEPT ![c] = [@ EXCEPT !.at = made + 1]]
          /\ phase' = [phase EXCEPT ![made + 1] = "new"]
          /\ pc[c] = "make" /\ pc'[c] = "starting" /\ tracker' = tracker
      BY <2>17 DEF NewAtom
    <3>3. arg'[c].at = made + 1 /\ arg'[c].lock = arg[c].lock
      BY <2>1, <3>2 DEF Arg
    <3>4. phase'[made + 1] = "new"
      BY <3>1, <3>2
    <3>5. QED
      BY <3>1, <3>2, <3>3, <3>4 DEF Section
  <2>18. CASE Started(c)
    BY <2>18 DEF Started, Done, NoArg, Section
  <2>19. CASE StartFails(c)
    BY <2>19 DEF StartFails, Done, NoArg, Section
  <2>20. CASE ReleaseRead(c)
    BY <2>20 DEF ReleaseRead, Done, NoArg, Section
  <2>21. CASE ReleaseCount(c)
    BY <2>21 DEF ReleaseCount, Done, NoArg, Section
  <2>22. CASE elementAtomRelease(c)
    BY <2>22 DEF elementAtomRelease, Done, NoArg, Section
  <2>23. CASE addRefAtom(c)
    <3>1. PICK s \in RefState : arg' = [arg EXCEPT ![c] = [@ EXCEPT !.st = s]]
      BY <2>23, AddRefAtomFacts
    <3>2. arg'[c].st = s /\ arg'[c].at = arg[c].at /\ arg'[c].lock = arg[c].lock
      BY <2>1, <3>1 DEF Arg
    <3>3. s # 0
      BY DEF RefState
    <3>4. /\ pc[c] = "ref" /\ pc'[c] = "ref2" /\ tracker' = tracker
          /\ phase' = phase
      BY <2>23 DEF addRefAtom, life
    <3>5. QED
      BY <3>2, <3>3, <3>4 DEF Section
  <2>24. CASE addRef(c)
    <3>1. /\ pc[c] = "ref2" /\ arg[c].at # 0 /\ arg[c].st # 0
          /\ phase[arg[c].at] \notin {"none", "new"}
      BY <2>24 DEF addRef
    <3>2. tracker'[c].at = arg[c].at
      BY <2>24 DEF addRef
    <3>3. CASE Holds(c)
      <4> DEFINE r == [arg[c] EXCEPT !.at = 0]
      <4>1. pc'[c] = "leave" /\ arg' = [arg EXCEPT ![c] = [r EXCEPT !.st = 0]]
        BY <2>24, <3>3 DEF addRef
      <4>2. [r EXCEPT !.st = 0].lock = arg[c].lock
        BY <2>1 DEF Arg
      <4> HIDE DEF r
      <4>3. arg'[c].lock # None
        BY <3>3, <4>1, <4>2 DEF Holds
      <4>4. QED
        BY <3>1, <3>2, <4>1, <4>3 DEF Section
    <3>4. CASE ~Holds(c)
      <4>1. pc'[c] = "idle" /\ arg'[c] = NoArg
        BY <2>24, <3>4 DEF addRef, Done
      <4>2. QED
        BY <3>1, <3>2, <4>1 DEF Section
    <3>5. QED
      BY <3>3, <3>4
  <2>25. CASE DrainLock(c)
    BY <2>25 DEF DrainLock, Done, NoArg, Section
  <2>26. CASE onInstanceRefsDrained(c)
    BY <2>26 DEF onInstanceRefsDrained, Done, NoArg, Section
  <2>27. QED
    BY <1>4, <2>2, <2>3, <2>4, <2>5, <2>6, <2>7, <2>8, <2>9, <2>10, <2>11,
        <2>12, <2>13, <2>14, <2>15, <2>16, <2>17, <2>18, <2>19, <2>20, <2>21,
        <2>22, <2>23, <2>24, <2>25, <2>26
    DEF CallerStep, Goes
<1>5. ASSUME NEW c \in Caller, CallerStep(c), NEW d \in Caller, d # c
      PROVE  Located(d)'
  BY <1>1, <1>2, <1>5, OthersStay, StaysLocated
<1>6. QED
  BY <1>3, <1>4, <1>5 DEF Next, CallerStep, InstanceStep
-----------------------------------------------------------------------------
(* The spawn lock: who has the mutex of the name, who counts, who holds it.  *)
SameLocks ==
  /\ lockMap' = lockMap
  /\ \A d \in Caller :
       /\ arg'[d].lock = arg[d].lock
       /\ arg[d].lock # None => (pc'[d] = "unlock" <=> pc[d] = "unlock")
       /\ Holds(d)' => Holds(d)

\* The steps that leave the mutexes and their users alone.
LEMMA SameLocksLocks ==
  ASSUME TypeOK, Locks, SameLocks
  PROVE  Locks'
<1>1. WithLock' = WithLock
  BY DEF SameLocks, WithLock
<1>2. Users' = Users
  BY <1>1 DEF SameLocks, Users, WithLock
<1>3. Shared'
  BY <1>2 DEF SameLocks, Locks, Shared, Users, WithLock
<1>4. OneHolder'
  BY DEF SameLocks, Locks, OneHolder
<1>5. QED
  BY <1>1, <1>2, <1>3, <1>4 DEF Locks, SameLocks

\* The mutexes of the operations, and the places within them, stay.
LEMMA CallerSameLocks ==
  ASSUME IInv, NEW c \in Caller, CallerStep(c),
         ~GetOrPut(c), ~Lock(c), ~Leave(c), ~Unlock(c)
  PROVE  SameLocks
<1>1. TypeOK /\ Located(c) /\ arg[c] \in Arg
  BY Ranges DEF IInv
<1>2. SUFFICES /\ lockMap' = lockMap
               /\ arg'[c].lock = arg[c].lock
               /\ arg[c].lock # None => (pc'[c] = "unlock" <=> pc[c] = "unlock")
               /\ Holds(c)' => Holds(c)
  <2>1. \A d \in Caller : d # c => Stays(d)
    BY <1>1, OthersStay
  <2>2. QED
    BY <1>2, <2>1 DEF Stays, SameLocks, Holds
<1> USE <1>1 DEF TypeOK, Goto, Located, caller, locks, Holds
<1>3. CASE GetAtomID(c)
  BY <1>3 DEF GetAtomID, Done, NoArg, Section, Arg
<1>4. CASE SpawnAtom(c)
  BY <1>4 DEF SpawnAtom, Done, NoArg, Section, Arg
<1>5. CASE Release(c)
  BY <1>5 DEF Release, Done, NoArg, Section, Arg
<1>6. CASE StopTimeout(c)
  BY <1>6 DEF StopTimeout, Done, NoArg, Section, Arg
<1>7. CASE GetLive(c)
  BY <1>7 DEF GetLive, Done, NoArg, Section, Arg
<1>8. CASE GetNothing(c)
  BY <1>8 DEF GetNothing, Done, NoArg, Section, Arg
<1>9. CASE Look(c)
  BY <1>9 DEF Look, Done, NoArg, Section, Arg
<1>10. CASE FoundRunning(c)
  BY <1>10 DEF FoundRunning, Meets, Done, NoArg, Section, Arg
<1>11. CASE FoundStopping(c)
  BY <1>11 DEF FoundStopping, Meets, Done, NoArg, Section, Arg
<1>12. CASE FoundHalt(c)
  BY <1>12 DEF FoundHalt, Meets, Done, NoArg, Section, Arg
<1>13. CASE Stopped(c)
  BY <1>13 DEF Stopped, Done, NoArg, Section, Arg
<1>14. CASE NewAtom(c)
  BY <1>14 DEF NewAtom, Done, NoArg, Section, Arg
<1>15. CASE Started(c)
  BY <1>15 DEF Started, Done, NoArg, Section, Arg
<1>16. CASE StartFails(c)
  BY <1>16 DEF StartFails, Done, NoArg, Section, Arg
<1>17. CASE ReleaseRead(c)
  BY <1>17 DEF ReleaseRead, Done, NoArg, Section, Arg
<1>18. CASE ReleaseCount(c)
  BY <1>18 DEF ReleaseCount, Done, NoArg, Section, Arg
<1>19. CASE elementAtomRelease(c)
  BY <1>19 DEF elementAtomRelease, Done, NoArg, Section, Arg
<1>20. CASE addRefAtom(c)
  BY <1>20 DEF addRefAtom, Done, NoArg, Section, Arg
<1>21. CASE addRef(c)
  BY <1>21 DEF addRef, Done, NoArg, Section, Arg
<1>22. CASE DrainLock(c)
  BY <1>22 DEF DrainLock, Done, NoArg, Section, Arg
<1>23. CASE onInstanceRefsDrained(c)
  BY <1>23 DEF onInstanceRefsDrained, Done, NoArg, Section, Arg
<1>24. QED
  BY <1>3, <1>4, <1>5, <1>6, <1>7, <1>8, <1>9, <1>10, <1>11, <1>12, <1>13,
      <1>14, <1>15, <1>16, <1>17, <1>18, <1>19, <1>20, <1>21, <1>22, <1>23
  DEF CallerStep, Goes

\* GetOrPut: one more that has the mutex of the name, and counts.
LEMMA GetOrPutLocks ==
  ASSUME IInv, NEW c \in Caller, GetOrPut(c)
  PROVE  Locks'
<1>1. PICK l \in SpawnLock :
        /\ lockMap' = [lock |-> l, count |-> lockMap.count + 1]
        /\ arg' = [arg EXCEPT ![c] = [@ EXCEPT !.lock = l]]
        /\ lockMap.lock # None => l = lockMap.lock
        /\ lockMap.lock = None => \A d \in Caller : arg[d].lock # l
  BY GetOrPutFacts
<1>2. /\ TypeOK /\ Locks /\ arg[c].lock = None /\ arg[c] \in Arg
      /\ pc[c] = "enter" /\ pc' = [pc EXCEPT ![c] = "lock"]
  BY Ranges DEF IInv, GetOrPut, Goto, Located
<1>3. l # None
  BY AtomRegistryAssumption DEF AtomRegistryAssumption, SpawnLock
<1>4. /\ arg'[c].lock = l /\ pc'[c] = "lock"
      /\ \A d \in Caller : d # c => arg'[d] = arg[d] /\ pc'[d] = pc[d]
  BY <1>1, <1>2 DEF TypeOK, Arg
<1>5. WithLock' = WithLock \cup {c} /\ c \notin WithLock
  BY <1>2, <1>3, <1>4 DEF WithLock
<1>6. Users' = Users \cup {c} /\ c \notin Users
  BY <1>3, <1>4, <1>5 DEF Users, WithLock
<1>7. Shared'
  <2>1. SUFFICES ASSUME NEW d \in Users PROVE arg[d].lock = l
    BY <1>1, <1>4, <1>6 DEF Shared, Users, WithLock
  <2>2. arg[d].lock = lockMap.lock /\ arg[d].lock # None
    BY <1>2 DEF Locks, Shared, Users, WithLock
  <2>3. QED
    BY <1>1, <2>2
<1>8. IsFiniteSet(WithLock') /\ Cardinality(Users') = Cardinality(Users) + 1
  <2>1. IsFiniteSet(WithLock) /\ IsFiniteSet(Users)
    BY <1>2, FS_Subset DEF Locks, Users
  <2>2. QED
    BY <1>5, <1>6, <2>1, FS_AddElement
<1>9. OneHolder'
  <2>1. \A d \in Caller : Holds(d)' => d # c /\ Holds(d)
    BY <1>4 DEF Holds, Section
  <2>2. QED
    BY <1>2, <1>4, <2>1 DEF Locks, OneHolder
<1>10. QED
  BY <1>1, <1>2, <1>7, <1>8, <1>9 DEF Locks

\* Lock: nobody holds the mutex.
LEMMA LockLocks ==
  ASSUME IInv, NEW c \in Caller, Lock(c)
  PROVE  Locks'
<1>1. /\ TypeOK /\ Locks
      /\ pc[c] = "lock" /\ pc' = [pc EXCEPT ![c] = "inside"]
      /\ arg' = arg /\ lockMap' = lockMap
      /\ \A d \in Caller : Holds(d) => arg[d].lock # arg[c].lock
  BY DEF IInv, Lock, Goto, caller, locks
<1>2. pc'[c] = "inside" /\ \A d \in Caller : d # c => pc'[d] = pc[d]
  BY <1>1 DEF TypeOK
<1>3. WithLock' = WithLock /\ Users' = Users
  BY <1>1, <1>2 DEF WithLock, Users
<1>4. Shared'
  BY <1>1, <1>3 DEF Shared, Locks
<1>5. \A d \in Caller : d # c => (Holds(d)' <=> Holds(d))
  BY <1>1, <1>2 DEF Holds
<1>6. OneHolder'
  BY <1>1, <1>5 DEF Locks, OneHolder
<1>7. QED
  BY <1>1, <1>3, <1>4, <1>6 DEF Locks

(* Remove: the caller does not count any more; when it was the only one the  *)
(* map forgets the mutex, and nobody uses it.                               *)
LEMMA LeaveLocks ==
  ASSUME IInv, NEW c \in Caller, Leave(c)
  PROVE  Locks'
<1>1. /\ TypeOK /\ Locks /\ arg[c].lock # None
      /\ pc[c] = "leave" /\ pc' = [pc EXCEPT ![c] = "unlock"]
      /\ arg' = arg
      /\ lockMap' = IF lockMap.count > 1
                    THEN [lockMap EXCEPT !.count = @ - 1]
                    ELSE [lock |-> None, count |-> 0]
  BY DEF IInv, Leave, Goto, caller, Located, Section
<1>2. pc'[c] = "unlock" /\ \A d \in Caller : d # c => pc'[d] = pc[d]
  BY <1>1 DEF TypeOK
<1>3. /\ WithLock' = WithLock
      /\ c \in Users /\ Users' = Users \ {c}
  BY <1>1, <1>2 DEF WithLock, Users
<1>4. /\ IsFiniteSet(Users) /\ Cardinality(Users) \in Nat
      /\ Cardinality(Users) # 0
      /\ IsFiniteSet(Users \ {c})
      /\ Cardinality(Users \ {c}) = Cardinality(Users) - 1
  <2>1. IsFiniteSet(Users)
    BY <1>1, FS_Subset DEF Locks, Users
  <2>2. Cardinality(Users) \in Nat /\ Cardinality(Users) # 0
    BY <1>3, <2>1, FS_EmptySet, FS_CardinalityType
  <2>3. QED
    BY <1>3, <2>1, <2>2, FS_RemoveElement
<1>5. OneHolder'
  <2>1. \A d \in Caller : Holds(d)' <=> Holds(d)
    BY <1>1, <1>2 DEF Holds, Section
  <2>2. QED
    BY <1>1, <2>1 DEF Locks, OneHolder
<1>6. CASE lockMap.count > 1
  <2>1. lockMap'.lock = lockMap.lock /\ lockMap'.count = lockMap.count - 1
    BY <1>1, <1>6 DEF TypeOK
  <2>2. Shared'
    BY <1>1, <1>3, <2>1 DEF Shared, Locks
  <2>3. QED
    BY <1>1, <1>3, <1>4, <1>5, <2>1, <2>2 DEF Locks
<1>7. CASE ~(lockMap.count > 1)
  <2>1. Cardinality(Users) = 1 /\ lockMap' = [lock |-> None, count |-> 0]
    BY <1>1, <1>4, <1>7 DEF Locks
  <2>2. Users' = {}
    BY <1>3, <1>4, <2>1, FS_EmptySet
  <2>3. Shared' /\ lockMap'.count = Cardinality(Users')
    BY <2>1, <2>2, FS_EmptySet DEF Shared
  <2>4. QED
    BY <1>1, <1>3, <1>5, <2>3 DEF Locks
<1>8. QED
  BY <1>6, <1>7

\* Unlock: the caller, which did not count, has no mutex.
LEMMA UnlockLocks ==
  ASSUME IInv, NEW c \in Caller, Unlock(c)
  PROVE  Locks'
<1>1. /\ TypeOK /\ Locks
      /\ pc[c] = "unlock" /\ pc' = [pc EXCEPT ![c] = "idle"]
      /\ arg' = [arg EXCEPT ![c] = NoArg] /\ lockMap' = lockMap
  BY DEF IInv, Unlock, Goto, Done, locks
<1>2. /\ pc'[c] = "idle" /\ arg'[c].lock = None
      /\ \A d \in Caller : d # c => pc'[d] = pc[d] /\ arg'[d] = arg[d]
  BY <1>1 DEF TypeOK, NoArg
<1>3. WithLock' = WithLock \ {c} /\ Users' = Users
  BY <1>1, <1>2 DEF WithLock, Users
<1>4. IsFiniteSet(WithLock')
  BY <1>1, <1>3, FS_RemoveElement DEF Locks
<1>5. Shared'
  BY <1>1, <1>2, <1>3 DEF Shared, Locks, Users
<1>6. OneHolder'
  <2>1. \A d \in Caller : Holds(d)' => d # c /\ Holds(d)
    BY <1>2 DEF Holds
  <2>2. QED
    BY <1>1, <1>2, <2>1 DEF Locks, OneHolder
<1>7. QED
  BY <1>1, <1>3, <1>4, <1>5, <1>6 DEF Locks

\* Every step keeps the mutex of the name to one holder.
LEMMA LocksStep ==
  ASSUME IInv, Next
  PROVE  Locks'
<1>1. TypeOK /\ Locks
  BY DEF IInv
<1>2. ASSUME NEW i \in Instance, InstanceStep(i) PROVE Locks'
  <2>1. SameLocks
    BY <1>2, InstanceStays DEF SameLocks, Holds
  <2>2. QED
    BY <1>1, <2>1, SameLocksLocks
<1>3. ASSUME NEW c \in Caller, CallerStep(c) PROVE Locks'
  BY <1>1, <1>3, GetOrPutLocks, LockLocks, LeaveLocks, UnlockLocks,
     CallerSameLocks, SameLocksLocks
<1>4. QED
  BY <1>2, <1>3 DEF Next, CallerStep, InstanceStep
-----------------------------------------------------------------------------
\* The cells count the trackers: only addRef and Release change either.
LEMMA SameCounted ==
  ASSUME Counted, cells' = cells, tracker' = tracker
  PROVE  Counted'
<1>1. \A s \in RefState, i \in Instance : Holders(s, i)' = Holders(s, i)
  BY DEF Holders
<1>2. QED
  BY <1>1 DEF Counted

\* Of a caller's steps only addRef and Release change the counters.
LEMMA CallerSameCells ==
  ASSUME NEW c \in Caller, CallerStep(c), ~addRef(c), ~Release(c)
  PROVE  cells' = cells /\ tracker' = tracker
  BY DEF CallerStep, Goes, caller, refs, GetAtomID, SpawnAtom, StopTimeout,
      GetLive, GetNothing, GetOrPut, Lock, Leave, Unlock, Look, FoundRunning,
      FoundStopping, FoundHalt, Stopped, NewAtom, Started, StartFails,
      ReleaseRead, ReleaseCount, elementAtomRelease, addRefAtom, DrainLock,
      onInstanceRefsDrained

\* addRef counts the tracker it makes.
LEMMA AddRefCounted ==
  ASSUME IInv, NEW c \in Caller, addRef(c)
  PROVE  Counted'
<1>0. PICK at \in Instance, st \in RefState : at = arg[c].at /\ st = arg[c].st
  BY Ranges DEF IInv, addRef, Located
<1>1. TypeOK /\ Counted /\ tracker[c] = None
  BY DEF IInv, addRef, Located
<1>2. /\ cells' = [cells EXCEPT ![st][at] = @ + 1]
      /\ \E b \in BOOLEAN :
           tracker' = [tracker EXCEPT
                         ![c] = [st |-> st, at |-> at, early |-> b]]
  BY <1>0 DEF addRef, Running
<1>3. /\ tracker'[c] # None /\ tracker'[c].st = st /\ tracker'[c].at = at
      /\ \A d \in Caller : d # c => tracker'[d] = tracker[d]
  <2>1. PICK b \in BOOLEAN :
          tracker' = [tracker EXCEPT ![c] = [st |-> st, at |-> at, early |-> b]]
    BY <1>2
  <2>2. tracker'[c] = [st |-> st, at |-> at, early |-> b]
    BY <1>1, <2>1 DEF TypeOK
  <2>3. tracker'[c] \in Tracker
    BY <1>0, <2>2 DEF Tracker
  <2>4. QED
    BY <1>1, <2>1, <2>2, <2>3, NoneAssumption DEF TypeOK
<1>4. /\ Holders(st, at)' = Holders(st, at) \cup {c}
      /\ c \notin Holders(st, at)
      /\ \A s \in RefState, i \in Instance :
           s # st \/ i # at => Holders(s, i)' = Holders(s, i)
  <2>1. Holders(st, at)' = Holders(st, at) \cup {c}
    BY <1>1, <1>3 DEF Holders
  <2>2. c \notin Holders(st, at)
    BY <1>1 DEF Holders
  <2>3. ASSUME NEW s \in RefState, NEW i \in Instance, s # st \/ i # at
        PROVE  Holders(s, i)' = Holders(s, i)
    BY <1>1, <1>3, <2>3 DEF Holders
  <2>4. QED
    BY <2>1, <2>2, <2>3
<1>5. /\ cells'[st][at] = cells[st][at] + 1
      /\ \A s \in RefState, i \in Instance :
           s # st \/ i # at => cells'[s][i] = cells[s][i]
  BY <1>1, <1>2 DEF TypeOK
<1>6. IsFiniteSet(Holders(st, at)')
      /\ Cardinality(Holders(st, at)') = Cardinality(Holders(st, at)) + 1
  BY <1>1, <1>4, FS_AddElement DEF Counted
<1>7. ASSUME NEW s \in RefState, NEW i \in Instance
      PROVE  IsFiniteSet(Holders(s, i)')
             /\ cells'[s][i] = Cardinality(Holders(s, i)')
  <2>1. IsFiniteSet(Holders(s, i)) /\ cells[s][i] = Cardinality(Holders(s, i))
    BY <1>1 DEF Counted
  <2>2. CASE s = st /\ i = at
    BY <1>5, <1>6, <2>1, <2>2
  <2>3. CASE s # st \/ i # at
    BY <1>4, <1>5, <2>1, <2>3
  <2>4. QED
    BY <2>2, <2>3
<1>8. QED
  BY <1>7 DEF Counted

\* Release takes the tracker out of the counter that has it.
LEMMA ReleaseCounted ==
  ASSUME IInv, NEW c \in Caller, Release(c)
  PROVE  Counted'
<1>0. PICK at \in Instance, st \in RefState :
        at = tracker[c].at /\ st = tracker[c].st
  BY Ranges DEF IInv, Release
<1>1. TypeOK /\ Counted /\ tracker[c] # None
  BY DEF IInv, Release
<1>2. /\ cells' = [cells EXCEPT ![st][at] = @ - 1]
      /\ tracker' = [tracker EXCEPT ![c] = None]
      /\ c \in Holders(st, at)
  BY <1>1, <1>0 DEF Release, Holders
<1>3. \A d \in Caller :
        /\ d # c => tracker'[d] = tracker[d]
        /\ d = c => tracker'[d] = None
  BY <1>1, <1>2 DEF TypeOK
<1>4. /\ Holders(st, at)' = Holders(st, at) \ {c}
      /\ \A s \in RefState, i \in Instance :
           s # st \/ i # at => Holders(s, i)' = Holders(s, i)
  <2>1. Holders(st, at)' = Holders(st, at) \ {c}
    BY <1>3 DEF Holders
  <2>2. ASSUME NEW s \in RefState, NEW i \in Instance, s # st \/ i # at
        PROVE  Holders(s, i)' = Holders(s, i)
    BY <1>0, <1>1, <1>3, <2>2 DEF Holders
  <2>3. QED
    BY <2>1, <2>2
<1>5. /\ cells'[st][at] = cells[st][at] - 1
      /\ \A s \in RefState, i \in Instance :
           s # st \/ i # at => cells'[s][i] = cells[s][i]
  BY <1>1, <1>2 DEF TypeOK
<1>6. IsFiniteSet(Holders(st, at)')
      /\ Cardinality(Holders(st, at)') = Cardinality(Holders(st, at)) - 1
  BY <1>1, <1>2, <1>4, FS_RemoveElement DEF Counted
<1>7. ASSUME NEW s \in RefState, NEW i \in Instance
      PROVE  IsFiniteSet(Holders(s, i)')
             /\ cells'[s][i] = Cardinality(Holders(s, i)')
  <2>1. IsFiniteSet(Holders(s, i)) /\ cells[s][i] = Cardinality(Holders(s, i))
    BY <1>1 DEF Counted
  <2>2. CASE s = st /\ i = at
    BY <1>5, <1>6, <2>1, <2>2
  <2>3. CASE s # st \/ i # at
    BY <1>4, <1>5, <2>1, <2>3
  <2>4. QED
    BY <2>2, <2>3
<1>8. QED
  BY <1>7 DEF Counted

\* Every step keeps the counters equal to the trackers.
LEMMA CountedStep ==
  ASSUME IInv, Next
  PROVE  Counted'
<1>1. Counted
  BY DEF IInv
<1>2. ASSUME NEW i \in Instance, InstanceStep(i) PROVE Counted'
  BY <1>1, <1>2, InstanceStays, SameCounted
<1>3. ASSUME NEW c \in Caller, CallerStep(c) PROVE Counted'
  BY <1>1, <1>3, AddRefCounted, ReleaseCounted, CallerSameCells, SameCounted
<1>4. QED
  BY <1>2, <1>3 DEF Next, CallerStep, InstanceStep
-----------------------------------------------------------------------------
(* One goroutine at a time is in the section of the spawn: those that are    *)
(* there have the mutex of the name, and it has one holder.                 *)
LEMMA OneInSection ==
  ASSUME IInv, NEW c \in Caller, NEW d \in Caller,
         pc[c] \in Section, pc[d] \in Section
  PROVE  c = d
<1>1. /\ \A e \in Caller : Located(e)
      /\ Shared /\ OneHolder
  BY DEF IInv, Locks
<1>2. c \in Users /\ d \in Users /\ Holds(c) /\ Holds(d)
  BY <1>1 DEF Located, Users, WithLock, Section, Holds
<1>3. QED
  BY <1>1, <1>2 DEF Shared, OneHolder

(* What most steps do to the entry: it is dropped or left alone, and no     *)
(* instance becomes live or loses its starter.                              *)
EntryShrinks ==
  /\ made' = made
  /\ atoms' = atoms \/ (atoms' = 0 /\ \A i \in Instance : ~Live(i)')
  /\ \A i \in Instance :
       /\ Live(i)' => Live(i)
       /\ phase'[i] = "none" <=> phase[i] = "none"
       /\ phase'[i] = "new" => phase[i] = "new"
       /\ stoppingChan'[i] => phase'[i] \in {"halt", "failed"}
  /\ \A d \in Caller :
       /\ pc'[d] \in {"meet", "waitStop"}
            => pc'[d] = pc[d] /\ arg'[d].at = arg[d].at
       /\ pc'[d] = "make" => pc[d] \in {"waitStop", "make"}
       /\ pc[d] = "starting" =>
            \/ pc'[d] = "starting" /\ arg'[d].at = arg[d].at
            \/ phase[arg[d].at] # "new"

\* The steps by which the entry can only go.
LEMMA EntryShrinksEntry ==
  ASSUME Entry, EntryShrinks
  PROVE  Entry'
<1>1. LiveIsEntry'
  BY DEF Entry, EntryShrinks, LiveIsEntry
<1>2. atoms' \in {0, made'} /\ \A i \in Instance : phase'[i] = "none" <=> i >
    made'
  BY DEF Entry, EntryShrinks
<1>3. ASSUME NEW i \in Instance, phase'[i] = "new"
      PROVE  \E c \in Caller : pc'[c] = "starting" /\ arg'[c].at = i
  BY <1>3 DEF Entry, EntryShrinks
<1>4. \A i \in Instance : stoppingChan'[i] => phase'[i] \in {"halt", "failed"}
  BY DEF EntryShrinks
<1>5. \A c \in Caller :
        pc'[c] \in {"meet", "waitStop"} => atoms' \in {0, arg'[c].at}
  BY DEF Entry, EntryShrinks
<1>6. \A c \in Caller :
        pc'[c] \in {"waitStop", "make"} => \A i \in Instance : ~Live(i)'
  BY DEF Entry, EntryShrinks
<1>7. QED
  BY <1>1, <1>2, <1>3, <1>4, <1>5, <1>6 DEF Entry

\* The steps of a caller that neither look at the entry nor make one.
LEMMA CallerEntryShrinks ==
  ASSUME IInv, NEW c \in Caller, CallerStep(c),
         ~Look(c), ~FoundStopping(c), ~FoundHalt(c), ~NewAtom(c)
  PROVE  EntryShrinks
<1>1. TypeOK /\ Located(c) /\ arg[c] \in Arg /\ Entry
  BY Ranges DEF IInv
<1>2. \A d \in Caller : d # c => Stays(d)
  BY <1>1, OthersStay
<1>3. ASSUME /\ UNCHANGED <<atoms, made, phase>>
             /\ \A i \in Instance : stoppingChan'[i] => stoppingChan[i]
             /\ pc'[c] \notin {"meet", "waitStop"}
             /\ pc'[c] = "make" => pc[c] \in {"waitStop", "make"}
             /\ pc[c] = "starting" => phase[arg[c].at] # "new"
      PROVE  EntryShrinks
  BY <1>1, <1>2, <1>3 DEF Stays, EntryShrinks, Live, Entry
<1>4. ASSUME NEW i, RemoveEntry(i), UNCHANGED <<made, phase, stoppingChan>>,
             atoms = i => ~Live(i),
             pc[c] # "starting", pc'[c] \notin {"meet", "waitStop", "make"}
      PROVE  EntryShrinks
  <2>1. atoms' = IF atoms = i THEN 0 ELSE atoms
    BY <1>1, <1>4, RemoveEntryFacts
  <2>2. atoms' = atoms \/ (atoms' = 0 /\ \A j \in Instance : ~Live(j)')
    BY <1>1, <1>4, <2>1 DEF Entry, LiveIsEntry, Live
  <2>3. QED
    BY <1>1, <1>2, <1>4, <2>2 DEF Stays, EntryShrinks, Live, Entry
<1>5. CASE elementAtomRelease(c)
  BY <1>1, <1>4, <1>5 DEF elementAtomRelease, life, Goto, TypeOK, Located, Live
<1>6. CASE onInstanceRefsDrained(c)
  <2>1. /\ UNCHANGED <<made, phase, stoppingChan>>
        /\ pc[c] = "drain" /\ pc'[c] = "idle"
        /\ phase[arg[c].at] \notin {"none", "new"}
    BY <1>1, <1>6 DEF onInstanceRefsDrained, life, Goto, Done, TypeOK, Located
  <2>2. CASE atoms = arg[c].at /\ isNotHalt(arg[c].at)
    <3>1. UNCHANGED <<atoms, made, phase, stoppingChan>>
      BY <1>6, <2>1, <2>2 DEF onInstanceRefsDrained
    <3>2. QED
      BY <1>3, <2>1, <3>1
  <2>3. CASE ~(atoms = arg[c].at /\ isNotHalt(arg[c].at))
    <3>1. RemoveEntry(arg[c].at)
      BY <1>6, <2>3 DEF onInstanceRefsDrained
    <3>2. atoms = arg[c].at => ~Live(arg[c].at)
      BY <2>1, <2>3 DEF Live, isNotHalt, Running
    <3>3. QED
      BY <1>4, <2>1, <3>1, <3>2
  <2>4. QED
    BY <2>2, <2>3
<1>7. CASE Started(c) \/ StartFails(c)
  BY <1>1, <1>3, <1>7 DEF Started, StartFails, entry, life, Goto, TypeOK
<1> USE <1>1, <1>3 DEF TypeOK, Goto, Done, life, entry
<1>8. CASE GetAtomID(c)
  BY <1>8 DEF GetAtomID
<1>9. CASE SpawnAtom(c)
  BY <1>9 DEF SpawnAtom
<1>10. CASE Release(c)
  BY <1>10 DEF Release
<1>11. CASE StopTimeout(c)
  BY <1>11 DEF StopTimeout
<1>12. CASE GetLive(c)
  BY <1>12 DEF GetLive
<1>13. CASE GetNothing(c)
  BY <1>13 DEF GetNothing
<1>14. CASE GetOrPut(c)
  BY <1>14 DEF GetOrPut
<1>15. CASE Lock(c)
  BY <1>15 DEF Lock
<1>16. CASE Leave(c)
  BY <1>16 DEF Leave
<1>17. CASE Unlock(c)
  BY <1>17 DEF Unlock
<1>18. CASE FoundRunning(c)
  BY <1>18 DEF FoundRunning, Meets
<1>19. CASE Stopped(c)
  BY <1>19 DEF Stopped
<1>20. CASE ReleaseRead(c)
  BY <1>20 DEF ReleaseRead
<1>21. CASE ReleaseCount(c)
  BY <1>21 DEF ReleaseCount
<1>22. CASE addRefAtom(c)
  BY <1>22 DEF addRefAtom
<1>23. CASE addRef(c)
  BY <1>23 DEF addRef
<1>24. CASE DrainLock(c)
  BY <1>24 DEF DrainLock
<1>25. QED
  BY <1>5, <1>6, <1>7, <1>8, <1>9, <1>10, <1>11, <1>12, <1>13, <1>14, <1>15,
     <1>16, <1>17, <1>18, <1>19, <1>20, <1>21, <1>22, <1>23, <1>24
  DEF CallerStep, Goes

\* The steps of an instance.
LEMMA InstanceEntryShrinks ==
  ASSUME IInv, NEW i \in Instance, InstanceStep(i)
  PROVE  EntryShrinks
<1>1. TypeOK /\ Entry
  BY DEF IInv
<1>2. UNCHANGED <<pc, arg, made>>
  BY InstanceStays
<1>3. ASSUME /\ atoms' = atoms \/ (atoms' = 0 /\ \A j \in Instance : ~Live(j)')
             /\ \A j \in Instance :
                  /\ Live(j)' => Live(j)
                  /\ phase'[j] = "none" <=> phase[j] = "none"
                  /\ phase'[j] = "new" => phase[j] = "new"
                  /\ stoppingChan'[j] => phase'[j] \in {"halt", "failed"}
      PROVE  EntryShrinks
  BY <1>2, <1>3 DEF EntryShrinks
<1> USE <1>1 DEF TypeOK, Becomes, entry
<1>4. CASE setSpawning(i)
  BY <1>3, <1>4 DEF setSpawning, Live, Entry
<1>5. CASE setSpawn(i)
  BY <1>3, <1>5 DEF setSpawn, Live, Entry
<1>6. CASE SpawnFailed(i)
  BY <1>3, <1>6 DEF SpawnFailed, Live, Entry
<1>7. CASE setStopping(i)
  BY <1>3, <1>7 DEF setStopping, Live, Entry
<1>8. CASE StoppingRead(i)
  BY <1>3, <1>8 DEF StoppingRead, Live, Entry
<1>9. CASE StoppingCount(i)
  BY <1>3, <1>9 DEF StoppingCount, Live, Entry
<1>10. CASE setHalted(i)
  BY <1>3, <1>10 DEF setHalted, Live, Entry
<1>11. CASE elementAtomStopping(i)
  BY <1>3, <1>11 DEF elementAtomStopping, Live, Entry, LiveIsEntry
<1>12. QED
  BY <1>4, <1>5, <1>6, <1>7, <1>8, <1>9, <1>10, <1>11
  DEF InstanceStep, Starts, Stops

(* Look, FoundStopping and FoundHalt: what c has seen of the entry, it alone *)
(* can change by a new instance.                                            *)
SeesEntry(c) ==
  /\ UNCHANGED <<atoms, made, phase, stoppingChan>>
  /\ pc[c] # "starting"
  /\ pc'[c] \in {"meet", "waitStop"} => atoms \in {0, arg'[c].at}
  /\ pc'[c] \in {"waitStop", "make"} => \A i \in Instance : ~Live(i)

\* A caller looks at the entry and does not change it.
LEMMA SeesEntryEntry ==
  ASSUME Entry, NEW c \in Caller, SeesEntry(c),
         \A d \in Caller : d # c => Stays(d)
  PROVE  Entry'
<1>1. LiveIsEntry'
  BY DEF Entry, SeesEntry, LiveIsEntry, Live
<1>2. /\ atoms' \in {0, made'}
      /\ \A i \in Instance : phase'[i] = "none" <=> i > made'
      /\ \A i \in Instance :
           stoppingChan'[i] => phase'[i] \in {"halt", "failed"}
  BY DEF Entry, SeesEntry
<1>3. ASSUME NEW i \in Instance, phase'[i] = "new"
      PROVE  \E d \in Caller : pc'[d] = "starting" /\ arg'[d].at = i
  BY <1>3 DEF Entry, SeesEntry, Stays
<1>4. \A d \in Caller :
        pc'[d] \in {"meet", "waitStop"} => atoms' \in {0, arg'[d].at}
  BY DEF Entry, SeesEntry, Stays
<1>5. \A d \in Caller :
        pc'[d] \in {"waitStop", "make"} => \A i \in Instance : ~Live(i)'
  BY DEF Entry, SeesEntry, Stays, Live
<1>6. QED
  BY <1>1, <1>2, <1>3, <1>4, <1>5 DEF Entry

\* The steps of a caller that look at the entry.
LEMMA CallerSeesEntry ==
  ASSUME IInv, NEW c \in Caller, Look(c) \/ FoundStopping(c) \/ FoundHalt(c)
  PROVE  SeesEntry(c)
<1>1. /\ TypeOK /\ Located(c) /\ Entry /\ arg[c] \in Arg
      /\ arg[c].at # 0 => arg[c].at \in Instance
  BY Ranges DEF IInv
<1>2. CASE Look(c)
  <2>1. /\ UNCHANGED <<atoms, made, phase, stoppingChan>>
        /\ pc[c] = "inside" /\ arg'[c].at = atoms
        /\ pc'[c] = IF atoms = 0 THEN "make" ELSE "meet"
    BY <1>1, <1>2 DEF Look, Goto, TypeOK, entry, life, Arg
  <2>2. atoms = 0 => \A i \in Instance : ~Live(i)
    BY <1>1 DEF Entry, LiveIsEntry, Instance
  <2>3. QED
    BY <2>1, <2>2 DEF SeesEntry
<1>3. ASSUME Meets(c), UNCHANGED <<atoms, made, phase, stoppingChan, arg>>,
             ~Live(arg[c].at), pc'[c] \in {"waitStop", "make"}
      PROVE  SeesEntry(c)
  <2>1. pc[c] = "meet" /\ atoms \in {0, arg[c].at}
    BY <1>1, <1>3 DEF Meets, Entry
  <2>2. \A i \in Instance : ~Live(i)
    BY <1>1, <1>3, <2>1 DEF Entry, LiveIsEntry, Instance
  <2>3. QED
    BY <1>3, <2>1, <2>2 DEF SeesEntry
<1>4. CASE FoundStopping(c)
  BY <1>1, <1>3, <1>4
  DEF FoundStopping, Stopping, Live, Goto, TypeOK, entry, life, caller
<1>5. CASE FoundHalt(c)
  <2>1. /\ Meets(c) /\ UNCHANGED <<atoms, made, phase, stoppingChan, arg>>
        /\ pc'[c] = "make" /\ pc[c] = "meet"
        /\ phase[arg[c].at] \notin {"spawning", "running"}
    BY <1>1, <1>5 DEF FoundHalt, Meets, isNotHalt, Running, Goto, TypeOK,
        entry,
      life, caller
  <2>2. phase[arg[c].at] # "new"
    <3>1. SUFFICES ASSUME phase[arg[c].at] = "new" PROVE FALSE
      OBVIOUS
    <3>2. arg[c].at \in Instance
      BY <1>1, <2>1 DEF Located
    <3>3. PICK d \in Caller : pc[d] = "starting" /\ arg[d].at = arg[c].at
      BY <1>1, <3>1, <3>2 DEF Entry
    <3>4. c = d
      BY <2>1, <3>3, OneInSection DEF Section
    <3>5. QED
      BY <2>1, <3>3, <3>4
  <2>3. QED
    BY <1>3, <2>1, <2>2 DEF Live
<1>6. QED
  BY <1>2, <1>4, <1>5

\* NewAtom: the only live instance is the new one, and it is the entry.
LEMMA NewAtomEntry ==
  ASSUME IInv, NEW c \in Caller, NewAtom(c)
  PROVE  Entry'
<1>1. /\ TypeOK /\ Located(c) /\ Entry /\ arg[c] \in Arg
      /\ AtomRegistryAssumption
  BY Ranges, AtomRegistryAssumption DEF IInv
<1>2. PICK new \in Instance : new = made + 1
  BY <1>1 DEF NewAtom, Instance, TypeOK, AtomRegistryAssumption
<1>3. /\ pc[c] = "make" /\ pc'[c] = "starting" /\ arg'[c].at = new
      /\ atoms' = new /\ made' = new /\ stoppingChan' = stoppingChan
      /\ phase' = [phase EXCEPT ![new] = "new"]
  BY <1>1, <1>2 DEF NewAtom, Goto, TypeOK, Arg
<1>4. /\ phase'[new] = "new" /\ phase[new] = "none"
      /\ \A i \in Instance : i # new => phase'[i] = phase[i]
  BY <1>1, <1>2, <1>3 DEF TypeOK, Entry, Instance, AtomRegistryAssumption
<1>5. \A d \in Caller : d # c => pc'[d] \notin Section
  <2>1. \A d \in Caller : d # c => pc'[d] = pc[d]
    BY <1>1, OthersStay DEF Stays, CallerStep, Goes
  <2>2. QED
    BY <1>3, <2>1, OneInSection DEF Section
<1>6. LiveIsEntry'
  BY <1>1, <1>3, <1>4 DEF LiveIsEntry, Live, Entry
<1>7. \A i \in Instance : phase'[i] = "none" <=> i > made'
  BY <1>1, <1>2, <1>3, <1>4 DEF Entry, Instance, TypeOK, AtomRegistryAssumption
<1>8. ASSUME NEW i \in Instance, phase'[i] = "new"
      PROVE  \E d \in Caller : pc'[d] = "starting" /\ arg'[d].at = i
  <2>1. CASE i = new
    BY <1>3, <2>1
  <2>2. CASE i # new
    <3>1. PICK d \in Caller : pc[d] = "starting" /\ arg[d].at = i
      BY <1>1, <1>4, <1>8, <2>2 DEF Entry
    <3>2. c = d
      BY <1>3, <3>1, OneInSection DEF Section
    <3>3. QED
      BY <1>3, <3>1, <3>2
  <2>3. QED
    BY <2>1, <2>2
<1>9. \A i \in Instance : stoppingChan'[i] => phase'[i] \in {"halt", "failed"}
  BY <1>1, <1>3, <1>4 DEF Entry
<1>10. \A d \in Caller : pc'[d] \notin {"meet", "waitStop", "make"}
  BY <1>3, <1>5 DEF Section
<1>11. QED
  BY <1>3, <1>6, <1>7, <1>8, <1>9, <1>10 DEF Entry

\* Every step keeps the entry the last instance, or nothing.
LEMMA EntryStep ==
  ASSUME IInv, Next
  PROVE  Entry'
<1>1. TypeOK /\ Entry
  BY DEF IInv
<1>2. ASSUME NEW i \in Instance, InstanceStep(i) PROVE Entry'
  BY <1>1, <1>2, InstanceEntryShrinks, EntryShrinksEntry
<1>3. ASSUME NEW c \in Caller, CallerStep(c) PROVE Entry'
  <2>1. CASE Look(c) \/ FoundStopping(c) \/ FoundHalt(c)
    BY <1>1, <1>3, <2>1, CallerSeesEntry, SeesEntryEntry, OthersStay
  <2>2. CASE NewAtom(c)
    BY <2>2, NewAtomEntry
  <2>3. QED
    BY <1>1, <1>3, <2>1, <2>2, CallerEntryShrinks, EntryShrinksEntry
<1>4. QED
  BY <1>2, <1>3 DEF Next, CallerStep, InstanceStep
-----------------------------------------------------------------------------
\* An early reference is in the reference state of the name, and counted.
LEMMA EarlyRefs ==
  ASSUME IInv, Timely, Kept, NEW c \in Caller, Early(c)
  PROVE  /\ atoms = made /\ made \in Instance
         /\ tracker[c].st = refStates /\ refStates \in RefState
         /\ cells[refStates][made] \in Nat \ {0}
         /\ \A d \in Caller :
              /\ pc[d] \in {"drained", "drain", "rel3"} => arg[d].at # made
              /\ pc[d] = "rel2" /\ arg[d].at = made => arg[d].st = refStates
<1>1. TypeOK /\ Counted
  BY DEF IInv
<1>2. tracker[c] # None /\ tracker[c].at = made
  BY DEF Early
<1>3. made \in Instance /\ tracker[c].st \in RefState
  BY <1>1, <1>2, Ranges
<1>4. atoms = made
  BY DEF Kept
<1>5. tracker[c].st = refStates
  BY <1>2, <1>4 DEF Timely
<1>6. cells[refStates][made] \in Nat \ {0}
  <2>1. c \in Holders(refStates, made)
    BY <1>2, <1>5 DEF Holders
  <2>2. IsFiniteSet(Holders(refStates, made))
        /\ cells[refStates][made] = Cardinality(Holders(refStates, made))
    BY <1>1, <1>3, <1>5 DEF Counted
  <2>3. QED
    BY <2>1, <2>2, FS_EmptySet, FS_CardinalityType
<1>7. ASSUME NEW d \in Caller
      PROVE  /\ pc[d] \in {"drained", "drain", "rel3"} => arg[d].at # made
             /\ pc[d] = "rel2" /\ arg[d].at = made => arg[d].st = refStates
  BY <1>5 DEF Kept, Reports
<1>8. QED
  BY <1>3, <1>4, <1>5, <1>6, <1>7

(* Most steps of a caller concern neither the references nor their report;   *)
(* one that goes to make an instance has seen that none stops.              *)
Quiet(c) ==
  /\ UNCHANGED <<atoms, made, phase, seen, refStates, tracker>>
  /\ pc'[c] \notin {"ref2", "drained", "drain", "rel2", "rel3"}
  /\ pc'[c] = "make" => \A i \in Instance : ~InStop(i)

\* The steps of a caller that touch neither an instance nor a reference.
LEMMA QuietKept ==
  ASSUME Timely, Kept, NEW c \in Caller, Quiet(c),
         \A d \in Caller : d # c => Stays(d)
  PROVE  Timely' /\ Kept'
<1>1. Timely'
  <2>1. \A i \in Instance : InStop(i)' => atoms' = i
    BY DEF Timely, Quiet, InStop
  <2>2. \A d \in Caller : pc'[d] = "make" => \A i \in Instance : ~InStop(i)'
    BY DEF Timely, Quiet, InStop, Stays
  <2>3. atoms' = made' =>
          \A d \in Caller :
            /\ tracker'[d] # None /\ tracker'[d].at = made'
                 => tracker'[d].st = refStates'
            /\ pc'[d] = "ref2" /\ arg'[d].at = made' => arg'[d].st = refStates'
    BY DEF Timely, Quiet, Stays
  <2>4. QED
    BY <2>1, <2>2, <2>3 DEF Timely
<1>2. Kept'
  <2>1. SUFFICES ASSUME NEW e \in Caller, Early(e)'
        PROVE  /\ atoms' = made' /\ ~Reports(made)'
               /\ phase'[made'] = "seen" => seen'[made'] = tracker'[e].st
               /\ phase'[made'] # "unref"
               /\ \A d \in Caller : arg'[d].at = made' =>
                    /\ pc'[d] = "rel2" => arg'[d].st = tracker'[e].st
                    /\ pc'[d] # "rel3"
    BY DEF Kept
  <2>2. Early(e)
    BY <2>1 DEF Early, Quiet
  <2>3. /\ atoms' = made'
        /\ phase'[made'] = "seen" => seen'[made'] = tracker'[e].st
        /\ phase'[made'] # "unref"
    BY <2>2 DEF Kept, Quiet
  <2>4. ~Reports(made)'
    BY <2>2 DEF Kept, Quiet, Reports, Stays
  <2>5. \A d \in Caller : arg'[d].at = made' =>
          /\ pc'[d] = "rel2" => arg'[d].st = tracker'[e].st
          /\ pc'[d] # "rel3"
    BY <2>2 DEF Kept, Quiet, Stays
  <2>6. QED
    BY <2>3, <2>4, <2>5
<1>3. QED
  BY <1>1, <1>2

\* Those steps of a caller, unless it hurries past an instance that stops.
LEMMA CallerQuiet ==
  ASSUME IInv, Timely, NEW c \in Caller, CallerStep(c), ~hurried',
         ~NewAtom(c), ~ReleaseRead(c), ~ReleaseCount(c),
         ~elementAtomRelease(c), ~addRefAtom(c), ~addRef(c), ~Release(c),
         ~DrainLock(c), ~onInstanceRefsDrained(c)
  PROVE  Quiet(c)
<1>1. /\ TypeOK /\ Located(c) /\ Entry /\ arg[c] \in Arg
      /\ arg[c].at # 0 => arg[c].at \in Instance
  BY Ranges DEF IInv
<1>2. ~StopTimeout(c)
  BY DEF StopTimeout
<1>3. CASE Look(c)
  <2>1. /\ UNCHANGED <<atoms, made, phase, seen, refStates, tracker>>
        /\ pc'[c] = IF atoms = 0 THEN "make" ELSE "meet"
    BY <1>1, <1>3 DEF Look, Goto, TypeOK, entry, life, refs
  <2>2. atoms = 0 => \A i \in Instance : ~InStop(i)
    BY DEF Timely, Instance
  <2>3. QED
    BY <2>1, <2>2 DEF Quiet
<1>4. ASSUME pc[c] \in {"meet", "waitStop"}, ~InStop(arg[c].at),
             UNCHANGED <<atoms, made, phase, seen, refStates, tracker>>,
             pc'[c] = "make"
      PROVE  Quiet(c)
  <2>1. atoms \in {0, arg[c].at}
    BY <1>1, <1>4 DEF Entry
  <2>2. \A i \in Instance : ~InStop(i)
    BY <1>4, <2>1 DEF Timely, Instance
  <2>3. QED
    BY <1>4, <2>2 DEF Quiet
<1>5. CASE FoundHalt(c)
  BY <1>1, <1>4, <1>5 DEF FoundHalt, Meets, isNotHalt, Stopping, InStop, Goto,
    TypeOK, entry, life, refs, caller
<1>6. CASE Stopped(c)
  <2>1. phase[arg[c].at] \in {"halt", "failed"}
    BY <1>1, <1>6 DEF Stopped, Entry, Located
  <2>2. QED
    BY <1>1, <1>4, <1>6, <2>1 DEF Stopped, InStop, Goto, TypeOK, entry, refs,
      caller
<1> USE <1>1 DEF TypeOK, Goto, Done, life, entry, refs, caller, Quiet
<1>7. CASE GetAtomID(c)
  BY <1>7 DEF GetAtomID
<1>8. CASE SpawnAtom(c)
  BY <1>8 DEF SpawnAtom
<1>9. CASE GetLive(c)
  BY <1>9 DEF GetLive
<1>10. CASE GetNothing(c)
  BY <1>10 DEF GetNothing
<1>11. CASE GetOrPut(c)
  BY <1>11 DEF GetOrPut
<1>12. CASE Lock(c)
  BY <1>12 DEF Lock
<1>13. CASE Leave(c)
  BY <1>13 DEF Leave
<1>14. CASE Unlock(c)
  BY <1>14 DEF Unlock
<1>15. CASE FoundRunning(c)
  BY <1>15 DEF FoundRunning
<1>16. CASE FoundStopping(c)
  BY <1>16 DEF FoundStopping
<1>17. CASE Started(c)
  BY <1>17 DEF Started
<1>18. CASE StartFails(c)
  BY <1>18 DEF StartFails
<1>19. QED
  BY <1>2, <1>3, <1>5, <1>6, <1>7, <1>8, <1>9, <1>10, <1>11, <1>12, <1>13,
     <1>14, <1>15, <1>16, <1>17, <1>18
  DEF CallerStep, Goes

\* NewAtom: nothing refers to the new instance, and no other one stops.
LEMMA NewAtomKept ==
  ASSUME IInv, Timely, NEW c \in Caller, NewAtom(c)
  PROVE  Timely' /\ Kept'
<1>1. /\ TypeOK /\ (\A d \in Caller : Located(d)) /\ Entry
      /\ AtomRegistryAssumption
  BY AtomRegistryAssumption DEF IInv
<1>2. PICK new \in Instance : new = made + 1
  BY <1>1 DEF NewAtom, Instance, TypeOK, AtomRegistryAssumption
<1>3. /\ pc[c] = "make" /\ pc'[c] = "starting" /\ tracker' = tracker
      /\ atoms' = new /\ made' = new
      /\ phase' = [phase EXCEPT ![new] = "new"]
  BY <1>1, <1>2 DEF NewAtom, Goto, TypeOK
<1>4. phase'[new] = "new" /\ phase[new] = "none"
  BY <1>1, <1>2, <1>3 DEF TypeOK, Entry, Instance, AtomRegistryAssumption
<1>5. \A d \in Caller : d # c => Stays(d) /\ pc[d] # "make"
  BY <1>1, <1>3, OthersStay, OneInSection DEF CallerStep, Goes, Section
<1>6. \A i \in Instance : ~InStop(i)'
  BY <1>1, <1>3 DEF Timely, InStop, TypeOK
<1>7. \A d \in Caller :
        /\ tracker'[d] # None => tracker'[d].at # new
        /\ pc'[d] = "ref2" => arg'[d].at # new
  BY <1>1, <1>3, <1>4, <1>5 DEF Located, Stays
<1>8. Timely'
  BY <1>3, <1>5, <1>6, <1>7 DEF Timely, Stays
<1>9. Kept'
  BY <1>3, <1>7 DEF Kept, Early
<1>10. QED
  BY <1>8, <1>9

(* The steps of a release, of a reference and of its report: a part of a     *)
(* proof that the references stay the ones of the entry.                    *)
Referring(c) ==
  \/ ReleaseRead(c) \/ ReleaseCount(c) \/ elementAtomRelease(c)
  \/ addRefAtom(c) \/ addRef(c) \/ Release(c) \/ DrainLock(c)
  \/ onInstanceRefsDrained(c)

\* No step of a reference makes an instance, or drops one that lives or stops.
LEMMA ReferringEntry ==
  ASSUME IInv, Timely, NEW c \in Caller, Referring(c)
  PROVE  /\ UNCHANGED <<made, phase, seen>>
         /\ pc'[c] # "make" /\ pc[c] # "make"
         /\ \/ /\ atoms' = atoms
               /\ refStates' = refStates \/ refStates = 0 \/ atoms = 0
            \/ /\ atoms' = 0 /\ atoms = arg[c].at
               /\ pc[c] \in {"rel3", "drain"}
               /\ ~Running(atoms) /\ ~InStop(atoms)
<1>1. TypeOK /\ Located(c)
  BY DEF IInv
<1>2. CASE elementAtomRelease(c)
  <2>1. /\ pc[c] = "rel3" /\ pc'[c] = "leave"
        /\ UNCHANGED <<made, phase, seen>>
        /\ phase[arg[c].at] = "failed"
        /\ atoms' = IF atoms = arg[c].at THEN 0 ELSE atoms
        /\ atoms # arg[c].at => refStates' = refStates
    BY <1>1, <1>2, RemoveEntryFacts
    DEF elementAtomRelease, life, Goto, TypeOK, Located
  <2>2. QED
    BY <2>1 DEF Running, InStop
<1>3. CASE onInstanceRefsDrained(c)
  <2>1. /\ pc[c] = "drain" /\ pc'[c] = "idle"
        /\ UNCHANGED <<made, phase, seen>>
        /\ arg[c].at # 0
    BY <1>1, <1>3 DEF onInstanceRefsDrained, life, Goto, Done, TypeOK, Located
  <2>2. CASE atoms = arg[c].at /\ isNotHalt(arg[c].at)
    BY <1>3, <2>1, <2>2 DEF onInstanceRefsDrained
  <2>3. CASE atoms # arg[c].at
    <3>1. atoms' = atoms
      BY <1>1, <1>3, <2>3, RemoveEntryFacts DEF onInstanceRefsDrained
    <3>2. refStates' = refStates \/ (refStates' = 0 /\ atoms' = 0)
      BY <1>3, <2>3 DEF onInstanceRefsDrained
    <3>3. QED
      BY <2>1, <3>1, <3>2
  <2>4. CASE atoms = arg[c].at /\ ~isNotHalt(arg[c].at)
    <3>1. atoms' = 0
      BY <1>1, <1>3, <2>4, RemoveEntryFacts DEF onInstanceRefsDrained
    <3>2. QED
      BY <2>1, <2>4, <3>1 DEF isNotHalt, Running, Stopping, InStop
  <2>5. QED
    BY <2>2, <2>3, <2>4
<1> USE <1>1 DEF TypeOK, Goto, Done, life, entry, refs
<1>4. CASE ReleaseRead(c) \/ ReleaseCount(c)
  BY <1>4 DEF ReleaseRead, ReleaseCount
<1>5. CASE addRefAtom(c)
  BY <1>5 DEF addRefAtom
<1>6. CASE addRef(c)
  BY <1>6 DEF addRef
<1>7. CASE Release(c)
  BY <1>7 DEF Release
<1>8. CASE DrainLock(c)
  BY <1>8 DEF DrainLock
<1>9. QED
  BY <1>2, <1>3, <1>4, <1>5, <1>6, <1>7, <1>8 DEF Referring

\* The references of the entry stay in the reference state of the name.
LEMMA ReferringTimely ==
  ASSUME IInv, Timely, NEW c \in Caller, Referring(c)
  PROVE  Timely'
<1>1. /\ UNCHANGED <<made, phase, seen>>
      /\ pc'[c] # "make" /\ pc[c] # "make"
      /\ \/ /\ atoms' = atoms
            /\ refStates' = refStates \/ refStates = 0 \/ atoms = 0
         \/ /\ atoms' = 0 /\ atoms = arg[c].at
            /\ pc[c] \in {"rel3", "drain"}
            /\ ~Running(atoms) /\ ~InStop(atoms)
  BY ReferringEntry
<1>2. /\ TypeOK
      /\ \A d \in Caller :
           /\ tracker[d] # None =>
                tracker[d].at \in Instance /\ tracker[d].st \in RefState
           /\ Located(d)
  BY Ranges DEF IInv
<1>3. \A d \in Caller : d # c => Stays(d)
  BY <1>2, OthersStay DEF CallerStep, Goes, Referring
<1>4. \A i \in Instance : InStop(i)' => atoms' = i
  BY <1>1 DEF Timely, InStop
<1>5. \A d \in Caller : pc'[d] = "make" => \A i \in Instance : ~InStop(i)'
  BY <1>1, <1>3 DEF Timely, InStop, Stays
<1>6. ASSUME atoms' = made', NEW d \in Caller
      PROVE  /\ tracker'[d] # None /\ tracker'[d].at = made'
                  => tracker'[d].st = refStates'
             /\ pc'[d] = "ref2" /\ arg'[d].at = made'
                  => arg'[d].st = refStates'
  <2>1. CASE made = 0
    <3>1. TypeOK' /\ Located(d)'
      BY TypeStep, LocatedStep DEF Next, Goes, Referring
    <3>2. tracker'[d] # None => tracker'[d].at \in 1 .. MaxInstance
      BY <3>1 DEF TypeOK, Tracker, Instance
    <3>3. pc'[d] = "ref2" => arg'[d].at # 0
      BY <3>1 DEF Located
    <3>4. QED
      BY <1>1, <2>1, <3>2, <3>3
  <2>2. CASE made # 0
    <3>1. /\ atoms = made /\ atoms' = atoms
          /\ refStates' = refStates \/ refStates = 0
      BY <1>1, <1>6, <2>2
    <3>2. /\ tracker[d] # None /\ tracker[d].at = made
               => tracker[d].st = refStates /\ refStates' = refStates
          /\ pc[d] = "ref2" /\ arg[d].at = made
               => arg[d].st = refStates /\ refStates' = refStates
      BY <1>2, <3>1 DEF Timely, Located, RefState
    <3>3. CASE d # c
      BY <1>1, <1>3, <3>2, <3>3 DEF Stays
    <3>4. CASE d = c
      <4>1. CASE addRef(c)
        <5>1. pc[c] = "ref2" /\ refStates' = refStates /\ pc'[c] # "ref2"
              /\ tracker'[c].at = arg[c].at /\ tracker'[c].st = arg[c].st
          BY <1>2, <4>1 DEF addRef, TypeOK, Goto, Done
        <5>2. QED
          BY <1>1, <3>2, <3>4, <5>1
      <4>2. CASE addRefAtom(c)
        <5>1. PICK r \in RefState :
                refStates' = r /\ arg' = [arg EXCEPT ![c] = [@ EXCEPT !.st = r]]
          BY <1>2, <4>2, AddRefAtomFacts
        <5>2. arg[c] \in Arg
          BY <1>2, Ranges
        <5>3. arg'[c].st = r /\ tracker' = tracker
          BY <1>2, <4>2, <5>1, <5>2 DEF TypeOK, Arg, addRefAtom
        <5>4. QED
          BY <1>1, <3>2, <3>4, <5>1, <5>3
      <4>3. CASE Release(c)
        BY <1>2, <3>4, <4>3 DEF Release, TypeOK, Goto
      <4>4. CASE ReleaseRead(c) \/ ReleaseCount(c) \/ elementAtomRelease(c)
                 \/ DrainLock(c) \/ onInstanceRefsDrained(c)
        <5>1. tracker' = tracker /\ pc'[c] # "ref2"
          BY <1>2, <4>4 DEF ReleaseRead, ReleaseCount, elementAtomRelease,
            DrainLock, onInstanceRefsDrained, TypeOK, Goto, Done, caller
        <5>2. QED
          BY <1>1, <3>2, <3>4, <4>4, <5>1
      <4>5. QED
        BY <4>1, <4>2, <4>3, <4>4 DEF Referring
    <3>5. QED
      BY <3>3, <3>4
  <2>3. QED
    BY <2>1, <2>2
<1>7. QED
  BY <1>4, <1>5, <1>6 DEF Timely

(* A reference that nothing overlooks stays so: the release of another one   *)
(* is not the last, a report is of an older instance.                       *)
LEMMA ReferringKept ==
  ASSUME IInv, Timely, Kept, NEW c \in Caller, Referring(c)
  PROVE  Kept'
<1>1. /\ UNCHANGED <<made, phase, seen>>
      /\ pc'[c] # "make" /\ pc[c] # "make"
      /\ \/ /\ atoms' = atoms
            /\ refStates' = refStates \/ refStates = 0 \/ atoms = 0
         \/ /\ atoms' = 0 /\ atoms = arg[c].at
            /\ pc[c] \in {"rel3", "drain"}
            /\ ~Running(atoms) /\ ~InStop(atoms)
  BY ReferringEntry
<1>2. /\ TypeOK /\ Entry
      /\ Located(c)
      /\ arg[c] \in Arg
  BY Ranges DEF IInv
<1>3. \A d \in Caller : d # c => Stays(d)
  BY <1>2, OthersStay DEF CallerStep, Goes, Referring
<1>4. SUFFICES ASSUME NEW e \in Caller, Early(e)'
      PROVE  /\ atoms' = made' /\ ~Reports(made)'
             /\ phase'[made'] = "seen" => seen'[made'] = tracker'[e].st
             /\ phase'[made'] # "unref"
             /\ \A d \in Caller : arg'[d].at = made' =>
                  /\ pc'[d] = "rel2" => arg'[d].st = tracker'[e].st
                  /\ pc'[d] # "rel3"
  BY DEF Kept
<1>5. CASE Early(e) /\ tracker'[e] = tracker[e]
  <2>1. /\ atoms = made /\ made \in Instance
        /\ tracker[e].st = refStates /\ refStates \in RefState
        /\ cells[refStates][made] \in Nat \ {0}
        /\ \A d \in Caller :
             /\ pc[d] \in {"drained", "drain", "rel3"} => arg[d].at # made
             /\ pc[d] = "rel2" /\ arg[d].at = made => arg[d].st = refStates
    BY <1>5, EarlyRefs
  <2>2. atoms' = made
    BY <1>1, <2>1
  <2>3. /\ pc'[c] \in {"drained", "drain", "rel3"} => arg'[c].at # made
        /\ pc'[c] = "rel2" /\ arg'[c].at = made => arg'[c].st = refStates
    <3> USE <1>2, <2>1 DEF TypeOK, Goto, Done, caller
    <3>1. CASE ReleaseRead(c)
      BY <3>1 DEF ReleaseRead, Arg
    <3>2. CASE ReleaseCount(c)
      BY <3>2 DEF ReleaseCount, refCount, RefState
    <3>3. CASE elementAtomRelease(c)
      BY <3>3 DEF elementAtomRelease
    <3>4. CASE addRefAtom(c)
      BY <3>4 DEF addRefAtom
    <3>5. CASE addRef(c)
      BY <3>5 DEF addRef
    <3>6. CASE DrainLock(c)
      BY <3>6 DEF DrainLock
    <3>7. CASE onInstanceRefsDrained(c)
      BY <3>7 DEF onInstanceRefsDrained
    <3>8. CASE Release(c)
      <4> DEFINE t == tracker[c]
      <4>1. t # None /\ tracker'[c] = None
        BY <3>8 DEF Release
      <4>2. c # e
        BY <1>5, <4>1 DEF Early
      <4>3. t.st \in RefState /\ t.at \in Instance
        BY <4>1, Ranges
      <4>4. ASSUME t.at = made PROVE cells[t.st][t.at] # 1
        <5>1. t.st = refStates
          BY <4>1, <4>4 DEF Timely
        <5>2. c \in Holders(t.st, t.at) /\ e \in Holders(t.st, t.at)
          BY <1>5, <4>1, <4>4, <5>1 DEF Holders, Early
        <5>3. /\ IsFiniteSet(Holders(t.st, t.at))
              /\ cells[t.st][t.at] = Cardinality(Holders(t.st, t.at))
          BY <4>3 DEF IInv, Counted
        <5>4. QED
          BY <4>2, <5>2, <5>3, FS_Singleton
      <4>5. CASE cells[t.st][t.at] = 1
        <5> DEFINE r == [arg[c] EXCEPT !.at = t.at]
                   q == [r EXCEPT !.st = t.st]
        <5>1. q.at = t.at
          BY DEF Arg
        <5>2. arg' = [arg EXCEPT ![c] = q] /\ pc'[c] = "drained"
          BY <3>8, <4>5 DEF Release
        <5> HIDE DEF q
        <5>3. arg'[c].at = t.at
          BY <5>1, <5>2
        <5>4. QED
          BY <4>4, <4>5, <5>2, <5>3
      <4>6. CASE cells[t.st][t.at] # 1
        BY <3>8, <4>6 DEF Release
      <4>7. QED
        BY <4>5, <4>6
    <3>9. QED
      BY <3>1, <3>2, <3>3, <3>4, <3>5, <3>6, <3>7, <3>8 DEF Referring
  <2>4. \A d \in Caller :
          /\ pc'[d] \in {"drained", "drain", "rel3"} => arg'[d].at # made
          /\ pc'[d] = "rel2" /\ arg'[d].at = made => arg'[d].st = refStates
    BY <1>3, <2>1, <2>3 DEF Stays
  <2>5. ~Reports(made)'
    BY <1>1, <2>4 DEF Reports
  <2>6. /\ phase[made] = "seen" => seen[made] = tracker[e].st
        /\ phase[made] # "unref"
    BY <1>5 DEF Kept
  <2>7. QED
    BY <1>1, <1>5, <2>1, <2>2, <2>4, <2>5, <2>6
<1>6. CASE ~(Early(e) /\ tracker'[e] = tracker[e])
  <2>1. tracker'[e] # tracker[e] /\ tracker'[e] # None
    BY <1>1, <1>4, <1>6 DEF Early
  <2>2. e = c
    BY <1>3, <2>1 DEF Stays
  <2>3. addRef(c)
    BY <1>2, <2>1, <2>2
    DEF Referring, ReleaseRead, ReleaseCount, elementAtomRelease, addRefAtom,
        Release, DrainLock, onInstanceRefsDrained, TypeOK, caller
  <2>4. /\ tracker'[c] = [st |-> arg[c].st, at |-> arg[c].at,
                          early |-> Running(arg[c].at) /\ ~Reports(arg[c].at)]
        /\ pc'[c] \in {"leave", "idle"} /\ pc[c] = "ref2" /\ atoms' = atoms
    BY <1>2, <2>3 DEF addRef, TypeOK, Goto, Done, entry
  <2>5. arg[c].at = made /\ Running(made) /\ ~Reports(made)
    <3>1. tracker'[c].at = made /\ tracker'[c].early
      BY <1>1, <1>4, <2>2 DEF Early
    <3>2. tracker'[c].at = arg[c].at
      BY <2>4
    <3>3. ASSUME ~(Running(arg[c].at) /\ ~Reports(arg[c].at)) PROVE FALSE
      <4>1. (Running(arg[c].at) /\ ~Reports(arg[c].at)) = FALSE
        BY <3>3
      <4>2. tracker'[c] = [st |-> arg[c].st, at |-> arg[c].at, early |-> FALSE]
        BY <2>4, <4>1, Zenon
      <4>3. tracker'[c].early = FALSE
        BY <4>2
      <4>4. QED
        BY <3>1, <4>3
    <3>4. QED
      BY <3>1, <3>2, <3>3
  <2>6. made \in Instance
    BY <1>2, <2>4, <2>5, Ranges DEF Located
  <2>7. atoms' = made'
    BY <1>1, <1>2, <2>4, <2>5, <2>6 DEF Entry, LiveIsEntry, Live, Running
  <2>8. ~Reports(made)'
    BY <1>1, <1>3, <2>4, <2>5 DEF Reports, Stays
  <2>9. phase[made] \notin {"seen", "unref", "failed"}
    BY <2>5 DEF Running
  <2>10. \A d \in Caller : arg'[d].at = made' => pc'[d] \notin {"rel2", "rel3"}
    <3>1. \A d \in Caller : arg[d].at = made => pc[d] \notin {"rel2", "rel3"}
      BY <2>9 DEF IInv, Located
    <3>2. QED
      BY <1>1, <1>3, <2>4, <3>1 DEF Stays
  <2>11. QED
    BY <1>1, <2>7, <2>8, <2>9, <2>10
<1>7. QED
  BY <1>5, <1>6

(* An instance that begins to stop is the entry; once its goroutine has seen *)
(* no references, no reference is early.                                    *)
LEMMA InstanceTimely ==
  ASSUME IInv, Timely, NEW i \in Instance, InstanceStep(i)
  PROVE  Timely'
<1>1. TypeOK /\ Entry
  BY DEF IInv
<1>2. UNCHANGED <<pc, arg, tracker, made>>
  BY InstanceStays
<1>3. ASSUME UNCHANGED <<atoms, refStates>>,
             \A j \in Instance : InStop(j)' => InStop(j) \/ Live(j)
      PROVE  Timely'
  <2>1. \A j \in Instance : InStop(j)' => atoms' = j
    BY <1>1, <1>3 DEF Timely, Entry, LiveIsEntry
  <2>2. \A d \in Caller : pc'[d] = "make" => \A j \in Instance : ~InStop(j)'
    BY <1>1, <1>2, <1>3 DEF Timely, Entry
  <2>3. QED
    BY <1>2, <1>3, <2>1, <2>2 DEF Timely
<1>4. CASE elementAtomStopping(i)
  <2>1. /\ InStop(i) /\ atoms' = IF atoms = i THEN 0 ELSE atoms
        /\ phase' = [phase EXCEPT ![i] = "leaving"]
    BY <1>4 DEF elementAtomStopping, InStop
  <2>2. atoms = i /\ made = i /\ i # 0
    BY <1>1, <2>1 DEF Timely, Entry, Instance
  <2>3. \A j \in Instance : ~InStop(j)'
    BY <1>1, <2>1, <2>2 DEF Timely, InStop, TypeOK
  <2>4. QED
    BY <1>2, <2>1, <2>2, <2>3 DEF Timely
<1> USE <1>1 DEF TypeOK, Becomes, entry, refs, InStop, Live
<1>5. CASE setSpawning(i)
  BY <1>3, <1>5 DEF setSpawning
<1>6. CASE setSpawn(i)
  BY <1>3, <1>6 DEF setSpawn
<1>7. CASE SpawnFailed(i)
  BY <1>3, <1>7 DEF SpawnFailed
<1>8. CASE setStopping(i)
  BY <1>3, <1>8 DEF setStopping
<1>9. CASE StoppingRead(i)
  BY <1>3, <1>9 DEF StoppingRead
<1>10. CASE StoppingCount(i)
  BY <1>3, <1>10 DEF StoppingCount
<1>11. CASE setHalted(i)
  BY <1>3, <1>11 DEF setHalted
<1>12. QED
  BY <1>4, <1>5, <1>6, <1>7, <1>8, <1>9, <1>10, <1>11
  DEF InstanceStep, Starts, Stops

\* The steps of an instance leave the entry to its early references.
LEMMA InstanceKept ==
  ASSUME IInv, Timely, Kept, NEW i \in Instance, InstanceStep(i)
  PROVE  Kept'
<1>1. TypeOK
  BY DEF IInv
<1>2. UNCHANGED <<pc, arg, tracker, made, cells>>
  BY InstanceStays
<1>3. SUFFICES ASSUME NEW e \in Caller, Early(e)
      PROVE  /\ atoms' = made
             /\ phase'[made] = "seen" => seen'[made] = tracker[e].st
             /\ phase'[made] # "unref"
  BY <1>2 DEF Kept, Early, Reports
<1>4. /\ atoms = made /\ made \in Instance
      /\ tracker[e].st = refStates /\ refStates \in RefState
      /\ cells[refStates][made] \in Nat \ {0}
      /\ phase[made] = "seen" => seen[made] = refStates
      /\ phase[made] # "unref"
  BY <1>3, EarlyRefs DEF Kept
<1>5. CASE elementAtomStopping(i)
  BY <1>4, <1>5 DEF elementAtomStopping, Timely, InStop
<1> USE <1>1 DEF TypeOK, Becomes, entry
<1>6. CASE setSpawning(i)
  BY <1>4, <1>6 DEF setSpawning
<1>7. CASE setSpawn(i)
  BY <1>4, <1>7 DEF setSpawn
<1>8. CASE SpawnFailed(i)
  BY <1>4, <1>8 DEF SpawnFailed
<1>9. CASE setStopping(i)
  BY <1>4, <1>9 DEF setStopping
<1>10. CASE StoppingRead(i)
  BY <1>4, <1>10 DEF StoppingRead
<1>11. CASE StoppingCount(i)
  <2>1. seen[i] = refStates /\ i = made => refCount(seen[i], i) > 0
    BY <1>4 DEF refCount, RefState
  <2>2. QED
    BY <1>4, <1>11, <2>1 DEF StoppingCount
<1>12. CASE setHalted(i)
  BY <1>4, <1>12 DEF setHalted
<1>13. QED
  BY <1>5, <1>6, <1>7, <1>8, <1>9, <1>10, <1>11, <1>12
  DEF InstanceStep, Starts, Stops

\* Every step does, as long as nobody hurried.
LEMMA KeptStep ==
  ASSUME IInv, Next, ~hurried'
  PROVE  Timely' /\ Kept'
<1>1. ~hurried
  <2>1. ASSUME NEW c \in Caller, CallerStep(c) PROVE ~hurried
    BY <2>1 DEF CallerStep, Goes, caller, GetAtomID, SpawnAtom, Release,
        StopTimeout, GetLive, GetNothing, GetOrPut, Lock, Leave, Unlock, Look,
        FoundRunning, FoundStopping, FoundHalt, Stopped, NewAtom, Started,
        StartFails, ReleaseRead, ReleaseCount, elementAtomRelease, addRefAtom,
        addRef, DrainLock, onInstanceRefsDrained
  <2>2. QED
    BY <2>1, InstanceStays DEF Next, CallerStep, InstanceStep
<1>2. TypeOK /\ Timely /\ Kept
  BY <1>1 DEF IInv
<1>3. ASSUME NEW i \in Instance, InstanceStep(i) PROVE Timely' /\ Kept'
  BY <1>2, <1>3, InstanceTimely, InstanceKept
<1>4. ASSUME NEW c \in Caller, CallerStep(c) PROVE Timely' /\ Kept'
  <2>1. CASE NewAtom(c)
    BY <1>2, <2>1, NewAtomKept
  <2>2. CASE Referring(c)
    BY <1>2, <2>2, ReferringTimely, ReferringKept
  <2>3. CASE ~NewAtom(c) /\ ~Referring(c)
    <3>1. Quiet(c)
      BY <1>2, <1>4, <2>3, CallerQuiet DEF Referring
    <3>2. QED
      BY <1>2, <1>4, <3>1, QuietKept, OthersStay
  <2>4. QED
    BY <2>1, <2>2, <2>3
<1>5. QED
  BY <1>3, <1>4 DEF Next, CallerStep, InstanceStep

-----------------------------------------------------------------------------
\* Nobody is anywhere at the start.
LEMMA InitIInv == Init => IInv
<1> SUFFICES ASSUME Init PROVE IInv
  OBVIOUS
<1>1. AtomRegistryAssumption
  BY AtomRegistryAssumption
<1>2. TypeOK
  BY <1>1, ArgUpdates, WithZero DEF Init, TypeOK, Phase, Pc,
    AtomRegistryAssumption
<1>3. \A c \in Caller : Located(c)
  BY DEF Init, Located, Section, NoArg
<1>4. Locks
  <2>1. WithLock = {} /\ Users = {}
    BY DEF Init, WithLock, Users, NoArg
  <2>2. OneHolder
    BY DEF Init, OneHolder, Holds, NoArg
  <2>3. QED
    BY <2>1, <2>2, FS_EmptySet DEF Init, Locks, Shared
<1>5. Counted
  <2>1. \A s \in RefState, i \in Instance : Holders(s, i) = {}
    BY DEF Init, Holders
  <2>2. QED
    BY <2>1, FS_EmptySet DEF Init, Counted
<1>6. Entry
  BY <1>1 DEF Init, Entry, LiveIsEntry, Live, Instance, AtomRegistryAssumption
<1>7. Timely /\ Kept
  BY DEF Init, Timely, Kept, Early, InStop
<1>8. QED
  BY <1>2, <1>3, <1>4, <1>5, <1>6, <1>7 DEF IInv

\* The invariant is inductive.
LEMMA NextIInv == IInv /\ [Next]_vars => IInv'
<1>1. ASSUME IInv, Next PROVE IInv'
  BY <1>1, TypeStep, LocatedStep, LocksStep, CountedStep, EntryStep, KeptStep
  DEF IInv
<1>2. ASSUME IInv, UNCHANGED vars PROVE IInv'
  <2> USE <1>2 DEF vars
  <2>1. TypeOK'
    BY DEF IInv, TypeOK
  <2>2. \A c \in Caller : Located(c)'
    BY DEF IInv, Located
  <2>3. Locks'
    BY SameLocksLocks DEF IInv, SameLocks, Holds
  <2>4. Counted'
    BY SameCounted DEF IInv
  <2>5. Entry'
    BY DEF IInv, Entry, LiveIsEntry, Live
  <2>6. hurried' = hurried /\ (Timely => Timely') /\ (Kept => Kept')
    BY DEF Timely, InStop, Kept, Early, Reports
  <2>7. QED
    BY <2>1, <2>2, <2>3, <2>4, <2>5, <2>6 DEF IInv
<1>3. QED
  BY <1>1, <1>2

\* The inductive invariant holds always.
THEOREM Invariant == Spec => []IInv
  BY InitIInv, NextIInv, PTL DEF Spec

(* The types: no count of references or of spawns goes below zero, and a     *)
(* mutex that spawnLockMap hands out is there to be handed out.             *)
THEOREM TypeCorrect == Spec => []TypeOK
<1>1. IInv => TypeOK
  BY DEF IInv
<1>2. QED
  BY <1>1, Invariant, PTL

(* One goroutine at a time spawns under the name, however many wait, and    *)
(* also while Remove takes the mutex out of the map for the next one.       *)
THEOREM OneSpawnerAlways == Spec => []OneSpawner
<1>1. IInv => OneSpawner
  BY OneInSection DEF OneSpawner
<1>2. QED
  BY <1>1, Invariant, PTL

(* A live instance is what the name leads to: neither the end of an older    *)
(* instance nor the release of its references drops it.                     *)
THEOREM LiveIsEntryAlways == Spec => []LiveIsEntry
<1>1. IInv => LiveIsEntry
  BY DEF IInv, Entry
<1>2. QED
  BY <1>1, Invariant, PTL

(* A reference that was added before the stop of its atom, and not behind a  *)
(* late onInstanceRefsDrained, keeps the entry of that atom until a respawn  *)
(* replaces it, unless a respawn went ahead of a slow stop: for any number   *)
(* of goroutines, instances and reference states.                           *)
THEOREM TrackerKeepsEntryAlways == Spec => []TrackerKeepsEntry
<1>1. IInv => TrackerKeepsEntry
  <2>1. SUFFICES ASSUME IInv, ~hurried, NEW c \in Caller,
                        tracker[c] # None, tracker[c].early
        PROVE  atoms = tracker[c].at \/ made > tracker[c].at
    BY DEF TrackerKeepsEntry
  <2>2. TypeOK /\ Kept /\ Entry /\ Located(c)
    BY <2>1 DEF IInv
  <2>3. tracker[c].at \in Instance
    BY <2>1, <2>2, Ranges
  <2>4. tracker[c].at <= made
    BY <2>1, <2>2, <2>3 DEF Located, Entry, TypeOK, Instance
  <2>5. tracker[c].at = made => atoms = made
    BY <2>1, <2>2 DEF Kept, Early
  <2>6. QED
    BY <2>2, <2>3, <2>4, <2>5, AtomRegistryAssumption
    DEF TypeOK, Instance, AtomRegistryAssumption
<1>2. QED
  BY <1>1, Invariant, PTL
=============================================================================
