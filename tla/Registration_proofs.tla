------------------------- MODULE Registration_proofs -------------------------
(***************************************************************************)
(* VersionLock, for any number of processes, versions and faults: the lock *)
(* admits at most maxNodes versions, names a listed one as current and     *)
(* drops nobody who holds a place; and when no two processes share a       *)
(* version, it lists nobody else either and implements VersionSlots.       *)
(*                                                                         *)
(* CosmosProcess, for any number of requests and failures: a process that  *)
(* runs is in the version lock and registered, its script is shut down     *)
(* once at most whoever asks, and one that is off, or has exited without   *)
(* cutting a stop off, has left the cluster; each with its exceptions.     *)
(***************************************************************************)
EXTENDS VersionLock, CosmosProcess, QueueLemmas

USE VersionAssumption, MaxNodesAssumption, FaultsAssumption


-----------------------------------------------------------------------------
(* A copy of the key is older than the key, or the key itself.             *)
CopiesOld ==
  \A p \in Procs : /\ seen[p].ver <= lock.ver
                   /\ seen[p].ver = lock.ver => seen[p] = lock

(* What a process has found in its copy before it writes it back.          *)
CopiesChecked ==
  \A p \in Procs :
    /\ pc[p] = "locking" => Len(seen[p].versions) < maxNodes
    /\ pc[p] = "setting" => Listed(Version[p], seen[p])

Inv ==
  /\ TypeOK /\ CopiesOld /\ CopiesChecked
  /\ AtMostMaxNodes /\ CurrentListed /\ HoldersListed

(* At the start there is no key.                                           *)
LEMMA InitInv == Init => Inv
<1>1. SUFFICES ASSUME Init PROVE Inv
  OBVIOUS
<1>2. << >> \in Seq(Nat \ {0}) /\ Len(<< >>) = 0
  OBVIOUS
<1>3. TypeOK
  BY <1>1, <1>2 DEF Init, TypeOK, NoKey, Keys, Places
<1>4. CopiesOld /\ CopiesChecked
  BY <1>1 DEF Init, CopiesOld, CopiesChecked, NoKey
<1>5. AtMostMaxNodes /\ CurrentListed
  BY <1>1, <1>2 DEF Init, AtMostMaxNodes, CurrentListed, NoKey
<1>6. HoldersListed
  BY <1>1 DEF Init, HoldersListed, Holds
<1>7. QED
  BY <1>3, <1>4, <1>5, <1>6 DEF Inv

-----------------------------------------------------------------------------
(* The key with one field changed.                                         *)
LEMMA KeyFields ==
  ASSUME NEW l \in Keys
  PROVE  /\ l.ver \in Nat /\ l.versions \in Seq(Nat \ {0}) /\ l.current \in Nat
         /\ \A n \in Nat : LET k == [l EXCEPT !.ver = n] IN
              /\ k \in Keys /\ k.ver = n
              /\ k.versions = l.versions /\ k.current = l.current
         /\ \A n \in Nat : LET k == [l EXCEPT !.current = n] IN
              /\ k \in Keys /\ k.current = n
              /\ k.versions = l.versions /\ k.ver = l.ver
         /\ \A s \in Seq(Nat \ {0}) : LET k == [l EXCEPT !.versions = s] IN
              /\ k \in Keys /\ k.versions = s
              /\ k.current = l.current /\ k.ver = l.ver
<1> DEFINE S == Seq(Nat \ {0})
<1>1. Keys = [ver : Nat, versions : S, current : Nat]
  BY DEF Keys
<1> HIDE DEF S
<1>2. l.ver \in Nat /\ l.versions \in S /\ l.current \in Nat
  BY <1>1
<1>3. \A n \in Nat : LET k == [l EXCEPT !.ver = n] IN
        /\ k \in Keys /\ k.ver = n
        /\ k.versions = l.versions /\ k.current = l.current
  BY <1>1
<1>4. \A n \in Nat : LET k == [l EXCEPT !.current = n] IN
        /\ k \in Keys /\ k.current = n
        /\ k.versions = l.versions /\ k.ver = l.ver
  BY <1>1
<1>5. \A s \in S : LET k == [l EXCEPT !.versions = s] IN
        /\ k \in Keys /\ k.versions = s
        /\ k.current = l.current /\ k.ver = l.ver
  BY <1>1
<1>6. QED
  BY <1>2, <1>3, <1>4, <1>5 DEF S

(* What a process writes back is a key.                                    *)
LEMMA WithVersionKey ==
  ASSUME NEW l \in Keys, NEW v \in Nat \ {0}
  PROVE  /\ WithVersion(v, l) \in Keys
         /\ WithVersion(v, l).versions = Append(l.versions, v)
         /\ WithVersion(v, l).current = l.current
<1>1. Append(l.versions, v) \in Seq(Nat \ {0})
  BY KeyFields, AppendProperties
<1>2. LET k == [l EXCEPT !.versions = Append(l.versions, v)] IN
        /\ k \in Keys /\ k.versions = Append(l.versions, v)
        /\ k.current = l.current
  BY ONLY <1>1, l \in Keys, KeyFields, SMTT(60)
<1>3. QED
  BY ONLY <1>2 DEF WithVersion

(* ... with another current version, ...                                  *)
LEMMA WithCurrentKey ==
  ASSUME NEW l \in Keys, NEW v \in Nat \ {0}
  PROVE  /\ WithCurrent(v, l) \in Keys
         /\ WithCurrent(v, l).versions = l.versions
         /\ WithCurrent(v, l).current = v
  BY KeyFields DEF WithCurrent

(* ... or without a version.                                              *)
LEMMA WithoutVersionKey ==
  ASSUME NEW l \in Keys, NEW v \in Nat \ {0}
  PROVE  /\ WithoutVersion(v, l) \in Keys
         /\ WithoutVersion(v, l).versions = RemoveFirst(l.versions, v)
         /\ WithoutVersion(v, l).current =
              IF l.current = v THEN 0 ELSE l.current
<1> DEFINE s == RemoveFirst(l.versions, v)
           c == IF l.current = v THEN 0 ELSE l.current
           k == [l EXCEPT !.versions = s]
<1>1. s \in Seq(Nat \ {0})
  BY KeyFields, RemoveFirstCases, RemoveElements
<1>2. c \in Nat
  BY KeyFields
<1>3. WithoutVersion(v, l) = [k EXCEPT !.current = c]
  BY DEF WithoutVersion
<1> HIDE DEF s, c
<1>4. k \in Keys /\ k.versions = s
  BY <1>1, KeyFields
<1> HIDE DEF k
<1>5. [k EXCEPT !.current = c] \in Keys
  BY <1>2, <1>4, KeyFields
<1>6. /\ [k EXCEPT !.current = c].versions = s
      /\ [k EXCEPT !.current = c].current = c
  BY <1>2, <1>4, KeyFields
<1>7. QED
  BY <1>3, <1>5, <1>6 DEF s, c

(* Leaving shortens the list at most, takes nobody else out of it, and the *)
(* version that is left as the current one is still in it.                 *)
LEMMA LeavingKey ==
  ASSUME NEW l \in Keys, NEW v \in Nat \ {0},
         l.current # 0 => Listed(l.current, l)
  PROVE  LET k == WithoutVersion(v, l) IN
         /\ Len(k.versions) <= Len(l.versions)
         /\ \A w : Listed(w, l) /\ w # v => Listed(w, k)
         /\ \A w : Listed(w, k) => Listed(w, l)
         /\ k.current # 0 => Listed(k.current, k)
<1> DEFINE s == l.versions
           t == RemoveFirst(s, v)
<1>1. s \in Seq(Nat \ {0}) /\ Len(s) \in Nat
  BY KeyFields, LenProperties
<1>2. /\ Len(t) <= Len(s)
      /\ \A w : In(w, s) /\ w # v => In(w, t)
      /\ \A w : In(w, t) => In(w, s)
  <2>1. CASE t = s
    BY <1>1, <2>1
  <2>2. ASSUME NEW i \in 1 .. Len(s), s[i] = v, t = RemoveAt(s, i)
        PROVE  /\ Len(t) <= Len(s)
               /\ \A w : In(w, s) /\ w # v => In(w, t)
               /\ \A w : In(w, t) => In(w, s)
    <3>1. Len(t) = Len(s) - 1
      BY <1>1, <2>2, RemoveAtProperties
    <3>2. QED
      BY <1>1, <2>2, <3>1, RemoveElements
  <2>3. QED
    BY <1>1, <2>1, <2>2, RemoveFirstCases
<1>3. /\ WithoutVersion(v, l).versions = t
      /\ WithoutVersion(v, l).current = IF l.current = v THEN 0 ELSE l.current
  BY WithoutVersionKey
<1> HIDE DEF t
<1>4. \A w : (Listed(w, l) <=> In(w, s))
             /\ (Listed(w, WithoutVersion(v, l)) <=> In(w, t))
  BY <1>3 DEF Listed, In
<1>5. QED
  BY <1>2, <1>3, <1>4

-----------------------------------------------------------------------------
(* A commit leaves the copies alone; it writes the key, which is then the  *)
(* one that was read, or it is not done and the process fails.             *)
LEMMA CommitCases ==
  ASSUME Inv, NEW p \in Procs, NEW next \in Keys, NEW done, NEW failed,
         Commit(p, next, done, failed)
  PROVE  /\ seen' = seen /\ faults' \in 0 .. MaxFaults
         /\ \/ /\ lock' = lock
               /\ pc' = [pc EXCEPT ![p] = failed]
            \/ /\ seen[p] = lock
               /\ lock' = [next EXCEPT !.ver = lock.ver + 1]
               /\ pc' \in {[pc EXCEPT ![p] = done], [pc EXCEPT ![p] = failed]}
<1>1. faults' \in 0 .. MaxFaults
  BY DEF Commit, Fault, Inv, TypeOK
<1>2. seen' = seen
  BY DEF Commit
<1>3. Committed(p, next) =>
        /\ seen[p] = lock
        /\ lock' = [next EXCEPT !.ver = lock.ver + 1]
  BY DEF Committed, Written, Inv, CopiesOld
<1>4. QED
  BY <1>1, <1>2, <1>3 DEF Commit, Conflict

(* A step that does not write the key: a read, a move, a crash or a commit *)
(* that is not done.                                                       *)
LEMMA StayInv ==
  ASSUME Inv, NEW p \in Procs, NEW at \in Places,
         lock' = lock, seen' \in {seen, [seen EXCEPT ![p] = lock]},
         pc' = [pc EXCEPT ![p] = at],
         faults' \in 0 .. MaxFaults, lost' \in {lost, lost \cup {p}},
         at = "locking" => Len(seen'[p].versions) < maxNodes,
         at = "setting" => Listed(Version[p], seen'[p]),
         at \in {"ready", "setting", "script", "running", "stop"} => Holds(p)
  PROVE  Inv'
<1>1. TypeOK'
  BY DEF Inv, TypeOK
<1>2. \A q \in Procs : /\ seen'[q] \in {seen[q], lock}
                       /\ q # p => seen'[q] = seen[q] /\ pc'[q] = pc[q]
  BY DEF Inv, TypeOK
<1>3. pc'[p] = at
  BY DEF Inv, TypeOK
<1>4. CopiesOld'
  <2>1. lock.ver <= lock.ver
    BY DEF Inv, TypeOK, Keys
  <2>2. QED
    BY <1>2, <2>1 DEF Inv, CopiesOld
<1>5. CopiesChecked'
  BY <1>2, <1>3 DEF Inv, CopiesChecked, Listed
<1>6. AtMostMaxNodes' /\ CurrentListed'
  BY DEF Inv, AtMostMaxNodes, CurrentListed, Listed
<1>7. HoldersListed'
  BY <1>2, <1>3 DEF Inv, HoldersListed, Holds, Alone, Listed
<1>8. QED
  BY <1>1, <1>4, <1>5, <1>6, <1>7 DEF Inv

(* A step that writes the key, from the copy that is the key.              *)
LEMMA WriteInv ==
  ASSUME Inv, NEW p \in Procs, NEW at \in Places, NEW next \in Keys,
         lock' = [next EXCEPT !.ver = lock.ver + 1], seen' = seen,
         pc' = [pc EXCEPT ![p] = at],
         faults' \in 0 .. MaxFaults, lost' \in {lost, lost \cup {p}},
         at \notin {"locking", "setting"},
         Len(next.versions) <= maxNodes,
         next.current # 0 => Listed(next.current, next),
         \A q \in Procs \ {p} :
           Holds(q) /\ Alone(q) => Listed(Version[q], next),
         at \in {"ready", "setting", "script", "running", "stop"}
           => Listed(Version[p], next)
  PROVE  Inv'
<1>1. /\ lock' \in Keys /\ lock'.ver = lock.ver + 1
      /\ lock'.versions = next.versions /\ lock'.current = next.current
  <2>1. lock \in Keys
    BY DEF Inv, TypeOK
  <2>2. lock.ver + 1 \in Nat
    BY <2>1, KeyFields
  <2> HIDE DEF Inv
  <2>3. QED
    BY <2>2, KeyFields
<1>2. TypeOK'
  BY <1>1 DEF Inv, TypeOK
<1>3. pc'[p] = at /\ \A q \in Procs : q # p => pc'[q] = pc[q]
  BY DEF Inv, TypeOK
<1>4. CopiesOld'
  <2>1. \A q \in Procs : seen[q].ver \in Nat /\ lock.ver \in Nat
    BY DEF Inv, TypeOK, Keys
  <2>2. \A q \in Procs : seen[q].ver <= lock.ver + 1
                         /\ seen[q].ver # lock.ver + 1
    BY <2>1 DEF Inv, CopiesOld
  <2>3. QED
    BY <1>1, <2>2 DEF CopiesOld
<1>5. CopiesChecked'
  BY <1>3 DEF Inv, CopiesChecked, Listed
<1>6. AtMostMaxNodes' /\ CurrentListed'
  BY <1>1 DEF AtMostMaxNodes, CurrentListed, Listed
<1>7. HoldersListed'
  <2>1. SUFFICES ASSUME NEW q \in Procs, Holds(q)', Alone(q)
                 PROVE  Listed(Version[q], next)
    BY <1>1 DEF HoldersListed, Alone, Listed
  <2>2. CASE q = p
    BY <1>3, <2>1, <2>2 DEF Holds
  <2>3. CASE q # p
    BY <1>3, <2>1, <2>3 DEF Holds
  <2>4. QED
    BY <2>2, <2>3
<1>8. QED
  BY <1>2, <1>4, <1>5, <1>6, <1>7 DEF Inv

-----------------------------------------------------------------------------
(* One lemma per kind of step.                                             *)
(* What the types give for one process.                                    *)
LEMMA Types ==
  ASSUME Inv, NEW p \in Procs
  PROVE  /\ lock \in Keys /\ seen[p] \in Keys /\ pc[p] \in Places
         /\ faults \in 0 .. MaxFaults /\ Version[p] \in Nat \ {0}
         /\ Len(lock.versions) \in Nat
<1>1. lock \in Keys
  BY DEF Inv, TypeOK
<1>2. Len(lock.versions) \in Nat
  BY <1>1, KeyFields, LenProperties
<1>3. QED
  BY <1>1, <1>2 DEF Inv, TypeOK

(* A move elsewhere.                                                       *)
LEMMA MovesInv ==
  ASSUME Inv, NEW p \in Procs, NEW from, NEW to \in Places,
         Moves(p, from, to), to \notin {"locking", "setting", "ready", "stop"},
         to \in {"running", "script"} => from \in {"script", "setting"}
  PROVE  Inv'
<1>1. to \in {"ready", "setting", "script", "running", "stop"} => Holds(p)
  BY DEF Moves, Holds
<1>2. faults' \in 0 .. MaxFaults
  BY Types DEF Moves
<1>3. QED
  BY <1>1, <1>2, StayInv DEF Moves

(* The lock: it is read and not full, ...                                  *)
LEMMA TryLockingInv ==
  ASSUME Inv, NEW p \in Procs, TryLocking(p) PROVE Inv'
<1>1. faults' \in 0 .. MaxFaults /\ lock' = lock /\ lost' = lost
  BY Types DEF TryLocking, ReadThen, ReadFails, Fault
<1>2. seen' = [seen EXCEPT ![p] = lock] => seen'[p] = lock
  BY DEF Inv, TypeOK
<1>3. CASE Len(lock.versions) < maxNodes /\ ReadThen(p, "locking")
  <2>1. "locking" \in Places
    BY DEF Places
  <2>2. /\ seen' = [seen EXCEPT ![p] = lock]
        /\ pc' = [pc EXCEPT ![p] = "locking"]
        /\ Len(seen'[p].versions) < maxNodes
    BY <1>2, <1>3 DEF ReadThen
  <2>3. QED
    BY <1>1, <2>1, <2>2, StayInv
<1>4. CASE ReadThen(p, "undo") \/ ReadFails(p, "undo")
  <2>1. "undo" \in Places
    BY DEF Places
  <2>2. /\ seen' \in {seen, [seen EXCEPT ![p] = lock]}
        /\ pc' = [pc EXCEPT ![p] = "undo"]
    BY <1>4 DEF ReadThen, ReadFails
  <2>3. QED
    BY <1>1, <2>1, <2>2, StayInv
<1>5. QED
  BY <1>3, <1>4 DEF TryLocking

(* ... and the version is written behind the others.                       *)
LEMMA LockingInv ==
  ASSUME Inv, NEW p \in Procs, Locking(p) PROVE Inv'
<1> DEFINE next == WithVersion(Version[p], seen[p])
<1>1. /\ next \in Keys /\ next.current = seen[p].current
      /\ next.versions = Append(seen[p].versions, Version[p])
  BY Types, WithVersionKey
<1>2. pc[p] = "locking" /\ Commit(p, next, "ready", "undo") /\ lost' = lost
  BY DEF Locking
<1>3. "ready" \in Places /\ "undo" \in Places
  BY DEF Places
<1>4. /\ Len(next.versions) = Len(seen[p].versions) + 1
      /\ \A w : Listed(w, seen[p]) => Listed(w, next)
      /\ Listed(Version[p], next)
  <2> DEFINE s == seen[p].versions
  <2>1. s \in Seq(Nat \ {0}) /\ Version[p] \in Nat \ {0}
    BY Types, KeyFields
  <2> HIDE DEF s
  <2>2. /\ Len(Append(s, Version[p])) = Len(s) + 1
        /\ \A i \in 1 .. Len(s) : Append(s, Version[p])[i] = s[i]
        /\ Append(s, Version[p])[Len(s) + 1] = Version[p]
    BY <2>1, AppendProperties
  <2>3. Len(s) \in Nat
    BY <2>1, LenProperties
  <2>4. \A i \in 1 .. Len(s) : i \in 1 .. Len(s) + 1
    BY <2>3
  <2>5. Len(s) + 1 \in 1 .. Len(s) + 1
    BY <2>3
  <2>6. next.versions = Append(s, Version[p])
    BY <1>1 DEF s
  <2> HIDE DEF next
  <2>7. QED
    BY <2>2, <2>4, <2>5, <2>6 DEF Listed, s
<1> HIDE DEF next
<1>5. Len(next.versions) <= maxNodes
  <2>1. seen[p].versions \in Seq(Nat \ {0}) /\ Len(seen[p].versions) < maxNodes
    BY <1>2, Types, KeyFields DEF Inv, CopiesChecked
  <2>2. Len(seen[p].versions) \in Nat
    BY <2>1, LenProperties
  <2>3. QED
    BY <1>4, <2>1, <2>2
<1>6. faults' \in 0 .. MaxFaults /\ seen' = seen
  BY <1>1, <1>2, CommitCases
<1>7. CASE lock' = lock /\ pc' = [pc EXCEPT ![p] = "undo"]
  BY <1>2, <1>3, <1>6, <1>7, StayInv
<1>8. ASSUME seen[p] = lock, lock' = [next EXCEPT !.ver = lock.ver + 1],
             NEW at \in {"ready", "undo"}, pc' = [pc EXCEPT ![p] = at]
      PROVE  Inv'
  <2>1. next.current # 0 => Listed(next.current, next)
    BY <1>1, <1>4, <1>8 DEF Inv, CurrentListed
  <2>2. \A q \in Procs \ {p} : Holds(q) /\ Alone(q) => Listed(Version[q], next)
    BY <1>4, <1>8 DEF Inv, HoldersListed
  <2>3. at \in Places /\ at \notin {"locking", "setting"}
    BY <1>3
  <2>4. QED
    BY <1>1, <1>2, <1>4, <1>5, <1>6, <1>8, <2>1, <2>2, <2>3, WriteInv
<1>9. QED
  BY <1>1, <1>2, <1>7, <1>8, CommitCases

(* The start is over: the key is read, ...                                 *)
LEMMA StartedVersionInv ==
  ASSUME Inv, NEW p \in Procs, StartedVersion(p) PROVE Inv'
<1>1. /\ faults' \in 0 .. MaxFaults /\ lock' = lock /\ lost' = lost
      /\ pc[p] = "ready" /\ Holds(p)
  BY Types DEF StartedVersion, ReadThen, ReadFails, Fault, Holds
<1>2. seen' = [seen EXCEPT ![p] = lock] => seen'[p] = lock
  BY DEF Inv, TypeOK
<1>3. CASE Listed(Version[p], lock) /\ ReadThen(p, "setting")
  <2>1. "setting" \in Places
    BY DEF Places
  <2>2. /\ seen' = [seen EXCEPT ![p] = lock]
        /\ pc' = [pc EXCEPT ![p] = "setting"]
        /\ Listed(Version[p], seen'[p])
    BY <1>2, <1>3 DEF ReadThen
  <2>3. QED
    BY <1>1, <2>1, <2>2, StayInv
<1>4. ASSUME NEW at \in {"script", "undo"}, ReadThen(p, at) \/ ReadFails(p, at)
      PROVE  Inv'
  <2>1. at \in Places
    BY DEF Places
  <2>2. /\ seen' \in {seen, [seen EXCEPT ![p] = lock]}
        /\ pc' = [pc EXCEPT ![p] = at]
    BY <1>4 DEF ReadThen, ReadFails
  <2>3. QED
    BY <1>1, <2>1, <2>2, StayInv
<1>5. QED
  BY <1>3, <1>4 DEF StartedVersion

(* ... and the version becomes the current one.                            *)
LEMMA SettingInv ==
  ASSUME Inv, NEW p \in Procs, Setting(p) PROVE Inv'
<1> DEFINE next == WithCurrent(Version[p], seen[p])
<1>1. /\ next \in Keys /\ next.current = Version[p]
      /\ next.versions = seen[p].versions
  BY Types, WithCurrentKey
<1>2. pc[p] = "setting" /\ Commit(p, next, "script", "undo") /\ lost' = lost
  BY DEF Setting
<1>3. "script" \in Places /\ "undo" \in Places
  BY DEF Places
<1> HIDE DEF next
<1>4. \A w : Listed(w, seen[p]) => Listed(w, next)
  BY <1>1 DEF Listed
<1>5. Listed(Version[p], next)
  BY <1>2, <1>4 DEF Inv, CopiesChecked
<1>6. faults' \in 0 .. MaxFaults /\ seen' = seen
  BY <1>1, <1>2, CommitCases
<1>7. CASE lock' = lock /\ pc' = [pc EXCEPT ![p] = "undo"]
  BY <1>2, <1>3, <1>6, <1>7, StayInv
<1>8. ASSUME seen[p] = lock, lock' = [next EXCEPT !.ver = lock.ver + 1],
             NEW at \in {"script", "undo"}, pc' = [pc EXCEPT ![p] = at]
      PROVE  Inv'
  <2>1. Len(next.versions) <= maxNodes
    BY <1>1, <1>8 DEF Inv, AtMostMaxNodes
  <2>2. \A q \in Procs \ {p} : Holds(q) /\ Alone(q) => Listed(Version[q], next)
    BY <1>4, <1>8 DEF Inv, HoldersListed
  <2>3. at \in Places /\ at \notin {"locking", "setting"}
    BY <1>3
  <2>4. QED
    BY <1>1, <1>2, <1>5, <1>6, <1>8, <2>1, <2>2, <2>3, WriteInv
<1>9. QED
  BY <1>1, <1>2, <1>7, <1>8, CommitCases

(* Leaving: the key is read, ...                                           *)
LEMMA ReadToLeaveInv ==
  ASSUME Inv, NEW p \in Procs, NEW from, NEW to \in {"undoing", "unlocking"},
         NEW after \in {"off", "closing"}, ReadToLeave(p, from, to, after)
  PROVE  Inv'
<1>1. /\ faults' \in 0 .. MaxFaults /\ lock' = lock
      /\ lost' \in {lost, lost \cup {p}}
      /\ seen' \in {seen, [seen EXCEPT ![p] = lock]}
  BY Types DEF ReadToLeave, ReadThen, ReadFails, Fault
<1>2. PICK at \in {to, after} : pc' = [pc EXCEPT ![p] = at]
  BY DEF ReadToLeave, ReadThen, ReadFails
<1>3. at \in Places
  BY DEF Places
<1>4. QED
  BY <1>1, <1>2, <1>3, StayInv

(* ... and the version is taken out.                                       *)
LEMMA LeaveInv ==
  ASSUME Inv, NEW p \in Procs, NEW from, NEW after \in {"off", "closing"},
         Leave(p, from, after)
  PROVE  Inv'
<1> DEFINE next == WithoutVersion(Version[p], seen[p])
<1>1. next \in Keys
  BY Types, WithoutVersionKey
<1>2. Commit(p, next, after, after) /\ lost' \in {lost, lost \cup {p}}
  BY DEF Leave
<1>3. after \in Places
  BY DEF Places
<1>4. seen[p] = lock =>
        /\ Len(next.versions) <= Len(lock.versions)
        /\ \A w : Listed(w, lock) /\ w # Version[p] => Listed(w, next)
        /\ next.current # 0 => Listed(next.current, next)
  BY Types, LeavingKey DEF Inv, CurrentListed
<1>5. Len(next.versions) \in Nat
  BY <1>1, KeyFields, LenProperties
<1> HIDE DEF next
<1>6. /\ faults' \in 0 .. MaxFaults /\ seen' = seen
      /\ pc' = [pc EXCEPT ![p] = after]
  BY <1>1, <1>2, CommitCases
<1>7. CASE lock' = lock
  BY <1>2, <1>3, <1>6, <1>7, StayInv
<1>8. CASE seen[p] = lock /\ lock' = [next EXCEPT !.ver = lock.ver + 1]
  <2>1. Len(next.versions) <= maxNodes
    BY <1>4, <1>5, <1>8, Types DEF Inv, AtMostMaxNodes
  <2>2. \A q \in Procs \ {p} : Holds(q) /\ Alone(q) => Listed(Version[q], next)
    BY <1>4, <1>8 DEF Inv, HoldersListed, Alone
  <2>3. QED
    BY <1>1, <1>2, <1>3, <1>4, <1>6, <1>8, <2>1, <2>2, WriteInv
<1>9. QED
  BY <1>1, <1>2, <1>7, <1>8, CommitCases

(* A death writes nothing.                                                 *)
LEMMA CrashInv ==
  ASSUME Inv, NEW p \in Procs, Crash(p) PROVE Inv'
<1>1. "crashed" \in Places /\ faults' \in 0 .. MaxFaults
  BY Types DEF Places, Crash
<1>2. QED
  BY <1>1, StayInv DEF Crash

(* Every step keeps the invariant.                                         *)
LEMMA NextInv == Inv /\ [Next]_vars => Inv'
<1> SUFFICES ASSUME Inv, [Next]_vars PROVE Inv'
  OBVIOUS
<1>1. CASE UNCHANGED vars
  BY <1>1 DEF vars, Inv, TypeOK, CopiesOld, CopiesChecked, AtMostMaxNodes,
              CurrentListed, HoldersListed, Holds, Alone, Listed
<1>2. ASSUME NEW p \in Procs, Step(p) PROVE Inv'
  <2>1. CASE TryLocking(p)
    BY <2>1, TryLockingInv
  <2>2. CASE Locking(p)
    BY <2>2, LockingInv
  <2>3. CASE StartedVersion(p)
    BY <2>3, StartedVersionInv
  <2>4. CASE Setting(p)
    BY <2>4, SettingInv
  <2>5. CASE StartUpFailed(p) \/ Stopping(p)
    BY <2>5, ReadToLeaveInv DEF StartUpFailed, Stopping
  <2>6. CASE StartUpUnlock(p) \/ StoppingUnlock(p)
    BY <2>6, LeaveInv DEF StartUpUnlock, StoppingUnlock
  <2>7. CASE Crash(p)
    BY <2>7, CrashInv
  <2>8. CASE PrepareFails(p) \/ ScriptFails(p)
    BY <2>8, MovesInv DEF PrepareFails, ScriptFails, Places
  <2>9. CASE ScriptStarts(p)
    BY <2>9, MovesInv DEF ScriptStarts, Places
  <2>10. CASE Stop(p)
    <3>1. /\ "stop" \in Places /\ Holds(p) /\ faults' \in 0 .. MaxFaults
          /\ pc' = [pc EXCEPT ![p] = "stop"]
          /\ lock' = lock /\ seen' = seen /\ lost' = lost
      BY <2>10, Types DEF Stop, Moves, Places, Holds
    <3>2. QED
      BY <3>1, StayInv
  <2>11. CASE Closed(p)
    BY <2>11, MovesInv DEF Closed, Places
  <2>12. QED
    BY <1>2, <2>1, <2>2, <2>3, <2>4, <2>5, <2>6, <2>7, <2>8, <2>9, <2>10,
       <2>11 DEF Step
<1>3. QED
  BY <1>1, <1>2 DEF Next

(* So the invariant holds always.                                          *)
LEMMA SpecInv == Spec => []Inv
<1>1. QED
  BY InitInv, NextInv, PTL DEF Spec

(* Every variable has its type.                                            *)
THEOREM TypeCorrect == Spec => []TypeOK
<1>1. Inv => TypeOK
  BY DEF Inv
<1>2. QED
  BY <1>1, SpecInv, PTL

(* However the reads and the writes interleave, the key never lists more   *)
(* than maxNodes versions (etcdStartUpTryLockingVersionNodeLock).          *)
THEOREM AtMost == Spec => []AtMostMaxNodes
<1>1. Inv => AtMostMaxNodes
  BY DEF Inv
<1>2. QED
  BY <1>1, SpecInv, PTL

(* The version others route to is one that is listed.                      *)
THEOREM CurrentIsListed == Spec => []CurrentListed
<1>1. Inv => CurrentListed
  BY DEF Inv
<1>2. QED
  BY <1>1, SpecInv, PTL

-----------------------------------------------------------------------------
(* No two processes of the node were started in the same second.           *)
Apart == \A p \in Procs : Alone(p)

(* Then nobody is listed twice, nobody but the processes is, and a listed  *)
(* process is one that is in, that died, or whose unlock was not done.     *)
InNoTwice ==
  /\ Distinct(lock.versions)
  /\ \A v : Listed(v, lock) => \E p \in Procs : Version[p] = v

Kept ==
  \A p \in Procs : Listed(Version[p], lock) =>
    /\ pc[p] \notin {"new", "locking"}
    /\ pc[p] \in {"off", "closing"} => p \in lost

Inv2 == Inv /\ InNoTwice /\ Kept

(* What a process writes back, in terms of the versions listed.            *)
LEMMA WritesElements ==
  ASSUME NEW l \in Keys, NEW v \in Nat \ {0}
  PROVE  /\ \A w : Listed(w, WithVersion(v, l)) <=> Listed(w, l) \/ w = v
         /\ \A w : Listed(w, WithCurrent(v, l)) <=> Listed(w, l)
         /\ Distinct(l.versions) =>
              \A w : Listed(w, WithoutVersion(v, l)) <=> Listed(w, l) /\ w # v
<1> DEFINE s == l.versions
           t == RemoveFirst(s, v)
           a == Append(s, v)
<1>1. s \in Seq(Nat \ {0}) /\ Len(s) \in Nat
  BY KeyFields, LenProperties
<1>2. \A w : In(w, a) <=> In(w, s) \/ w = v
  <2> HIDE DEF s
  <2>1. /\ Len(a) = Len(s) + 1 /\ a[Len(s) + 1] = v
        /\ \A i \in 1 .. Len(s) : a[i] = s[i]
    BY <1>1, AppendProperties
  <2>2. /\ \A i \in 1 .. Len(s) : i \in 1 .. Len(s) + 1
        /\ Len(s) + 1 \in 1 .. Len(s) + 1
    BY <1>1
  <2>3. \A w : In(w, a) => In(w, s) \/ w = v
    BY <1>1, AppendElements
  <2> HIDE DEF a
  <2>4. In(v, a) /\ \A w : In(w, s) => In(w, a)
    BY <2>1, <2>2 DEF In
  <2>5. QED
    BY <2>3, <2>4
<1>3. ASSUME Distinct(s) PROVE \A w : In(w, t) <=> In(w, s) /\ w # v
  <2>1. CASE ~In(v, s) /\ t = s
    BY <2>1
  <2>2. ASSUME NEW i \in 1 .. Len(s), s[i] = v, t = RemoveAt(s, i)
        PROVE  \A w : In(w, t) <=> In(w, s) /\ w # v
    BY <1>1, <1>3, <2>2, RemoveElements
  <2>3. QED
    BY <1>1, <2>1, <2>2, RemoveFirstCases
<1>4. /\ WithVersion(v, l).versions = a
      /\ WithCurrent(v, l).versions = s
      /\ WithoutVersion(v, l).versions = t
  BY WithVersionKey, WithCurrentKey, WithoutVersionKey
<1>5. \A w : (Listed(w, l) <=> In(w, s))
             /\ (Listed(w, WithVersion(v, l)) <=> In(w, a))
             /\ (Listed(w, WithCurrent(v, l)) <=> In(w, s))
             /\ (Listed(w, WithoutVersion(v, l)) <=> In(w, t))
  BY <1>4 DEF Listed, In
<1> HIDE DEF s, t, a
<1>6. QED
  BY <1>2, <1>3, <1>5 DEF s

(* ... and nobody is listed twice in it, if the version was not there.     *)
LEMMA WritesDistinct ==
  ASSUME NEW l \in Keys, NEW v \in Nat \ {0}, Distinct(l.versions)
  PROVE  /\ ~Listed(v, l) => Distinct(WithVersion(v, l).versions)
         /\ Distinct(WithCurrent(v, l).versions)
         /\ Distinct(WithoutVersion(v, l).versions)
<1> DEFINE s == l.versions
<1>1. s \in Seq(Nat \ {0})
  BY KeyFields
<1>2. Distinct(RemoveFirst(s, v))
  BY <1>1, RemoveFirstCases, RemoveElements
<1>3. ~In(v, s) => Distinct(Append(s, v))
  BY <1>1, AppendElements
<1>4. Listed(v, l) <=> In(v, s)
  BY DEF Listed, In
<1>5. QED
  BY <1>2, <1>3, <1>4, WithVersionKey, WithCurrentKey, WithoutVersionKey

(* The key is written as it was read, changed.                             *)
Writes(p, next) == seen[p] = lock /\ lock' = [next EXCEPT !.ver = lock.ver + 1]

(* What a step does to the lock, to the place of the process that takes it *)
(* and to nobody else's.                                                   *)
LEMMA StepCases ==
  ASSUME Inv, NEW p \in Procs, Step(p)
  PROVE  /\ \A q \in Procs \ {p} :
              pc'[q] = pc[q] /\ (q \in lost' <=> q \in lost)
         /\ \/ /\ lock' = lock
               /\ pc'[p] \in {"new", "locking"} => pc[p] = "new"
               /\ pc'[p] \in {"off", "closing"} =>
                    p \in lost' \/ (pc[p] = "closing" /\ lost' = lost)
            \/ /\ Writes(p, WithVersion(Version[p], lock))
               /\ pc[p] = "locking" /\ pc'[p] \in {"ready", "undo"}
               /\ Len(lock.versions) < maxNodes
            \/ /\ Writes(p, WithCurrent(Version[p], lock))
               /\ pc[p] = "setting" /\ pc'[p] \in {"script", "undo"}
               /\ Listed(Version[p], lock)
            \/ Writes(p, WithoutVersion(Version[p], lock))
<1> USE Types
<1>0. /\ \A at : pc' = [pc EXCEPT ![p] = at] =>
                /\ pc'[p] = at
                /\ \A q \in Procs \ {p} : pc'[q] = pc[q]
      /\ \A q \in Procs \ {p} : q \in lost \cup {p} <=> q \in lost
  BY DEF Inv, TypeOK
<1>1. CASE TryLocking(p)
  BY <1>0, <1>1 DEF TryLocking, ReadThen, ReadFails
<1>2. CASE Locking(p)
  <2> DEFINE next == WithVersion(Version[p], seen[p])
  <2>1. next \in Keys /\ Commit(p, next, "ready", "undo") /\ lost' = lost
    BY <1>2, WithVersionKey DEF Locking
  <2>2. pc[p] = "locking" /\ Len(seen[p].versions) < maxNodes
    BY <1>2 DEF Locking, Inv, CopiesChecked
  <2>3. \/ lock' = lock /\ pc' = [pc EXCEPT ![p] = "undo"]
        \/ /\ seen[p] = lock /\ lock' = [next EXCEPT !.ver = lock.ver + 1]
           /\ pc' \in {[pc EXCEPT ![p] = "ready"], [pc EXCEPT ![p] = "undo"]}
    <3> HIDE DEF next
    <3>1. QED
      BY <2>1, CommitCases
  <2>4. QED
    BY <1>0, <2>1, <2>2, <2>3 DEF Writes
<1>3. CASE Setting(p)
  <2> DEFINE next == WithCurrent(Version[p], seen[p])
  <2>1. next \in Keys /\ Commit(p, next, "script", "undo") /\ lost' = lost
    BY <1>3, WithCurrentKey DEF Setting
  <2>2. pc[p] = "setting" /\ Listed(Version[p], seen[p])
    BY <1>3 DEF Setting, Inv, CopiesChecked
  <2>3. \/ lock' = lock /\ pc' = [pc EXCEPT ![p] = "undo"]
        \/ /\ seen[p] = lock /\ lock' = [next EXCEPT !.ver = lock.ver + 1]
           /\ pc' \in {[pc EXCEPT ![p] = "script"], [pc EXCEPT ![p] = "undo"]}
    <3> HIDE DEF next
    <3>1. QED
      BY <2>1, CommitCases
  <2>4. QED
    BY <1>0, <2>1, <2>2, <2>3 DEF Writes
<1>4. ASSUME NEW from, NEW after, Leave(p, from, after), from # "new"
      PROVE  /\ \A q \in Procs \ {p} :
                  pc'[q] = pc[q] /\ (q \in lost' <=> q \in lost)
             /\ pc'[p] = after
             /\ \/ lock' = lock /\ p \in lost'
                \/ Writes(p, WithoutVersion(Version[p], lock))
  <2> DEFINE next == WithoutVersion(Version[p], seen[p])
  <2>1. next \in Keys /\ Commit(p, next, after, after)
    BY <1>4, WithoutVersionKey DEF Leave
  <2>2. lost' = IF lock' = lock THEN lost \cup {p} ELSE lost
    BY <1>4 DEF Leave
  <2>3. /\ pc' = [pc EXCEPT ![p] = after]
        /\ \/ lock' = lock
           \/ seen[p] = lock /\ lock' = [next EXCEPT !.ver = lock.ver + 1]
    <3> HIDE DEF next
    <3>1. QED
      BY <2>1, CommitCases
  <2>4. QED
    BY <1>0, <2>2, <2>3 DEF Writes
<1>5. CASE StartUpUnlock(p) \/ StoppingUnlock(p)
  BY <1>4, <1>5 DEF StartUpUnlock, StoppingUnlock
<1>6. CASE StartedVersion(p)
  BY <1>0, <1>6 DEF StartedVersion, ReadThen, ReadFails
<1>7. CASE StartUpFailed(p)
  BY <1>0, <1>7 DEF StartUpFailed, ReadToLeave, ReadThen, ReadFails
<1>8. CASE Stopping(p)
  BY <1>0, <1>8 DEF Stopping, ReadToLeave, ReadThen, ReadFails
<1>9. CASE Crash(p)
  BY <1>0, <1>9 DEF Crash
<1>10. CASE PrepareFails(p) \/ ScriptStarts(p) \/ ScriptFails(p) \/ Stop(p)
  BY <1>0, <1>10 DEF PrepareFails, ScriptStarts, ScriptFails, Stop, Moves
<1>11. CASE Closed(p)
  BY <1>0, <1>11 DEF Closed, Moves
<1>12. QED
  BY <1>1, <1>2, <1>3, <1>5, <1>6, <1>7, <1>8, <1>9, <1>10, <1>11 DEF Step

(* A written key lists what was written, for whatever was written.         *)
LEMMA WritesLock ==
  ASSUME Inv, NEW p \in Procs, NEW next \in Keys, Writes(p, next)
  PROVE  /\ lock' \in Keys /\ lock'.versions = next.versions
         /\ lock'.current = next.current
         /\ \A w : Listed(w, lock') <=> Listed(w, next)
<1>1. lock.ver + 1 \in Nat
  BY Types, KeyFields
<1>2. /\ lock' \in Keys /\ lock'.versions = next.versions
      /\ lock'.current = next.current
  BY <1>1, KeyFields DEF Writes
<1>3. QED
  BY <1>2 DEF Listed

(* Every step keeps the strengthened invariant.                            *)
LEMMA NextInv2 == Apart /\ Inv2 /\ [Next]_vars => Inv2'
<1> SUFFICES ASSUME Apart, Inv2, [Next]_vars PROVE Inv2'
  OBVIOUS
<1>1. Inv' /\ Inv
  BY NextInv DEF Inv2
<1>2. CASE UNCHANGED vars
  BY <1>1, <1>2 DEF Inv2, InNoTwice, Kept, vars, Listed, Distinct
<1>3. ASSUME NEW p \in Procs, Step(p) PROVE InNoTwice' /\ Kept'
  <2> DEFINE v == Version[p]
  <2>0. v \in Nat \ {0} /\ lock \in Keys
    BY <1>1, Types
  <2>1. \A q \in Procs \ {p} : /\ pc'[q] = pc[q] /\ (q \in lost' <=> q \in lost)
                               /\ Version[q] # v
    BY <1>1, <1>3, StepCases DEF Apart, Alone
  <2>2. Distinct(lock.versions) /\ \A w : Listed(w, lock) =>
                                      \E q \in Procs : Version[q] = w
    BY DEF Inv2, InNoTwice
  <2>3. \A q \in Procs : Listed(Version[q], lock) =>
          /\ pc[q] \notin {"new", "locking"}
          /\ pc[q] \in {"off", "closing"} => q \in lost
    BY DEF Inv2, Kept
  <2> HIDE DEF v
  <2>4. CASE /\ lock' = lock
             /\ pc'[p] \in {"new", "locking"} => pc[p] = "new"
             /\ pc'[p] \in {"off", "closing"} =>
                  p \in lost' \/ (pc[p] = "closing" /\ lost' = lost)
    <3>1. InNoTwice'
      BY <2>2, <2>4 DEF InNoTwice
    <3>2. Kept'
      BY <2>1, <2>3, <2>4 DEF Kept
    <3>3. QED
      BY <3>1, <3>2
  <2>5. CASE /\ Writes(p, WithVersion(v, lock))
             /\ pc[p] = "locking" /\ pc'[p] \in {"ready", "undo"}
    <3>1. /\ lock'.versions = WithVersion(v, lock).versions
          /\ \A w : Listed(w, lock') <=> Listed(w, lock) \/ w = v
      BY <1>1, <2>0, <2>5, WritesLock, WithVersionKey, WritesElements
    <3>2. ~Listed(v, lock)
      BY <2>3, <2>5 DEF v
    <3>3. InNoTwice'
      <4>1. Distinct(lock'.versions)
        BY <2>0, <2>2, <3>1, <3>2, WritesDistinct
      <4>2. QED
        BY <2>2, <3>1, <4>1 DEF InNoTwice, v
    <3>4. Kept'
      BY <2>1, <2>3, <2>5, <3>1 DEF Kept, v
    <3>5. QED
      BY <3>3, <3>4
  <2>6. CASE /\ Writes(p, WithCurrent(v, lock))
             /\ pc[p] = "setting" /\ pc'[p] \in {"script", "undo"}
    <3>1. /\ lock'.versions = WithCurrent(v, lock).versions
          /\ \A w : Listed(w, lock') <=> Listed(w, lock)
      BY <1>1, <2>0, <2>6, WritesLock, WithCurrentKey, WritesElements
    <3>2. InNoTwice'
      <4>1. Distinct(lock'.versions)
        BY <2>0, <2>2, <3>1, WritesDistinct
      <4>2. QED
        BY <2>2, <3>1, <4>1 DEF InNoTwice
    <3>3. Kept'
      BY <2>1, <2>3, <2>6, <3>1 DEF Kept
    <3>4. QED
      BY <3>2, <3>3
  <2>7. CASE Writes(p, WithoutVersion(v, lock))
    <3>1. /\ lock'.versions = WithoutVersion(v, lock).versions
          /\ \A w : Listed(w, lock') <=> Listed(w, lock) /\ w # v
      BY <1>1, <2>0, <2>2, <2>7, WritesLock, WithoutVersionKey, WritesElements
    <3>2. InNoTwice'
      <4>1. Distinct(lock'.versions)
        BY <2>0, <2>2, <3>1, WritesDistinct
      <4>2. QED
        BY <2>2, <3>1, <4>1 DEF InNoTwice
    <3>3. Kept'
      BY <2>1, <2>3, <3>1 DEF Kept, v
    <3>4. QED
      BY <3>2, <3>3
  <2>8. QED
    BY <1>1, <1>3, <2>4, <2>5, <2>6, <2>7, StepCases DEF v
<1>4. QED
  BY <1>1, <1>2, <1>3 DEF Next, Inv2

(* At the start nobody is listed.                                          *)
LEMMA InitInv2 == Init => Inv2
<1> SUFFICES ASSUME Init PROVE Inv2
  OBVIOUS
<1>1. lock.versions = << >>
  BY DEF Init, NoKey
<1>2. Len(<< >>) = 0
  OBVIOUS
<1>3. \A v : ~Listed(v, lock)
  BY <1>1, <1>2 DEF Listed
<1>4. Distinct(lock.versions)
  BY <1>1, EmptyQueue
<1>5. QED
  BY <1>3, <1>4, InitInv DEF Inv2, InNoTwice, Kept

(* The lock lists who is up and nobody else but the lost: no write undoes  *)
(* the lock or the unlock of another process, when no two processes of the *)
(* node were started in the same second.                                   *)
THEOREM ListIsRight == ASSUME Apart PROVE Spec => []ListMatches
<1>1. Init => Inv2
  BY InitInv2
<1>2. Inv2 /\ [Next]_vars => Inv2'
  BY NextInv2
<1>3. ASSUME Inv2 PROVE ListMatches
  <2>1. HoldersListed
    BY <1>3 DEF Inv2, Inv
  <2>2. OnlyLostKept
    <3>1. \A i \in 1 .. Len(lock.versions) : Listed(lock.versions[i], lock)
      BY DEF Listed
    <3>2. \A i \in 1 .. Len(lock.versions) :
            \E p \in Procs : Version[p] = lock.versions[i]
      BY <1>3, <3>1 DEF Inv2, InNoTwice
    <3>3. QED
      BY <1>3, <3>1, <3>2 DEF Inv2, Kept, OnlyLostKept
  <2>3. QED
    BY <2>1, <2>2 DEF ListMatches
<1>4. QED
  BY <1>1, <1>2, <1>3, PTL DEF Spec

-----------------------------------------------------------------------------
(* The atomic lock: the set of the versions listed.                        *)
SlotsOf(l) == {l.versions[i] : i \in 1 .. Len(l.versions)}

(* The set of the versions listed, element by element.                     *)
LEMMA SlotsElements ==
  ASSUME NEW l PROVE \A w : w \in SlotsOf(l) <=> Listed(w, l)
  BY DEF SlotsOf, Listed

(* There are no more versions than places in the list.                     *)
LEMMA SlotsCount ==
  ASSUME NEW l \in Keys PROVE Cardinality(SlotsOf(l)) <= Len(l.versions)
<1> DEFINE n == Len(l.versions)
           f == [i \in 1 .. n |-> l.versions[i]]
<1>1. n \in Nat
  BY KeyFields, LenProperties
<1> HIDE DEF n
<1>2. f \in Surjection(1 .. n, SlotsOf(l))
  BY DEF Surjection, SlotsOf, n
<1>3. ExistsSurjection(1 .. n, SlotsOf(l))
  BY <1>2 DEF ExistsSurjection
<1>4. QED
  BY <1>1, <1>3, FS_SurjCardinalityBound DEF n

(* ... and finitely many.                                                  *)
LEMMA SlotsFinite ==
  ASSUME NEW l \in Keys PROVE IsFiniteSet(SlotsOf(l))
<1> DEFINE n == Len(l.versions)
           f == [i \in 1 .. n |-> l.versions[i]]
<1>1. n \in Nat
  BY KeyFields, LenProperties
<1> HIDE DEF n
<1>2. f \in Surjection(1 .. n, SlotsOf(l))
  BY DEF Surjection, SlotsOf, n
<1>3. IsFiniteSet(1 .. n)
  BY <1>1, FS_Interval
<1>4. QED
  BY <1>2, <1>3, FS_Surjection

(* One step of the lock is one of the atomic lock, or leaves it alone.     *)
LEMMA StepRefines ==
  ASSUME Apart, Inv2, [Next]_vars
  PROVE  [Slots!SlotsNext]_(Slots!slotVars)
<1> DEFINE slots == SlotsOf(lock)
           current == lock.current
<1>1. Inv
  BY DEF Inv2
<1>2. ASSUME slots' = slots, current' = current
      PROVE  [Slots!SlotsNext]_(Slots!slotVars)
  BY <1>2 DEF Slots!slotVars, SlotsOf
<1>3. CASE UNCHANGED vars
  BY <1>2, <1>3 DEF vars
<1>4. ASSUME NEW p \in Procs, Step(p)
      PROVE  [Slots!SlotsNext]_(Slots!slotVars)
  <2> DEFINE v == Version[p]
  <2>0. /\ v \in Nat \ {0} /\ lock \in Keys /\ Len(lock.versions) \in Nat
        /\ v \in {Version[q] : q \in Procs}
    BY <1>1, Types
  <2>1. Distinct(lock.versions)
    BY DEF Inv2, InNoTwice
  <2>2. CASE lock' = lock
    BY <1>2, <2>2
  <2>3. CASE /\ Writes(p, WithVersion(v, lock)) /\ pc[p] = "locking"
             /\ Len(lock.versions) < maxNodes
    <3>1. \A w : Listed(w, lock') <=> Listed(w, lock) \/ w = v
      BY <1>1, <2>0, <2>3, WritesLock, WithVersionKey, WritesElements
    <3>2. current' = current
      BY <1>1, <2>0, <2>3, WritesLock, WithVersionKey
    <3>3. slots' = slots \cup {v}
      BY <3>1, SlotsElements
    <3>4. v \notin slots
      BY <2>3, SlotsElements DEF Inv2, Kept
    <3>5. Cardinality(slots) < maxNodes
      <4>1. Cardinality(slots) <= Len(lock.versions)
        BY <2>0, SlotsCount
      <4>2. Cardinality(slots) \in Nat
        <5>1. IsFiniteSet(slots)
          BY <2>0, SlotsFinite
        <5>2. QED
          BY <5>1, FS_CardinalityType
      <4>3. QED
        BY <2>0, <2>3, <4>1, <4>2
    <3>6. Slots!Take(v)
      <4>1. v \notin slots /\ slots' = slots \cup {v} /\ UNCHANGED current
        BY <3>2, <3>3, <3>4
      <4>2. Slots!Cardinality(slots) = Cardinality(slots)
        BY DEF Slots!Cardinality, Cardinality
      <4>3. QED
        BY <4>1, <4>2, <3>5 DEF Slots!Take, SlotsOf
    <3>7. QED
      BY <2>0, <3>6 DEF Slots!SlotsNext
  <2>4. CASE Writes(p, WithCurrent(v, lock)) /\ Listed(v, lock)
    <3>1. \A w : Listed(w, lock') <=> Listed(w, lock)
      BY <1>1, <2>0, <2>4, WritesLock, WithCurrentKey, WritesElements
    <3>2. current' = v
      BY <1>1, <2>0, <2>4, WritesLock, WithCurrentKey
    <3>3. slots' = slots /\ v \in slots
      BY <2>4, <3>1, SlotsElements
    <3>4. Slots!Promote(v)
      BY <3>2, <3>3 DEF Slots!Promote, SlotsOf
    <3>5. QED
      BY <2>0, <3>4 DEF Slots!SlotsNext
  <2>5. CASE Writes(p, WithoutVersion(v, lock))
    <3>1. \A w : Listed(w, lock') <=> Listed(w, lock) /\ w # v
      BY <1>1, <2>0, <2>1, <2>5, WritesLock, WithoutVersionKey, WritesElements
    <3>2. current' = IF current = v THEN 0 ELSE current
      BY <1>1, <2>0, <2>5, WritesLock, WithoutVersionKey
    <3>3. slots' = slots \ {v}
      BY <3>1, SlotsElements
    <3>4. CASE v \in slots
      <4>1. Slots!GiveBack(v)
        BY <3>2, <3>3, <3>4 DEF Slots!GiveBack, SlotsOf
      <4>2. QED
        BY <2>0, <4>1 DEF Slots!SlotsNext
    <3>5. CASE v \notin slots
      <4>1. current # v
        BY <1>1, <2>0, <3>5, SlotsElements DEF Inv, CurrentListed
      <4>2. QED
        BY <1>2, <3>2, <3>3, <3>5, <4>1
    <3>6. QED
      BY <3>4, <3>5
  <2>6. QED
    BY <1>1, <1>4, <2>2, <2>3, <2>4, <2>5, StepCases
<1>5. QED
  BY <1>3, <1>4 DEF Next

(* The lock that is read, changed and written back on a condition does     *)
(* what the atomic one promises (VersionSlots), when no two processes of   *)
(* the node were started in the same second.                               *)
THEOREM LockImplements == ASSUME Apart PROVE Spec => Implements
<1>1. Init => Inv2
  BY InitInv2
<1>2. Inv2 /\ [Next]_vars => Inv2'
  BY NextInv2
<1>3. Init => Slots!SlotsInit
  <2>1. ASSUME Init PROVE lock.versions = << >> /\ lock.current = 0
    BY <2>1 DEF Init, NoKey
  <2>2. Len(<< >>) = 0
    OBVIOUS
  <2>3. QED
    BY <2>1, <2>2 DEF Slots!SlotsInit
<1>4. Inv2 /\ [Next]_vars => [Slots!SlotsNext]_(Slots!slotVars)
  BY StepRefines
<1>5. QED
  BY <1>1, <1>2, <1>3, <1>4, PTL DEF Spec, Implements, Slots!SlotsSpec

-----------------------------------------------------------------------------
(* CosmosProcess.  The tuples of variables that its actions leave unchanged*)
(* are expanded throughout, and the sets of places.                        *)
HIDE VersionAssumption
HIDE MaxNodesAssumption
HIDE FaultsAssumption
USE MainAssumption, MaxFailuresAssumption
    DEF Threads, Starting, Undoing, Ending,
        drain, app, keep, chans, etcd, ends

(* Where a thread is between the shutdown of the state and that of the     *)
(* main script.                                                            *)
InShutdown == {"unset", "tell", "script"}

(* The shutdown is one thread's: nobody is in it before the process runs   *)
(* or while it does, and the script is shut down at the end of it.         *)
OneStops ==
  /\ place[Main] \in Starting \cup Undoing => state # "Running"
  /\ state = "Running" => place[Main] = "wait"
  /\ (place[Main] \in Starting \cup Undoing \/ state = "Running") =>
       shutdowns = 0 /\ \A t \in Threads : place[t] \notin InShutdown
  /\ \A t, u \in Threads :
       place[t] \in InShutdown /\ place[u] \in InShutdown => t = u
  /\ (\E t \in Threads : place[t] \in InShutdown) => shutdowns = 0
  /\ shutdowns <= 1

(* From its preparation on, and while it runs, the process has its place   *)
(* in the version lock: only a stop gives it back.                         *)
LockHeld ==
  (\/ place[Main] \in {"elements", "register", "current", "enter"}
   \/ state = "Running") => inLock

(* As long as no TryKilling is refused, no request gets in before the      *)
(* start is through, and one thread at most is in an end.                  *)
StartFirst ==
  ~rude =>
    /\ (place[Main] \in Starting \cup Undoing \/ state = "Running") =>
         \A k \in Killers : place[k] = "sent"
    /\ place[Main] \in Starting \cup Undoing =>
         state \notin {"Shutdown", "Off"}
    /\ \A t \in Threads : place[t] \in Ending => state = "Shutdown"
    /\ \A t, u \in Threads :
         place[t] \in Ending /\ place[u] \in Ending => t = u

(* Who has waited for the goroutine of the registration has it behind      *)
(* them: once the channel is gone, it writes no state any more, and until  *)
(* then one that has begun is seen by the channel of its exit.             *)
KeeperWaited ==
  /\ place[Main] \in {"boot", "prepare", "elements", "register"} =>
       keeper = "none"
  /\ infoCh = "nil" => keeper # "put"
  /\ infoCh # "nil" /\ keeper \notin {"none", "spawned", "gone"} => keeperExit

(* How far the start has come, unless a refused TryKilling unloads it: the *)
(* client, the channel and the lock are there from the preparation on, the *)
(* key and the goroutine that keeps it from the registration on.           *)
Registered ==
  ~rude =>
    /\ place[Main] \in {"boot", "prepare"} =>
         ~client /\ ~grpc /\ ~inLock /\ infoCh = "nil"
    /\ place[Main] \in {"boot", "prepare", "elements", "register"} =>
         key = "none" /\ ~lease
    /\ (\/ place[Main] \in {"elements", "register", "current", "enter"}
        \/ state = "Running") =>
         client /\ infoCh = "open" /\ inLock
    /\ (place[Main] \in {"current", "enter"} \/ state = "Running") =>
         /\ putting # "Stopping"
         /\ lease => /\ key \in {"Started", "Draining"}
                     /\ keeper \in {"spawned", "select", "awake", "put"}

(* How far an end has come by the place of its thread.                     *)
CloseFirst(t) ==
  /\ place[t] \in {"undoEtcd", "etcd"} => infoCh = "nil"
  /\ (\/ place[t] \in {"undoGRPC", "fail", "grpc", "off"}
      \/ t = Main /\ place[t] = "kill") => ~client
  /\ (\/ place[t] \in {"fail", "off"}
      \/ t = Main /\ place[t] = "kill") => ~grpc
  /\ place[t] \in Ending \ {"unset"} => ~inLock

(* An end without a failure takes everything back, and the client last:    *)
(* who has closed it has left the cluster.                                 *)
Left ==
  ~rude /\ ~broken =>
    /\ \A t \in Threads : CloseFirst(t)
    /\ ~client => key = "none" /\ infoCh = "nil" /\ ~inLock
    /\ state = "Off" => ~client /\ ~grpc

(* A shutdown is always somebody's, and the main goroutine comes to its    *)
(* end only when the process is off or somebody shuts it down.             *)
Stopped ==
  ~rude =>
    /\ state = "Shutdown" => \E t \in Threads : place[t] \in Ending
    /\ place[Main] = "wait" => state \notin {"Prepare", "Startup"}
    /\ place[Main] \in {"end", "exited"} => state \in {"Shutdown", "Off"}

(* Where an end has passed the kill of the local cosmos.                   *)
KilledFirst ==
  ~rude =>
    /\ \A k \in Killers :
         place[k] \in {"close", "await", "etcd", "grpc", "off"} => ~local
    /\ place[Main] = "off" => ~local
    /\ state = "Off" /\ shutdowns > 0 => ~local


-----------------------------------------------------------------------------
(* The steps of a drain or a signal, and those of the goroutine that keeps *)
(* the registration and of its lease.                                      *)
DrainMoves == (\E d \in Drains : Drain(d)) \/ DrainStep \/ Signal
KeeperMoves == KeeperStep \/ KeepAlive \/ LeaseLost \/ LeaseExpires

(* A drain and a signal move no thread and leave etcd alone.               *)
LEMMA DrainLeaves ==
  ASSUME DrainMoves
  PROVE  UNCHANGED <<state, place, cancelled, infoCh, keeperExit, client,
                     watching, grpc, local, inLock, key, lease, failures,
                     shutdowns, broken, rude, crashed>>
BY DEF DrainMoves, DrainStep, Drain, StartDrain, DrainOver, DrainCancelled,
       exitAfterDrain, Signal

(* The goroutine of the registration moves no thread: it changes only the  *)
(* registration, the watch and what it is about itself.                    *)
LEMMA KeeperLeaves ==
  ASSUME KeeperMoves
  PROVE  UNCHANGED <<state, place, drain, cancelled, app, infoCh, client,
                     grpc, local, inLock, ends>>
BY DEF KeeperMoves, KeeperStep, KeeperBegins, KeepAlive, LeaseLost,
       LeaseExpires, KeeperAwake, KeeperClosed, KeeperPuts, KeeperDeletes,
       KeeperUnchanged

(* A thread that goes to a place it may be at.                             *)
LEMMA GotoOK ==
  ASSUME PlacesOK, NEW t \in Threads, NEW at, Goto(t, at), drainPc' = drainPc,
         at \in Starting \cup Undoing \cup Ending
                 \cup {"wait", "end", "exited"},
         t = Main \/ at \in Ending \cup {"end"}
  PROVE  PlacesOK'
BY DEF PlacesOK, Goto

(* A thread that goes on is at its new place, and nobody else moves.       *)
LEMMA Moved ==
  ASSUME PlacesOK, NEW t \in Threads, NEW at, Goto(t, at)
  PROVE  /\ place'[t] = at
         /\ \A u \in Threads : u # t => place'[u] = place[u]
BY DEF PlacesOK, Goto

-----------------------------------------------------------------------------
(* A step keeps the goroutines where they may be.                          *)
LEMMA PlacesKept ==
  ASSUME PlacesOK, ProcessNext
  PROVE  PlacesOK'
<1> USE DEF PlacesOK
<1>1. CASE StartStep
  BY <1>1, GotoOK
    DEF StartStep, handleStartUpFailedClusterCleanUp, Boot, Prepare,
        Elements, Register, Current, Enter, UndoLocal, CloseInfoCh,
        AwaitKeeper, DeleteKey, StopGRPC
<1>2. CASE StopMain
  BY <1>2, GotoOK DEF StopMain, Shutdown
<1>3. CASE \E t \in Threads : StopStep(t)
  <2> PICK t \in Threads : StopStep(t)
    BY <1>3
  <2>1. CASE Unset(t)
    BY <2>1, GotoOK DEF Unset
  <2>2. CASE Tell(t)
    BY <2>2, GotoOK DEF Tell, Publish
  <2>3. CASE ShutScript(t)
    BY <2>3, GotoOK DEF ShutScript
  <2>4. CASE CloseInfoCh(t, "close", "await", "etcd")
    BY <2>4, GotoOK DEF CloseInfoCh
  <2>5. CASE AwaitKeeper(t, "await", "etcd")
    BY <2>5, GotoOK DEF AwaitKeeper
  <2>6. CASE DeleteKey(t, "etcd", "grpc", FALSE)
    BY <2>6, GotoOK DEF DeleteKey
  <2>7. CASE StopGRPC(t, "grpc", IF t = Main THEN "kill" ELSE "off")
    BY <2>7, GotoOK DEF StopGRPC
  <2>8. CASE Kill(t)
    BY <2>8, GotoOK DEF Kill
  <2>9. CASE Off(t)
    BY <2>9, GotoOK DEF Off
  <2>10. QED
    BY <2>1, <2>2, <2>3, <2>4, <2>5, <2>6, <2>7, <2>8, <2>9
      DEF StopStep, unloadClusterLocalNode
<1>4. CASE \E k \in Killers : TryKilling(k)
  BY <1>4, GotoOK DEF TryKilling, Shutdown
<1>5. CASE DrainMoves
  BY <1>5, DrainLeaves
    DEF DrainMoves, DrainStep, Drain, StartDrain, Publish, DrainOver,
        DrainCancelled, exitAfterDrain, Signal
<1>6. CASE KeeperMoves
  BY <1>6, KeeperLeaves
<1>7. CASE Exit
  BY <1>7, GotoOK DEF Exit
<1>8. QED
  BY <1>1, <1>2, <1>3, <1>4, <1>5, <1>6, <1>7
    DEF ProcessNext, ProcessStep, DrainMoves, KeeperMoves

(* A step keeps the flags true or false.                                   *)
LEMMA FlagsKept ==
  ASSUME FlagsOK, ProcessNext
  PROVE  FlagsOK'
<1> USE DEF FlagsOK
<1>1. CASE StartStep
  <2>1. CASE Boot
    BY <2>1 DEF Boot
  <2>2. CASE Prepare
    BY <2>2 DEF Prepare
  <2>3. CASE Elements
    BY <2>3 DEF Elements
  <2>4. CASE Register
    BY <2>4 DEF Register
  <2>5. CASE Current
    BY <2>5 DEF Current
  <2>6. CASE Enter
    BY <2>6 DEF Enter
  <2>7. CASE UndoLocal
    BY <2>7 DEF UndoLocal
  <2>8. CASE CloseInfoCh(Main, "undoClose", "undoAwait", "undoEtcd")
    BY <2>8 DEF CloseInfoCh
  <2>9. CASE AwaitKeeper(Main, "undoAwait", "undoEtcd")
    BY <2>9 DEF AwaitKeeper
  <2>10. CASE DeleteKey(Main, "undoEtcd", "undoGRPC", TRUE)
    BY <2>10 DEF DeleteKey
  <2>11. CASE StopGRPC(Main, "undoGRPC", "fail")
    BY <2>11 DEF StopGRPC
  <2>12. QED
    BY <1>1, <2>1, <2>2, <2>3, <2>4, <2>5, <2>6, <2>7, <2>8, <2>9, <2>10,
       <2>11
      DEF StartStep, handleStartUpFailedClusterCleanUp
<1>2. CASE StopMain
  BY <1>2 DEF StopMain, Shutdown
<1>3. CASE \E t \in Threads : StopStep(t)
  <2> PICK t \in Threads : StopStep(t)
    BY <1>3
  <2>1. CASE Unset(t)
    BY <2>1 DEF Unset
  <2>2. CASE Tell(t)
    BY <2>2 DEF Tell, Publish
  <2>3. CASE ShutScript(t)
    BY <2>3 DEF ShutScript
  <2>4. CASE CloseInfoCh(t, "close", "await", "etcd")
    BY <2>4 DEF CloseInfoCh
  <2>5. CASE AwaitKeeper(t, "await", "etcd")
    BY <2>5 DEF AwaitKeeper
  <2>6. CASE DeleteKey(t, "etcd", "grpc", FALSE)
    BY <2>6 DEF DeleteKey
  <2>7. CASE StopGRPC(t, "grpc", IF t = Main THEN "kill" ELSE "off")
    BY <2>7 DEF StopGRPC
  <2>8. CASE Kill(t)
    BY <2>8 DEF Kill
  <2>9. CASE Off(t)
    BY <2>9 DEF Off
  <2>10. QED
    BY <2>1, <2>2, <2>3, <2>4, <2>5, <2>6, <2>7, <2>8, <2>9
      DEF StopStep, unloadClusterLocalNode
<1>4. CASE \E k \in Killers : TryKilling(k)
  BY <1>4 DEF TryKilling, Shutdown
<1>5. CASE DrainMoves
  <2>1. CASE \E d \in Drains : Drain(d)
    BY <2>1 DEF Drain
  <2>2. CASE \E d \in Drains : StartDrain(d)
    BY <2>2 DEF StartDrain, Publish
  <2>3. CASE DrainOver
    BY <2>3 DEF DrainOver
  <2>4. CASE DrainCancelled
    BY <2>4 DEF DrainCancelled
  <2>5. CASE exitAfterDrain
    BY <2>5 DEF exitAfterDrain
  <2>6. CASE Signal
    BY <2>6 DEF Signal
  <2>7. QED
    BY <1>5, <2>1, <2>2, <2>3, <2>4, <2>5, <2>6 DEF DrainMoves, DrainStep
<1>6. CASE KeeperMoves
  BY <1>6, KeeperLeaves
    DEF KeeperMoves, KeeperStep, KeeperBegins, KeeperUnchanged, KeepAlive,
        LeaseLost, LeaseExpires, KeeperAwake, KeeperClosed, KeeperPuts,
        KeeperDeletes
<1>7. CASE Exit
  BY <1>7 DEF Exit
<1>8. QED
  BY <1>1, <1>2, <1>3, <1>4, <1>5, <1>6, <1>7
    DEF ProcessNext, ProcessStep, DrainMoves, KeeperMoves

(* A step keeps every variable in its type. A registration starts the      *)
(* goroutine that keeps it while there is none yet, so that it has nothing *)
(* to write.                                                               *)
LEMMA TypesKept ==
  ASSUME ProcessTypeOK, KeeperWaited, ProcessNext
  PROVE  ProcessTypeOK'
<1> USE DEF ProcessTypeOK, Works, Fails
<1>0. PlacesOK' /\ FlagsOK'
  BY PlacesKept, FlagsKept DEF ProcessTypeOK
<1>1. CASE StartStep
  <2>1. CASE Boot
    BY <2>1, <1>0 DEF Boot
  <2>2. CASE Prepare
    BY <2>2, <1>0 DEF Prepare
  <2>3. CASE Elements
    BY <2>3, <1>0 DEF Elements
  <2>4. CASE Register
    <3>1. Works \/ Fails
      BY <2>4 DEF Register
    <3>2. failures' \in 0 .. MaxFailures
      BY <3>1 DEF ProcessTypeOK, Works, Fails
    <3>3. /\ keeper' \in {keeper, "spawned"} /\ key' \in {"none", "Started"}
          /\ UNCHANGED <<state, watcher, exitCh, signals, putting, infoCh,
                         shutdowns>>
      BY <2>4 DEF Register
    <3>4. keeper = "none"
      BY <2>4 DEF Register, KeeperWaited
    <3>5. QED
      BY <1>0, <3>2, <3>3, <3>4 DEF ProcessTypeOK
  <2>5. CASE Current
    BY <2>5, <1>0 DEF Current
  <2>6. CASE Enter
    BY <2>6, <1>0 DEF Enter
  <2>7. CASE UndoLocal
    BY <2>7, <1>0 DEF UndoLocal
  <2>8. CASE CloseInfoCh(Main, "undoClose", "undoAwait", "undoEtcd")
    BY <2>8, <1>0 DEF CloseInfoCh
  <2>9. CASE AwaitKeeper(Main, "undoAwait", "undoEtcd")
    BY <2>9, <1>0 DEF AwaitKeeper
  <2>10. CASE DeleteKey(Main, "undoEtcd", "undoGRPC", TRUE)
    BY <2>10, <1>0 DEF DeleteKey
  <2>11. CASE StopGRPC(Main, "undoGRPC", "fail")
    BY <2>11, <1>0 DEF StopGRPC
  <2>12. QED
    BY <1>1, <2>1, <2>2, <2>3, <2>4, <2>5, <2>6, <2>7, <2>8, <2>9, <2>10,
       <2>11
      DEF StartStep, handleStartUpFailedClusterCleanUp
<1>2. CASE StopMain
  BY <1>2, <1>0 DEF StopMain, Shutdown
<1>3. CASE \E t \in Threads : StopStep(t)
  <2> PICK t \in Threads : StopStep(t)
    BY <1>3
  <2>1. CASE Unset(t)
    <3>1. Works \/ Fails
      BY <2>1 DEF Unset
    <3>2. failures' \in 0 .. MaxFailures
      BY <3>1 DEF ProcessTypeOK, Works, Fails
    <3>3. UNCHANGED <<state, watcher, exitCh, signals, keeper, putting, infoCh,
                      key, shutdowns>>
      BY <2>1 DEF Unset
    <3>4. QED
      BY <1>0, <3>2, <3>3 DEF ProcessTypeOK
  <2>2. CASE Tell(t)
    BY <2>2, <1>0 DEF Tell, Publish
  <2>3. CASE ShutScript(t)
    BY <2>3, <1>0 DEF ShutScript
  <2>4. CASE CloseInfoCh(t, "close", "await", "etcd")
    BY <2>4, <1>0 DEF CloseInfoCh
  <2>5. CASE AwaitKeeper(t, "await", "etcd")
    BY <2>5, <1>0 DEF AwaitKeeper
  <2>6. CASE DeleteKey(t, "etcd", "grpc", FALSE)
    BY <2>6, <1>0 DEF DeleteKey
  <2>7. CASE StopGRPC(t, "grpc", IF t = Main THEN "kill" ELSE "off")
    BY <2>7, <1>0 DEF StopGRPC
  <2>8. CASE Kill(t)
    BY <2>8, <1>0 DEF Kill
  <2>9. CASE Off(t)
    BY <2>9, <1>0 DEF Off
  <2>10. QED
    BY <2>1, <2>2, <2>3, <2>4, <2>5, <2>6, <2>7, <2>8, <2>9
      DEF StopStep, unloadClusterLocalNode
<1>4. CASE \E k \in Killers : TryKilling(k)
  BY <1>4, <1>0 DEF TryKilling, Shutdown
<1>5. CASE DrainMoves
  <2>1. CASE \E d \in Drains : Drain(d)
    BY <2>1, <1>0 DEF Drain
  <2>2. CASE \E d \in Drains : StartDrain(d)
    BY <2>2, <1>0 DEF StartDrain, Publish
  <2>3. CASE DrainOver
    BY <2>3, <1>0 DEF DrainOver
  <2>4. CASE DrainCancelled
    BY <2>4, <1>0 DEF DrainCancelled
  <2>5. CASE exitAfterDrain
    BY <2>5, <1>0 DEF exitAfterDrain
  <2>6. CASE Signal
    BY <2>6, <1>0 DEF Signal
  <2>7. QED
    BY <1>5, <2>1, <2>2, <2>3, <2>4, <2>5, <2>6 DEF DrainMoves, DrainStep
<1>6. CASE KeeperMoves
  <2>1. CASE KeeperBegins
    BY <2>1, <1>0 DEF KeeperBegins, KeeperUnchanged
  <2>2. CASE KeepAlive
    BY <2>2, <1>0 DEF KeepAlive, KeeperUnchanged
  <2>3. CASE LeaseLost
    BY <2>3, <1>0 DEF LeaseLost, KeeperUnchanged
  <2>4. CASE KeeperAwake
    BY <2>4, <1>0 DEF KeeperAwake, KeeperUnchanged
  <2>5. CASE KeeperClosed
    BY <2>5, <1>0 DEF KeeperClosed, KeeperUnchanged
  <2>6. CASE KeeperPuts
    BY <2>6, <1>0 DEF KeeperPuts, KeeperUnchanged
  <2>7. CASE KeeperDeletes
    BY <2>7, <1>0 DEF KeeperDeletes, KeeperUnchanged
  <2>8. CASE LeaseExpires
    BY <2>8, <1>0 DEF LeaseExpires, KeeperUnchanged
  <2>9. QED
    BY <1>6, <2>1, <2>2, <2>3, <2>4, <2>5, <2>6, <2>7, <2>8
      DEF KeeperMoves, KeeperStep
<1>7. CASE Exit
  BY <1>7, <1>0 DEF Exit
<1>8. QED
  BY <1>1, <1>2, <1>3, <1>4, <1>5, <1>6, <1>7
    DEF ProcessNext, ProcessStep, DrainMoves, KeeperMoves

-----------------------------------------------------------------------------
(* A step keeps it that one thread at most is between the shutdown of the  *)
(* process and that of its script: only Enter sets the state to Running,   *)
(* once, and Shutdown takes it from there.                                 *)
LEMMA OneStopsKept ==
  ASSUME ProcessTypeOK, OneStops, ProcessNext
  PROVE  OneStops'
<1> USE DEF OneStops, InShutdown, ProcessTypeOK, PlacesOK, FlagsOK
<1>1. CASE StartStep
  <2>1. CASE Boot
    BY <2>1, Moved DEF Boot
  <2>2. CASE Prepare
    BY <2>2, Moved DEF Prepare
  <2>3. CASE Elements
    BY <2>3, Moved DEF Elements
  <2>4. CASE Register
    BY <2>4, Moved DEF Register
  <2>5. CASE Current
    BY <2>5, Moved DEF Current
  <2>6. CASE Enter
    BY <2>6, Moved DEF Enter
  <2>7. CASE UndoLocal
    BY <2>7, Moved DEF UndoLocal
  <2>8. CASE CloseInfoCh(Main, "undoClose", "undoAwait", "undoEtcd")
    BY <2>8, Moved DEF CloseInfoCh
  <2>9. CASE AwaitKeeper(Main, "undoAwait", "undoEtcd")
    BY <2>9, Moved DEF AwaitKeeper
  <2>10. CASE DeleteKey(Main, "undoEtcd", "undoGRPC", TRUE)
    BY <2>10, Moved DEF DeleteKey
  <2>11. CASE StopGRPC(Main, "undoGRPC", "fail")
    BY <2>11, Moved DEF StopGRPC
  <2>12. QED
    BY <1>1, <2>1, <2>2, <2>3, <2>4, <2>5, <2>6, <2>7, <2>8, <2>9, <2>10,
       <2>11
      DEF StartStep, handleStartUpFailedClusterCleanUp
<1>2. CASE StopMain
  BY <1>2, Moved DEF StopMain, Shutdown
<1>3. CASE \E t \in Threads : StopStep(t)
  <2> PICK t \in Threads : StopStep(t)
    BY <1>3
  <2>1. CASE Unset(t)
    BY <2>1, Moved DEF Unset
  <2>2. CASE Tell(t)
    BY <2>2, Moved DEF Tell, Publish
  <2>3. CASE ShutScript(t)
    BY <2>3, Moved DEF ShutScript
  <2>4. CASE CloseInfoCh(t, "close", "await", "etcd")
    BY <2>4, Moved DEF CloseInfoCh
  <2>5. CASE AwaitKeeper(t, "await", "etcd")
    BY <2>5, Moved DEF AwaitKeeper
  <2>6. CASE DeleteKey(t, "etcd", "grpc", FALSE)
    BY <2>6, Moved DEF DeleteKey
  <2>7. CASE StopGRPC(t, "grpc", IF t = Main THEN "kill" ELSE "off")
    BY <2>7, Moved DEF StopGRPC
  <2>8. CASE Kill(t)
    BY <2>8, Moved DEF Kill
  <2>9. CASE Off(t)
    BY <2>9, Moved DEF Off
  <2>10. QED
    BY <2>1, <2>2, <2>3, <2>4, <2>5, <2>6, <2>7, <2>8, <2>9
      DEF StopStep, unloadClusterLocalNode
<1>4. CASE \E k \in Killers : TryKilling(k)
  BY <1>4, Moved DEF TryKilling, Shutdown
<1>5. CASE DrainMoves
  BY <1>5, DrainLeaves
<1>6. CASE KeeperMoves
  BY <1>6, KeeperLeaves
<1>7. CASE Exit
  BY <1>7, Moved DEF Exit
<1>8. QED
  BY <1>1, <1>2, <1>3, <1>4, <1>5, <1>6, <1>7
    DEF ProcessNext, ProcessStep, DrainMoves, KeeperMoves

(* A step keeps the start before every request, and one thread at most in  *)
(* an end, as long as no TryKilling is refused.                            *)
LEMMA StartFirstKept ==
  ASSUME ProcessTypeOK, OneStops, StartFirst, ProcessNext
  PROVE  StartFirst'
<1> USE DEF OneStops, StartFirst, ProcessTypeOK, PlacesOK, FlagsOK
<1>1. CASE StartStep
  <2>1. CASE Boot
    BY <2>1, Moved DEF Boot
  <2>2. CASE Prepare
    BY <2>2, Moved DEF Prepare
  <2>3. CASE Elements
    BY <2>3, Moved DEF Elements
  <2>4. CASE Register
    BY <2>4, Moved DEF Register
  <2>5. CASE Current
    BY <2>5, Moved DEF Current
  <2>6. CASE Enter
    BY <2>6, Moved DEF Enter
  <2>7. CASE UndoLocal
    BY <2>7, Moved DEF UndoLocal
  <2>8. CASE CloseInfoCh(Main, "undoClose", "undoAwait", "undoEtcd")
    BY <2>8, Moved DEF CloseInfoCh
  <2>9. CASE AwaitKeeper(Main, "undoAwait", "undoEtcd")
    BY <2>9, Moved DEF AwaitKeeper
  <2>10. CASE DeleteKey(Main, "undoEtcd", "undoGRPC", TRUE)
    BY <2>10, Moved DEF DeleteKey
  <2>11. CASE StopGRPC(Main, "undoGRPC", "fail")
    BY <2>11, Moved DEF StopGRPC
  <2>12. QED
    BY <1>1, <2>1, <2>2, <2>3, <2>4, <2>5, <2>6, <2>7, <2>8, <2>9, <2>10,
       <2>11
      DEF StartStep, handleStartUpFailedClusterCleanUp
<1>2. CASE StopMain
  BY <1>2, Moved DEF StopMain, Shutdown
<1>3. CASE \E t \in Threads : StopStep(t)
  <2> PICK t \in Threads : StopStep(t)
    BY <1>3
  <2>1. CASE Unset(t)
    BY <2>1, Moved DEF Unset
  <2>2. CASE Tell(t)
    BY <2>2, Moved DEF Tell, Publish
  <2>3. CASE ShutScript(t)
    BY <2>3, Moved DEF ShutScript
  <2>4. CASE CloseInfoCh(t, "close", "await", "etcd")
    BY <2>4, Moved DEF CloseInfoCh
  <2>5. CASE AwaitKeeper(t, "await", "etcd")
    BY <2>5, Moved DEF AwaitKeeper
  <2>6. CASE DeleteKey(t, "etcd", "grpc", FALSE)
    BY <2>6, Moved DEF DeleteKey
  <2>7. CASE StopGRPC(t, "grpc", IF t = Main THEN "kill" ELSE "off")
    BY <2>7, Moved DEF StopGRPC
  <2>8. CASE Kill(t)
    BY <2>8, Moved DEF Kill
  <2>9. CASE Off(t)
    BY <2>9, Moved DEF Off
  <2>10. QED
    BY <2>1, <2>2, <2>3, <2>4, <2>5, <2>6, <2>7, <2>8, <2>9
      DEF StopStep, unloadClusterLocalNode
<1>4. CASE \E k \in Killers : TryKilling(k)
  BY <1>4, Moved DEF TryKilling, Shutdown
<1>5. CASE DrainMoves
  BY <1>5, DrainLeaves
<1>6. CASE KeeperMoves
  BY <1>6, KeeperLeaves
<1>7. CASE Exit
  BY <1>7, Moved DEF Exit
<1>8. QED
  BY <1>1, <1>2, <1>3, <1>4, <1>5, <1>6, <1>7
    DEF ProcessNext, ProcessStep, DrainMoves, KeeperMoves

-----------------------------------------------------------------------------
(* A step keeps what the wait for the goroutine of the registration relies *)
(* on: only an open channel hands it a state, and one that has begun has   *)
(* made the channel of its exit.                                           *)
LEMMA KeeperWaitedKept ==
  ASSUME ProcessTypeOK, KeeperWaited, ProcessNext
  PROVE  KeeperWaited'
<1> USE DEF KeeperWaited, ProcessTypeOK, PlacesOK, FlagsOK
<1>1. CASE StartStep
  <2>1. CASE Boot
    BY <2>1, Moved DEF Boot
  <2>2. CASE Prepare
    BY <2>2, Moved DEF Prepare
  <2>3. CASE Elements
    BY <2>3, Moved DEF Elements
  <2>4. CASE Register
    BY <2>4, Moved DEF Register
  <2>5. CASE Current
    BY <2>5, Moved DEF Current
  <2>6. CASE Enter
    BY <2>6, Moved DEF Enter
  <2>7. CASE UndoLocal
    BY <2>7, Moved DEF UndoLocal
  <2>8. CASE CloseInfoCh(Main, "undoClose", "undoAwait", "undoEtcd")
    BY <2>8, Moved DEF CloseInfoCh
  <2>9. CASE AwaitKeeper(Main, "undoAwait", "undoEtcd")
    BY <2>9, Moved DEF AwaitKeeper
  <2>10. CASE DeleteKey(Main, "undoEtcd", "undoGRPC", TRUE)
    BY <2>10, Moved DEF DeleteKey
  <2>11. CASE StopGRPC(Main, "undoGRPC", "fail")
    BY <2>11, Moved DEF StopGRPC
  <2>12. QED
    BY <1>1, <2>1, <2>2, <2>3, <2>4, <2>5, <2>6, <2>7, <2>8, <2>9, <2>10,
       <2>11
      DEF StartStep, handleStartUpFailedClusterCleanUp
<1>2. CASE StopMain
  BY <1>2, Moved DEF StopMain, Shutdown
<1>3. CASE \E t \in Threads : StopStep(t)
  <2> PICK t \in Threads : StopStep(t)
    BY <1>3
  <2>1. CASE Unset(t)
    BY <2>1, Moved DEF Unset
  <2>2. CASE Tell(t)
    BY <2>2, Moved DEF Tell, Publish
  <2>3. CASE ShutScript(t)
    BY <2>3, Moved DEF ShutScript
  <2>4. CASE CloseInfoCh(t, "close", "await", "etcd")
    BY <2>4, Moved DEF CloseInfoCh
  <2>5. CASE AwaitKeeper(t, "await", "etcd")
    BY <2>5, Moved DEF AwaitKeeper
  <2>6. CASE DeleteKey(t, "etcd", "grpc", FALSE)
    BY <2>6, Moved DEF DeleteKey
  <2>7. CASE StopGRPC(t, "grpc", IF t = Main THEN "kill" ELSE "off")
    BY <2>7, Moved DEF StopGRPC
  <2>8. CASE Kill(t)
    BY <2>8, Moved DEF Kill
  <2>9. CASE Off(t)
    BY <2>9, Moved DEF Off
  <2>10. QED
    BY <2>1, <2>2, <2>3, <2>4, <2>5, <2>6, <2>7, <2>8, <2>9
      DEF StopStep, unloadClusterLocalNode
<1>4. CASE \E k \in Killers : TryKilling(k)
  BY <1>4, Moved DEF TryKilling, Shutdown
<1>5. CASE DrainMoves
  <2>1. CASE \E d \in Drains : Drain(d)
    BY <2>1 DEF Drain
  <2>2. CASE \E d \in Drains : StartDrain(d)
    BY <2>2 DEF StartDrain, Publish
  <2>3. CASE DrainOver
    BY <2>3 DEF DrainOver
  <2>4. CASE DrainCancelled
    BY <2>4 DEF DrainCancelled
  <2>5. CASE exitAfterDrain
    BY <2>5 DEF exitAfterDrain
  <2>6. CASE Signal
    BY <2>6 DEF Signal
  <2>7. QED
    BY <1>5, <2>1, <2>2, <2>3, <2>4, <2>5, <2>6 DEF DrainMoves, DrainStep
<1>6. CASE KeeperMoves
  <2>1. CASE KeeperBegins
    BY <2>1 DEF KeeperBegins, KeeperUnchanged
  <2>2. CASE KeepAlive
    BY <2>2 DEF KeepAlive, KeeperUnchanged
  <2>3. CASE LeaseLost
    BY <2>3 DEF LeaseLost, KeeperUnchanged
  <2>4. CASE KeeperAwake
    BY <2>4 DEF KeeperAwake, KeeperUnchanged
  <2>5. CASE KeeperClosed
    BY <2>5 DEF KeeperClosed, KeeperUnchanged
  <2>6. CASE KeeperPuts
    BY <2>6 DEF KeeperPuts, KeeperUnchanged
  <2>7. CASE KeeperDeletes
    BY <2>7 DEF KeeperDeletes, KeeperUnchanged
  <2>8. CASE LeaseExpires
    BY <2>8 DEF LeaseExpires, KeeperUnchanged
  <2>9. QED
    BY <1>6, <2>1, <2>2, <2>3, <2>4, <2>5, <2>6, <2>7, <2>8
      DEF KeeperMoves, KeeperStep
<1>7. CASE Exit
  BY <1>7, Moved DEF Exit
<1>8. QED
  BY <1>1, <1>2, <1>3, <1>4, <1>5, <1>6, <1>7
    DEF ProcessNext, ProcessStep, DrainMoves, KeeperMoves

-----------------------------------------------------------------------------
(* A step keeps a process that is up registered.                           *)
LEMMA RegisteredKept ==
  ASSUME ProcessTypeOK, OneStops, StartFirst, KeeperWaited, Registered,
         ProcessNext
  PROVE  Registered'
<1> USE DEF OneStops, StartFirst, KeeperWaited, Registered, ProcessTypeOK,
            PlacesOK, FlagsOK
<1>1. CASE StartStep
  <2>1. CASE Boot
    BY <2>1, Moved DEF Boot
  <2>2. CASE Prepare
    <3>1. PICK got \in {"nothing", "client", "lock", "port", "all"} :
            Prepare!2!(got)
      BY <2>2 DEF Prepare
    <3>2. /\ place[Main] = "prepare"
          /\ place'[Main] \in {"elements", "undoClose"}
          /\ \A u \in Threads : u # Main => place'[u] = place[u]
      BY <2>2, <3>1, Moved DEF Prepare, ProcessTypeOK
    <3>3. /\ place'[Main] = "elements" => got = "all"
          /\ got = "all" => client' /\ infoCh' = "open" /\ inLock'
      <4>1. place'[Main] = "elements" => got = "all"
        BY <3>1, Moved DEF ProcessTypeOK
      <4>2. QED
        BY <3>1, <4>1
    <3>4. UNCHANGED <<state, key, lease, rude>>
      BY <2>2 DEF Prepare
    <3>5. QED
      BY <3>2, <3>3, <3>4 DEF Registered, OneStops
  <2>3. CASE Elements
    BY <2>3, Moved DEF Elements
  <2>4. CASE Register
    BY <2>4, Moved DEF Register
  <2>5. CASE Current
    BY <2>5, Moved DEF Current
  <2>6. CASE Enter
    BY <2>6, Moved DEF Enter
  <2>7. CASE UndoLocal
    BY <2>7, Moved DEF UndoLocal
  <2>8. CASE CloseInfoCh(Main, "undoClose", "undoAwait", "undoEtcd")
    BY <2>8, Moved DEF CloseInfoCh
  <2>9. CASE AwaitKeeper(Main, "undoAwait", "undoEtcd")
    BY <2>9, Moved DEF AwaitKeeper
  <2>10. CASE DeleteKey(Main, "undoEtcd", "undoGRPC", TRUE)
    BY <2>10, Moved DEF DeleteKey
  <2>11. CASE StopGRPC(Main, "undoGRPC", "fail")
    BY <2>11, Moved DEF StopGRPC
  <2>12. QED
    BY <1>1, <2>1, <2>2, <2>3, <2>4, <2>5, <2>6, <2>7, <2>8, <2>9, <2>10,
       <2>11
      DEF StartStep, handleStartUpFailedClusterCleanUp
<1>2. CASE StopMain
  BY <1>2, Moved DEF StopMain, Shutdown
<1>3. CASE \E t \in Threads : StopStep(t)
  <2> PICK t \in Threads : StopStep(t)
    BY <1>3
  <2>1. CASE Unset(t)
    BY <2>1, Moved DEF Unset
  <2>2. CASE Tell(t)
    BY <2>2, Moved DEF Tell, Publish
  <2>3. CASE ShutScript(t)
    BY <2>3, Moved DEF ShutScript
  <2>4. CASE CloseInfoCh(t, "close", "await", "etcd")
    BY <2>4, Moved DEF CloseInfoCh
  <2>5. CASE AwaitKeeper(t, "await", "etcd")
    BY <2>5, Moved DEF AwaitKeeper
  <2>6. CASE DeleteKey(t, "etcd", "grpc", FALSE)
    BY <2>6, Moved DEF DeleteKey
  <2>7. CASE StopGRPC(t, "grpc", IF t = Main THEN "kill" ELSE "off")
    BY <2>7, Moved DEF StopGRPC
  <2>8. CASE Kill(t)
    BY <2>8, Moved DEF Kill
  <2>9. CASE Off(t)
    BY <2>9, Moved DEF Off
  <2>10. QED
    BY <2>1, <2>2, <2>3, <2>4, <2>5, <2>6, <2>7, <2>8, <2>9
      DEF StopStep, unloadClusterLocalNode
<1>4. CASE \E k \in Killers : TryKilling(k)
  BY <1>4, Moved DEF TryKilling, Shutdown
<1>5. CASE DrainMoves
  <2>1. CASE \E d \in Drains : Drain(d)
    BY <2>1 DEF Drain
  <2>2. CASE \E d \in Drains : StartDrain(d)
    BY <2>2 DEF StartDrain, Publish
  <2>3. CASE DrainOver
    BY <2>3 DEF DrainOver
  <2>4. CASE DrainCancelled
    BY <2>4 DEF DrainCancelled
  <2>5. CASE exitAfterDrain
    BY <2>5 DEF exitAfterDrain
  <2>6. CASE Signal
    BY <2>6 DEF Signal
  <2>7. QED
    BY <1>5, <2>1, <2>2, <2>3, <2>4, <2>5, <2>6 DEF DrainMoves, DrainStep
<1>6. CASE KeeperMoves
  <2>1. CASE KeeperBegins
    BY <2>1 DEF KeeperBegins, KeeperUnchanged
  <2>2. CASE KeepAlive
    BY <2>2 DEF KeepAlive, KeeperUnchanged
  <2>3. CASE LeaseLost
    BY <2>3 DEF LeaseLost, KeeperUnchanged
  <2>4. CASE KeeperAwake
    BY <2>4 DEF KeeperAwake, KeeperUnchanged
  <2>5. CASE KeeperClosed
    BY <2>5 DEF KeeperClosed, KeeperUnchanged
  <2>6. CASE KeeperPuts
    BY <2>6 DEF KeeperPuts, KeeperUnchanged
  <2>7. CASE KeeperDeletes
    BY <2>7 DEF KeeperDeletes, KeeperUnchanged
  <2>8. CASE LeaseExpires
    BY <2>8 DEF LeaseExpires, KeeperUnchanged
  <2>9. QED
    BY <1>6, <2>1, <2>2, <2>3, <2>4, <2>5, <2>6, <2>7, <2>8
      DEF KeeperMoves, KeeperStep
<1>7. CASE Exit
  BY <1>7, Moved DEF Exit
<1>8. QED
  BY <1>1, <1>2, <1>3, <1>4, <1>5, <1>6, <1>7
    DEF ProcessNext, ProcessStep, DrainMoves, KeeperMoves

-----------------------------------------------------------------------------
(* A step keeps the order of an end: what is taken back is taken back      *)
(* before the thread goes on, and nobody brings it back.                   *)
LEMMA LeftKept ==
  ASSUME ProcessTypeOK, StartFirst, KeeperWaited, Registered, Left,
         ProcessNext
  PROVE  Left'
<1> USE DEF StartFirst, KeeperWaited, Registered, Left, CloseFirst,
            ProcessTypeOK, PlacesOK, FlagsOK
<1>1. CASE StartStep
  <2>1. CASE Boot
    BY <2>1, Moved DEF Boot
  <2>2. CASE Prepare
    <3>1. PICK got \in {"nothing", "client", "lock", "port", "all"} :
            Prepare!2!(got)
      BY <2>2 DEF Prepare
    <3>2. /\ place[Main] = "prepare"
          /\ place'[Main] \in {"elements", "undoClose"}
          /\ \A u \in Threads : u # Main => place'[u] = place[u]
      BY <2>2, <3>1, Moved DEF Prepare, ProcessTypeOK
    <3>3. ~client' => infoCh' = "nil" /\ ~inLock'
      BY <3>1
    <3>4. UNCHANGED <<state, key, rude, broken>>
      BY <2>2 DEF Prepare
    <3>5. ~rude => /\ key = "none" /\ state # "Off"
                   /\ \A k \in Killers : place[k] = "sent"
      BY <3>2 DEF StartFirst, Registered
    <3>6. QED
      BY <3>2, <3>3, <3>4, <3>5 DEF Left, CloseFirst
  <2>3. CASE Elements
    BY <2>3, Moved DEF Elements
  <2>4. CASE Register
    BY <2>4, Moved DEF Register
  <2>5. CASE Current
    BY <2>5, Moved DEF Current
  <2>6. CASE Enter
    BY <2>6, Moved DEF Enter
  <2>7. CASE UndoLocal
    BY <2>7, Moved DEF UndoLocal
  <2>8. CASE CloseInfoCh(Main, "undoClose", "undoAwait", "undoEtcd")
    BY <2>8, Moved DEF CloseInfoCh
  <2>9. CASE AwaitKeeper(Main, "undoAwait", "undoEtcd")
    BY <2>9, Moved DEF AwaitKeeper
  <2>10. CASE DeleteKey(Main, "undoEtcd", "undoGRPC", TRUE)
    BY <2>10, Moved DEF DeleteKey
  <2>11. CASE StopGRPC(Main, "undoGRPC", "fail")
    BY <2>11, Moved DEF StopGRPC
  <2>12. QED
    BY <1>1, <2>1, <2>2, <2>3, <2>4, <2>5, <2>6, <2>7, <2>8, <2>9, <2>10,
       <2>11
      DEF StartStep, handleStartUpFailedClusterCleanUp
<1>2. CASE StopMain
  BY <1>2, Moved DEF StopMain, Shutdown
<1>3. CASE \E t \in Threads : StopStep(t)
  <2> PICK t \in Threads : StopStep(t)
    BY <1>3
  <2>1. CASE Unset(t)
    <3>1. /\ place[t] = "unset" /\ place'[t] = "tell"
          /\ \A u \in Threads : u # t => place'[u] = place[u]
      BY <2>1, Moved DEF Unset, ProcessTypeOK
    <3>2. UNCHANGED <<state, client, grpc, infoCh, key, rude>>
      BY <2>1 DEF Unset
    <3>3. ~broken' => ~broken /\ ~inLock'
      BY <2>1 DEF Unset
    <3>4. QED
      BY <3>1, <3>2, <3>3 DEF Left, CloseFirst
  <2>2. CASE Tell(t)
    BY <2>2, Moved DEF Tell, Publish
  <2>3. CASE ShutScript(t)
    BY <2>3, Moved DEF ShutScript
  <2>4. CASE CloseInfoCh(t, "close", "await", "etcd")
    BY <2>4, Moved DEF CloseInfoCh
  <2>5. CASE AwaitKeeper(t, "await", "etcd")
    BY <2>5, Moved DEF AwaitKeeper
  <2>6. CASE DeleteKey(t, "etcd", "grpc", FALSE)
    BY <2>6, Moved DEF DeleteKey
  <2>7. CASE StopGRPC(t, "grpc", IF t = Main THEN "kill" ELSE "off")
    BY <2>7, Moved DEF StopGRPC
  <2>8. CASE Kill(t)
    BY <2>8, Moved DEF Kill
  <2>9. CASE Off(t)
    BY <2>9, Moved DEF Off
  <2>10. QED
    BY <2>1, <2>2, <2>3, <2>4, <2>5, <2>6, <2>7, <2>8, <2>9
      DEF StopStep, unloadClusterLocalNode
<1>4. CASE \E k \in Killers : TryKilling(k)
  BY <1>4, Moved DEF TryKilling, Shutdown
<1>5. CASE DrainMoves
  BY <1>5, DrainLeaves
<1>6. CASE KeeperMoves
  <2>1. CASE KeeperBegins
    BY <2>1 DEF KeeperBegins, KeeperUnchanged
  <2>2. CASE KeepAlive
    BY <2>2 DEF KeepAlive, KeeperUnchanged
  <2>3. CASE LeaseLost
    BY <2>3 DEF LeaseLost, KeeperUnchanged
  <2>4. CASE KeeperAwake
    BY <2>4 DEF KeeperAwake, KeeperUnchanged
  <2>5. CASE KeeperClosed
    BY <2>5 DEF KeeperClosed, KeeperUnchanged
  <2>6. CASE KeeperPuts
    BY <2>6 DEF KeeperPuts, KeeperUnchanged
  <2>7. CASE KeeperDeletes
    BY <2>7 DEF KeeperDeletes, KeeperUnchanged
  <2>8. CASE LeaseExpires
    BY <2>8 DEF LeaseExpires, KeeperUnchanged
  <2>9. QED
    BY <1>6, <2>1, <2>2, <2>3, <2>4, <2>5, <2>6, <2>7, <2>8
      DEF KeeperMoves, KeeperStep
<1>7. CASE Exit
  BY <1>7, Moved DEF Exit
<1>8. QED
  BY <1>1, <1>2, <1>3, <1>4, <1>5, <1>6, <1>7
    DEF ProcessNext, ProcessStep, DrainMoves, KeeperMoves

-----------------------------------------------------------------------------
(* A step keeps the local cosmos killed where an end has passed that.      *)
LEMMA KilledFirstKept ==
  ASSUME ProcessTypeOK, OneStops, StartFirst, KilledFirst, ProcessNext
  PROVE  KilledFirst'
<1> USE DEF OneStops, StartFirst, KilledFirst, InShutdown, ProcessTypeOK,
            PlacesOK, FlagsOK
<1>1. CASE StartStep
  <2>1. CASE Boot
    BY <2>1, Moved DEF Boot
  <2>2. CASE Prepare
    BY <2>2, Moved DEF Prepare
  <2>3. CASE Elements
    BY <2>3, Moved DEF Elements
  <2>4. CASE Register
    BY <2>4, Moved DEF Register
  <2>5. CASE Current
    BY <2>5, Moved DEF Current
  <2>6. CASE Enter
    BY <2>6, Moved DEF Enter
  <2>7. CASE UndoLocal
    BY <2>7, Moved DEF UndoLocal
  <2>8. CASE CloseInfoCh(Main, "undoClose", "undoAwait", "undoEtcd")
    BY <2>8, Moved DEF CloseInfoCh
  <2>9. CASE AwaitKeeper(Main, "undoAwait", "undoEtcd")
    BY <2>9, Moved DEF AwaitKeeper
  <2>10. CASE DeleteKey(Main, "undoEtcd", "undoGRPC", TRUE)
    BY <2>10, Moved DEF DeleteKey
  <2>11. CASE StopGRPC(Main, "undoGRPC", "fail")
    BY <2>11, Moved DEF StopGRPC
  <2>12. QED
    BY <1>1, <2>1, <2>2, <2>3, <2>4, <2>5, <2>6, <2>7, <2>8, <2>9, <2>10,
       <2>11
      DEF StartStep, handleStartUpFailedClusterCleanUp
<1>2. CASE StopMain
  BY <1>2, Moved DEF StopMain, Shutdown
<1>3. CASE \E t \in Threads : StopStep(t)
  <2> PICK t \in Threads : StopStep(t)
    BY <1>3
  <2>1. CASE Unset(t)
    BY <2>1, Moved DEF Unset
  <2>2. CASE Tell(t)
    BY <2>2, Moved DEF Tell, Publish
  <2>3. CASE ShutScript(t)
    BY <2>3, Moved DEF ShutScript
  <2>4. CASE CloseInfoCh(t, "close", "await", "etcd")
    BY <2>4, Moved DEF CloseInfoCh
  <2>5. CASE AwaitKeeper(t, "await", "etcd")
    BY <2>5, Moved DEF AwaitKeeper
  <2>6. CASE DeleteKey(t, "etcd", "grpc", FALSE)
    BY <2>6, Moved DEF DeleteKey
  <2>7. CASE StopGRPC(t, "grpc", IF t = Main THEN "kill" ELSE "off")
    BY <2>7, Moved DEF StopGRPC
  <2>8. CASE Kill(t)
    BY <2>8, Moved DEF Kill
  <2>9. CASE Off(t)
    BY <2>9, Moved DEF Off
  <2>10. QED
    BY <2>1, <2>2, <2>3, <2>4, <2>5, <2>6, <2>7, <2>8, <2>9
      DEF StopStep, unloadClusterLocalNode
<1>4. CASE \E k \in Killers : TryKilling(k)
  BY <1>4, Moved DEF TryKilling, Shutdown
<1>5. CASE DrainMoves
  BY <1>5, DrainLeaves
<1>6. CASE KeeperMoves
  BY <1>6, KeeperLeaves
<1>7. CASE Exit
  BY <1>7, Moved DEF Exit
<1>8. QED
  BY <1>1, <1>2, <1>3, <1>4, <1>5, <1>6, <1>7
    DEF ProcessNext, ProcessStep, DrainMoves, KeeperMoves

-----------------------------------------------------------------------------
(* A step keeps the place in the lock while the process is up: whoever     *)
(* gives it back is in the one shutdown, or cleans up a failed start.      *)
LEMMA LockHeldKept ==
  ASSUME ProcessTypeOK, OneStops, LockHeld, ProcessNext
  PROVE  LockHeld'
<1> USE DEF OneStops, InShutdown, LockHeld, ProcessTypeOK, PlacesOK, FlagsOK
<1>1. CASE StartStep
  <2>1. CASE Boot
    BY <2>1, Moved DEF Boot
  <2>2. CASE Prepare
    <3>1. PICK got \in {"nothing", "client", "lock", "port", "all"} :
            Prepare!2!(got)
      BY <2>2 DEF Prepare
    <3>2. place[Main] = "prepare" /\ state' = state
      BY <2>2 DEF Prepare
    <3>3. state # "Running"
      BY <3>2
    <3>4. place'[Main] = "undoClose" \/ inLock'
      BY <3>1, Moved DEF ProcessTypeOK
    <3>5. QED
      BY <3>2, <3>3, <3>4 DEF LockHeld
  <2>3. CASE Elements
    BY <2>3, Moved DEF Elements
  <2>4. CASE Register
    BY <2>4, Moved DEF Register
  <2>5. CASE Current
    BY <2>5, Moved DEF Current
  <2>6. CASE Enter
    BY <2>6, Moved DEF Enter
  <2>7. CASE UndoLocal
    BY <2>7, Moved DEF UndoLocal
  <2>8. CASE CloseInfoCh(Main, "undoClose", "undoAwait", "undoEtcd")
    BY <2>8, Moved DEF CloseInfoCh
  <2>9. CASE AwaitKeeper(Main, "undoAwait", "undoEtcd")
    BY <2>9, Moved DEF AwaitKeeper
  <2>10. CASE DeleteKey(Main, "undoEtcd", "undoGRPC", TRUE)
    BY <2>10, Moved DEF DeleteKey
  <2>11. CASE StopGRPC(Main, "undoGRPC", "fail")
    BY <2>11, Moved DEF StopGRPC
  <2>12. QED
    BY <1>1, <2>1, <2>2, <2>3, <2>4, <2>5, <2>6, <2>7, <2>8, <2>9, <2>10,
       <2>11
      DEF StartStep, handleStartUpFailedClusterCleanUp
<1>2. CASE StopMain
  BY <1>2, Moved DEF StopMain, Shutdown
<1>3. CASE \E t \in Threads : StopStep(t)
  <2> PICK t \in Threads : StopStep(t)
    BY <1>3
  <2>1. CASE Unset(t)
    BY <2>1, Moved DEF Unset
  <2>2. CASE Tell(t)
    BY <2>2, Moved DEF Tell, Publish
  <2>3. CASE ShutScript(t)
    BY <2>3, Moved DEF ShutScript
  <2>4. CASE CloseInfoCh(t, "close", "await", "etcd")
    BY <2>4, Moved DEF CloseInfoCh
  <2>5. CASE AwaitKeeper(t, "await", "etcd")
    BY <2>5, Moved DEF AwaitKeeper
  <2>6. CASE DeleteKey(t, "etcd", "grpc", FALSE)
    BY <2>6, Moved DEF DeleteKey
  <2>7. CASE StopGRPC(t, "grpc", IF t = Main THEN "kill" ELSE "off")
    BY <2>7, Moved DEF StopGRPC
  <2>8. CASE Kill(t)
    BY <2>8, Moved DEF Kill
  <2>9. CASE Off(t)
    BY <2>9, Moved DEF Off
  <2>10. QED
    BY <2>1, <2>2, <2>3, <2>4, <2>5, <2>6, <2>7, <2>8, <2>9
      DEF StopStep, unloadClusterLocalNode
<1>4. CASE \E k \in Killers : TryKilling(k)
  BY <1>4, Moved DEF TryKilling, Shutdown
<1>5. CASE DrainMoves
  BY <1>5, DrainLeaves
<1>6. CASE KeeperMoves
  BY <1>6, KeeperLeaves
<1>7. CASE Exit
  BY <1>7, Moved DEF Exit
<1>8. QED
  BY <1>1, <1>2, <1>3, <1>4, <1>5, <1>6, <1>7
    DEF ProcessNext, ProcessStep, DrainMoves, KeeperMoves

-----------------------------------------------------------------------------
(* A step keeps it that a shutdown is somebody's: who shuts the process    *)
(* down is in an end until it sets the state to Off.                       *)
LEMMA StoppedKept ==
  ASSUME ProcessTypeOK, OneStops, StartFirst, Stopped, ProcessNext
  PROVE  Stopped'
<1> USE DEF OneStops, StartFirst, Stopped, InShutdown, ProcessTypeOK,
            PlacesOK, FlagsOK
<1>1. CASE StartStep
  <2>1. CASE Boot
    BY <2>1, Moved DEF Boot
  <2>2. CASE Prepare
    BY <2>2, Moved DEF Prepare
  <2>3. CASE Elements
    BY <2>3, Moved DEF Elements
  <2>4. CASE Register
    BY <2>4, Moved DEF Register
  <2>5. CASE Current
    BY <2>5, Moved DEF Current
  <2>6. CASE Enter
    BY <2>6, Moved DEF Enter
  <2>7. CASE UndoLocal
    BY <2>7, Moved DEF UndoLocal
  <2>8. CASE CloseInfoCh(Main, "undoClose", "undoAwait", "undoEtcd")
    BY <2>8, Moved DEF CloseInfoCh
  <2>9. CASE AwaitKeeper(Main, "undoAwait", "undoEtcd")
    BY <2>9, Moved DEF AwaitKeeper
  <2>10. CASE DeleteKey(Main, "undoEtcd", "undoGRPC", TRUE)
    BY <2>10, Moved DEF DeleteKey
  <2>11. CASE StopGRPC(Main, "undoGRPC", "fail")
    BY <2>11, Moved DEF StopGRPC
  <2>12. QED
    BY <1>1, <2>1, <2>2, <2>3, <2>4, <2>5, <2>6, <2>7, <2>8, <2>9, <2>10,
       <2>11
      DEF StartStep, handleStartUpFailedClusterCleanUp
<1>2. CASE StopMain
  BY <1>2, Moved DEF StopMain, Shutdown
<1>3. CASE \E t \in Threads : StopStep(t)
  <2> PICK t \in Threads : StopStep(t)
    BY <1>3
  <2>1. CASE Unset(t)
    BY <2>1, Moved DEF Unset
  <2>2. CASE Tell(t)
    BY <2>2, Moved DEF Tell, Publish
  <2>3. CASE ShutScript(t)
    BY <2>3, Moved DEF ShutScript
  <2>4. CASE CloseInfoCh(t, "close", "await", "etcd")
    BY <2>4, Moved DEF CloseInfoCh
  <2>5. CASE AwaitKeeper(t, "await", "etcd")
    BY <2>5, Moved DEF AwaitKeeper
  <2>6. CASE DeleteKey(t, "etcd", "grpc", FALSE)
    BY <2>6, Moved DEF DeleteKey
  <2>7. CASE StopGRPC(t, "grpc", IF t = Main THEN "kill" ELSE "off")
    BY <2>7, Moved DEF StopGRPC
  <2>8. CASE Kill(t)
    BY <2>8, Moved DEF Kill
  <2>9. CASE Off(t)
    BY <2>9, Moved DEF Off
  <2>10. QED
    BY <2>1, <2>2, <2>3, <2>4, <2>5, <2>6, <2>7, <2>8, <2>9
      DEF StopStep, unloadClusterLocalNode
<1>4. CASE \E k \in Killers : TryKilling(k)
  BY <1>4, Moved DEF TryKilling, Shutdown
<1>5. CASE DrainMoves
  BY <1>5, DrainLeaves
<1>6. CASE KeeperMoves
  BY <1>6, KeeperLeaves
<1>7. CASE Exit
  BY <1>7, Moved DEF Exit
<1>8. QED
  BY <1>1, <1>2, <1>3, <1>4, <1>5, <1>6, <1>7
    DEF ProcessNext, ProcessStep, DrainMoves, KeeperMoves

-----------------------------------------------------------------------------
ProcessInv ==
  /\ ProcessTypeOK /\ OneStops /\ StartFirst /\ KeeperWaited
  /\ LockHeld /\ Registered /\ Left /\ Stopped /\ KilledFirst

(* At the start nothing is prepared, and nobody asked for anything yet.    *)
LEMMA ProcessInitInv == ProcessInit => ProcessInv
<1> SUFFICES ASSUME ProcessInit PROVE ProcessInv
  OBVIOUS
<1> USE DEF ProcessInit
<1>1. \A t \in Threads : place[t] = IF t = Main THEN "boot" ELSE "sent"
  OBVIOUS
<1>2. PlacesOK /\ FlagsOK
  BY DEF PlacesOK, FlagsOK
<1>3. ProcessTypeOK
  BY <1>2 DEF ProcessTypeOK
<1>4. OneStops /\ StartFirst
  BY <1>1 DEF OneStops, StartFirst, InShutdown
<1>5. KeeperWaited /\ LockHeld /\ Registered
  BY <1>1 DEF KeeperWaited, LockHeld, Registered
<1>6. Left /\ Stopped /\ KilledFirst
  BY <1>1 DEF Left, CloseFirst, Stopped, KilledFirst
<1>7. QED
  BY <1>3, <1>4, <1>5, <1>6 DEF ProcessInv

(* Every step keeps the invariant.                                         *)
LEMMA ProcessNextInv ==
  ProcessInv /\ [ProcessNext]_processVars => ProcessInv'
<1> SUFFICES ASSUME ProcessInv, [ProcessNext]_processVars PROVE ProcessInv'
  OBVIOUS
<1> USE DEF ProcessInv
<1>1. CASE ProcessNext
  <2>1. ProcessTypeOK' /\ OneStops' /\ StartFirst' /\ KeeperWaited'
    BY <1>1, TypesKept, OneStopsKept, StartFirstKept, KeeperWaitedKept
  <2>2. LockHeld' /\ Registered' /\ Left'
    BY <1>1, LockHeldKept, RegisteredKept, LeftKept
  <2>3. Stopped' /\ KilledFirst'
    BY <1>1, StoppedKept, KilledFirstKept
  <2>4. QED
    BY <2>1, <2>2, <2>3
<1>2. CASE UNCHANGED processVars
  BY <1>2 DEF processVars, ProcessTypeOK, PlacesOK, FlagsOK, OneStops,
      StartFirst, KeeperWaited, LockHeld, Registered, Left, CloseFirst,
      Stopped, KilledFirst, InShutdown
<1>3. QED
  BY <1>1, <1>2

(* The inductive invariant holds in every state.                           *)
THEOREM ProcessInvariant == ProcessSpec => []ProcessInv
  BY ProcessInitInv, ProcessNextInv, PTL DEF ProcessSpec

(* Every variable keeps its type: the exit channel of the app, which has   *)
(* room for one value, never holds two, and the goroutine that keeps the   *)
(* registration has a state to write exactly when it writes.               *)
THEOREM ProcessTypeCorrect == ProcessSpec => []ProcessTypeOK
<1>1. ProcessInv => ProcessTypeOK
  BY DEF ProcessInv
<1>2. QED
  BY <1>1, ProcessInvariant, PTL

(* A process that is off, or has exited without cutting off a stop for     *)
(* another node, has left the cluster, whoever ended it: no registration,  *)
(* no place in the version lock, no client and no gRPC.  Excepted are ends *)
(* of which a step failed and those with a refused TryKilling.             *)
THEOREM OffLeavesNothingAlways == ProcessSpec => []OffLeavesNothing
<1>1. ASSUME ProcessInv, ~rude, Exited, ~CutOff
      PROVE  state = "Off"
  <2>1. state \in {"Shutdown", "Off"}
    BY <1>1 DEF ProcessInv, Stopped, Exited
  <2>2. \A t \in Threads : place[t] \notin Ending
    BY <1>1 DEF CutOff, Exited
  <2>3. QED
    BY <1>1, <2>1, <2>2 DEF ProcessInv, Stopped
<1>2. ProcessInv => OffLeavesNothing
  BY <1>1 DEF ProcessInv, Left, OffLeavesNothing
<1>3. QED
  BY <1>2, ProcessInvariant, PTL

(* A process that runs is in the version lock, and as long as its lease is *)
(* renewed it is registered, unless a TryKilling was refused meanwhile.    *)
THEOREM RunningIsRegisteredAlways == ProcessSpec => []RunningIsRegistered
<1>1. ProcessInv => RunningIsRegistered
  BY DEF ProcessInv, LockHeld, Registered, RunningIsRegistered
<1>2. QED
  BY <1>1, ProcessInvariant, PTL

(* However many ask for it, the script of a process is shut down once at   *)
(* most.  When the process is off after that its atomos are killed, unless *)
(* a TryKilling was refused.                                               *)
THEOREM ShutdownOnceAlways == ProcessSpec => []ShutdownOnce
<1>1. ProcessInv => ShutdownOnce
  BY DEF ProcessInv, OneStops, KilledFirst, ShutdownOnce
<1>2. QED
  BY <1>1, ProcessInvariant, PTL
==============================================================================
