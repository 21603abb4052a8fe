------------------------- MODULE RemoteNode_proofs -------------------------
(***************************************************************************)
(* CosmosRemote, for any number of processes, versions, callers and pending*)
(* events: calls are routed to a version that is known and drains only if  *)
(* none is started, and a watcher that has applied every change and lost   *)
(* none knows what etcd holds.                                             *)
(*                                                                         *)
(* RemoteHandle, for any number of processes, callers and instances: a     *)
(* message never reaches another instance in the process of its ID, and    *)
(* what goes through an ID whose connection is the one to its process goes *)
(* nowhere else.                                                           *)
(***************************************************************************)
EXTENDS CosmosRemote, RemoteHandle, SequenceTheorems, TLAPS

USE VersionsAssumption, NoneAssumption

-----------------------------------------------------------------------------
(* Of the events in A, the last one in s is in B; or there is none in s.   *)
LastIn(s, A, B) ==
  \E i \in 1 .. Len(s) : /\ s[i] \in A /\ s[i] \in B
                         /\ \A j \in 1 .. Len(s) : j > i => s[j] \notin A
NoneIn(s, A) == \A i \in 1 .. Len(s) : s[i] \notin A

(* What is known is as it should be, or the last event will make it so.    *)
Pending(s, A, B, same) == LastIn(s, A, B) \/ (NoneIn(s, A) /\ same)

(* An event of A is the last one from now on.                              *)
LEMMA PushLast ==
  ASSUME NEW S, NEW s \in Seq(S), NEW e \in S, NEW A, NEW B, NEW same,
         e \in A, e \in B
  PROVE  Pending(Append(s, e), A, B, same)
<1> DEFINE t == Append(s, e)
<1>1. /\ Len(s) \in Nat /\ Len(t) = Len(s) + 1 /\ t[Len(s) + 1] = e
  BY AppendProperties, LenProperties
<1> HIDE DEF t
<1>2. /\ Len(s) + 1 \in 1 .. Len(t)
      /\ \A j \in 1 .. Len(t) : ~(j > Len(s) + 1)
  BY <1>1
<1>3. QED
  BY <1>1, <1>2 DEF Pending, LastIn, t

(* An event of another kind leaves the last one of A what it was, though A *)
(* and B change in what is not in s.                                       *)
LEMMA PushOther ==
  ASSUME NEW S, NEW s \in Seq(S), NEW e \in S, NEW A, NEW B, NEW same,
         NEW A2, NEW B2, NEW same2, Pending(s, A, B, same),
         \A i \in 1 .. Len(s) : /\ s[i] \in A <=> s[i] \in A2
                                /\ s[i] \in A /\ s[i] \in B => s[i] \in B2,
         same => same2, e \notin A2
  PROVE  Pending(Append(s, e), A2, B2, same2)
<1> DEFINE t == Append(s, e)
<1>1. /\ Len(s) \in Nat /\ Len(t) = Len(s) + 1 /\ t[Len(s) + 1] = e
      /\ \A i \in 1 .. Len(s) : t[i] = s[i]
  BY AppendProperties, LenProperties
<1> HIDE DEF t
<1>2. \A i \in 1 .. Len(t) : i \in 1 .. Len(s) \/ i = Len(s) + 1
  BY <1>1
<1>3. \A i \in 1 .. Len(s) : i \in 1 .. Len(t)
  BY <1>1
<1>4. LastIn(s, A, B) => LastIn(t, A2, B2)
  BY <1>1, <1>2, <1>3 DEF LastIn
<1>5. NoneIn(s, A) => NoneIn(t, A2)
  BY <1>1, <1>2 DEF NoneIn
<1>6. QED
  BY <1>4, <1>5 DEF Pending, t

(* The head is taken out and applied: it was the last one of A, or it was  *)
(* none of them, or the last one is still there.                           *)
LEMMA Pop ==
  ASSUME NEW S, NEW s \in Seq(S), s # << >>, NEW A, NEW B, NEW same,
         NEW same2, Pending(s, A, B, same),
         Head(s) \in A /\ Head(s) \in B => same2,
         Head(s) \notin A /\ same => same2
  PROVE  Pending(Tail(s), A, B, same2)
<1> DEFINE t == Tail(s)
<1>1. Len(s) \in Nat \ {0}
  BY EmptySeq, LenProperties
<1>2. /\ Len(t) = Len(s) - 1 /\ Head(s) = s[1]
      /\ \A i \in 1 .. Len(t) : t[i] = s[i + 1]
  BY HeadTailProperties
<1> HIDE DEF t
<1>3. \A i \in 1 .. Len(t) : i + 1 \in 1 .. Len(s)
  BY <1>1, <1>2
<1>4. ASSUME NoneIn(s, A) PROVE NoneIn(t, A) /\ Head(s) \notin A
  <2>1. 1 \in 1 .. Len(s)
    BY <1>1
  <2>2. QED
    BY <1>2, <1>3, <1>4, <2>1 DEF NoneIn
<1>5. ASSUME NEW i \in 1 .. Len(s), s[i] \in A, s[i] \in B,
             \A j \in 1 .. Len(s) : j > i => s[j] \notin A
      PROVE  LastIn(t, A, B) \/ (NoneIn(t, A) /\ Head(s) \in A /\ Head(s) \in B)
  <2>1. CASE i = 1
    <3>1. \A j \in 1 .. Len(t) : j + 1 > 1
      OBVIOUS
    <3>2. QED
      BY <1>2, <1>3, <1>5, <2>1, <3>1 DEF NoneIn
  <2>2. CASE i # 1
    <3>1. i - 1 \in 1 .. Len(t) /\ (i - 1) + 1 = i
      BY <1>1, <1>2, <2>2
    <3>2. \A j \in 1 .. Len(t) : j > i - 1 => j + 1 > i
      BY <1>1, <1>2
    <3>3. t[i - 1] = s[i]
      BY <1>2, <3>1
    <3>4. \A j \in 1 .. Len(t) : j > i - 1 => t[j] \notin A
      BY <1>2, <1>3, <1>5, <3>2
    <3>5. QED
      BY <1>5, <3>1, <3>3, <3>4 DEF LastIn
  <2>3. QED
    BY <2>1, <2>2
<1>6. QED
  BY <1>4, <1>5 DEF Pending, LastIn, t

-----------------------------------------------------------------------------
(* The events on a version and on the lock, and those that agree with etcd.*)
OfVersion(v) ==
  {e \in Events : \/ e.kind = "version" /\ version[e.of] = v
                  \/ e.kind = "gone" /\ e.of = v}
AgreeOn(v) ==
  {e \in Events : \/ /\ e.kind = "version"
                     /\ key[v] = e.of /\ shown[e.of] = e.state
                  \/ e.kind = "gone" /\ key[v] = None}
OfLock == {e \in Events : e.kind = "lock"}
AgreeOnLock == {e \in Events : e.of = locked}

Same(v) == /\ table[v] = key[v]
           /\ key[v] # None => info[key[v]] = shown[key[v]]

(* A process is registered, known and told of under its own version.       *)
Own ==
  /\ \A p \in Procs : stage[p] = "new" => version[p] = 0
  /\ \A v \in Versions : key[v] # None => version[key[v]] = v
  /\ \A v \in Versions : table[v] # None => version[table[v]] = v
  /\ \A i \in 1 .. Len(events) :
       events[i].kind = "version" => version[events[i].of] \in Versions

(* What the watcher knows, and what it will know.                          *)
Meets ==
  /\ Pending(events, OfLock, AgreeOnLock, lock = locked)
  /\ \A v \in Versions : Pending(events, OfVersion(v), AgreeOn(v), Same(v))

Knows ==
  /\ phase = "get" => events = << >>
  /\ phase # "get" /\ ~missed => Meets

Inv == TypeOK /\ PrefersStarted /\ Own /\ Knows

(* At the start there is nothing to know.                                  *)
LEMMA InitInv == Init => Inv
<1> SUFFICES ASSUME Init PROVE Inv
  OBVIOUS
<1>1. << >> \in Seq(Events) /\ Len(<< >>) = 0 /\ 0 \in Nat
  OBVIOUS
<1>2. TypeOK
  BY <1>1 DEF Init, TypeOK, States, Stages
<1>3. PrefersStarted
  BY DEF Init, PrefersStarted
<1>4. Own /\ Knows
  BY <1>1 DEF Init, Own, Knows
<1>5. QED
  BY <1>2, <1>3, <1>4 DEF Inv

-----------------------------------------------------------------------------
(* Events: what one is about, by its kind; and the queue after a change.   *)
LEMMA EventTypes ==
  ASSUME NEW e \in Events
  PROVE  /\ e.kind \in {"version", "lock", "gone"}
         /\ e.kind = "version" => e.of \in Procs /\ e.state \in States
         /\ e.kind = "lock" => e.of \in Versions \cup {0, None}
         /\ e.kind = "gone" => e.of \in Versions
  BY DEF Events

(* ... and the events that the processes make.                             *)
LEMMA EventsMade ==
  /\ \A p \in Procs, s \in States :
       LET e == [kind |-> "version", of |-> p, state |-> s] IN
       e \in Events /\ e.kind = "version" /\ e.of = p /\ e.state = s
  /\ \A v \in Versions \cup {0, None} :
       LET e == [kind |-> "lock", of |-> v] IN
       e \in Events /\ e.kind = "lock" /\ e.of = v
  /\ \A v \in Versions :
       LET e == [kind |-> "gone", of |-> v] IN
       e \in Events /\ e.kind = "gone" /\ e.of = v
  BY DEF Events

(* A change keeps the queue a queue of events.                             *)
LEMMA ChangedTypes ==
  ASSUME Inv, NEW e \in Events, Changed(e)
  PROVE  events' \in Seq(Events) /\ missed' \in BOOLEAN
<1>1. events \in Seq(Events) /\ missed \in BOOLEAN
  BY DEF Inv, TypeOK
<1>2. Append(events, e) \in Seq(Events)
  BY <1>1, AppendProperties
<1>3. QED
  BY <1>1, <1>2 DEF Changed

(* A step of the node: what the watcher knows is as it was.                *)
LEMMA NodePrefers ==
  ASSUME Inv, UNCHANGED route PROVE PrefersStarted'
  BY DEF Inv, PrefersStarted, route, InTable

(* What a change does to what the watcher will know: the last event on the *)
(* version or on the lock makes it so, everything else is as it was.       *)
LEMMA ChangedKnows ==
  ASSUME Inv, NEW e \in Events, Changed(e), phase' = phase,
         phase = "watch" => (~missed => Meets')
  PROVE  Knows'
<1>1. phase = "get" => events' = << >>
  BY DEF Inv, Knows, Changed
<1>2. phase = "got" => missed'
  BY DEF Changed
<1>3. missed => missed'
  BY DEF Changed
<1>4. phase \in {"get", "got", "watch"}
  BY DEF Inv, TypeOK
<1>5. QED
  BY <1>1, <1>2, <1>3, <1>4 DEF Knows

(* A change of the lock key.                                               *)
LEMMA LockChanged ==
  ASSUME Inv, NEW v \in Versions \cup {0, None}, PutLock(v),
         UNCHANGED <<version, key, shown, phase, route>>
  PROVE  Knows'
<1> DEFINE e == [kind |-> "lock", of |-> v]
<1>1. e \in Events /\ e.kind = "lock" /\ e.of = v
  BY EventsMade
<1>2. Changed(e) /\ locked' = v
  BY DEF PutLock
<1> HIDE DEF e
<1>3. ASSUME phase = "watch", ~missed PROVE Meets'
  <2>1. events' = Append(events, e) /\ events \in Seq(Events) /\ Meets
    BY <1>2, <1>3 DEF Changed, Inv, TypeOK, Knows
  <2>2. Pending(Append(events, e), OfLock, AgreeOnLock', (lock = locked)')
    <3>1. e \in OfLock /\ e \in AgreeOnLock'
      BY <1>1, <1>2 DEF OfLock, AgreeOnLock
    <3>2. QED
      BY <1>1, <2>1, <3>1, PushLast
  <2>3. ASSUME NEW w \in Versions
        PROVE  Pending(Append(events, e), OfVersion(w)', AgreeOn(w)', Same(w)')
    <3>1. /\ OfVersion(w)' = OfVersion(w) /\ AgreeOn(w)' = AgreeOn(w)
          /\ Same(w)' = Same(w)
      BY DEF OfVersion, AgreeOn, Same, route
    <3>2. e \notin OfVersion(w)
      BY <1>1 DEF OfVersion
    <3>3. Pending(events, OfVersion(w), AgreeOn(w), Same(w))
      BY <2>1 DEF Meets
    <3>4. QED
      BY <1>1, <2>1, <3>1, <3>2, <3>3, PushOther
  <2>4. OfLock' = OfLock
    BY DEF OfLock
  <2>5. QED
    BY <2>1, <2>2, <2>3, <2>4 DEF Meets
<1>4. QED
  BY <1>1, <1>2, <1>3, ChangedKnows

(* A change of the key of a version: nothing about another version is.     *)
LEMMA VersionChanged ==
  ASSUME Inv, NEW v \in Versions, NEW e \in Events, Changed(e),
         UNCHANGED <<locked, phase, route>>,
         e \in OfVersion(v)', e \in AgreeOn(v)',
         \A w \in Versions \ {v} :
           /\ e \notin OfVersion(w)'
           /\ key'[w] = key[w]
           /\ key[w] # None => shown'[key[w]] = shown[key[w]],
         \A i \in 1 .. Len(events) : events[i].kind = "version" =>
           version'[events[i].of] = version[events[i].of]
  PROVE  Knows'
<1>1. ASSUME phase = "watch", ~missed PROVE Meets'
  <2>1. events' = Append(events, e) /\ events \in Seq(Events) /\ Meets
    BY <1>1 DEF Changed, Inv, TypeOK, Knows
  <2>2. Pending(Append(events, e), OfLock, AgreeOnLock', (lock = locked)')
    <3>1. e \notin OfLock
      BY DEF OfLock, OfVersion
    <3>2. AgreeOnLock' = AgreeOnLock /\ (lock = locked)' = (lock = locked)
      BY DEF AgreeOnLock, route
    <3>3. Pending(events, OfLock, AgreeOnLock, lock = locked)
      BY <2>1 DEF Meets
    <3>4. QED
      BY <2>1, <3>1, <3>2, <3>3, PushOther
  <2>3. Pending(Append(events, e), OfVersion(v)', AgreeOn(v)', Same(v)')
    BY <2>1, PushLast
  <2>4. ASSUME NEW w \in Versions \ {v}
        PROVE  Pending(Append(events, e), OfVersion(w)', AgreeOn(w)', Same(w)')
    <3>1. \A i \in 1 .. Len(events) : events[i] \in Events
      BY <2>1, ElementOfSeq
    <3>2. \A i \in 1 .. Len(events) :
            events[i] \in OfVersion(w) <=> events[i] \in OfVersion(w)'
      BY <3>1 DEF OfVersion
    <3>3. \A i \in 1 .. Len(events) :
            events[i] \in AgreeOn(w) => events[i] \in AgreeOn(w)'
      <4>1. /\ key'[w] = key[w]
            /\ key[w] # None => shown'[key[w]] = shown[key[w]]
        OBVIOUS
      <4>2. \A i \in 1 .. Len(events) :
              events[i].kind = "version" => events[i].of # None
        BY <3>1, EventTypes
      <4>3. QED
        BY <3>1, <4>1, <4>2 DEF AgreeOn
    <3>4. Same(w) => Same(w)'
      BY DEF Same, route
    <3>5. Pending(events, OfVersion(w), AgreeOn(w), Same(w))
      BY <2>1 DEF Meets
    <3>6. QED
      BY <2>1, <3>2, <3>3, <3>4, <3>5, PushOther
  <2>5. OfLock' = OfLock
    BY DEF OfLock
  <2>6. \A w \in Versions :
          Pending(Append(events, e), OfVersion(w)', AgreeOn(w)', Same(w)')
    BY <2>3, <2>4
  <2>7. QED
    BY <2>1, <2>2, <2>5, <2>6 DEF Meets
<1>2. QED
  BY <1>1, ChangedKnows

(* A step that changes nothing of the node, the watch and what is known.   *)
LEMMA StillKnows ==
  ASSUME Inv, UNCHANGED <<version, shown, key, locked, watch, route>>
  PROVE  Knows'
<1>1. /\ OfLock' = OfLock /\ AgreeOnLock' = AgreeOnLock
      /\ \A v : /\ OfVersion(v)' = OfVersion(v) /\ AgreeOn(v)' = AgreeOn(v)
                /\ Same(v)' = Same(v)
  BY DEF OfLock, AgreeOnLock, OfVersion, AgreeOn, Same, route
<1>2. Meets => Meets'
  BY <1>1 DEF Meets, watch, route
<1>3. QED
  BY <1>2 DEF Inv, Knows, watch

(* The processes that pending events are about have their versions.        *)
EventsOwn ==
  \A i \in 1 .. Len(events) :
    events[i].kind = "version" => version[events[i].of] \in Versions

(* A change is about a process that has its version.                       *)
LEMMA ChangedOwn ==
  ASSUME Inv, NEW e \in Events, Changed(e),
         e.kind = "version" => version'[e.of] \in Versions,
         \A p \in Procs : version[p] \in Versions => version'[p] = version[p]
  PROVE  EventsOwn'
<1>1. events \in Seq(Events) /\ EventsOwn
  BY DEF Inv, TypeOK, Own, EventsOwn
<1>2. \A i \in 1 .. Len(events) : events[i] \in Events
  BY <1>1, ElementOfSeq
<1>3. \A i \in 1 .. Len(events) :
        events[i].kind = "version" => version'[events[i].of] \in Versions
  BY <1>1, <1>2, EventTypes DEF EventsOwn
<1>4. CASE events' = Append(events, e)
  <2> DEFINE t == Append(events, e)
  <2>1. /\ Len(events) \in Nat /\ Len(t) = Len(events) + 1
        /\ t[Len(events) + 1] = e
        /\ \A i \in 1 .. Len(events) : t[i] = events[i]
    BY <1>1, AppendProperties, LenProperties
  <2> HIDE DEF t
  <2>2. \A i \in 1 .. Len(t) : i \in 1 .. Len(events) \/ i = Len(events) + 1
    BY <2>1
  <2>3. \A i \in 1 .. Len(t) :
          t[i].kind = "version" => version'[t[i].of] \in Versions
    BY <1>3, <2>1, <2>2
  <2>4. QED
    BY <1>4, <2>3 DEF EventsOwn, t
<1>5. CASE events' = events
  BY <1>3, <1>5 DEF EventsOwn
<1>6. QED
  BY <1>4, <1>5 DEF Changed

(* The lock key is written: the first process is about to register, one    *)
(* becomes current, or one gives its place back.                           *)
LEMMA LockInv ==
  ASSUME Inv, NEW v \in Versions \cup {0, None}, PutLock(v), NodeUnchanged,
         UNCHANGED <<version, shown, key>>,
         stage' \in [Procs -> Stages],
         \A p \in Procs : stage[p] = "new" <=> stage'[p] = "new"
  PROVE  Inv'
<1> DEFINE e == [kind |-> "lock", of |-> v]
<1>1. e \in Events /\ e.kind = "lock" /\ Changed(e) /\ locked' = v
  BY EventsMade DEF PutLock
<1> HIDE DEF e
<1>2. TypeOK'
  <2>1. events' \in Seq(Events) /\ missed' \in BOOLEAN
    BY <1>1, ChangedTypes
  <2>2. QED
    BY <1>1, <2>1 DEF Inv, TypeOK, NodeUnchanged, route, links, callers
<1>3. PrefersStarted'
  BY NodePrefers DEF NodeUnchanged
<1>4. Own'
  <2>1. EventsOwn'
    BY <1>1, ChangedOwn
  <2>2. QED
    BY <2>1 DEF Inv, Own, EventsOwn, NodeUnchanged, route
<1>5. Knows'
  BY LockChanged DEF NodeUnchanged
<1>6. QED
  BY <1>2, <1>3, <1>4, <1>5 DEF Inv

(* ... by a process that becomes current, or gives its place back.         *)
LEMMA LockStepsInv ==
  ASSUME Inv, NEW p \in Procs, SetCurrent(p) \/ Unset(p)
  PROVE  Inv'
<1>2. CASE SetCurrent(p)
  <2>1. version[p] \in Versions
    BY <1>2 DEF SetCurrent, At, Inv, TypeOK
  <2>2. /\ stage' \in [Procs -> Stages]
        /\ \A q \in Procs : stage[q] = "new" <=> stage'[q] = "new"
    BY <1>2 DEF SetCurrent, At, Inv, TypeOK, Stages
  <2>3. QED
    BY <1>2, <2>1, <2>2, LockInv DEF SetCurrent
<1>3. CASE Unset(p)
  <2> DEFINE v == IF locked = version[p] THEN 0 ELSE locked
  <2>1. v \in Versions \cup {0, None}
    BY DEF Inv, TypeOK
  <2>2. /\ stage' \in [Procs -> Stages]
        /\ \A q \in Procs : stage[q] = "new" <=> stage'[q] = "new"
    BY <1>3 DEF Unset, At, Inv, TypeOK, Stages
  <2>3. PutLock(v)
    BY <1>3 DEF Unset
  <2> HIDE DEF v
  <2>4. QED
    BY <1>3, <2>1, <2>2, <2>3, LockInv DEF Unset
<1>4. QED
  BY <1>2, <1>3

(* A process shows another state in its registration.                      *)
LEMMA PutVersionInv ==
  ASSUME Inv, NEW p \in Procs, NEW s \in States, PutVersion(p, s),
         stage[p] # "new", UNCHANGED <<version, locked, stage>>, NodeUnchanged
  PROVE  Inv'
<1>0. PICK v \in Versions : v = version[p]
  BY DEF Inv, TypeOK
<1> DEFINE e == [kind |-> "version", of |-> p, state |-> s]
<1>1. /\ e \in Events /\ e.kind = "version" /\ e.of = p /\ e.state = s
      /\ Changed(e)
  BY EventsMade DEF PutVersion
<1> HIDE DEF e
<1>2. v = version[p] /\ key[v] = p /\ key' = key /\ version' = version
  BY <1>0 DEF PutVersion
<1>3. shown' \in [Procs -> States] /\ shown' = [shown EXCEPT ![p] = s]
  BY DEF Inv, TypeOK, PutVersion
<1>4. TypeOK'
  <2>1. events' \in Seq(Events) /\ missed' \in BOOLEAN
    BY <1>1, ChangedTypes
  <2>2. QED
    BY <1>2, <1>3, <2>1 DEF Inv, TypeOK, NodeUnchanged, route, links, callers
<1>5. PrefersStarted'
  BY NodePrefers DEF NodeUnchanged
<1>6. Own'
  <2>1. EventsOwn'
    BY <1>1, <1>2, ChangedOwn
  <2>2. QED
    BY <1>2, <2>1 DEF Inv, Own, EventsOwn, NodeUnchanged, route
<1>7. Knows'
  <2>1. e \in OfVersion(v)' /\ e \in AgreeOn(v)'
    BY <1>1, <1>2, <1>3 DEF OfVersion, AgreeOn, Inv, TypeOK
  <2>2. ASSUME NEW w \in Versions \ {v}
        PROVE  /\ e \notin OfVersion(w)' /\ key'[w] = key[w]
               /\ key[w] # None => shown'[key[w]] = shown[key[w]]
    <3>1. e \notin OfVersion(w)'
      BY <1>1, <1>2 DEF OfVersion
    <3>2. key[w] # p
      BY <1>2 DEF Inv, Own
    <3>3. QED
      BY <1>2, <1>3, <3>1, <3>2 DEF Inv, TypeOK
  <2>3. QED
    BY <1>1, <1>2, <2>1, <2>2, VersionChanged DEF NodeUnchanged
<1>8. QED
  BY <1>4, <1>5, <1>6, <1>7 DEF Inv

(* ... that it drains, or that it stops.                                   *)
LEMMA ShowInv ==
  ASSUME Inv, NEW p \in Procs, Drain(p) \/ ShowStopping(p) PROVE Inv'
<1>1. "Draining" \in States /\ "Stopping" \in States
  BY DEF States
<1>2. stage[p] # "new"
  BY DEF Drain, ShowStopping
<1>3. QED
  BY <1>1, <1>2, PutVersionInv DEF Drain, ShowStopping

(* A process registers: nobody knows of it yet.                            *)
LEMMA RegisterInv ==
  ASSUME Inv, NEW p \in Procs, Register(p) PROVE Inv'
<1> DEFINE e == [kind |-> "version", of |-> p, state |-> "Started"]
<1>1. PICK v \in Versions :
        /\ version' = [version EXCEPT ![p] = v]
        /\ key' = [key EXCEPT ![v] = p]
        /\ shown' = [q \in Procs |-> IF q = p THEN "Started"
                                   ELSE IF q = key[v] THEN "none"
                                   ELSE shown[q]]
        /\ Changed(e)
  BY DEF Register
<1>2. /\ e \in Events /\ e.kind = "version" /\ e.of = p /\ e.state = "Started"
  BY EventsMade DEF States
<1> HIDE DEF e
<1>3. /\ stage[p] = "new" /\ stage' = [stage EXCEPT ![p] = "registered"]
      /\ version[p] = 0 /\ 0 \notin Versions
  BY DEF Register, At, Inv, Own
<1>4. /\ version'[p] = v /\ key'[v] = p /\ shown'[p] = "Started"
      /\ \A q \in Procs \ {p} : version'[q] = version[q]
      /\ \A w \in Versions \ {v} : key'[w] = key[w]
  BY <1>1 DEF Inv, TypeOK
<1>5. /\ \A w \in Versions : key[w] \in Procs \cup {None} /\ key[w] # p
      /\ \A w \in Versions : table[w] \in Procs \cup {None} /\ table[w] # p
  BY <1>3 DEF Inv, TypeOK, Own
<1>6. TypeOK'
  <2>1. events' \in Seq(Events) /\ missed' \in BOOLEAN
    BY <1>1, <1>2, ChangedTypes
  <2>2. /\ version' \in [Procs -> Versions \cup {0}]
        /\ key' \in [Versions -> Procs \cup {None}]
        /\ shown' \in [Procs -> States]
    BY <1>1 DEF Inv, TypeOK, States
  <2>3. /\ stage' \in [Procs -> Stages]
        /\ \A q \in Procs : stage'[q] # "new" => version'[q] \in Versions
    BY <1>3, <1>4 DEF Inv, TypeOK, Stages
  <2>4. QED
    BY <2>1, <2>2, <2>3 DEF Inv, TypeOK, Register, NodeUnchanged, route,
                            links, callers
<1>7. PrefersStarted'
  BY NodePrefers DEF Register, NodeUnchanged
<1>8. Own'
  <2>1. EventsOwn'
    BY <1>1, <1>2, <1>3, <1>4, ChangedOwn
  <2>2. \A q \in Procs : stage'[q] = "new" => version'[q] = 0
    BY <1>3, <1>4 DEF Inv, TypeOK, Own
  <2>3. \A w \in Versions : key'[w] # None => version'[key'[w]] = w
    <3>1. ASSUME NEW w \in Versions \ {v}, key[w] # None
          PROVE  version'[key[w]] = w
      <4>1. key[w] \in Procs \ {p} /\ version[key[w]] = w
        BY <1>5, <3>1 DEF Inv, Own
      <4>2. QED
        BY <1>4, <4>1
    <3>2. QED
      BY <1>4, <3>1
  <2>4. table' = table
    BY DEF Register, NodeUnchanged, route
  <2>5. \A w \in Versions : table[w] # None => version'[table[w]] = w
    BY <1>4, <1>5 DEF Inv, Own
  <2>6. QED
    BY <2>1, <2>2, <2>3, <2>4, <2>5 DEF Own, EventsOwn
<1>9. Knows'
  <2>1. e \in OfVersion(v)' /\ e \in AgreeOn(v)'
    BY <1>2, <1>4 DEF OfVersion, AgreeOn
  <2>2. ASSUME NEW w \in Versions \ {v}
        PROVE  /\ e \notin OfVersion(w)' /\ key'[w] = key[w]
               /\ key[w] # None => shown'[key[w]] = shown[key[w]]
    <3>1. e \notin OfVersion(w)'
      BY <1>2, <1>4 DEF OfVersion
    <3>2. key[w] # None => key[w] # key[v]
      BY DEF Inv, Own
    <3>3. QED
      BY <1>1, <1>4, <1>5, <3>1, <3>2
  <2>3. \A i \in 1 .. Len(events) : events[i].kind = "version" =>
          version'[events[i].of] = version[events[i].of]
    <3>1. \A i \in 1 .. Len(events) : events[i] \in Events
      BY ElementOfSeq DEF Inv, TypeOK
    <3>2. QED
      BY <1>3, <1>4, <3>1, EventTypes DEF Inv, Own
  <2>4. QED
    BY <1>1, <1>2, <2>1, <2>2, <2>3, VersionChanged DEF Register, NodeUnchanged
<1>10. QED
  BY <1>6, <1>7, <1>8, <1>9 DEF Inv

(* Its registration goes.                                                  *)
LEMMA LeaveInv ==
  ASSUME Inv, NEW p \in Procs, Leave(p) PROVE Inv'
<1>0. PICK v \in Versions : v = version[p]
  BY DEF Leave, Inv, TypeOK
<1> DEFINE e == [kind |-> "gone", of |-> v]
<1>1. v = version[p] /\ key[v] = p /\ key' = [key EXCEPT ![v] = None]
  BY <1>0 DEF Leave
<1>2. e \in Events /\ e.kind = "gone" /\ e.of = v /\ Changed(e)
  BY <1>0, EventsMade DEF Leave
<1> HIDE DEF e
<1>3. /\ key'[v] = None /\ \A w \in Versions \ {v} : key'[w] = key[w]
      /\ shown' = [shown EXCEPT ![p] = "none"] /\ version' = version
      /\ stage' = [stage EXCEPT ![p] = "down"]
      /\ stage[p] # "new"
  BY <1>1 DEF Leave, Inv, TypeOK
<1>4. TypeOK'
  <2>1. events' \in Seq(Events) /\ missed' \in BOOLEAN
    BY <1>2, ChangedTypes
  <2>2. /\ key' \in [Versions -> Procs \cup {None}]
        /\ shown' \in [Procs -> States] /\ stage' \in [Procs -> Stages]
        /\ \A q \in Procs : stage'[q] # "new" => version'[q] \in Versions
    <3>1. "none" \in States /\ "down" \in Stages
      BY DEF States, Stages
    <3>2. \A q \in Procs : stage[q] # "new" => version[q] \in Versions
      BY DEF Inv, TypeOK
    <3>3. \A q \in Procs : stage'[q] # "new" => version'[q] \in Versions
      BY <1>3, <3>2 DEF Inv, TypeOK
    <3>4. key' \in [Versions -> Procs \cup {None}]
      BY <1>1 DEF Inv, TypeOK
    <3>5. shown' \in [Procs -> States]
      BY <1>3, <3>1 DEF Inv, TypeOK
    <3>6. stage' \in [Procs -> Stages]
      BY <1>3, <3>1 DEF Inv, TypeOK
    <3>7. QED
      BY <3>3, <3>4, <3>5, <3>6
  <2>3. QED
    <3>1. UNCHANGED <<version, locked, phase, route, links, callers>>
      BY DEF Leave, NodeUnchanged
    <3>2. QED
      BY <2>1, <2>2, <3>1 DEF Inv, TypeOK, route, links, callers
<1>5. PrefersStarted'
  BY NodePrefers DEF Leave, NodeUnchanged
<1>6. Own'
  <2>1. EventsOwn'
    BY <1>2, <1>3, ChangedOwn
  <2>2. \A q \in Procs : stage'[q] = "new" => version'[q] = 0
    BY <1>3 DEF Inv, TypeOK, Own
  <2>3. \A w \in Versions : key'[w] # None => version[key'[w]] = w
    BY <1>3 DEF Inv, Own
  <2>4. QED
    BY <1>3, <2>1, <2>2, <2>3 DEF Inv, Own, EventsOwn, Leave, NodeUnchanged,
                                  route
<1>7. Knows'
  <2>1. e \in OfVersion(v)' /\ e \in AgreeOn(v)'
    BY <1>2, <1>3 DEF OfVersion, AgreeOn
  <2>2. ASSUME NEW w \in Versions \ {v}
        PROVE  /\ e \notin OfVersion(w)' /\ key'[w] = key[w]
               /\ key[w] # None => shown'[key[w]] = shown[key[w]]
    <3>1. e \notin OfVersion(w)'
      BY <1>2 DEF OfVersion
    <3>2. key[w] # p
      BY <1>1 DEF Inv, Own
    <3>3. QED
      BY <1>3, <3>1, <3>2 DEF Inv, TypeOK
  <2>3. QED
    BY <1>1, <1>2, <1>3, <2>1, <2>2, VersionChanged DEF Leave, NodeUnchanged
<1>8. QED
  BY <1>4, <1>5, <1>6, <1>7 DEF Inv

(* A crash writes nothing.                                                 *)
LEMMA CrashInv ==
  ASSUME Inv, NEW p \in Procs, Crash(p) PROVE Inv'
<1>1. /\ stage' = [stage EXCEPT ![p] = "down"] /\ stage[p] # "new"
      /\ UNCHANGED <<version, shown, key, locked, watch, route, links, callers>>
  BY DEF Crash, NodeUnchanged, watch
<1>2. TypeOK'
  BY <1>1 DEF Inv, TypeOK, Stages, watch, route, links, callers
<1>3. Own'
  BY <1>1 DEF Inv, TypeOK, Own, watch, route
<1>4. PrefersStarted' /\ Knows'
  BY <1>1, NodePrefers, StillKnows
<1>5. QED
  BY <1>2, <1>3, <1>4 DEF Inv

-----------------------------------------------------------------------------
(* refresh: whatever is known, calls go to the right version.              *)
LEMMA RefreshPrefers ==
  ASSUME NEW l, NEW cur, refresh(l, table', info', cur)
  PROVE  PrefersStarted'
<1>1. PICK p \in Route(l, table', info') :
        /\ enable' = (p # None)
        /\ current' = IF p = None THEN cur ELSE p
  BY DEF refresh
<1>2. SUFFICES ASSUME p # None
      PROVE  /\ p \in InTable(table')
             /\ info'[p] = "Draining" =>
                  \A q \in InTable(table') : info'[q] # "Started"
  BY <1>1 DEF PrefersStarted, InTable
<1> DEFINE c == IF l \in Versions THEN table'[l] ELSE None
           started == {q \in InTable(table') : info'[q] = "Started"}
<1>3. p \in IF c # None /\ info'[c] # "Draining" THEN {c}
           ELSE IF started # {} THEN started ELSE {c}
  BY <1>1, <1>2 DEF Route
<1>4. c # None => c \in InTable(table')
  BY DEF InTable
<1>5. CASE p = c /\ info'[c] # "Draining"
  BY <1>2, <1>4, <1>5
<1>6. CASE p \in started
  BY <1>6
<1>7. CASE p = c /\ started = {}
  BY <1>2, <1>4, <1>7
<1>8. QED
  BY <1>2, <1>3, <1>5, <1>6, <1>7

(* ... and what it routes to has its type.                                 *)
LEMMA RefreshTypes ==
  ASSUME NEW l, NEW cur \in Procs \cup {None}, refresh(l, table', info', cur),
         table' \in [Versions -> Procs \cup {None}]
  PROVE  enable' \in BOOLEAN /\ current' \in Procs \cup {None}
<1>1. Route(l, table', info') \subseteq Procs \cup {None}
  BY DEF Route, InTable
<1>2. QED
  BY <1>1 DEF refresh

(* The get: everything is known, nothing is pending.                       *)
LEMMA FirstGetInv == ASSUME Inv, FirstGet PROVE Inv'
<1>1. /\ table' = key /\ info' = shown /\ lock' = locked /\ phase' = "got"
      /\ refresh(locked, table', info', None)
      /\ UNCHANGED <<node, events, missed, links, callers>>
      /\ events = << >>
  BY DEF FirstGet, Inv, Knows
<1>2. TypeOK'
  <2>1. table' \in [Versions -> Procs \cup {None}]
    BY <1>1 DEF Inv, TypeOK
  <2>2. enable' \in BOOLEAN /\ current' \in Procs \cup {None}
    BY <1>1, <2>1, RefreshTypes
  <2>3. QED
    BY <1>1, <2>2 DEF Inv, TypeOK, node, links, callers
<1>3. PrefersStarted'
  BY <1>1, RefreshPrefers
<1>4. Own'
  BY <1>1 DEF Inv, Own, node
<1>5. Knows'
  <2>1. \A A : NoneIn(events', A)
    <3>1. Len(events') = 0
      BY <1>1
    <3>2. QED
      BY <3>1 DEF NoneIn
  <2>2. (lock = locked)' /\ \A v : Same(v)'
    BY <1>1 DEF Same, node
  <2>3. QED
    BY <1>1, <2>1, <2>2 DEF Knows, Meets, Pending
<1>6. QED
  BY <1>2, <1>3, <1>4, <1>5 DEF Inv

(* A watch begins or ends: what is known and what is pending stays.        *)
LEMMA WatchInv == ASSUME Inv, StartWatch \/ WatchEnds PROVE Inv'
<1>1. /\ phase # "get" /\ phase' \in {"got", "watch"}
      /\ UNCHANGED <<node, events, missed, route, links, callers>>
  BY DEF StartWatch, WatchEnds
<1>2. TypeOK' /\ Own'
  BY <1>1 DEF Inv, TypeOK, Own, node, route, links, callers
<1>3. /\ OfLock' = OfLock /\ AgreeOnLock' = AgreeOnLock
      /\ \A v : /\ OfVersion(v)' = OfVersion(v) /\ AgreeOn(v)' = AgreeOn(v)
                /\ Same(v)' = Same(v)
  BY <1>1 DEF OfLock, AgreeOnLock, OfVersion, AgreeOn, Same, node, route
<1>4. Meets => Meets'
  BY <1>1, <1>3 DEF Meets, route, node
<1>5. Knows'
  BY <1>1, <1>4 DEF Inv, Knows
<1>6. QED
  BY <1>1, <1>2, <1>5, NodePrefers DEF Inv

(* An event is applied.                                                    *)
LEMMA HandleTypes ==
  ASSUME Inv, events # << >>
  PROVE  /\ Head(events) \in Events /\ Tail(events) \in Seq(Events)
         /\ events \in Seq(Events)
         /\ Head(events).kind = "version" =>
              version[Head(events).of] \in Versions
         /\ \A i \in 1 .. Len(Tail(events)) :
              Tail(events)[i].kind = "version" =>
                version[Tail(events)[i].of] \in Versions
<1>1. events \in Seq(Events) /\ Len(events) \in Nat \ {0}
  BY EmptySeq, LenProperties DEF Inv, TypeOK
<1>2. /\ Head(events) \in Events /\ Tail(events) \in Seq(Events)
      /\ Len(Tail(events)) = Len(events) - 1 /\ Head(events) = events[1]
      /\ \A i \in 1 .. Len(Tail(events)) : Tail(events)[i] = events[i + 1]
  BY <1>1, HeadTailProperties
<1>3. /\ 1 \in 1 .. Len(events)
      /\ \A i \in 1 .. Len(Tail(events)) : i + 1 \in 1 .. Len(events)
  BY <1>1, <1>2
<1>4. \A i \in 1 .. Len(events) :
        events[i].kind = "version" => version[events[i].of] \in Versions
  BY DEF Inv, Own
<1>5. QED
  BY <1>1, <1>2, <1>3, <1>4

(* What applying an event must do for the watcher to know it.              *)
LEMMA HandleKnows ==
  ASSUME Inv, events # << >>, events' = Tail(events),
         UNCHANGED <<node, phase, missed>>,
         Head(events).kind = "lock" => lock' = Head(events).of,
         Head(events).kind # "lock" => lock' = lock,
         \A v \in Versions :
           /\ Head(events) \in OfVersion(v) /\ Head(events) \in AgreeOn(v)
                => Same(v)'
           /\ Head(events) \notin OfVersion(v) /\ Same(v) => Same(v)'
  PROVE  Knows'
<1>1. events \in Seq(Events) /\ Head(events) \in Events
  BY HandleTypes
<1>2. /\ OfLock' = OfLock /\ AgreeOnLock' = AgreeOnLock
      /\ \A v : OfVersion(v)' = OfVersion(v) /\ AgreeOn(v)' = AgreeOn(v)
  BY DEF OfLock, AgreeOnLock, OfVersion, AgreeOn, node
<1>3. phase # "get"
  BY DEF Inv, Knows
<1>4. ASSUME Meets PROVE Meets'
  <2>1. Pending(Tail(events), OfLock, AgreeOnLock, (lock = locked)')
    <3>1. Head(events) \in OfLock /\ Head(events) \in AgreeOnLock
            => (lock = locked)'
      BY DEF OfLock, AgreeOnLock, node
    <3>2. Head(events) \notin OfLock /\ lock = locked => (lock = locked)'
      BY <1>1 DEF OfLock, node
    <3>3. Pending(events, OfLock, AgreeOnLock, lock = locked)
      BY <1>4 DEF Meets
    <3>4. QED
      BY <1>1, <3>1, <3>2, <3>3, Pop
  <2>2. ASSUME NEW v \in Versions
        PROVE  Pending(Tail(events), OfVersion(v), AgreeOn(v), Same(v)')
    <3>1. Pending(events, OfVersion(v), AgreeOn(v), Same(v))
      BY <1>4 DEF Meets
    <3>2. QED
      BY <1>1, <3>1, Pop
  <2>3. QED
    BY <1>2, <2>1, <2>2 DEF Meets
<1>5. QED
  BY <1>3, <1>4 DEF Inv, Knows

(* Each of the three handlers makes known what its event is about.         *)
LEMMA HandleKeyInv == ASSUME Inv, handleKey PROVE Inv'
<1> DEFINE e == Head(events)
<1>1. /\ events # << >> /\ events' = Tail(events)
      /\ UNCHANGED <<node, phase, missed, callers>>
      /\ etcdUpdateLock(e) \/ etcdUpdateVersion(e) \/ etcdDeleteVersion(e)
  BY DEF handleKey
<1>2. /\ e \in Events /\ events' \in Seq(Events)
      /\ e.kind = "version" => version[e.of] \in Versions
      /\ \A i \in 1 .. Len(events') : events'[i].kind = "version" =>
           version'[events'[i].of] \in Versions
  BY <1>1, HandleTypes DEF node
<1> HIDE DEF e
<1>3. /\ e.kind \in {"version", "lock", "gone"}
      /\ e.kind = "version" => e.of \in Procs /\ e.state \in States
      /\ e.kind = "lock" => e.of \in Versions \cup {0, None}
      /\ e.kind = "gone" => e.of \in Versions
  BY <1>2, EventTypes
(* What is left to show of each of the three.                              *)
<1>4. ASSUME table' \in [Versions -> Procs \cup {None}],
             info' \in [Procs -> States],
             lock' \in Versions \cup {0, None},
             NEW l, NEW cur \in Procs \cup {None},
             refresh(l, table', info', cur),
             dialed' \in [Procs -> BOOLEAN], client' \in [Procs -> Nat],
             open' \subseteq Procs \X Nat, dials' = dials, late' = late,
             \A w \in Versions : table'[w] # None => version[table'[w]] = w,
             Knows'
      PROVE  Inv'
  <2>1. PrefersStarted'
    BY <1>4, RefreshPrefers
  <2>2. enable' \in BOOLEAN /\ current' \in Procs \cup {None}
    BY <1>4, RefreshTypes
  <2>3. TypeOK'
    BY <1>1, <1>2, <1>4, <2>2 DEF Inv, TypeOK, node, callers
  <2>4. Own'
    BY <1>1, <1>2, <1>4 DEF Inv, Own, node
  <2>5. QED
    BY <1>4, <2>1, <2>3, <2>4 DEF Inv
<1>5. CASE etcdUpdateLock(e)
  <2>1. /\ e.kind = "lock" /\ lock' = e.of /\ UNCHANGED <<table, info, links>>
        /\ refresh(e.of, table', info', current)
    BY <1>5 DEF etcdUpdateLock
  <2>2. \A v \in Versions : /\ e \notin OfVersion(v)
                            /\ Same(v) => Same(v)'
    BY <1>1, <2>1 DEF OfVersion, Same, node
  <2>3. Knows'
    BY <1>1, <2>1, <2>2, HandleKnows DEF e
  <2>4. /\ table \in [Versions -> Procs \cup {None}]
        /\ info \in [Procs -> States] /\ current \in Procs \cup {None}
        /\ dialed \in [Procs -> BOOLEAN] /\ client \in [Procs -> Nat]
        /\ open \subseteq Procs \X Nat
        /\ \A w \in Versions : table[w] # None => version[table[w]] = w
    BY DEF Inv, TypeOK, Own
  <2>5. QED
    BY <1>3, <1>4, <2>1, <2>3, <2>4 DEF links
(* A version object is disabled, or left alone.                            *)
<1>6. ASSUME NEW q \in Procs \cup {None},
             setDisable(q) \/ UNCHANGED <<open, client, dialed>>
      PROVE  /\ dialed' \in [Procs -> BOOLEAN] /\ client' \in [Procs -> Nat]
             /\ open' \subseteq Procs \X Nat
  <2>1. CASE setDisable(q)
    <3>1. client' \in [Procs -> Nat]
      BY <2>1 DEF setDisable, Inv, TypeOK
    <3>2. dialed' \in [Procs -> BOOLEAN]
      BY <2>1 DEF setDisable, Inv, TypeOK
    <3>3. open' \subseteq open
      BY <2>1 DEF setDisable
    <3>4. QED
      BY <3>1, <3>2, <3>3 DEF Inv, TypeOK
  <2>2. CASE UNCHANGED <<open, client, dialed>>
    BY <2>2 DEF Inv, TypeOK
  <2>3. QED
    BY <1>6, <2>1, <2>2
<1>7. CASE etcdUpdateVersion(e)
  <2> DEFINE p == e.of
             v == version[p]
             old == table[v]
  <2>1. /\ e.kind = "version" /\ lock' = lock /\ dials' = dials /\ late' = late
        /\ table' = [table EXCEPT ![v] = p]
        /\ info' = [q \in Procs |-> IF q = p THEN e.state
                                   ELSE IF q = old THEN "none" ELSE info[q]]
        /\ refresh(lock, table', info', current)
        /\ setDisable(old) \/ UNCHANGED <<open, client, dialed>>
    BY <1>7 DEF etcdUpdateVersion
  <2>2. p \in Procs /\ e.state \in States /\ v \in Versions
    BY <1>2, <1>3, <2>1
  <2>3. old \in Procs \cup {None} /\ (old # None => version[old] = v)
    BY <2>2 DEF Inv, TypeOK, Own
  <2>4. /\ table' \in [Versions -> Procs \cup {None}] /\ table'[v] = p
        /\ \A w \in Versions \ {v} : table'[w] = table[w]
    BY <2>1, <2>2 DEF Inv, TypeOK
  <2>5. info' \in [Procs -> States]
    BY <2>1, <2>2 DEF Inv, TypeOK, States
  <2>6. \A w \in Versions : table'[w] # None => version[table'[w]] = w
    BY <2>4 DEF Inv, Own
  <2>7. ASSUME NEW w \in Versions
        PROVE  /\ e \in OfVersion(w) /\ e \in AgreeOn(w) => Same(w)'
               /\ e \notin OfVersion(w) /\ Same(w) => Same(w)'
    <3>1. e \in OfVersion(w) <=> v = w
      BY <1>2, <2>1 DEF OfVersion
    <3>2. CASE v = w
      <4>1. e \in AgreeOn(w) => key[w] = p /\ shown[p] = e.state
        BY <2>1, <3>2 DEF AgreeOn
      <4>2. key' = key /\ shown' = shown
        BY <1>1 DEF node
      <4>3. info'[p] = e.state /\ table'[w] = p
        BY <2>1, <2>2, <2>4, <3>2
      <4>4. QED
        BY <3>1, <3>2, <4>1, <4>2, <4>3 DEF Same
    <3>3. CASE v # w
      <4>1. key[w] # None => key[w] \in Procs /\ version[key[w]] = w
        BY DEF Inv, TypeOK, Own
      <4>2. key[w] # None => info'[key[w]] = info[key[w]]
        <5>1. key[w] # None => key[w] # p /\ key[w] # old
          BY <2>3, <3>3, <4>1, NoneAssumption
        <5>2. QED
          BY <2>1, <4>1, <5>1
      <4>3. table'[w] = table[w] /\ key' = key /\ shown' = shown
        BY <1>1, <2>4, <3>3 DEF node
      <4>4. QED
        BY <3>1, <3>3, <4>2, <4>3 DEF Same
    <3>4. QED
      BY <3>2, <3>3
  <2>8. Knows'
    <3>1. \A w \in Versions :
            /\ e \in OfVersion(w) /\ e \in AgreeOn(w) => Same(w)'
            /\ e \notin OfVersion(w) /\ Same(w) => Same(w)'
      BY <2>7
    <3>2. QED
      BY <1>1, <2>1, <3>1, HandleKnows DEF e
  <2>9. /\ dialed' \in [Procs -> BOOLEAN] /\ client' \in [Procs -> Nat]
        /\ open' \subseteq Procs \X Nat
    BY <1>6, <2>1, <2>3
  <2>10. lock' \in Versions \cup {0, None} /\ current \in Procs \cup {None}
    BY <2>1 DEF Inv, TypeOK
  <2>11. QED
    BY <1>4, <2>1, <2>4, <2>5, <2>6, <2>8, <2>9, <2>10
<1>8. CASE etcdDeleteVersion(e)
  <2> DEFINE v == e.of
             old == table[v]
  <2>1. e.kind = "gone" /\ lock' = lock /\ dials' = dials /\ late' = late
    BY <1>8 DEF etcdDeleteVersion
  <2>2. v \in Versions
    BY <1>3, <2>1
  <2>3. old \in Procs \cup {None} /\ (old # None => version[old] = v)
    BY <2>2 DEF Inv, TypeOK, Own
  <2>4. /\ table' \in [Versions -> Procs \cup {None}] /\ table'[v] = None
        /\ \A w \in Versions \ {v} : table'[w] = table[w]
        /\ info' \in [Procs -> States]
        /\ \A q \in Procs : q # old => info'[q] = info[q]
    <3>1. CASE old = None
      BY <1>8, <2>2, <3>1 DEF etcdDeleteVersion, Inv, TypeOK
    <3>2. CASE old # None
      <4>1. /\ table' = [table EXCEPT ![v] = None]
            /\ info' = [info EXCEPT ![old] = "none"]
        BY <1>8, <3>2 DEF etcdDeleteVersion
      <4>2. "none" \in States
        BY DEF States
      <4>3. QED
        BY <2>2, <4>1, <4>2 DEF Inv, TypeOK
    <3>3. QED
      BY <3>1, <3>2
  <2>5. /\ \E cur \in Procs \cup {None} : refresh(lock, table', info', cur)
        /\ setDisable(old) \/ UNCHANGED <<open, client, dialed>>
    <3>1. CASE old = None
      <4>1. /\ refresh(lock, table', info', current)
            /\ UNCHANGED <<open, client, dialed>>
        BY <1>8, <3>1 DEF etcdDeleteVersion
      <4>2. QED
        BY <4>1 DEF Inv, TypeOK
    <3>2. CASE old # None
      BY <1>8, <3>2 DEF etcdDeleteVersion
    <3>3. QED
      BY <3>1, <3>2
  <2>6. \A w \in Versions : table'[w] # None => version[table'[w]] = w
    BY <2>4 DEF Inv, Own
  <2>7. ASSUME NEW w \in Versions
        PROVE  /\ e \in OfVersion(w) /\ e \in AgreeOn(w) => Same(w)'
               /\ e \notin OfVersion(w) /\ Same(w) => Same(w)'
    <3>1. e \in OfVersion(w) <=> v = w
      BY <1>2, <2>1 DEF OfVersion
    <3>2. key' = key /\ shown' = shown
      BY <1>1 DEF node
    <3>3. CASE v = w
      <4>1. e \in AgreeOn(w) => key[w] = None
        BY <2>1, <3>3 DEF AgreeOn
      <4>2. QED
        BY <2>4, <3>1, <3>2, <3>3, <4>1 DEF Same
    <3>4. CASE v # w
      <4>1. key[w] # None => key[w] \in Procs /\ version[key[w]] = w
        BY DEF Inv, TypeOK, Own
      <4>2. key[w] # None => key[w] # old
        BY <2>3, <3>4, <4>1
      <4>3. key[w] # None => info'[key[w]] = info[key[w]]
        BY <2>4, <4>1, <4>2
      <4>4. table'[w] = table[w]
        BY <2>4, <3>4
      <4>5. QED
        BY <3>1, <3>2, <3>4, <4>3, <4>4 DEF Same
    <3>5. QED
      BY <3>3, <3>4
  <2>8. Knows'
    <3>1. \A w \in Versions :
            /\ e \in OfVersion(w) /\ e \in AgreeOn(w) => Same(w)'
            /\ e \notin OfVersion(w) /\ Same(w) => Same(w)'
      BY <2>7
    <3>2. QED
      BY <1>1, <2>1, <3>1, HandleKnows DEF e
  <2>9. /\ dialed' \in [Procs -> BOOLEAN] /\ client' \in [Procs -> Nat]
        /\ open' \subseteq Procs \X Nat
    BY <1>6, <2>3, <2>5
  <2>10. lock' \in Versions \cup {0, None}
    BY <2>1 DEF Inv, TypeOK
  <2>11. QED
    BY <1>4, <2>1, <2>4, <2>5, <2>6, <2>8, <2>9, <2>10
<1>9. QED
  BY <1>1, <1>5, <1>7, <1>8

(* A caller changes nothing of that.                                       *)
LEMMA CallerInv ==
  ASSUME Inv, NEW c \in Callers, getCurrentClient(c) PROVE Inv'
<1>1. UNCHANGED <<node, watch, route>>
  BY DEF getCurrentClient, Snapshot, check, EndDial
<1>2. Own' /\ Knows'
  BY <1>1, StillKnows DEF Inv, Own, node, watch, route
<1>3. PrefersStarted'
  BY <1>1, NodePrefers
<1>4. /\ dialed' \in [Procs -> BOOLEAN] /\ dials' \in [Procs -> Nat]
      /\ client' \in [Procs -> Nat] /\ open' \subseteq Procs \X Nat
      /\ late' \subseteq Procs
      /\ pc' \in [Callers -> {"idle", "check", "dialing"}]
      /\ obj' \in [Callers -> Procs \cup {None}] /\ conn' \in [Callers -> Nat]
      /\ \A d \in Callers : pc'[d] # "idle" => obj'[d] \in Procs
  <2>1. CASE Snapshot(c)
    BY <2>1 DEF Snapshot, Goto, Inv, TypeOK, links
  <2>2. CASE check(c)
    <3> DEFINE p == obj[c]
    <3>1. p \in Procs /\ pc[c] = "check" /\ dials[p] + 1 \in Nat
      BY <2>2 DEF check, Inv, TypeOK
    <3>2. CASE client[p] # 0 \/ dialed[p]
      <4>1. /\ pc' = [pc EXCEPT ![c] = "idle"]
            /\ obj' = [obj EXCEPT ![c] = None] /\ UNCHANGED <<links, conn>>
        BY <2>2, <3>2 DEF check, Return, Goto
      <4>2. QED
        BY <4>1 DEF Inv, TypeOK, links
    <3>3. CASE ~(client[p] # 0 \/ dialed[p])
      <4>1. /\ dialed' = [dialed EXCEPT ![p] = TRUE]
            /\ dials' = [dials EXCEPT ![p] = dials[p] + 1]
            /\ conn' = [conn EXCEPT ![c] = dials[p] + 1]
            /\ open' = open \cup {<<p, dials[p] + 1>>}
            /\ late' \in {late, late \cup {p}}
            /\ pc' = [pc EXCEPT ![c] = "dialing"]
            /\ client' = client /\ obj' = obj
        BY <2>2, <3>3 DEF check, Goto
      <4> HIDE DEF p
      <4>2. open' \subseteq Procs \X Nat /\ late' \subseteq Procs
        BY <3>1, <4>1 DEF Inv, TypeOK
      <4>3. dialed' \in [Procs -> BOOLEAN]
        BY <4>1 DEF Inv, TypeOK
      <4>4. /\ dials' \in [Procs -> Nat] /\ conn' \in [Callers -> Nat]
            /\ client' \in [Procs -> Nat]
        BY <3>1, <4>1 DEF Inv, TypeOK
      <4>5. /\ pc' \in [Callers -> {"idle", "check", "dialing"}]
            /\ obj' \in [Callers -> Procs \cup {None}]
            /\ \A d \in Callers : pc'[d] # "idle" => obj'[d] \in Procs
        BY <3>1, <4>1 DEF Inv, TypeOK, p
      <4>6. QED
        BY <4>2, <4>3, <4>4, <4>5
    <3>4. QED
      BY <3>2, <3>3
  <2>3. CASE EndDial(c)
    <3> DEFINE p == obj[c]
    <3>1. /\ \/ client' = [client EXCEPT ![p] = conn[c]] /\ open' = open
             \/ open' = open \ {<<p, conn[c]>>} /\ client' = client
          /\ conn' = [conn EXCEPT ![c] = 0]
          /\ pc' = [pc EXCEPT ![c] = "idle"] /\ obj' = [obj EXCEPT ![c] = None]
          /\ UNCHANGED <<dialed, dials, late>>
      BY <2>3 DEF EndDial, Return, Goto
    <3>2. conn[c] \in Nat /\ 0 \in Nat
      BY DEF Inv, TypeOK
    <3> HIDE DEF p
    <3>3. client' \in [Procs -> Nat] /\ conn' \in [Callers -> Nat]
      BY <3>1, <3>2 DEF Inv, TypeOK
    <3>4. open' \subseteq Procs \X Nat
      BY <3>1 DEF Inv, TypeOK
    <3>5. QED
      BY <3>1, <3>3, <3>4 DEF Inv, TypeOK
  <2>4. QED
    BY <2>1, <2>2, <2>3 DEF getCurrentClient
<1>5. TypeOK'
  BY <1>1, <1>4 DEF Inv, TypeOK, node, watch, route
<1>6. QED
  BY <1>2, <1>3, <1>5 DEF Inv

(* Every step keeps the invariant.                                         *)
LEMMA NextInv == Inv /\ [Next]_vars => Inv'
<1> SUFFICES ASSUME Inv, [Next]_vars PROVE Inv'
  OBVIOUS
<1>1. CASE UNCHANGED vars
  <2>1. TypeOK' /\ Own'
    BY <1>1 DEF vars, node, watch, route, links, callers, Inv, TypeOK, Own
  <2>2. PrefersStarted' /\ Knows'
    BY <1>1, NodePrefers, StillKnows DEF vars, node
  <2>3. QED
    BY <2>1, <2>2 DEF Inv
<1>2. CASE FirstLock
  <2>1. /\ stage' \in [Procs -> Stages] /\ PutLock(0) /\ NodeUnchanged
        /\ UNCHANGED <<version, shown, key, stage>>
    BY <1>2 DEF FirstLock, Inv, TypeOK
  <2>2. QED
    BY <2>1, LockInv
<1>3. ASSUME NEW p \in Procs, NodeStep(p) PROVE Inv'
  BY <1>3, LockStepsInv, ShowInv, RegisterInv, LeaveInv, CrashInv DEF NodeStep
<1>4. CASE Watch
  BY <1>4, FirstGetInv, WatchInv, HandleKeyInv DEF Watch
<1>5. ASSUME NEW c \in Callers, getCurrentClient(c) PROVE Inv'
  BY <1>5, CallerInv
<1>6. QED
  BY <1>1, <1>2, <1>3, <1>4, <1>5 DEF Next

(* So it holds always.                                                     *)
LEMMA SpecInv == Spec => []Inv
<1>1. QED
  BY InitInv, NextInv, PTL DEF Spec

(* Every variable has its type.                                            *)
THEOREM TypeCorrect == Spec => []TypeOK
<1>1. Inv => TypeOK
  BY DEF Inv
<1>2. QED
  BY <1>1, SpecInv, PTL

(* refresh: calls are routed to a version that the watcher knows, and to   *)
(* one that drains only if none of those it knows is started.              *)
THEOREM RoutesToStarted == Spec => []PrefersStarted
<1>1. Inv => PrefersStarted
  BY DEF Inv
<1>2. QED
  BY <1>1, SpecInv, PTL

(* watchCluster and handleKey: a watcher that has applied all the changes  *)
(* and lost none knows what etcd holds.                                    *)
THEOREM WatcherCatchesUp == Spec => []CaughtUp
<1>1. ASSUME Inv PROVE CaughtUp
  <2>1. SUFFICES ASSUME phase = "watch", events = << >>, ~missed
                 PROVE  /\ table = key /\ lock = locked
                        /\ \A p \in InTable(key) : info[p] = shown[p]
    BY DEF CaughtUp
  <2>2. Meets /\ Len(events) = 0
    BY <1>1, <2>1 DEF Inv, Knows
  <2>3. \A A, B : ~LastIn(events, A, B)
    BY <2>2 DEF LastIn
  <2>4. lock = locked /\ \A v \in Versions : Same(v)
    BY <2>2, <2>3 DEF Meets, Pending
  <2>5. table = key
    <3>1. \A v \in Versions : table[v] = key[v]
      BY <2>4 DEF Same
    <3>2. table \in [Versions -> Procs \cup {None}]
      BY <1>1 DEF Inv, TypeOK
    <3>3. key \in [Versions -> Procs \cup {None}]
      BY <1>1 DEF Inv, TypeOK
    <3>4. /\ table = [v \in Versions |-> table[v]]
          /\ key = [v \in Versions |-> key[v]]
      BY <3>2, <3>3
    <3>5. [v \in Versions |-> table[v]] = [v \in Versions |-> key[v]]
      BY <3>1
    <3>6. QED
      BY <3>4, <3>5
  <2>6. \A p \in InTable(key) : info[p] = shown[p]
    BY <2>4 DEF InTable, Same
  <2>7. QED
    BY <2>4, <2>5, <2>6
<1>2. QED
  BY <1>1, SpecInv, PTL

-----------------------------------------------------------------------------
(* The connections.  Event i is about the object of p and puts it into the *)
(* table.                                                                  *)
Puts(i, p) == events[i].kind = "version" /\ events[i].of = p

(* An event on the version of p that is not about p comes before the time  *)
(* of p or after it: a process that was replaced or left does not return.  *)
NotYet(p, j) ==
  table[version[p]] # p /\ \A i \in 1 .. Len(events) : i < j => ~Puts(i, p)
Over(p, j) ==
  key[version[p]] # p /\ \A i \in 1 .. Len(events) : i > j => ~Puts(i, p)
Turns ==
  \A p \in Procs, j \in 1 .. Len(events) :
    events[j] \in OfVersion(version[p]) /\ ~Puts(j, p)
      => NotYet(p, j) \/ Over(p, j)

\* p was known and will not be again.
Out(p) ==
  /\ version[p] \in Versions
  /\ p \notin InTable(table) /\ key[version[p]] # p
  /\ \A i \in 1 .. Len(events) : ~Puts(i, p)

(* A caller that is on its way has an object that was in the table, and a  *)
(* connection only while it dials.                                         *)
OnTheWay(c) ==
  /\ pc[c] = "idle" => obj[c] = None
  /\ pc[c] # "dialing" => conn[c] = 0
  /\ pc[c] = "dialing" => conn[c] # 0
  /\ pc[c] # "idle" =>
       phase # "get" /\ (obj[c] \in InTable(table) \/ Out(obj[c]))

(* An object of the table is dialled by one caller at a time, before it    *)
(* has a connection.                                                       *)
Dials(c, p) == pc[c] = "dialing" /\ obj[c] = p
Single ==
  \A p \in InTable(table), c \in Callers : Dials(c, p) =>
    /\ dialed[p] /\ client[p] = 0
    /\ \A d \in Callers : Dials(d, p) => d = c

\* Who is dialled, and the connections there are.
Links ==
  /\ \A p \in late : Out(p)
  /\ \A p \in Procs :
       dialed[p] => phase # "get" /\ (p \in InTable(table) \/ p \in late)
  /\ \A l \in open : l[2] # 0
  /\ phase = "get" => open = {}

LinkInv ==
  Turns /\ (\A c \in Callers : OnTheWay(c)) /\ Single /\ Links /\ NoConnLeak

\* Nobody dials at the start.
LEMMA InitLink == Init => LinkInv
<1> SUFFICES ASSUME Init PROVE LinkInv
  OBVIOUS
<1>1. Len(events) = 0
  BY DEF Init
<1>2. Turns
  BY <1>1 DEF Turns
<1>3. (\A c \in Callers : OnTheWay(c)) /\ Single /\ Links /\ NoConnLeak
  BY DEF Init, OnTheWay, Single, Dials, Links, NoConnLeak
<1>4. QED
  BY <1>2, <1>3 DEF LinkInv

\* Who is in the table is there under its own version.
LEMMA InTableOwn ==
  ASSUME Inv, NEW p \in Procs
  PROVE  p \in InTable(table) => /\ version[p] \in Versions
                                 /\ table[version[p]] = p
<1> SUFFICES ASSUME p \in InTable(table)
             PROVE  version[p] \in Versions /\ table[version[p]] = p
  OBVIOUS
<1>1. PICK v \in Versions : table[v] = p /\ p # None
  BY DEF InTable
<1>2. QED
  BY <1>1 DEF Inv, Own

\* ... and the other way round.
LEMMA OwnInTable ==
  ASSUME NEW v \in Versions, table[v] # None PROVE table[v] \in InTable(table)
  BY DEF InTable

(* What a step of the node does: a version stays that of its process, no   *)
(* process comes back, and an event tells what the key has become.         *)
Tells(e) ==
  /\ e.kind = "version" => key'[version'[e.of]] = e.of
  /\ e.kind = "gone" => key'[e.of] = None
NodeMoves ==
  /\ UNCHANGED <<phase, route, links, callers>>
  /\ \A p \in Procs : version[p] \in Versions =>
       /\ version'[p] = version[p]
       /\ key'[version[p]] = p => key[version[p]] = p
  /\ \/ events' = events
     \/ \E e \in Events : events' = Append(events, e) /\ Tells(e)

\* A change is an event, or is lost.
LEMMA ChangedEvents ==
  ASSUME NEW e \in Events, Changed(e), Tells(e)
  PROVE  \/ events' = events
         \/ \E f \in Events : events' = Append(events, f) /\ Tells(f)
  BY DEF Changed

\* A change of the lock key.
LEMMA PutLockMoves ==
  ASSUME Inv, NEW v \in Versions \cup {0, None}, PutLock(v),
         UNCHANGED <<version, key, phase, route, links, callers>>
  PROVE  NodeMoves
<1> DEFINE e == [kind |-> "lock", of |-> v]
<1>1. e \in Events /\ e.kind = "lock"
  BY EventsMade
<1>2. Changed(e)
  BY DEF PutLock
<1> HIDE DEF e
<1>3. Tells(e)
  BY <1>1 DEF Tells
<1>4. QED
  BY <1>1, <1>2, <1>3, ChangedEvents DEF NodeMoves

\* A process writes its state under its key.
LEMMA PutVersionMoves ==
  ASSUME Inv, NEW p \in Procs, NEW s \in States, PutVersion(p, s),
         UNCHANGED <<version, phase, route, links, callers>>
  PROVE  NodeMoves
<1> DEFINE e == [kind |-> "version", of |-> p, state |-> s]
<1>1. e \in Events /\ e.kind = "version" /\ e.of = p
  BY EventsMade
<1>2. Changed(e) /\ key' = key /\ key[version[p]] = p
  BY DEF PutVersion
<1> HIDE DEF e
<1>3. Tells(e)
  BY <1>1, <1>2 DEF Tells
<1>4. QED
  BY <1>1, <1>2, <1>3, ChangedEvents DEF NodeMoves

\* A process that registers is new to every key.
LEMMA RegisterMoves ==
  ASSUME Inv, NEW p \in Procs, Register(p)
  PROVE  NodeMoves
<1> DEFINE e == [kind |-> "version", of |-> p, state |-> "Started"]
<1>1. e \in Events /\ e.kind = "version" /\ e.of = p
  BY EventsMade DEF States
<1>2. PICK v \in Versions :
        /\ version' = [version EXCEPT ![p] = v]
        /\ key' = [key EXCEPT ![v] = p]
        /\ Changed(e)
  BY DEF Register
<1>3. stage[p] = "new" /\ version[p] = 0 /\ 0 \notin Versions
  BY DEF Register, At, Inv, Own
<1> HIDE DEF e
<1>4. /\ version \in [Procs -> Versions \cup {0}]
      /\ key \in [Versions -> Procs \cup {None}]
  BY DEF Inv, TypeOK
<1>5. Tells(e)
  BY <1>1, <1>2, <1>4 DEF Tells
<1>6. ASSUME NEW q \in Procs, version[q] \in Versions
      PROVE  /\ version'[q] = version[q]
             /\ key'[version[q]] = q => key[version[q]] = q
  <2>1. q # p
    BY <1>3, <1>6
  <2>2. QED
    BY <1>2, <1>4, <1>6, <2>1
<1>7. UNCHANGED <<phase, route, links, callers>>
  BY DEF Register, NodeUnchanged
<1>8. QED
  BY <1>1, <1>2, <1>5, <1>6, <1>7, ChangedEvents DEF NodeMoves

\* A registration is deleted.
LEMMA LeaveMoves ==
  ASSUME Inv, NEW p \in Procs, Leave(p)
  PROVE  NodeMoves
<1>1. /\ key[version[p]] = p /\ stage[p] # "new"
      /\ key' = [key EXCEPT ![version[p]] = None] /\ version' = version
      /\ UNCHANGED <<phase, route, links, callers>>
  BY DEF Leave, NodeUnchanged
<1>2. /\ version[p] \in Versions /\ key \in [Versions -> Procs \cup {None}]
  BY <1>1 DEF Inv, TypeOK
<1> DEFINE e == [kind |-> "gone", of |-> version[p]]
<1>3. e \in Events /\ e.kind = "gone" /\ e.of = version[p]
  BY <1>2, EventsMade
<1>4. Changed(e)
  BY DEF Leave
<1> HIDE DEF e
<1>5. Tells(e)
  BY <1>1, <1>2, <1>3 DEF Tells
<1>6. \A q \in Procs :
        version[q] \in Versions /\ key'[version[q]] = q => key[version[q]] = q
  BY <1>1, <1>2
<1>7. QED
  BY <1>1, <1>3, <1>4, <1>5, <1>6, ChangedEvents DEF NodeMoves

\* Every step of the node is such a step.
LEMMA NodeStepMoves ==
  ASSUME Inv, FirstLock \/ \E p \in Procs : NodeStep(p)
  PROVE  NodeMoves
<1>1. CASE FirstLock
  BY <1>1, PutLockMoves DEF FirstLock, NodeUnchanged
<1>2. ASSUME NEW p \in Procs, NodeStep(p) PROVE NodeMoves
  <2>1. CASE Register(p)
    BY <2>1, RegisterMoves
  <2>2. CASE SetCurrent(p)
    <3>1. version[p] \in Versions
      BY <2>2 DEF SetCurrent, At, Inv, TypeOK
    <3>2. QED
      BY <2>2, <3>1, PutLockMoves DEF SetCurrent, NodeUnchanged
  <2>3. CASE Drain(p)
    BY <2>3, PutVersionMoves DEF Drain, NodeUnchanged, States
  <2>4. CASE Unset(p)
    <3>1. (IF locked = version[p] THEN 0 ELSE locked)
            \in Versions \cup {0, None}
      BY DEF Inv, TypeOK
    <3>2. QED
      BY <2>4, <3>1, PutLockMoves DEF Unset, NodeUnchanged
  <2>5. CASE ShowStopping(p)
    BY <2>5, PutVersionMoves DEF ShowStopping, NodeUnchanged, States
  <2>6. CASE Leave(p)
    BY <2>6, LeaveMoves
  <2>7. CASE Crash(p)
    BY <2>7 DEF Crash, NodeUnchanged, NodeMoves
  <2>8. QED
    BY <1>2, <2>1, <2>2, <2>3, <2>4, <2>5, <2>6, <2>7 DEF NodeStep
<1>3. QED
  BY <1>1, <1>2

\* An event on a version is about one that etcd has.
LEMMA OnAVersion ==
  ASSUME Inv, NEW p \in Procs, NEW j \in 1 .. Len(events),
         events[j] \in OfVersion(version[p])
  PROVE  version[p] \in Versions
<1>1. events[j].kind = "version" => version[events[j].of] \in Versions
  BY DEF Inv, Own
<1>2. events[j] \in Events
  BY DEF OfVersion
<1>3. events[j].kind = "gone" => events[j].of \in Versions
  BY <1>2, EventTypes
<1>4. QED
  BY <1>1, <1>3 DEF OfVersion

\* Who is put into the table by an event has a version.
LEMMA PutsOwn ==
  ASSUME Inv, NEW p \in Procs, NEW j \in 1 .. Len(events), Puts(j, p)
  PROVE  version[p] \in Versions
  BY DEF Inv, Own, Puts

\* The queue after a step of the node.
LEMMA NodeEvents ==
  ASSUME Inv, NodeMoves
  PROVE  /\ Len(events) \in Nat
         /\ \A j \in 1 .. Len(events) :
              j \in 1 .. Len(events') /\ events'[j] = events[j]
         /\ \A j \in 1 .. Len(events') : j \notin 1 .. Len(events) =>
              /\ events'[j] \in Events /\ Tells(events'[j])
              /\ \A i \in 1 .. Len(events') : ~(i > j)
<1>1. events \in Seq(Events) /\ Len(events) \in Nat
  BY LenProperties DEF Inv, TypeOK
<1>2. CASE events' = events
  BY <1>1, <1>2
<1>3. ASSUME NEW e \in Events, events' = Append(events, e), Tells(e)
      PROVE  /\ \A j \in 1 .. Len(events) :
                  j \in 1 .. Len(events') /\ events'[j] = events[j]
             /\ \A j \in 1 .. Len(events') : j \notin 1 .. Len(events) =>
                  events'[j] = e /\ j = Len(events')
  BY <1>1, <1>3, AppendProperties
<1>4. QED
  <2>1. Len(events') \in Nat
    BY <1>1, <1>2, AppendProperties DEF NodeMoves
  <2>2. QED
    BY <1>1, <1>2, <1>3, <2>1 DEF NodeMoves

\* A step of the node brings no process back.
LEMMA NodeTurns ==
  ASSUME Inv, Inv', Turns, NodeMoves
  PROVE  Turns'
<1>1. SUFFICES ASSUME NEW p \in Procs, NEW j \in 1 .. Len(events'),
                      (events[j] \in OfVersion(version[p]))', ~Puts(j, p)'
               PROVE  NotYet(p, j)' \/ Over(p, j)'
  BY DEF Turns
<1>2. version'[p] \in Versions
  <2>1. events'[j].kind = "version" => version'[events'[j].of] \in Versions
    BY DEF Inv, Own
  <2>2. events'[j] \in Events
    BY <1>1 DEF OfVersion
  <2>3. events'[j].kind = "gone" => events'[j].of \in Versions
    BY <2>2, EventTypes
  <2>4. QED
    BY <1>1, <2>1, <2>3 DEF OfVersion
<1>3. table' = table
  BY DEF NodeMoves, route
<1>4. ASSUME NEW i \in 1 .. Len(events)
      PROVE  Puts(i, p)' <=> Puts(i, p)
  BY <1>4, NodeEvents DEF Puts
<1>5. CASE version[p] \in Versions
  <2>1. version'[p] = version[p]
    BY <1>5 DEF NodeMoves
  <2>2. CASE j \notin 1 .. Len(events)
    <3>1. /\ events'[j] \in Events /\ Tells(events'[j])
          /\ \A i \in 1 .. Len(events') : ~(i > j)
      BY <2>2, NodeEvents
    <3>2. key'[version'[p]] # p
      <4>1. CASE events'[j].kind = "version"
        BY <1>1, <3>1, <4>1 DEF Tells, OfVersion, Puts
      <4>2. CASE events'[j].kind = "gone"
        BY <1>1, <3>1, <4>2 DEF Tells, OfVersion
      <4>3. QED
        BY <1>1, <4>1, <4>2 DEF OfVersion
    <3>3. QED
      BY <3>1, <3>2 DEF Over
  <2>3. CASE j \in 1 .. Len(events)
    <3>1. events[j] \in OfVersion(version[p]) /\ ~Puts(j, p)
      <4>1. events'[j] = events[j] /\ events[j] \in Events
        BY <1>1, <2>3, NodeEvents DEF OfVersion
      <4>2. events[j].kind = "version" =>
              version'[events[j].of] = version[events[j].of]
        <5>1. SUFFICES ASSUME events[j].kind = "version"
                       PROVE version'[events[j].of] = version[events[j].of]
          OBVIOUS
        <5>2. version[events[j].of] \in Versions /\ events[j].of \in Procs
          BY <2>3, <4>1, <5>1, EventTypes DEF Inv, Own
        <5>3. QED
          BY <5>2 DEF NodeMoves
      <4>3. QED
        BY <1>1, <1>4, <2>1, <2>3, <4>1, <4>2 DEF OfVersion
    <3>2. CASE NotYet(p, j)
      <4>1. \A i \in 1 .. Len(events') : i < j => i \in 1 .. Len(events)
        BY <2>3, NodeEvents
      <4>2. QED
        BY <1>3, <1>4, <2>1, <3>2, <4>1 DEF NotYet
    <3>3. CASE Over(p, j)
      <4>1. key'[version[p]] # p
        BY <1>5, <3>3 DEF NodeMoves, Over
      <4>2. ASSUME NEW i \in 1 .. Len(events'), i \notin 1 .. Len(events)
            PROVE  ~Puts(i, p)'
        BY <2>1, <4>1, <4>2, NodeEvents DEF Puts, Tells
      <4>3. QED
        BY <1>4, <2>1, <3>3, <4>1, <4>2 DEF Over
    <3>4. QED
      BY <2>3, <3>1, <3>2, <3>3 DEF Turns
  <2>4. QED
    BY <2>2, <2>3
<1>6. CASE version[p] \notin Versions
  <2>1. table'[version'[p]] # p
    BY <1>2, <1>3, <1>6 DEF Inv, Own
  <2>2. \A i \in 1 .. Len(events) : ~Puts(i, p)
    BY <1>6, PutsOwn
  <2>3. \A i \in 1 .. Len(events') : i < j => i \in 1 .. Len(events)
    <3>1. CASE j \in 1 .. Len(events)
      BY <3>1, NodeEvents
    <3>2. CASE j \notin 1 .. Len(events)
      BY <3>2, NodeEvents
    <3>3. QED
      BY <3>1, <3>2
  <2>4. QED
    BY <1>4, <2>1, <2>2, <2>3 DEF NotYet
<1>7. QED
  BY <1>5, <1>6

\* Who was known and is not stays out in a step of the node.
LEMMA NodeOut ==
  ASSUME Inv, NodeMoves, NEW p \in Procs, Out(p)
  PROVE  Out(p)'
<1>1. version'[p] = version[p] /\ key'[version[p]] # p
  BY DEF Out, NodeMoves
<1>2. InTable(table)' = InTable(table)
  BY DEF InTable, NodeMoves, route
<1>3. ASSUME NEW i \in 1 .. Len(events') PROVE ~Puts(i, p)'
  <2>1. CASE i \in 1 .. Len(events)
    BY <2>1, NodeEvents DEF Out, Puts
  <2>2. CASE i \notin 1 .. Len(events)
    BY <1>1, <2>2, NodeEvents DEF Puts, Tells
  <2>3. QED
    BY <2>1, <2>2
<1>4. QED
  BY <1>1, <1>2, <1>3 DEF Out

\* The callers and connections depend on the table and on who is out.
LEMMA SameTable ==
  ASSUME Inv, LinkInv, UNCHANGED <<links, callers>>,
         phase # "get" => phase' # "get",
         \/ table' = table
         \/ phase = "get",
         \A p \in Procs : Out(p) => Out(p)'
  PROVE  (\A c \in Callers : OnTheWay(c)') /\ Single' /\ Links' /\ NoConnLeak'
<1>1. CASE table' = table
  <2>1. InTable(table)' = InTable(table)
    BY <1>1 DEF InTable
  <2>2. ASSUME NEW c \in Callers PROVE OnTheWay(c)'
    <3>1. pc[c] # "idle" => obj[c] \in Procs
      BY DEF Inv, TypeOK
    <3>2. QED
      BY <2>1, <3>1 DEF LinkInv, OnTheWay, callers
  <2>3. Single'
    BY <2>1 DEF LinkInv, Single, Dials, callers, links
  <2>4. late \subseteq Procs
    BY DEF Inv, TypeOK
  <2>5. Links'
    BY <2>1, <2>4 DEF LinkInv, Links, links
  <2>6. NoConnLeak'
    BY <2>1 DEF LinkInv, NoConnLeak, links, callers
  <2>7. QED
    BY <2>2, <2>3, <2>5, <2>6
<1>2. CASE phase = "get"
  <2>1. \A c \in Callers : pc[c] = "idle"
    BY <1>2 DEF LinkInv, OnTheWay
  <2>2. open = {} /\ \A p \in Procs : ~dialed[p]
    BY <1>2 DEF LinkInv, Links
  <2>3. \A c \in Callers : OnTheWay(c)'
    BY <2>1 DEF LinkInv, OnTheWay, callers
  <2>4. Single'
    BY <2>1 DEF Single, Dials, callers
  <2>5. late \subseteq Procs
    BY DEF Inv, TypeOK
  <2>6. Links' /\ NoConnLeak'
    BY <2>2, <2>5 DEF LinkInv, Links, NoConnLeak, links
  <2>7. QED
    BY <2>3, <2>4, <2>6
<1>3. QED
  BY <1>1, <1>2

\* A step of the node leaves the connections as they are.
LEMMA NodeLink ==
  ASSUME Inv, Inv', LinkInv, FirstLock \/ \E p \in Procs : NodeStep(p)
  PROVE  LinkInv'
<1>1. NodeMoves
  BY NodeStepMoves
<1>2. Turns'
  BY <1>1, NodeTurns DEF LinkInv
<1>3. \A p \in Procs : Out(p) => Out(p)'
  BY <1>1, NodeOut
<1>4. QED
  BY <1>1, <1>2, <1>3, SameTable DEF NodeMoves, route, LinkInv

\* The get, before which nobody dials.
LEMMA FirstGetLink ==
  ASSUME Inv, LinkInv, FirstGet
  PROVE  LinkInv'
<1>1. /\ UNCHANGED <<node, events, links, callers>> /\ phase = "get"
      /\ table' = key
  BY DEF FirstGet
<1>2. Len(events') = 0
  BY <1>1 DEF Inv, Knows
<1>3. Turns'
  BY <1>2 DEF Turns
<1>4. ASSUME NEW p \in Procs, Out(p) PROVE Out(p)'
  <2>1. p \notin InTable(key)
    BY <1>4 DEF Out, InTable, Inv, Own
  <2>2. p \notin InTable(table')
    BY <1>1, <1>4, <2>1 DEF Out
  <2>3. UNCHANGED <<version, key, events>>
    BY <1>1 DEF node
  <2>4. (p \notin InTable(table))'
    BY <2>2 DEF InTable
  <2>5. QED
    BY <1>4, <2>3, <2>4 DEF Out, Puts
<1>5. QED
  BY <1>1, <1>3, <1>4, SameTable DEF LinkInv

\* A watch begins or ends.
LEMMA WatchLink ==
  ASSUME Inv, LinkInv, StartWatch \/ WatchEnds
  PROVE  LinkInv'
<1>1. /\ UNCHANGED <<node, events, table, links, callers>>
      /\ phase' # "get"
  BY DEF StartWatch, WatchEnds, route
<1>2. Turns'
  BY <1>1 DEF LinkInv, Turns, NotYet, Over, Puts, OfVersion, node
<1>3. \A p \in Procs : Out(p) => Out(p)'
  BY <1>1 DEF Out, Puts, InTable, node
<1>4. QED
  BY <1>1, <1>2, <1>3, SameTable DEF LinkInv

(* An event changes the table in one version at the most, and disables the *)
(* object that it takes out.                                               *)
Replaces(v, x) ==
  /\ table' = [table EXCEPT ![v] = x] /\ x # table[v]
  /\ events[1] \in OfVersion(v)
  /\ x # None => Puts(1, x)
  /\ ~Puts(1, table[v])
  /\ IF table[v] = None THEN UNCHANGED <<open, client, dialed>>
     ELSE setDisable(table[v])

\* The three kinds of events.
LEMMA HandleKeyMoves ==
  ASSUME Inv, handleKey
  PROVE  /\ UNCHANGED <<node, phase, callers, dials, late>>
         /\ \/ UNCHANGED <<table, open, client, dialed>>
            \/ \E v \in Versions, x \in Procs \cup {None} : Replaces(v, x)
<1>1. /\ UNCHANGED <<node, phase, callers>> /\ events # << >>
      /\ events \in Seq(Events)
  BY DEF handleKey, Inv, TypeOK
<1>2. /\ Head(events) = events[1] /\ events[1] \in Events
      /\ 1 \in 1 .. Len(events)
  BY <1>1, HeadTailProperties, EmptySeq
<1> DEFINE e == events[1]
<1>3. CASE etcdUpdateLock(e)
  BY <1>1, <1>3 DEF etcdUpdateLock, links
<1>4. CASE etcdUpdateVersion(e)
  <2>1. /\ e.kind = "version" /\ e.of \in Procs
        /\ version[e.of] \in Versions
    BY <1>2, <1>4, EventTypes DEF etcdUpdateVersion, Inv, Own
  <2>2. PICK v \in Versions : v = version[e.of]
    BY <2>1
  <2>3. /\ UNCHANGED <<dials, late>>
        /\ table' = [table EXCEPT ![v] = e.of]
        /\ IF table[v] \in {None, e.of} THEN UNCHANGED <<open, client, dialed>>
           ELSE setDisable(table[v])
    BY <1>4, <2>2 DEF etcdUpdateVersion
  <2>4. e \in OfVersion(v) /\ Puts(1, e.of)
    BY <1>2, <2>1, <2>2 DEF OfVersion, Puts
  <2>5. table \in [Versions -> Procs \cup {None}]
    BY DEF Inv, TypeOK
  <2>6. CASE table[v] = e.of
    <3>1. table' = table
      BY <2>3, <2>5, <2>6
    <3>2. QED
      BY <1>1, <2>3, <2>6, <3>1
  <2>7. CASE table[v] # e.of
    <3>1. ~Puts(1, table[v])
      BY <2>7 DEF Puts
    <3>2. Replaces(v, e.of)
      BY <2>1, <2>3, <2>4, <2>7, <3>1 DEF Replaces
    <3>3. QED
      BY <1>1, <2>1, <2>3, <3>2
  <2>8. QED
    BY <2>6, <2>7
<1>5. CASE etcdDeleteVersion(e)
  <2>1. e.kind = "gone" /\ e.of \in Versions
    BY <1>2, <1>5, EventTypes DEF etcdDeleteVersion
  <2>2. UNCHANGED <<dials, late>>
    BY <1>5 DEF etcdDeleteVersion
  <2>3. CASE table[e.of] = None
    BY <1>1, <1>5, <2>2, <2>3 DEF etcdDeleteVersion
  <2>4. CASE table[e.of] # None
    <3>1. /\ table' = [table EXCEPT ![e.of] = None]
          /\ setDisable(table[e.of])
      BY <1>5, <2>4 DEF etcdDeleteVersion
    <3>2. e \in OfVersion(e.of) /\ ~Puts(1, table[e.of])
      BY <1>2, <2>1 DEF OfVersion, Puts
    <3>3. Replaces(e.of, None)
      BY <2>4, <3>1, <3>2 DEF Replaces
    <3>4. QED
      BY <1>1, <2>1, <2>2, <3>3
  <2>5. QED
    BY <2>3, <2>4
<1>6. QED
  BY <1>2, <1>3, <1>4, <1>5 DEF handleKey

\* The queue after that event.
LEMMA PoppedEvents ==
  ASSUME Inv, handleKey
  PROVE  /\ Len(events) \in Nat /\ 1 \in 1 .. Len(events)
         /\ \A j \in 1 .. Len(events') :
              /\ j + 1 \in 1 .. Len(events) /\ events'[j] = events[j + 1]
              /\ \A p : Puts(j, p)' <=> Puts(j + 1, p)
         /\ \A i \in 1 .. Len(events) :
              i # 1 => i - 1 \in 1 .. Len(events') /\ (i - 1) + 1 = i
<1>1. events # << >> /\ events \in Seq(Events) /\ events' = Tail(events)
  BY DEF handleKey, Inv, TypeOK
<1>2. Len(events) \in Nat \ {0}
  BY <1>1, EmptySeq, LenProperties
<1>3. /\ Len(events') = Len(events) - 1
      /\ \A j \in 1 .. Len(events') : events'[j] = events[j + 1]
  BY <1>1, HeadTailProperties
<1>4. \A j \in 1 .. Len(events') : j + 1 \in 1 .. Len(events)
  BY <1>2, <1>3
<1>5. \A i \in 1 .. Len(events) :
        i # 1 => i - 1 \in 1 .. Len(events') /\ (i - 1) + 1 = i
  BY <1>2, <1>3
<1>6. 1 \in 1 .. Len(events)
  BY <1>2
<1>7. QED
  BY <1>2, <1>3, <1>4, <1>5, <1>6 DEF Puts

\* Who was put into the table is there because of the event.
LEMMA HandleKeyTable ==
  ASSUME Inv, handleKey, NEW p \in Procs, NEW v \in Versions, table'[v] = p
  PROVE  table[v] = p \/ Puts(1, p)
<1>1. table \in [Versions -> Procs \cup {None}]
  BY DEF Inv, TypeOK
<1>2. CASE UNCHANGED table
  BY <1>2
<1>3. ASSUME NEW w \in Versions, NEW x \in Procs \cup {None}, Replaces(w, x)
      PROVE  table[v] = p \/ Puts(1, p)
  BY <1>1, <1>3 DEF Replaces
<1>4. QED
  BY <1>2, <1>3, HandleKeyMoves

\* The watcher keeps the order of the processes.
LEMMA HandleKeyTurns ==
  ASSUME Inv, Turns, handleKey
  PROVE  Turns'
<1>1. SUFFICES ASSUME NEW p \in Procs, NEW j \in 1 .. Len(events'),
                      (events[j] \in OfVersion(version[p]))', ~Puts(j, p)'
               PROVE  NotYet(p, j)' \/ Over(p, j)'
  BY DEF Turns
<1>2. UNCHANGED <<version, key>>
  BY HandleKeyMoves DEF node
<1>3. /\ j + 1 \in 1 .. Len(events) /\ events'[j] = events[j + 1]
      /\ ~Puts(j + 1, p)
  BY <1>1, PoppedEvents
<1>4. events[j + 1] \in OfVersion(version[p])
  BY <1>1, <1>2, <1>3 DEF OfVersion
<1>5. version[p] \in Versions
  BY <1>3, <1>4, OnAVersion
<1>6. j \in Nat
  OBVIOUS
<1>7. CASE NotYet(p, j + 1)
  <2>1. ~Puts(1, p)
    BY <1>3, <1>6, <1>7, PoppedEvents DEF NotYet
  <2>2. table'[version[p]] # p
    BY <1>5, <1>7, <2>1, HandleKeyTable DEF NotYet
  <2>3. \A i \in 1 .. Len(events') : i < j => i + 1 < j + 1
    BY <1>6
  <2>4. QED
    BY <1>2, <1>7, <2>2, <2>3, PoppedEvents DEF NotYet
<1>8. CASE Over(p, j + 1)
  <2>1. \A i \in 1 .. Len(events') : i > j => i + 1 > j + 1
    BY <1>6
  <2>2. QED
    BY <1>2, <1>8, <2>1, PoppedEvents DEF Over
<1>9. QED
  BY <1>3, <1>4, <1>7, <1>8 DEF Turns

\* Who is out stays out, and who is taken out of the table is out.
LEMMA HandleKeyOut ==
  ASSUME Inv, Turns, handleKey, NEW p \in Procs
  PROVE  /\ Out(p) => Out(p)'
         /\ p \in InTable(table) /\ p \notin InTable(table') => Out(p)'
<1>1. UNCHANGED <<version, key>>
  BY HandleKeyMoves DEF node
<1>2. ASSUME Out(p) PROVE Out(p)'
  <2>1. \A i \in 1 .. Len(events') : ~Puts(i, p)'
    BY <1>2, PoppedEvents DEF Out
  <2>2. ~Puts(1, p)
    BY <1>2, PoppedEvents DEF Out
  <2>3. p \notin {table'[v] : v \in Versions} \ {None}
    BY <1>2, <2>2, HandleKeyTable DEF Out, InTable
  <2>4. QED
    BY <1>1, <1>2, <2>1, <2>3 DEF Out, InTable
<1>3. ASSUME p \in InTable(table), p \notin InTable(table') PROVE Out(p)'
  <2>1. version[p] \in Versions /\ table[version[p]] = p /\ p # None
    BY <1>3, InTableOwn DEF InTable
  <2>2. PICK v \in Versions, x \in Procs \cup {None} : Replaces(v, x)
    BY <1>3, HandleKeyMoves
  <2>3. v = version[p]
    <3>1. table'[version[p]] # p
      BY <1>3, <2>1 DEF InTable
    <3>2. QED
      BY <2>1, <2>2, <3>1 DEF Replaces, Inv, TypeOK
  <2>4. events[1] \in OfVersion(version[p]) /\ ~Puts(1, p)
    BY <2>1, <2>2, <2>3 DEF Replaces
  <2>5. Over(p, 1)
    BY <2>1, <2>4, PoppedEvents DEF Turns, NotYet
  <2>6. \A i \in 1 .. Len(events') : ~Puts(i, p)'
    <3>1. \A i \in 1 .. Len(events') : i + 1 > 1
      OBVIOUS
    <3>2. QED
      BY <2>5, <3>1, PoppedEvents DEF Over
  <2>7. QED
    BY <1>1, <1>3, <2>1, <2>5, <2>6 DEF Out, Over, InTable
<1>4. QED
  BY <1>2, <1>3

\* The table changes in one version: the object taken out is disabled.
LEMMA ReplaceLink ==
  ASSUME Inv, LinkInv, handleKey,
         NEW v \in Versions, NEW x \in Procs \cup {None}, Replaces(v, x)
  PROVE  (\A c \in Callers : OnTheWay(c)') /\ Single' /\ Links' /\ NoConnLeak'
<1>0. PICK old \in Procs \cup {None} : old = table[v]
  BY DEF Inv, TypeOK
<1>1. /\ UNCHANGED <<node, phase, callers, dials, late>>
      /\ table \in [Versions -> Procs \cup {None}]
      /\ dialed \in [Procs -> BOOLEAN] /\ client \in [Procs -> Nat]
  BY HandleKeyMoves DEF Inv, TypeOK
<1>2. /\ open' \subseteq open
      /\ old # None => open' = open \ {<<old, client[old]>>} /\ ~dialed'[old]
      /\ \A p \in Procs : p # old => /\ dialed'[p] = dialed[p]
                                     /\ client'[p] = client[p]
  BY <1>0, <1>1 DEF Replaces, setDisable
<1>3. ASSUME NEW p \in Procs
      PROVE  p \in InTable(table') => p # old /\ (p \in InTable(table) \/ p = x)
  <2>1. SUFFICES ASSUME p \in InTable(table')
                 PROVE  p # old /\ (p \in InTable(table) \/ p = x)
    OBVIOUS
  <2>2. PICK w \in Versions : table'[w] = p
    BY <2>1 DEF InTable
  <2>3. CASE w = v
    BY <1>0, <1>1, <2>2, <2>3 DEF Replaces
  <2>4. CASE w # v
    <3>1. table[w] = p /\ p # None
      BY <1>1, <2>2, <2>4 DEF Replaces
    <3>2. version[p] = w
      BY <3>1 DEF Inv, Own
    <3>3. p # old
      BY <1>0, <2>4, <3>1, <3>2 DEF Inv, Own
    <3>4. QED
      BY <3>1, <3>3 DEF InTable
  <2>5. QED
    BY <2>3, <2>4
<1>4. ASSUME NEW p \in Procs
      PROVE  p \in InTable(table) /\ p # old => p \in InTable(table')
  <2>1. SUFFICES ASSUME p \in InTable(table), p # old
                 PROVE  p \in InTable(table')
    OBVIOUS
  <2>2. PICK w \in Versions : table[w] = p /\ p # None
    BY <2>1 DEF InTable
  <2>3. table'[w] = p
    BY <1>0, <1>1, <2>1, <2>2 DEF Replaces
  <2>4. QED
    BY <2>2, <2>3 DEF InTable
<1>5. ASSUME NEW p \in Procs PROVE Out(p) => Out(p)'
  BY HandleKeyOut DEF LinkInv
<1>6. old # None => old \in Procs /\ old \notin InTable(table') /\ Out(old)'
  <2>1. old # None => old \in Procs /\ old \in InTable(table)
    BY <1>0, <1>1, OwnInTable
  <2>2. QED
    BY <1>3, <2>1, HandleKeyOut DEF LinkInv
<1>7. ASSUME NEW c \in Callers PROVE OnTheWay(c)'
  <2>1. pc[c] # "idle" => obj[c] \in Procs
    BY DEF Inv, TypeOK
  <2>2. pc[c] # "idle" => obj[c] \in InTable(table') \/ Out(obj[c])'
    <3>1. SUFFICES ASSUME pc[c] # "idle"
                   PROVE  obj[c] \in InTable(table') \/ Out(obj[c])'
      OBVIOUS
    <3>2. obj[c] \in InTable(table) \/ Out(obj[c])
      BY <3>1 DEF LinkInv, OnTheWay
    <3>3. obj[c] = old => old # None
      BY <2>1, <3>1
    <3>4. UNCHANGED obj
      BY <1>1 DEF callers
    <3>5. PICK p \in Procs : p = obj[c]
      BY <2>1, <3>1
    <3>6. p \in InTable(table') \/ Out(p)'
      BY <1>4, <1>5, <1>6, <3>2, <3>3, <3>5
    <3>7. QED
      BY <3>4, <3>5, <3>6
  <2>3. UNCHANGED <<pc, obj, conn, phase>>
    BY <1>1 DEF callers
  <2>4. pc[c] # "idle" => obj[c] \in InTable(table)' \/ Out(obj[c])'
    BY <2>2 DEF InTable
  <2>5. QED
    BY <2>3, <2>4 DEF LinkInv, OnTheWay
<1>8. Single'
  <2>1. SUFFICES ASSUME NEW p \in InTable(table'), NEW c \in Callers,
                        Dials(c, p)
                 PROVE  /\ dialed'[p] /\ client'[p] = 0
                        /\ \A d \in Callers : Dials(d, p) => d = c
    BY <1>1 DEF Single, InTable, Dials, callers
  <2>2. p \in Procs
    BY <1>1 DEF InTable, Inv, TypeOK, Replaces
  <2>3. p \in InTable(table)
    <3>1. SUFFICES ASSUME p \notin InTable(table) PROVE FALSE
      OBVIOUS
    <3>2. p = x /\ Out(p)
      BY <1>3, <2>1, <2>2, <3>1 DEF LinkInv, OnTheWay, Dials
    <3>3. Puts(1, p)
      BY <2>2, <3>2 DEF Replaces
    <3>4. QED
      BY <3>2, <3>3, PoppedEvents DEF Out
  <2>4. p # old
    BY <1>3, <2>1, <2>2
  <2>5. QED
    BY <1>2, <2>1, <2>2, <2>3, <2>4 DEF LinkInv, Single
<1>9. Links'
  <2>1. late \subseteq Procs
    BY DEF Inv, TypeOK
  <2>2. \A p \in late : Out(p)'
    BY <1>5, <2>1 DEF LinkInv, Links
  <2>3. ASSUME NEW p \in Procs, dialed'[p]
        PROVE  phase # "get" /\ (p \in InTable(table') \/ p \in late)
    <3>1. p # old
      BY <1>2, <2>3, <1>6
    <3>2. QED
      BY <1>2, <1>4, <2>3, <3>1 DEF LinkInv, Links
  <2>4. \A l \in open' : l[2] # 0
    BY <1>2 DEF LinkInv, Links
  <2>5. phase = "get" => open' = {}
    BY <1>2 DEF LinkInv, Links
  <2>6. QED
    BY <1>1, <2>2, <2>3, <2>4, <2>5 DEF Links, InTable
<1>10. NoConnLeak'
  <2>1. SUFFICES ASSUME NEW l \in open'
                 PROVE  \/ l[1] \in InTable(table') /\ client'[l[1]] = l[2]
                        \/ \E c \in Callers : obj[c] = l[1] /\ conn[c] = l[2]
                        \/ l[1] \in late
    BY <1>1 DEF NoConnLeak, InTable, callers
  <2>2. l \in open /\ l[1] \in Procs /\ l = <<l[1], l[2]>>
    BY <1>2 DEF Inv, TypeOK
  <2>3. CASE l[1] \in InTable(table) /\ client[l[1]] = l[2]
    <3>1. l[1] # old
      BY <1>2, <2>1, <2>2, <2>3, NoneAssumption
    <3>2. QED
      BY <1>2, <1>4, <2>2, <2>3, <3>1
  <2>4. QED
    BY <2>2, <2>3 DEF LinkInv, NoConnLeak
<1>11. QED
  BY <1>7, <1>8, <1>9, <1>10

\* The watcher applies an event.
LEMMA HandleKeyLink ==
  ASSUME Inv, LinkInv, handleKey
  PROVE  LinkInv'
<1>1. Turns'
  BY HandleKeyTurns DEF LinkInv
<1>2. CASE UNCHANGED <<table, open, client, dialed>>
  <2>1. UNCHANGED <<phase, table, links, callers>>
    BY <1>2, HandleKeyMoves DEF links
  <2>2. \A p \in Procs : Out(p) => Out(p)'
    BY HandleKeyOut DEF LinkInv
  <2>3. QED
    BY <1>1, <2>1, <2>2, SameTable DEF LinkInv
<1>3. ASSUME NEW v \in Versions, NEW x \in Procs \cup {None}, Replaces(v, x)
      PROVE  LinkInv'
  BY <1>1, <1>3, ReplaceLink DEF LinkInv
<1>4. QED
  BY <1>2, <1>3, HandleKeyMoves

(* The step of a caller: what the others do, the queue and the table stay. *)
CallerMoves(c) ==
  /\ UNCHANGED <<node, watch, route>>
  /\ \A d \in Callers : d # c => /\ pc'[d] = pc[d] /\ obj'[d] = obj[d]
                                 /\ conn'[d] = conn[d]

\* The three steps of getCurrentClient.
LEMMA GetClientMoves ==
  ASSUME Inv, NEW c \in Callers, getCurrentClient(c)
  PROVE  CallerMoves(c)
<1>1. /\ pc \in [Callers -> {"idle", "check", "dialing"}]
      /\ obj \in [Callers -> Procs \cup {None}] /\ conn \in [Callers -> Nat]
  BY DEF Inv, TypeOK
<1>2. CASE Snapshot(c)
  BY <1>1, <1>2 DEF Snapshot, Goto, CallerMoves
<1>3. CASE check(c)
  BY <1>1, <1>3 DEF check, Return, Goto, CallerMoves
<1>4. CASE EndDial(c)
  BY <1>1, <1>4 DEF EndDial, Return, Goto, CallerMoves
<1>5. QED
  BY <1>2, <1>3, <1>4 DEF getCurrentClient

\* What follows for the table and for who is out of it.
LEMMA CallerKeeps ==
  ASSUME Inv, LinkInv, NEW c \in Callers, CallerMoves(c), OnTheWay(c)'
  PROVE  /\ UNCHANGED phase /\ InTable(table)' = InTable(table)
         /\ \A p : Out(p)' <=> Out(p)
         /\ Turns'
         /\ \A d \in Callers : OnTheWay(d)'
<1>1. UNCHANGED <<version, key, events, phase, table>>
  BY DEF CallerMoves, node, watch, route
<1>2. InTable(table)' = InTable(table)
  BY <1>1 DEF InTable
<1>3. \A p : Out(p)' <=> Out(p)
  BY <1>1, <1>2 DEF Out, Puts
<1>4. Turns'
  BY <1>1 DEF LinkInv, Turns, NotYet, Over, Puts, OfVersion
<1>5. ASSUME NEW d \in Callers, d # c PROVE OnTheWay(d)'
  <2>1. pc'[d] = pc[d] /\ obj'[d] = obj[d] /\ conn'[d] = conn[d]
    BY <1>5 DEF CallerMoves
  <2>2. OnTheWay(d)
    BY DEF LinkInv
  <2>3. PICK q : q = obj[d]
    OBVIOUS
  <2>4. Out(q) => Out(obj[d])'
    <3>1. Out(q) => Out(q)'
      BY <1>3
    <3>2. QED
      BY <2>1, <2>3, <3>1
  <2>5. pc[d] # "idle" =>
          phase' # "get" /\ (obj'[d] \in InTable(table)' \/ Out(obj[d])')
    BY <1>1, <1>2, <2>1, <2>2, <2>3, <2>4 DEF OnTheWay
  <2>6. QED
    BY <2>1, <2>2, <2>5 DEF OnTheWay
<1>6. QED
  BY <1>1, <1>2, <1>3, <1>4, <1>5

\* A caller takes the current version.
LEMMA SnapshotLink ==
  ASSUME Inv, LinkInv, NEW c \in Callers, Snapshot(c)
  PROVE  LinkInv'
<1>1. CallerMoves(c)
  BY GetClientMoves DEF getCurrentClient
<1>2. /\ pc[c] = "idle" /\ pc'[c] = "check" /\ obj'[c] = current
      /\ conn'[c] = conn[c] /\ phase # "get" /\ UNCHANGED <<phase, table>>
      /\ UNCHANGED links /\ enable
  BY DEF Snapshot, Goto, Inv, TypeOK, watch, route
<1>3. current \in InTable(table)
  BY <1>2 DEF Inv, PrefersStarted
<1>4. conn'[c] = 0
  BY <1>2 DEF LinkInv, OnTheWay
<1>5. OnTheWay(c)'
  BY <1>2, <1>3, <1>4 DEF OnTheWay, InTable
<1>6. /\ UNCHANGED phase /\ InTable(table)' = InTable(table)
      /\ \A p : Out(p)' <=> Out(p)
      /\ Turns' /\ \A d \in Callers : OnTheWay(d)'
  BY <1>1, <1>5, CallerKeeps
<1>7. \A d \in Callers : \A p : Dials(d, p)' <=> Dials(d, p)
  BY <1>1, <1>2 DEF CallerMoves, Dials
<1>8. UNCHANGED <<open, late, dialed, client>>
  BY <1>2 DEF links
<1>9. Single'
  BY <1>6, <1>7, <1>8 DEF LinkInv, Single
<1>10. Links'
  BY <1>6, <1>8 DEF LinkInv, Links
<1>11. NoConnLeak'
  <2>1. SUFFICES ASSUME NEW l \in open
                 PROVE  \/ l[1] \in InTable(table) /\ client[l[1]] = l[2]
                        \/ \E d \in Callers : obj'[d] = l[1] /\ conn'[d] = l[2]
                        \/ l[1] \in late
    BY <1>6, <1>8 DEF NoConnLeak
  <2>2. l[2] # 0
    BY DEF LinkInv, Links
  <2>3. conn[c] = 0
    BY <1>2, <1>4
  <2>4. QED
    BY <1>1, <2>2, <2>3 DEF LinkInv, NoConnLeak, CallerMoves
<1>12. QED
  BY <1>6, <1>9, <1>10, <1>11 DEF LinkInv

\* A caller finds a connection or begins to dial.
LEMMA CheckLink ==
  ASSUME Inv, LinkInv, NEW c \in Callers, check(c)
  PROVE  LinkInv'
<1>0. PICK p \in Procs : p = obj[c]
  BY DEF check, Inv, TypeOK
<1>1. CallerMoves(c)
  BY GetClientMoves DEF getCurrentClient
<1>2. /\ pc[c] = "check" /\ conn[c] = 0 /\ UNCHANGED phase
      /\ phase # "get" /\ (p \in InTable(table) \/ Out(p))
  BY <1>0 DEF check, LinkInv, OnTheWay, watch
<1>3. /\ pc \in [Callers -> {"idle", "check", "dialing"}]
      /\ obj \in [Callers -> Procs \cup {None}] /\ conn \in [Callers -> Nat]
      /\ dialed \in [Procs -> BOOLEAN] /\ dials \in [Procs -> Nat]
  BY DEF Inv, TypeOK
<1>4. CASE client[p] # 0 \/ dialed[p]
  <2>1. /\ pc'[c] = "idle" /\ obj'[c] = None /\ conn' = conn
        /\ UNCHANGED links
    BY <1>0, <1>3, <1>4 DEF check, Return, Goto
  <2>2. OnTheWay(c)'
    BY <1>2, <2>1 DEF OnTheWay
  <2>3. /\ UNCHANGED phase /\ InTable(table)' = InTable(table)
        /\ \A q : Out(q)' <=> Out(q)
        /\ Turns' /\ \A d \in Callers : OnTheWay(d)'
    BY <1>1, <2>2, CallerKeeps
  <2>4. \A d \in Callers : \A q : Dials(d, q)' <=> Dials(d, q)
    BY <1>1, <1>2, <2>1 DEF CallerMoves, Dials
  <2>5. UNCHANGED <<open, late, dialed, client>>
    BY <2>1 DEF links
  <2>6. Single'
    BY <2>3, <2>4, <2>5 DEF LinkInv, Single
  <2>7. Links'
    BY <2>3, <2>5 DEF LinkInv, Links
  <2>8. NoConnLeak'
    <3>1. SUFFICES ASSUME NEW l \in open
                   PROVE  \/ l[1] \in InTable(table) /\ client[l[1]] = l[2]
                          \/ \E d \in Callers :
                               obj'[d] = l[1] /\ conn'[d] = l[2]
                          \/ l[1] \in late
      BY <2>3, <2>5 DEF NoConnLeak
    <3>2. l[2] # 0
      BY DEF LinkInv, Links
    <3>3. QED
      BY <1>1, <1>2, <3>2 DEF LinkInv, NoConnLeak, CallerMoves
  <2>9. QED
    BY <2>3, <2>6, <2>7, <2>8 DEF LinkInv
<1>5. CASE client[p] = 0 /\ ~dialed[p]
  <2>1. PICK n \in Nat : n = dials[p] + 1 /\ n # 0
    BY <1>3
  <2>2. /\ pc'[c] = "dialing" /\ obj' = obj /\ conn'[c] = n
        /\ open' = open \cup {<<p, n>>} /\ client' = client
        /\ dialed' = [dialed EXCEPT ![p] = TRUE]
        /\ late' = IF p \notin InTable(table) THEN late \cup {p} ELSE late
    BY <1>0, <1>3, <1>5, <2>1 DEF check, Goto
  <2>3. OnTheWay(c)'
    <3>1. Out(p) => Out(p)'
      BY <1>1, <2>2 DEF CallerMoves, node, watch, route, Out, Puts, InTable
    <3>2. InTable(table)' = InTable(table)
      BY <1>1 DEF CallerMoves, route, InTable
    <3>3. QED
      BY <1>0, <1>2, <2>1, <2>2, <3>1, <3>2 DEF OnTheWay
  <2>4. /\ UNCHANGED phase /\ InTable(table)' = InTable(table)
        /\ \A q : Out(q)' <=> Out(q)
        /\ Turns' /\ \A d \in Callers : OnTheWay(d)'
    BY <1>1, <2>3, CallerKeeps
  <2>5. ASSUME NEW d \in Callers, NEW q
        PROVE  Dials(d, q)' <=> Dials(d, q) \/ (d = c /\ q = p)
    BY <1>0, <1>1, <1>2, <2>2 DEF CallerMoves, Dials
  <2>6. p \in InTable(table) => \A d \in Callers : ~Dials(d, p)
    BY <1>5 DEF LinkInv, Single
  <2>7. dialed'[p] /\ \A q \in Procs : q # p => dialed'[q] = dialed[q]
    BY <1>3, <2>2
  <2>8. Single'
    <3>1. SUFFICES ASSUME NEW q \in InTable(table), NEW d \in Callers,
                          Dials(d, q)'
                   PROVE  /\ dialed'[q] /\ client'[q] = 0
                          /\ \A b \in Callers : Dials(b, q)' => b = d
      BY <2>4 DEF Single
    <3>2. CASE q = p
      BY <1>5, <2>2, <2>5, <2>6, <2>7, <3>1, <3>2
    <3>3. CASE q # p
      <4>1. Dials(d, q) /\ q \in Procs
        BY <2>5, <3>1, <3>3 DEF InTable, Inv, TypeOK
      <4>2. /\ dialed[q] /\ client[q] = 0
            /\ \A b \in Callers : Dials(b, q) => b = d
        BY <4>1 DEF LinkInv, Single
      <4>3. QED
        BY <2>2, <2>5, <2>7, <3>3, <4>1, <4>2
    <3>4. QED
      BY <3>2, <3>3
  <2>9. Links'
    <3>1. \A q \in late' : Out(q)
      BY <1>2, <2>2 DEF LinkInv, Links
    <3>2. ASSUME NEW q \in Procs, dialed'[q]
          PROVE  phase # "get" /\ (q \in InTable(table) \/ q \in late')
      <4>1. CASE q = p
        BY <1>2, <2>2, <4>1
      <4>2. CASE q # p
        BY <2>2, <2>7, <3>2, <4>2 DEF LinkInv, Links
      <4>3. QED
        BY <4>1, <4>2
    <3>3. \A l \in open' : l[2] # 0
      BY <2>1, <2>2 DEF LinkInv, Links
    <3>4. QED
      BY <1>2, <2>4, <3>1, <3>2, <3>3 DEF Links
  <2>10. NoConnLeak'
    <3>1. SUFFICES ASSUME NEW l \in open'
                   PROVE  \/ l[1] \in InTable(table) /\ client'[l[1]] = l[2]
                          \/ \E d \in Callers :
                               obj'[d] = l[1] /\ conn'[d] = l[2]
                          \/ l[1] \in late'
      BY <2>4 DEF NoConnLeak
    <3>2. CASE l = <<p, n>>
      BY <1>0, <2>2, <3>2
    <3>3. CASE l \in open
      <4>1. l[2] # 0
        BY <3>3 DEF LinkInv, Links
      <4>2. QED
        BY <1>1, <1>2, <2>2, <3>3, <4>1 DEF LinkInv, NoConnLeak, CallerMoves
    <3>4. QED
      BY <2>2, <3>2, <3>3
  <2>11. QED
    BY <2>4, <2>8, <2>9, <2>10 DEF LinkInv
<1>6. QED
  BY <1>4, <1>5

\* A dial ends: the connection is published or closed.
LEMMA EndDialLink ==
  ASSUME Inv, LinkInv, NEW c \in Callers, EndDial(c)
  PROVE  LinkInv'
<1>0. PICK p \in Procs : p = obj[c]
  BY DEF EndDial, Inv, TypeOK
<1>1. CallerMoves(c)
  BY GetClientMoves DEF getCurrentClient
<1>2. /\ pc \in [Callers -> {"idle", "check", "dialing"}]
      /\ obj \in [Callers -> Procs \cup {None}] /\ conn \in [Callers -> Nat]
      /\ client \in [Procs -> Nat]
  BY DEF Inv, TypeOK
<1>3. PICK n \in Nat : n = conn[c]
  BY <1>2
<1>4. /\ pc[c] = "dialing" /\ n # 0 /\ Dials(c, p)
      /\ phase # "get" /\ (p \in InTable(table) \/ Out(p))
  BY <1>0, <1>3 DEF EndDial, LinkInv, OnTheWay, Dials
<1>5. /\ pc'[c] = "idle" /\ obj'[c] = None /\ conn'[c] = 0
      /\ UNCHANGED <<dialed, late>>
  BY <1>2 DEF EndDial, Return, Goto
<1>6. \/ /\ dialed[p] /\ client' = [client EXCEPT ![p] = n] /\ open' = open
      \/ /\ open' = open \ {<<p, n>>} /\ client' = client
  BY <1>0, <1>3 DEF EndDial
<1>7. OnTheWay(c)'
  BY <1>5 DEF OnTheWay
<1>8. /\ UNCHANGED phase /\ InTable(table)' = InTable(table)
      /\ \A q : Out(q)' <=> Out(q)
      /\ Turns' /\ \A d \in Callers : OnTheWay(d)'
  BY <1>1, <1>7, CallerKeeps
<1>9. ASSUME NEW d \in Callers, NEW q
      PROVE  Dials(d, q)' <=> Dials(d, q) /\ d # c
  BY <1>1, <1>5 DEF CallerMoves, Dials
<1>10. p \in InTable(table) =>
         client[p] = 0 /\ \A d \in Callers : Dials(d, p) => d = c
  BY <1>4 DEF LinkInv, Single
<1>11. \A q \in Procs : q # p => client'[q] = client[q]
  BY <1>2, <1>6
<1>12. Single'
  <2>1. SUFFICES ASSUME NEW q \in InTable(table), NEW d \in Callers,
                        Dials(d, q)'
                 PROVE  /\ dialed'[q] /\ client'[q] = 0
                        /\ \A b \in Callers : Dials(b, q)' => b = d
    BY <1>8 DEF Single
  <2>2. Dials(d, q) /\ d # c /\ q \in Procs
    BY <1>9, <2>1 DEF InTable, Inv, TypeOK
  <2>3. q # p
    BY <1>10, <2>2
  <2>4. dialed[q] /\ client[q] = 0 /\ \A b \in Callers : Dials(b, q) => b = d
    BY <2>2 DEF LinkInv, Single
  <2>5. QED
    BY <1>5, <1>9, <1>11, <2>2, <2>3, <2>4
<1>13. Links'
  <2>1. open' \subseteq open
    BY <1>6
  <2>2. QED
    BY <1>4, <1>5, <1>8, <2>1 DEF LinkInv, Links
<1>14. NoConnLeak'
  <2>1. SUFFICES ASSUME NEW l \in open'
                 PROVE  \/ l[1] \in InTable(table) /\ client'[l[1]] = l[2]
                        \/ \E d \in Callers : obj'[d] = l[1] /\ conn'[d] = l[2]
                        \/ l[1] \in late
    BY <1>5, <1>8 DEF NoConnLeak
  <2>2. /\ l \in open /\ l[1] \in Procs /\ l = <<l[1], l[2]>> /\ l[2] # 0
    BY <1>6, <2>1 DEF LinkInv, Links, Inv, TypeOK
  <2>3. CASE l[1] \in InTable(table) /\ client[l[1]] = l[2]
    <3>1. l[1] # p
      BY <1>10, <2>2, <2>3
    <3>2. QED
      BY <1>11, <2>2, <2>3, <3>1
  <2>4. CASE \E d \in Callers : d # c /\ obj[d] = l[1] /\ conn[d] = l[2]
    BY <1>1, <2>4 DEF CallerMoves
  <2>5. CASE obj[c] = l[1] /\ conn[c] = l[2]
    <3>1. l = <<p, n>>
      BY <1>0, <1>3, <2>2, <2>5
    <3>2. dialed[p] /\ client'[p] = n
      BY <1>2, <1>6, <2>1, <3>1
    <3>3. p \in InTable(table) \/ p \in late
      BY <3>2 DEF LinkInv, Links
    <3>4. l[1] = p /\ l[2] = n
      BY <3>1
    <3>5. QED
      BY <3>2, <3>3, <3>4
  <2>6. QED
    BY <2>2, <2>3, <2>4, <2>5 DEF LinkInv, NoConnLeak
<1>15. QED
  BY <1>8, <1>12, <1>13, <1>14 DEF LinkInv

(* Every step keeps it.                                                    *)
LEMMA NextLink == Inv /\ Inv' /\ LinkInv /\ [Next]_vars => LinkInv'
<1> SUFFICES ASSUME Inv, Inv', LinkInv, [Next]_vars PROVE LinkInv'
  OBVIOUS
<1>1. CASE FirstLock \/ \E p \in Procs : NodeStep(p)
  BY <1>1, NodeLink
<1>2. CASE Watch
  BY <1>2, FirstGetLink, WatchLink, HandleKeyLink DEF Watch
<1>3. CASE \E c \in Callers : getCurrentClient(c)
  BY <1>3, SnapshotLink, CheckLink, EndDialLink DEF getCurrentClient
<1>4. CASE UNCHANGED vars
  <2>1. UNCHANGED <<version, key, events, phase, table, links, callers>>
    BY <1>4 DEF vars, node, watch, route
  <2>2. \A p \in Procs : Out(p) => Out(p)'
    BY <2>1 DEF Out, Puts, InTable
  <2>3. Turns'
    BY <2>1 DEF LinkInv, Turns, NotYet, Over, Puts, OfVersion
  <2>4. QED
    BY <2>1, <2>2, <2>3, SameTable DEF LinkInv
<1>5. QED
  BY <1>1, <1>2, <1>3, <1>4 DEF Next

(* setDisable and the publication of a connection: a version that left has *)
(* no connection, but for one that is still dialled and those of a caller  *)
(* that began to dial when the version had left.                           *)
THEOREM ConnectionsEnd == Spec => []NoConnLeak
<1>1. LinkInv => NoConnLeak
  BY DEF LinkInv
<1>2. QED
  BY <1>1, InitLink, NextLink, SpecInv, PTL DEF Spec

-----------------------------------------------------------------------------
(* The IDs of the node's atoms.                                            *)
HIDE VersionsAssumption
USE MaxInstAssumption

-----------------------------------------------------------------------------
(* A call on its way, for one caller: it has reached nothing yet, it goes  *)
(* to a process, and to the process of the ID if the ID pins that one.     *)
OnItsWay(c) ==
  /\ step[c] # "idle" => hit[c] = Nothing
  /\ step[c] \in {"resolve", "message", "kill"} => via[c] \in Procs
  /\ step[c] \in {"message", "kill"} =>
       /\ id[c].inst # 0
       /\ id[c].pin = id[c].proc => via[c] = id[c].proc
  /\ id[c].inst # 0 => id[c].proc \in Procs

(* What it reached.                                                        *)
Reached(c) ==
  /\ (~hit[c].kill /\ hit[c].proc = id[c].proc) =>
       hit[c].inst = (IF hit[c].proc = None THEN 0 ELSE id[c].inst)
  /\ (hit[c] # Nothing /\ id[c].pin = id[c].proc) =>
       hit[c].proc = id[c].proc

HandleInv == HandleTypeOK /\ \A c \in Callers : OnItsWay(c) /\ Reached(c)

(* At the start nobody has an ID.                                          *)
LEMMA HandleInitInv == HandleInit => HandleInv
<1> SUFFICES ASSUME HandleInit PROVE HandleInv
  OBVIOUS
<1>1. 0 \in 0 .. MaxInst /\ NoID \in IDs /\ Nothing \in Hits
  BY DEF NoID, Nothing, IDs, Hits
<1>2. HandleTypeOK
  BY <1>1 DEF HandleInit, HandleTypeOK
<1>3. \A c \in Callers : OnItsWay(c) /\ Reached(c)
  BY DEF HandleInit, OnItsWay, Reached, NoID, Nothing
<1>4. QED
  BY <1>2, <1>3 DEF HandleInv

(* The steps that no caller takes.                                         *)
LEMMA CallersStay ==
  ASSUME HandleInv, UNCHANGED ids, HandleTypeOK' PROVE HandleInv'
  BY DEF HandleInv, ids, OnItsWay, Reached

\* The steps of the node and of its versions keep the invariant.
LEMMA ProcessInv ==
  ASSUME HandleInv, NEW p \in Procs,
         Switch \/ Start(p) \/ Deleted(p) \/ End(p) \/ Halt(p)
  PROVE  HandleInv'
<1>1. UNCHANGED ids
  BY DEF Switch, Start, Deleted, End, Halt
<1>2. 0 \in 0 .. MaxInst
  OBVIOUS
<1>3. HandleTypeOK'
  <2>1. CASE Switch
    BY <1>1, <2>1 DEF HandleInv, HandleTypeOK, Switch, processes, ids
  <2>2. CASE Start(p)
    BY <1>1, <2>2 DEF HandleInv, HandleTypeOK, Start, ids
  <2>3. CASE Deleted(p)
    BY <1>1, <2>3 DEF HandleInv, HandleTypeOK, Deleted, processes, ids
  <2>4. CASE End(p)
    BY <1>1, <1>2, <2>4 DEF HandleInv, HandleTypeOK, End, versions, ids
  <2>5. CASE Halt(p)
    BY <1>1, <1>2, <2>5 DEF HandleInv, HandleTypeOK, Halt, versions, ids
  <2>6. QED
    BY <2>1, <2>2, <2>3, <2>4, <2>5
<1>4. QED
  BY <1>1, <1>3, CallersStay

(* A step of one caller leaves the others alone.                           *)
LEMMA CallerStep ==
  ASSUME HandleInv, NEW c \in Callers, HandleTypeOK', OnItsWay(c)', Reached(c)',
         \A d \in Callers \ {c} : /\ step'[d] = step[d] /\ id'[d] = id[d]
                                  /\ via'[d] = via[d] /\ hit'[d] = hit[d]
  PROVE  HandleInv'
<1>1. ASSUME NEW d \in Callers \ {c} PROVE OnItsWay(d)' /\ Reached(d)'
  BY <1>1 DEF HandleInv, OnItsWay, Reached
<1>2. QED
  BY <1>1 DEF HandleInv

(* The types of what belongs to one caller, and of the connection it gets. *)
LEMMA IDTypes ==
  ASSUME HandleInv, NEW c \in Callers
  PROVE  /\ id[c] \in IDs /\ hit[c] \in Hits /\ via[c] \in Procs \cup {None}
         /\ id[c].proc \in Procs \cup {None} /\ id[c].inst \in 0 .. MaxInst
         /\ id[c].pin \in Procs \cup {None}
         /\ currentClient \subseteq Procs \cup {None}
         /\ getCli(c) \subseteq Procs \cup {None}
         /\ NoID \in IDs /\ Nothing \in Hits
<1>1. id[c] \in IDs /\ hit[c] \in Hits /\ via[c] \in Procs \cup {None}
  BY DEF HandleInv, HandleTypeOK
<1>2. /\ id[c].proc \in Procs \cup {None} /\ id[c].inst \in 0 .. MaxInst
      /\ id[c].pin \in Procs \cup {None}
  BY <1>1 DEF IDs
<1>3. currentClient \subseteq Procs \cup {None}
  BY DEF currentClient, HandleInv, HandleTypeOK
<1>4. getCli(c) \subseteq Procs \cup {None}
  BY <1>2, <1>3 DEF getCli, validPinnedConn
<1>5. NoID \in IDs /\ Nothing \in Hits
  BY DEF NoID, Nothing, IDs, Hits
<1>6. QED
  BY <1>1, <1>2, <1>3, <1>4, <1>5

\* A caller asks for a new ID.
LEMMA GetAtomIDInv ==
  ASSUME HandleInv, NEW c \in Callers, GetAtomID(c) PROVE HandleInv'
<1>1. /\ step'[c] = "resolve" /\ id'[c] = NoID /\ hit'[c] = Nothing
      /\ via'[c] = routed /\ routed \in Procs
  BY DEF GetAtomID, Moves, HandleInv, HandleTypeOK
<1>2. HandleTypeOK'
  BY <1>1, IDTypes DEF GetAtomID, Moves, HandleInv, HandleTypeOK, processes,
      versions
<1>3. OnItsWay(c)' /\ Reached(c)'
  BY <1>1 DEF OnItsWay, Reached, NoID, Nothing
<1>4. QED
  BY <1>2, <1>3, CallerStep DEF GetAtomID, Moves, HandleInv, HandleTypeOK

\* The node answers with its instance, or not at all.
LEMMA ResolvedInv ==
  ASSUME HandleInv, NEW c \in Callers, Resolved(c) PROVE HandleInv'
<1> DEFINE p == via[c]
<1>1. p \in Procs /\ hit[c] = Nothing /\ step[c] = "resolve"
  BY DEF Resolved, HandleInv, OnItsWay
<1>2. hit' = hit /\ via'[c] = None /\ up' = up
  BY DEF Resolved, HandleInv, HandleTypeOK
<1>3. CASE /\ p \in up
           /\ \/ live[p] # 0 /\ UNCHANGED <<live, last>>
              \/ live[p] = 0 /\ Respawn(p)
           /\ id' = [id EXCEPT ![c].proc = p, ![c].inst = live'[p]]
           /\ Moves(c, "pin")
  <2>1. /\ live' \in [Procs -> 0 .. MaxInst]
        /\ last' \in [Procs -> 0 .. MaxInst]
        /\ \A q \in Procs : live'[q] # 0 => q \in up' /\ live'[q] = last'[q]
    <3>1. CASE UNCHANGED <<live, last>>
      BY <1>2, <3>1 DEF HandleInv, HandleTypeOK
    <3>2. CASE Respawn(p)
      <4>1. last[p] + 1 \in 0 .. MaxInst
        BY <1>1, <3>2 DEF Respawn, HandleInv, HandleTypeOK
      <4>2. QED
        BY <1>1, <1>2, <1>3, <3>2, <4>1 DEF Respawn, HandleInv, HandleTypeOK
    <3>3. QED
      BY <1>3, <3>1, <3>2
  <2>2. live'[p] \in 0 .. MaxInst
    BY <1>1, <2>1
  <2>3. /\ id' \in [Callers -> IDs]
        /\ id'[c].proc = p /\ id'[c].pin = id[c].pin
        /\ \A d \in Callers \ {c} : id'[d] = id[d]
    <3> DEFINE r == [id[c] EXCEPT !.proc = p, !.inst = live'[p]]
    <3>1. r \in IDs /\ r.proc = p /\ r.pin = id[c].pin
      BY <1>1, <2>2, IDTypes DEF IDs
    <3>2. id \in [Callers -> IDs]
      BY DEF HandleInv, HandleTypeOK
    <3>3. id' = [id EXCEPT ![c] = r]
      BY <1>3, <3>2
    <3> HIDE DEF r
    <3>4. QED
      BY <3>1, <3>2, <3>3
  <2>4. HandleTypeOK'
    BY <1>2, <1>3, <2>1, <2>3 DEF Resolved, Moves, HandleInv, HandleTypeOK,
        versions
  <2>5. step'[c] = "pin"
    BY <1>3 DEF Moves, HandleInv, HandleTypeOK
  <2>6. OnItsWay(c)' /\ Reached(c)'
    BY <1>1, <1>2, <2>3, <2>5 DEF OnItsWay, Reached, Nothing
  <2>7. \A d \in Callers \ {c} : /\ step'[d] = step[d] /\ id'[d] = id[d]
                                 /\ via'[d] = via[d] /\ hit'[d] = hit[d]
    BY <1>2, <1>3, <2>3 DEF Resolved, Moves, HandleInv, HandleTypeOK
  <2>8. QED
    BY <2>4, <2>6, <2>7, CallerStep
<1>4. CASE UNCHANGED <<live, last, id>> /\ Moves(c, "idle")
  <2>1. HandleTypeOK'
    BY <1>2, <1>4 DEF Resolved, Moves, HandleInv, HandleTypeOK, versions
  <2>2. step'[c] = "idle" /\ id'[c] = id[c] /\ hit'[c] = Nothing
    BY <1>1, <1>2, <1>4 DEF Moves, HandleInv, HandleTypeOK
  <2>3. OnItsWay(c)' /\ Reached(c)'
    BY <2>2 DEF HandleInv, OnItsWay, Reached, Nothing
  <2>4. QED
    BY <1>2, <1>4, <2>1, <2>3, CallerStep DEF Resolved, Moves, HandleInv,
        HandleTypeOK
<1>5. QED
  BY <1>3, <1>4 DEF Resolved

\* The ID pins the connection that is current now.
LEMMA PinInv ==
  ASSUME HandleInv, NEW c \in Callers, Pin(c) PROVE HandleInv'
<1>1. PICK link \in currentClient : id' = [id EXCEPT ![c].pin = link]
  BY DEF Pin
<1>2. link \in Procs \cup {None} /\ id[c] \in IDs
  BY IDTypes
<1>3. /\ id' \in [Callers -> IDs] /\ \A d \in Callers \ {c} : id'[d] = id[d]
      /\ id'[c].proc = id[c].proc /\ id'[c].inst = id[c].inst
  BY <1>1, <1>2 DEF HandleInv, HandleTypeOK, IDs
<1>4. step'[c] = "idle" /\ hit'[c] = Nothing /\ via'[c] = via[c]
  BY DEF Pin, Moves, HandleInv, HandleTypeOK, OnItsWay
<1>5. HandleTypeOK'
  BY <1>3 DEF Pin, Moves, HandleInv, HandleTypeOK, processes, versions
<1>6. OnItsWay(c)' /\ Reached(c)'
  BY <1>3, <1>4 DEF HandleInv, OnItsWay, Reached, Nothing
<1>7. QED
  BY <1>3, <1>5, <1>6, CallerStep DEF Pin, Moves, HandleInv, HandleTypeOK

\* A call clears a closed pin and goes on its way.
LEMMA CallInv ==
  ASSUME HandleInv, NEW c \in Callers, Call(c) PROVE HandleInv'
<1> DEFINE pin == validPinnedConn(c)
<1>1. PICK link \in getCli(c), request \in {"message", "kill"} :
        /\ via' = [via EXCEPT ![c] = link]
        /\ Moves(c, IF link = None THEN "idle" ELSE request)
  BY DEF Call
<1>2. /\ link \in Procs \cup {None} /\ id[c] \in IDs
      /\ pin \in Procs \cup {None} /\ pin \in {id[c].pin, None}
  BY IDTypes DEF validPinnedConn
<1>3. pin # None => link = pin
  BY <1>1 DEF getCli
<1> HIDE DEF pin
<1>4. id' = [id EXCEPT ![c].pin = pin] /\ id[c].inst # 0
  BY DEF Call, pin
<1>5. /\ id' \in [Callers -> IDs] /\ \A d \in Callers \ {c} : id'[d] = id[d]
      /\ id'[c].proc = id[c].proc /\ id'[c].inst = id[c].inst
      /\ id'[c].pin = pin
  BY <1>2, <1>4 DEF HandleInv, HandleTypeOK, IDs
<1>6. /\ hit'[c] = Nothing /\ via'[c] = link
      /\ step'[c] = IF link = None THEN "idle" ELSE request
  BY <1>1 DEF Call, Moves, HandleInv, HandleTypeOK
<1>7. HandleTypeOK'
  <2>1. Nothing \in Hits
    BY IDTypes
  <2>2. QED
    BY <1>1, <1>2, <1>5, <2>1 DEF Call, Moves, HandleInv, HandleTypeOK,
        processes, versions
<1>8. id[c].proc \in Procs
  BY <1>4 DEF HandleInv, OnItsWay
<1>9. OnItsWay(c)'
  BY <1>2, <1>3, <1>4, <1>5, <1>6, <1>8 DEF OnItsWay
<1>10. Reached(c)'
  BY <1>6 DEF Reached, Nothing
<1>11. QED
  BY <1>1, <1>5, <1>7, <1>9, <1>10, CallerStep DEF Call, Moves, HandleInv,
      HandleTypeOK

\* A message reaches the instance of its ID, or nothing.
LEMMA MessageInv ==
  ASSUME HandleInv, NEW c \in Callers, Message(c) PROVE HandleInv'
<1>1. /\ step[c] = "message" /\ via[c] \in Procs /\ hit[c] = Nothing
      /\ id[c].inst # 0 /\ id[c].proc \in Procs
      /\ id[c].pin = id[c].proc => via[c] = id[c].proc
  BY DEF Message, HandleInv, OnItsWay
<1>2. /\ step'[c] = "idle" /\ id' = id /\ up' = up
      /\ live' = live /\ last' = last
      /\ via' = [via EXCEPT ![c] = None] /\ step' = [step EXCEPT ![c] = "idle"]
      /\ UNCHANGED versions
  BY DEF Message, getAtomFromRemote, Moves, HandleInv, HandleTypeOK
<1>3. CASE hit' = hit
  <2>1. HandleTypeOK'
    BY <1>2, <1>3 DEF HandleInv, HandleTypeOK, versions
  <2>2. OnItsWay(c)' /\ Reached(c)'
    BY <1>1, <1>2, <1>3 DEF OnItsWay, Reached, Nothing
  <2>3. QED
    BY <1>2, <1>3, <2>1, <2>2, CallerStep DEF HandleInv, HandleTypeOK
<1>4. CASE /\ live[via[c]] = id[c].inst
           /\ hit' = [hit EXCEPT ![c] =
                [proc |-> via[c], inst |-> live'[via[c]], kill |-> FALSE]]
  <2> DEFINE h == [proc |-> via[c], inst |-> id[c].inst, kill |-> FALSE]
  <2>1. hit' = [hit EXCEPT ![c] = h]
    BY <1>2, <1>4
  <2>2. h \in Hits /\ h.proc = via[c] /\ h.inst = id[c].inst
    BY <1>1, IDTypes DEF Hits
  <2> HIDE DEF h
  <2>3. hit' \in [Callers -> Hits] /\ hit'[c] = h
    BY <2>1, <2>2 DEF HandleInv, HandleTypeOK
  <2>4. HandleTypeOK'
    BY <1>2, <2>3 DEF HandleInv, HandleTypeOK, versions
  <2>5. OnItsWay(c)'
    BY <1>1, <1>2 DEF OnItsWay
  <2>6. Reached(c)'
    BY <1>1, <1>2, <2>2, <2>3 DEF Reached
  <2>7. QED
    BY <1>2, <2>1, <2>4, <2>5, <2>6, CallerStep DEF HandleInv, HandleTypeOK
<1>5. QED
  BY <1>3, <1>4 DEF Message, getAtomFromRemote

\* A kill reaches whatever lives there.
LEMMA KillAtomInv ==
  ASSUME HandleInv, NEW c \in Callers, KillAtom(c) PROVE HandleInv'
<1> DEFINE p == via[c]
<1>1. /\ step[c] = "kill" /\ p \in Procs /\ hit[c] = Nothing
      /\ id[c].inst # 0 /\ id[c].proc \in Procs
      /\ id[c].pin = id[c].proc => p = id[c].proc
  BY DEF KillAtom, HandleInv, OnItsWay
<1>2. /\ step'[c] = "idle" /\ id' = id /\ up' = up /\ UNCHANGED versions
      /\ via' = [via EXCEPT ![c] = None] /\ step' = [step EXCEPT ![c] = "idle"]
  BY DEF KillAtom, Moves, HandleInv, HandleTypeOK
<1>3. CASE UNCHANGED <<live, last, hit>>
  <2>1. HandleTypeOK'
    BY <1>2, <1>3 DEF HandleInv, HandleTypeOK, versions
  <2>2. OnItsWay(c)' /\ Reached(c)'
    BY <1>1, <1>2, <1>3 DEF OnItsWay, Reached, Nothing
  <2>3. QED
    BY <1>2, <1>3, <2>1, <2>2, CallerStep DEF HandleInv, HandleTypeOK
<1>4. CASE /\ \/ last' = last
              \/ last[p] < MaxInst /\ last' = [last EXCEPT ![p] = @ + 1]
           /\ live' = [live EXCEPT ![p] = 0]
           /\ hit' = [hit EXCEPT ![c] =
                 [proc |-> p, inst |-> last'[p], kill |-> TRUE]]
  <2> DEFINE h == [proc |-> p, inst |-> last'[p], kill |-> TRUE]
  <2>1. last' \in [Procs -> 0 .. MaxInst]
    <3>1. last[p] < MaxInst => last[p] + 1 \in 0 .. MaxInst
      BY <1>1 DEF HandleInv, HandleTypeOK
    <3>2. QED
      BY <1>1, <1>4, <3>1 DEF HandleInv, HandleTypeOK
  <2>2. /\ live' \in [Procs -> 0 .. MaxInst]
        /\ \A q \in Procs : live'[q] # 0 => q \in up' /\ live'[q] = last'[q]
    <3>1. \A q \in Procs \ {p} : live'[q] = live[q] /\ last'[q] = last[q]
      BY <1>4 DEF HandleInv, HandleTypeOK
    <3>2. live'[p] = 0 /\ 0 \in 0 .. MaxInst
      BY <1>1, <1>4 DEF HandleInv, HandleTypeOK
    <3>3. QED
      BY <1>2, <1>4, <3>1, <3>2 DEF HandleInv, HandleTypeOK
  <2>3. h \in Hits /\ h.proc = p /\ h.kill
    BY <1>1, <2>1 DEF Hits
  <2>4. hit' = [hit EXCEPT ![c] = h]
    BY <1>4
  <2> HIDE DEF h
  <2>5. hit' \in [Callers -> Hits] /\ hit'[c] = h
    BY <2>3, <2>4 DEF HandleInv, HandleTypeOK
  <2>6. HandleTypeOK'
    BY <1>2, <2>1, <2>2, <2>5 DEF HandleInv, HandleTypeOK, versions
  <2>7. OnItsWay(c)'
    BY <1>1, <1>2 DEF OnItsWay
  <2>8. Reached(c)'
    BY <1>1, <1>2, <2>3, <2>5 DEF Reached
  <2>9. QED
    BY <1>2, <2>4, <2>6, <2>7, <2>8, CallerStep DEF HandleInv, HandleTypeOK
<1>5. QED
  BY <1>3, <1>4 DEF KillAtom

(* Every step keeps the invariant.                                         *)
LEMMA HandleNextInv == HandleInv /\ [HandleNext]_handleVars => HandleInv'
<1> SUFFICES ASSUME HandleInv, [HandleNext]_handleVars PROVE HandleInv'
  OBVIOUS
<1>1. CASE UNCHANGED handleVars
  <2>1. HandleTypeOK'
    BY <1>1 DEF handleVars, processes, versions, ids, HandleInv, HandleTypeOK
  <2>2. QED
    BY <1>1, <2>1, CallersStay DEF handleVars
<1>2. CASE Switch
  <2>1. CASE Procs = {}
    <3>1. UNCHANGED ids
      BY <1>2 DEF Switch
    <3>2. HandleTypeOK'
      BY <1>2, <3>1 DEF Switch, processes, ids, HandleInv, HandleTypeOK
    <3>3. QED
      BY <3>1, <3>2, CallersStay
  <2>2. CASE Procs # {}
    BY <1>2, <2>2, ProcessInv
  <2>3. QED
    BY <2>1, <2>2
<1>3. CASE \E p \in Procs : Start(p) \/ Deleted(p) \/ End(p) \/ Halt(p)
  BY <1>3, ProcessInv
<1>4. CASE \E c \in Callers : GetAtomID(c) \/ Resolved(c) \/ Pin(c)
  BY <1>4, GetAtomIDInv, ResolvedInv, PinInv
<1>5. CASE \E c \in Callers : Call(c) \/ Message(c) \/ KillAtom(c)
  BY <1>5, CallInv, MessageInv, KillAtomInv
<1>6. QED
  BY <1>1, <1>2, <1>3, <1>4, <1>5 DEF HandleNext

(* So it holds always.                                                     *)
LEMMA HandleSpecInv == HandleSpec => []HandleInv
<1>1. QED
  BY HandleInitInv, HandleNextInv, PTL DEF HandleSpec

(* Every variable has its type, and an instance lives only in a process    *)
(* that serves and is the last one made there.                             *)
THEOREM HandleTypeCorrect == HandleSpec => []HandleTypeOK
<1>1. HandleInv => HandleTypeOK
  BY DEF HandleInv
<1>2. QED
  BY <1>1, HandleSpecInv, PTL

(* getAtomFromRemote: a message that is handled by the process where its   *)
(* ID was resolved is handled by the instance found there and by no later  *)
(* one of its name.  Of a message that an ID without a pinned connection   *)
(* brings to another process it says nothing: instances count anew there.  *)
THEOREM ReachesSameInstance == HandleSpec => []SameInstance
<1>1. HandleInv => SameInstance
  BY DEF HandleInv, Reached, SameInstance
<1>2. QED
  BY <1>1, HandleSpecInv, PTL

(* getCli: what goes through an ID that pins its own process stays there.  *)
THEOREM StaysWithItsProcess == HandleSpec => []KeepsToItsProcess
<1>1. HandleInv => KeepsToItsProcess
  BY DEF HandleInv, Reached, KeepsToItsProcess
<1>2. QED
  BY <1>1, HandleSpecInv, PTL
==============================================================================
