------------------------ MODULE AsyncCallback_proofs ------------------------
(***************************************************************************)
(* For any number of instances and of messages: a callback is called at    *)
(* most once, exactly once when its instance has halted, and never with    *)
(* the reply to another message that stayed inside the process.            *)
(***************************************************************************)
EXTENDS AsyncCallback, SequenceTheorems, TLAPS

USE AsyncCallbackAssumption

-----------------------------------------------------------------------------
(* A callback is in the table from its registration to its one call, and   *)
(* the table of a cleared instance is empty for good.                      *)
Registered ==
  \A i \in Instance : \A id \in asyncCallbackMap[i] : stage[<<i, id>>] # "none"

Numbered ==
  \A r \in Request :
    stage[r] # "none" => r[2] <= asyncCallbackID[r[1]] /\ phase[r[1]] # "none"

Counted ==
  \A r \in Request :
    Len(ended[r]) = IF stage[r] = "none" \/ r[2] \in asyncCallbackMap[r[1]]
                    THEN 0 ELSE 1

ClearedEmpty ==
  \A i \in Instance :
    phase[i] \in {"cleared", "halted"} => asyncCallbackMap[i] = {}

MadeSoFar == \A i \in Instance : phase[i] = "none" <=> i > made

TableInv == Registered /\ Numbered /\ Counted /\ ClearedEmpty /\ MadeSoFar

(* A reply answers a request that was handled, under the id of the request. *)
Answers(m) == stage[m.of] = "handled" /\ m.id = m.of[2]

(* One on the wire comes from another node, and one from inside the process *)
(* waits in the box of its own instance with the result of its request.     *)
Arrives(i, m) ==
  m.of \notin remote => m.of[1] = i /\ m.result = result[m.of]

Ends(r, o) ==
  o.of # None => /\ stage[o.of] = "handled" /\ o.of[2] = r[2]
                 /\ o.of \notin remote => o.of = r /\ o.result = result[r]

ReplyInv ==
  /\ \A m \in wire : Answers(m) /\ m.of \in remote
  /\ \A i \in Instance : \A m \in inbox[i] : Answers(m) /\ Arrives(i, m)
  /\ \A r \in Request : \A k \in 1 .. Len(ended[r]) : Ends(r, ended[r][k])

-----------------------------------------------------------------------------
(* Initially nothing is registered, queued or on the wire.               *)
LEMMA InitInv == Init => TypeOK /\ TableInv /\ ReplyInv
<1>1. SUFFICES ASSUME Init PROVE TypeOK /\ TableInv /\ ReplyInv
  OBVIOUS
<1>2. TypeOK
  <2>1. ended \in [Request -> Seq(Outcome)]
    BY <1>1, EmptySeq DEF Init
  <2>2. /\ atom \in 0 .. MaxInstance /\ made \in 0 .. MaxInstance
        /\ asyncCallbackID \in [Instance -> 0 .. MaxId]
    BY <1>1 DEF Init
  <2>3. /\ asyncCallbackMap \in [Instance -> SUBSET Id]
        /\ inbox \in [Instance -> SUBSET Reply]
    BY <1>1 DEF Init
  <2>4. /\ phase \in [Instance -> Phase]
        /\ stage \in [Request -> Stage]
        /\ result \in [Request -> Result \cup {None}]
    BY <1>1 DEF Init, Phase, Stage
  <2>5. QED
    BY <1>1, <2>1, <2>2, <2>3, <2>4 DEF Init, TypeOK
<1>3. TableInv
  BY <1>1 DEF Init, TableInv, Registered, Numbered, Counted, ClearedEmpty,
               MadeSoFar, Instance, Request
<1>4. ReplyInv
  BY <1>1 DEF Init, ReplyInv
<1>5. QED
  BY <1>2, <1>3, <1>4

(* Every action keeps the types.                                         *)
LEMMA NextType == TypeOK /\ [Next]_vars => TypeOK'
<1> SUFFICES ASSUME TypeOK, [Next]_vars PROVE TypeOK'
  OBVIOUS
<1> USE DEF TypeOK, lifetime, table, peer
<1>2. CASE UNCHANGED vars
  BY <1>2 DEF vars
<1>3. CASE Spawn
  BY <1>3 DEF Spawn, Instance, Phase
<1>3a. ASSUME NEW i \in Instance, SpawnDone(i) \/ SpawnFailed(i)
       PROVE  TypeOK'
  <2>1. phase' \in [Instance -> Phase]
    BY <1>3a DEF SpawnDone, SpawnFailed, Phase
  <2>2. atom' \in {atom, 0}
    BY <1>3a DEF SpawnDone, SpawnFailed
  <2>3. UNCHANGED <<made, table, peer, wire, inbox, ended, lateSent>>
    BY <1>3a DEF SpawnDone, SpawnFailed
  <2>4. QED
    BY <2>1, <2>2, <2>3
<1>4. ASSUME NEW i \in Instance, NEW far \in BOOLEAN, Register(i, far)
      PROVE  TypeOK'
  BY <1>4 DEF Register, Id, Request, Stage
<1>5. ASSUME NEW i \in Instance, NEW far \in BOOLEAN, RegisterLate(i, far)
      PROVE  TypeOK'
  BY <1>5 DEF RegisterLate
<1>6. ASSUME NEW i \in Instance, NEW m \in inbox[i],
             OnAsyncMessagingCallback(i, m)
      PROVE  TypeOK'
  <2>1. m \in Reply
    OBVIOUS
  <2>2. [of |-> m.of, result |-> m.result] \in Outcome
    BY <2>1 DEF Reply, Outcome
  <2>3. ended' \in [Request -> Seq(Outcome)]
    BY <1>6, <2>2, AppendProperties DEF OnAsyncMessagingCallback
  <2>4. QED
    BY <1>6, <2>3 DEF OnAsyncMessagingCallback
<1>7. ASSUME NEW i \in Instance, Close(i)
      PROVE  TypeOK'
  BY <1>7 DEF Close, Phase
<1>8. ASSUME NEW i \in Instance, asyncCancelAll(i)
      PROVE  TypeOK'
  <2>1. Cancelled \in Outcome
    BY DEF Cancelled, Outcome
  <2>2. ended' \in [Request -> Seq(Outcome)]
    BY <1>8, <2>1, AppendProperties DEF asyncCancelAll
  <2>3. QED
    BY <1>8, <2>2 DEF asyncCancelAll, Phase
<1>9. ASSUME NEW i \in Instance, Halt(i)
      PROVE  TypeOK'
  BY <1>9 DEF Halt, Phase
<1>10. CASE Drained
  BY <1>10 DEF Drained
<1>11. ASSUME NEW r \in Request, Push(r) \/ Refuse(r) \/ HandlePanic(r)
       PROVE  TypeOK'
  BY <1>11 DEF Push, Refuse, HandlePanic, Stage
<1>12. ASSUME NEW r \in Request, NEW res \in Result, Handle(r, res)
       PROVE  TypeOK'
  <2>1. r[1] \in Instance /\ r[2] \in Id
    BY DEF Request
  <2>2. \A x \in Result : [id |-> r[2], of |-> r, result |-> x] \in Reply
    BY <2>1 DEF Reply
  <2>3. wire' \subseteq Reply /\ inbox' \in [Instance -> SUBSET Reply]
    <3>1. asyncCallback(r, res)
      BY <1>12 DEF Handle
    <3>2. CASE r \in remote
      BY <2>2, <3>1, <3>2 DEF asyncCallback, Result
    <3>3. CASE r \notin remote
      <4>1. PICK m \in Reply :
              inbox' \in {inbox, [inbox EXCEPT ![r[1]] = @ \cup {m}]}
        BY <2>2, <3>1, <3>3 DEF asyncCallback
      <4>2. wire' = wire
        BY <3>1, <3>3 DEF asyncCallback
      <4>3. inbox[r[1]] \cup {m} \in SUBSET Reply
        BY <2>1
      <4>4. QED
        BY <2>1, <4>1, <4>2, <4>3
    <3>4. QED
      BY <3>2, <3>3
  <2>4. QED
    BY <1>12, <2>3 DEF Handle, Stage
<1>13. ASSUME NEW m \in wire, AsyncOnMessageCallback(m) \/ LoseReply(m)
       PROVE  TypeOK'
  BY <1>13 DEF AsyncOnMessageCallback, LoseReply, Instance
<1>14. QED
  BY <1>2, <1>3, <1>3a, <1>4, <1>5, <1>6, <1>7, <1>8, <1>9, <1>10,
     <1>11, <1>12, <1>13 DEF Next, Caller, Target

(* The constants and every variable keep their types.                      *)
THEOREM TypeCorrect == Spec => []TypeOK
  BY InitInv, NextType, PTL DEF Spec

-----------------------------------------------------------------------------
(* Every action keeps the tables and the outcomes in step.               *)
LEMMA NextTable == TypeOK /\ TableInv /\ [Next]_vars => TableInv'
<1> SUFFICES ASSUME TypeOK, TableInv, [Next]_vars PROVE TableInv'
  OBVIOUS
<1>1. \A r \in Request : r[1] \in Instance /\ r[2] \in Id /\ r = <<r[1], r[2]>>
  BY DEF Request
<1>2. CASE UNCHANGED <<made, phase, asyncCallbackID, asyncCallbackMap, stage,
                       ended>>
  BY <1>2 DEF TableInv, Registered, Numbered, Counted, ClearedEmpty, MadeSoFar
<1>3. CASE Spawn
  <2>1. made + 1 \in Instance /\ phase[made + 1] = "none"
    BY <1>3 DEF Spawn, TypeOK, Instance, TableInv, MadeSoFar
  <2>2. \A i \in Instance :
          /\ phase'[i] = IF i = made + 1 THEN "spawning" ELSE phase[i]
          /\ i # made + 1 => asyncCallbackID'[i] = asyncCallbackID[i]
    BY <1>3 DEF Spawn, TypeOK
  <2>3. UNCHANGED <<asyncCallbackMap, stage, ended>> /\ made' = made + 1
    BY <1>3 DEF Spawn, peer
  <2>4. Registered' /\ Counted'
    BY <2>3 DEF TableInv, Registered, Counted
  <2>5. Numbered'
    BY <1>1, <2>1, <2>2, <2>3 DEF TableInv, Numbered
  <2>6. ClearedEmpty'
    BY <2>1, <2>2, <2>3 DEF TableInv, ClearedEmpty
  <2>7. MadeSoFar'
    BY <2>1, <2>2, <2>3 DEF TableInv, MadeSoFar, Instance, TypeOK
  <2>8. QED
    BY <2>4, <2>5, <2>6, <2>7 DEF TableInv
<1>4. ASSUME NEW i \in Instance, NEW far \in BOOLEAN, Register(i, far)
      PROVE  TableInv'
  <2> DEFINE id == asyncCallbackID[i] + 1
             key == <<i, id>>
  <2>1. id \in Id /\ key \in Request /\ ~(id <= asyncCallbackID[i])
    BY <1>4 DEF Register, Request, Id, TypeOK
  <2>2. stage[key] = "none"
    BY <2>1 DEF TableInv, Numbered
  <2>3. \A r \in Request :
          stage'[r] = IF r = key THEN "registered" ELSE stage[r]
    BY <1>4, <2>1 DEF Register, TypeOK
  <2>3a. \A j \in Instance :
           asyncCallbackID'[j] = IF j = i THEN id ELSE asyncCallbackID[j]
    BY <1>4, <2>1 DEF Register, TypeOK
  <2>3b. \A j \in Instance : \A x :
           x \in asyncCallbackMap'[j] <=> \/ x \in asyncCallbackMap[j]
                                          \/ j = i /\ x = id
    BY <1>4, <2>1 DEF Register, TypeOK
  <2>4. /\ UNCHANGED <<phase, made, ended>>
        /\ phase[i] \notin {"none", "cleared", "halted"}
    BY <1>4 DEF Register, lifetime
  <2>5. key[1] = i /\ key[2] = id
    OBVIOUS
  <2>6. \A j \in Instance : asyncCallbackID[j] \in Nat
    BY DEF TypeOK
  <2>7. id = asyncCallbackID[i] + 1
    OBVIOUS
  <2>8. \A r \in Request : r # key => ~(r[1] = i /\ r[2] = id)
    BY <1>1
  <2>9. \A j \in Instance, x \in Id :
          /\ <<j, x>> \in Request
          /\ ~(j = i /\ x = id) => <<j, x>> # key
    BY DEF Request
  <2> HIDE DEF id, key
  <2>10. Counted'
    <3>1. SUFFICES ASSUME NEW r \in Request
                   PROVE  Len(ended[r]) =
                            IF \/ stage'[r] = "none"
                               \/ r[2] \in asyncCallbackMap'[r[1]]
                            THEN 0 ELSE 1
      BY <2>4 DEF Counted
    <3>2. CASE r = key
      <4>1. r[2] \in asyncCallbackMap'[r[1]]
        BY <2>3b, <2>5, <3>2
      <4>2. Len(ended[r]) = 0
        BY <2>2, <3>2 DEF TableInv, Counted
      <4>3. QED
        BY <4>1, <4>2
    <3>3. CASE r # key
      <4>1. r[2] \in asyncCallbackMap'[r[1]] <=> r[2] \in asyncCallbackMap[r[1]]
        BY <1>1, <2>3b, <2>8, <3>3
      <4>2. QED
        BY <2>3, <3>3, <4>1 DEF TableInv, Counted
    <3>4. QED
      BY <3>2, <3>3
  <2>11. Registered'
    <3>1. SUFFICES ASSUME NEW j \in Instance, NEW x \in asyncCallbackMap'[j]
                   PROVE  stage'[<<j, x>>] # "none"
      BY DEF Registered
    <3>2. CASE j = i /\ x = id
      BY <2>1, <2>3, <3>2 DEF key
    <3>3. CASE ~(j = i /\ x = id)
      <4>1. x \in asyncCallbackMap[j] /\ x \in Id
        BY <2>3b, <3>1, <3>3 DEF TypeOK
      <4>2. QED
        BY <2>3, <2>9, <3>3, <4>1 DEF TableInv, Registered
    <3>4. QED
      BY <3>2, <3>3
  <2>12. Numbered'
    <3>1. SUFFICES ASSUME NEW r \in Request, stage'[r] # "none"
                   PROVE  r[2] <= asyncCallbackID'[r[1]] /\ phase[r[1]] # "none"
      BY <2>4 DEF Numbered
    <3>2. CASE r = key
      BY <2>1, <2>3a, <2>4, <2>5, <3>2 DEF Id
    <3>3. CASE r # key
      <4>1. r[2] <= asyncCallbackID[r[1]] /\ phase[r[1]] # "none"
        BY <2>3, <3>1, <3>3 DEF TableInv, Numbered
      <4>2. r[1] \in Instance /\ r[2] \in Nat
        BY <1>1 DEF Id
      <4>3. QED
        BY <2>3a, <2>6, <2>7, <4>1, <4>2
    <3>4. QED
      BY <3>2, <3>3
  <2>13. ClearedEmpty' /\ MadeSoFar'
    BY <2>3b, <2>4 DEF TableInv, ClearedEmpty, MadeSoFar
  <2>14. QED
    BY <2>10, <2>11, <2>12, <2>13 DEF TableInv
<1>5. ASSUME NEW i \in Instance, NEW far \in BOOLEAN, RegisterLate(i, far)
      PROVE  TableInv'
  BY <1>2, <1>5 DEF RegisterLate, lifetime, table, peer
<1>6. ASSUME NEW i \in Instance, NEW m \in inbox[i],
             OnAsyncMessagingCallback(i, m)
      PROVE  TableInv'
  <2> DEFINE key == <<i, m.id>>
  <2>1. UNCHANGED <<phase, made, asyncCallbackID, stage>>
    BY <1>6 DEF OnAsyncMessagingCallback, lifetime, peer
  <2>2. \A j \in Instance :
          asyncCallbackMap'[j] = IF j = i THEN asyncCallbackMap[j] \ {m.id}
                                          ELSE asyncCallbackMap[j]
    BY <1>6 DEF OnAsyncMessagingCallback, TypeOK
  <2>3. m \in Reply /\ m.id \in Id /\ key \in Request
    BY DEF TypeOK, Reply, Request
  <2>4. \A r \in Request :
          Len(ended'[r]) = IF r = key /\ m.id \in asyncCallbackMap[i]
                           THEN Len(ended[r]) + 1 ELSE Len(ended[r])
    <3>1. [of |-> m.of, result |-> m.result] \in Outcome
      BY <2>3 DEF Reply, Outcome
    <3>2. Len(Append(ended[key], [of |-> m.of, result |-> m.result]))
            = Len(ended[key]) + 1
      BY <2>3, <3>1, AppendProperties DEF TypeOK
    <3>3. QED
      BY <1>6, <2>3, <3>2 DEF OnAsyncMessagingCallback, TypeOK
  <2>5. \A r \in Request : r = key <=> r[1] = i /\ r[2] = m.id
    BY <1>1
  <2>6. m.id \in asyncCallbackMap[i] => stage[key] # "none"
    BY DEF TableInv, Registered
  <2> HIDE DEF key
  <2>7. Counted'
    <3>1. SUFFICES ASSUME NEW r \in Request
                   PROVE  Len(ended'[r]) =
                            IF \/ stage[r] = "none"
                               \/ r[2] \in asyncCallbackMap'[r[1]]
                            THEN 0 ELSE 1
      BY <2>1 DEF Counted
    <3>2. CASE r = key /\ m.id \in asyncCallbackMap[i]
      <4>1. Len(ended[r]) = 0 /\ stage[r] # "none"
        BY <2>5, <2>6, <3>2 DEF TableInv, Counted
      <4>2. r[2] \notin asyncCallbackMap'[r[1]]
        BY <2>2, <2>5, <3>2
      <4>3. QED
        BY <2>4, <3>2, <4>1, <4>2
    <3>3. CASE ~(r = key /\ m.id \in asyncCallbackMap[i])
      <4>1. r[2] \in asyncCallbackMap'[r[1]] <=> r[2] \in asyncCallbackMap[r[1]]
        BY <1>1, <2>2, <2>5, <3>3
      <4>2. QED
        BY <2>4, <3>3, <4>1 DEF TableInv, Counted
    <3>4. QED
      BY <3>2, <3>3
  <2>8. Registered' /\ ClearedEmpty'
    BY <2>1, <2>2 DEF TableInv, Registered, ClearedEmpty
  <2>9. Numbered' /\ MadeSoFar'
    BY <2>1 DEF TableInv, Numbered, MadeSoFar
  <2>10. QED
    BY <2>7, <2>8, <2>9 DEF TableInv
<1>7. ASSUME NEW i \in Instance,
             SpawnDone(i) \/ SpawnFailed(i) \/ Close(i) \/ Halt(i)
      PROVE  TableInv'
  <2>1. UNCHANGED <<made, asyncCallbackID, asyncCallbackMap, stage, ended>>
    BY <1>7 DEF SpawnDone, SpawnFailed, Close, Halt, table, peer
  <2>2. \/ /\ phase[i] \in {"spawning", "up"}
           /\ \E p \in {"up", "failed", "closed"} :
                phase' = [phase EXCEPT ![i] = p]
        \/ phase[i] = "cleared" /\ phase' = [phase EXCEPT ![i] = "halted"]
    BY <1>7 DEF SpawnDone, SpawnFailed, Close, Halt
  <2>3. /\ \A j \in Instance : phase'[j] = "none" <=> phase[j] = "none"
        /\ \A j \in Instance : phase'[j] \in {"cleared", "halted"}
                                 <=> phase[j] \in {"cleared", "halted"}
    BY <2>2 DEF TypeOK
  <2>4. Registered' /\ Counted'
    BY <2>1 DEF TableInv, Registered, Counted
  <2>5. Numbered' /\ ClearedEmpty' /\ MadeSoFar'
    BY <1>1, <2>1, <2>3 DEF TableInv, Numbered, ClearedEmpty, MadeSoFar
  <2>6. QED
    BY <2>4, <2>5 DEF TableInv
<1>8. ASSUME NEW i \in Instance, asyncCancelAll(i)
      PROVE  TableInv'
  <2>1. UNCHANGED <<made, asyncCallbackID, stage>> /\ phase[i] = "closed"
    BY <1>8 DEF asyncCancelAll, peer
  <2>2. \A j \in Instance :
          /\ asyncCallbackMap'[j] = IF j = i THEN {} ELSE asyncCallbackMap[j]
          /\ phase'[j] = IF j = i THEN "cleared" ELSE phase[j]
    BY <1>8 DEF asyncCancelAll, TypeOK
  <2>3. \A r \in Request :
          Len(ended'[r]) = IF r[1] = i /\ r[2] \in asyncCallbackMap[i]
                           THEN Len(ended[r]) + 1 ELSE Len(ended[r])
    <3>1. Cancelled \in Outcome
      BY DEF Cancelled, Outcome
    <3>2. \A r \in Request :
            Len(Append(ended[r], Cancelled)) = Len(ended[r]) + 1
      BY <3>1, AppendProperties DEF TypeOK
    <3>3. QED
      BY <1>8, <3>2 DEF asyncCancelAll
  <2>4. Counted'
    <3>1. \A r \in Request :
            r[1] = i /\ r[2] \in asyncCallbackMap[i] => stage[r] # "none"
      BY <1>1 DEF TableInv, Registered
    <3>2. QED
      BY <1>1, <2>1, <2>2, <2>3, <3>1 DEF TableInv, Counted
  <2>5. Registered' /\ ClearedEmpty'
    BY <2>1, <2>2 DEF TableInv, Registered, ClearedEmpty
  <2>6. Numbered' /\ MadeSoFar'
    BY <1>1, <2>1, <2>2 DEF TableInv, Numbered, MadeSoFar
  <2>7. QED
    BY <2>4, <2>5, <2>6 DEF TableInv
<1>9. CASE Drained
  BY <1>2, <1>9 DEF Drained, table, peer
<1>10. ASSUME NEW r \in Request, Target(r)
       PROVE  TableInv'
  <2>1. UNCHANGED <<phase, made, asyncCallbackID, asyncCallbackMap, ended>>
    BY <1>10 DEF Target, Push, Refuse, Handle, HandlePanic, lifetime, table
  <2>2. stage[r] # "none"
    BY <1>10 DEF Target, Push, Refuse, Handle, HandlePanic
  <2>3. PICK s \in Stage \ {"none"} : stage' = [stage EXCEPT ![r] = s]
    BY <1>10 DEF Target, Push, Refuse, Handle, HandlePanic, Stage
  <2>4. \A q \in Request : stage'[q] = "none" <=> stage[q] = "none"
    BY <2>2, <2>3 DEF TypeOK
  <2>5. \A i \in Instance : \A id \in asyncCallbackMap[i] :
          <<i, id>> \in Request
    BY DEF TypeOK, Request
  <2>6. Registered'
    BY <2>1, <2>4, <2>5 DEF TableInv, Registered
  <2>7. Numbered' /\ Counted'
    BY <2>1, <2>4 DEF TableInv, Numbered, Counted
  <2>8. ClearedEmpty' /\ MadeSoFar'
    BY <2>1 DEF TableInv, ClearedEmpty, MadeSoFar
  <2>9. QED
    BY <2>6, <2>7, <2>8 DEF TableInv
<1>11. ASSUME NEW m \in wire, AsyncOnMessageCallback(m) \/ LoseReply(m)
       PROVE  TableInv'
  BY <1>2, <1>11 DEF AsyncOnMessageCallback, LoseReply, lifetime, table, peer
<1>12. CASE UNCHANGED vars
  BY <1>2, <1>12 DEF vars
<1>13. QED
  BY <1>3, <1>4, <1>5, <1>6, <1>7, <1>8, <1>9, <1>10, <1>11, <1>12
     DEF Next, Caller

(* The tables are right in every reachable state.                        *)
LEMMA TableOK == Spec => [](TypeOK /\ TableInv)
<1>1. Init => TypeOK /\ TableInv
  BY InitInv
<1>2. TypeOK /\ TableInv /\ [Next]_vars => (TypeOK /\ TableInv)'
  BY NextType, NextTable
<1>3. QED
  BY <1>1, <1>2, PTL DEF Spec

(* No callback is called twice: a reply, a stale reply and the halt take   *)
(* it out of the table before they call it.                                *)
THEOREM CalledAtMostOnce == Spec => []AtMostOnce
<1>1. TableInv => AtMostOnce
  BY DEF TableInv, Counted, AtMostOnce
<1>2. QED
  BY <1>1, TableOK, PTL

(* And none is forgotten: at the end of asyncCancelAll every callback that *)
(* was ever registered has been called.                                    *)
THEOREM CalledByTheHalt == Spec => []NoneLeftBehind
<1>1. TypeOK /\ TableInv => NoneLeftBehind
  <2>1. SUFFICES ASSUME TypeOK, TableInv, NEW r \in Request,
                        phase[r[1]] \in {"cleared", "halted"}, stage[r] # "none"
                 PROVE  ended[r] # << >>
    BY DEF NoneLeftBehind
  <2>2. r[1] \in Instance
    BY DEF Request
  <2>3. Len(ended[r]) = 1
    BY <2>1, <2>2 DEF TableInv, Counted, ClearedEmpty
  <2>4. QED
    BY <2>3
<1>2. QED
  BY <1>1, TableOK, PTL

-----------------------------------------------------------------------------
(* What a handled request carries never changes again.                     *)
LEMMA HandledIsStable ==
  ASSUME TypeOK, TableInv, [Next]_vars, NEW q \in Request, stage[q] = "handled"
  PROVE  /\ stage'[q] = "handled" /\ result'[q] = result[q]
         /\ q \in remote' <=> q \in remote
<1>1. CASE UNCHANGED peer
  BY <1>1 DEF peer
<1>2. ASSUME NEW i \in Instance, NEW far \in BOOLEAN, Register(i, far)
      PROVE  /\ stage'[q] = "handled" /\ result'[q] = result[q]
             /\ q \in remote' <=> q \in remote
  <2> DEFINE key == <<i, asyncCallbackID[i] + 1>>
  <2>1. key \in Request /\ stage[key] = "none"
    BY <1>2 DEF Register, Request, Id, TypeOK, TableInv, Numbered
  <2>2. q # key
    BY <2>1
  <2>3. QED
    BY <1>2, <2>2 DEF Register, TypeOK
<1>3. ASSUME NEW r \in Request, Target(r)
      PROVE  /\ stage'[q] = "handled" /\ result'[q] = result[q]
             /\ q \in remote' <=> q \in remote
  <2>1. q # r
    BY <1>3 DEF Target, Push, Refuse, Handle, HandlePanic
  <2>2. remote' = remote
    BY <1>3 DEF Target, Push, Refuse, Handle, HandlePanic
  <2>3. stage'[q] = stage[q] /\ result'[q] = result[q]
    BY <1>3, <2>1 DEF Target, Push, Refuse, Handle, HandlePanic, TypeOK
  <2>4. QED
    BY <2>2, <2>3
<1>4. QED
  BY <1>1, <1>2, <1>3
     DEF Next, Spawn, Drained, Caller, SpawnDone, SpawnFailed, RegisterLate,
         OnAsyncMessagingCallback, Close, asyncCancelAll, Halt,
         AsyncOnMessageCallback, LoseReply, vars, peer

(* Where the replies and the outcomes of a step come from.                 *)
LEMMA WireComesFrom ==
  ASSUME TypeOK, [Next]_vars, NEW m \in wire'
  PROVE  m \in wire \/ (Answers(m)' /\ m.of \in remote' /\ m.of \in Request)
<1>1. CASE wire' \subseteq wire
  BY <1>1
<1>2. ASSUME NEW r \in Request, NEW res \in Result, Handle(r, res)
      PROVE  m \in wire \/ (Answers(m)' /\ m.of \in remote' /\ m.of \in Request)
  <2>1. stage'[r] = "handled" /\ remote' = remote
    BY <1>2 DEF Handle, TypeOK
  <2>2. asyncCallback(r, res)
    BY <1>2 DEF Handle
  <2>3. m \in wire \/ (r \in remote /\ m.of = r /\ m.id = r[2])
    BY <2>2 DEF asyncCallback
  <2>4. QED
    BY <2>1, <2>3 DEF Answers
<1>3. QED
  BY <1>1, <1>2
     DEF Next, Spawn, Drained, Caller, SpawnDone, SpawnFailed, Register,
         RegisterLate, Target, Push,
         Refuse, HandlePanic, OnAsyncMessagingCallback, Close, asyncCancelAll,
         Halt, AsyncOnMessageCallback, LoseReply, vars

(* A callback mail was in the mailbox before, or arrives in this step.   *)
LEMMA InboxComesFrom ==
  ASSUME TypeOK, [Next]_vars, NEW i \in Instance, NEW m \in inbox'[i]
  PROVE  m \in inbox[i] \/ m \in wire
           \/ (Answers(m)' /\ Arrives(i, m)' /\ m.of \in Request)
<1>1. CASE inbox' = inbox
  BY <1>1
<1>2. ASSUME NEW r \in Request, NEW res \in Result, Handle(r, res)
      PROVE  \/ m \in inbox[i]
             \/ Answers(m)' /\ Arrives(i, m)' /\ m.of \in Request
  <2>1. stage'[r] = "handled" /\ result'[r] = res
    BY <1>2 DEF Handle, TypeOK
  <2>2. asyncCallback(r, res)
    BY <1>2 DEF Handle
  <2>3. \/ m \in inbox[i]
        \/ i = r[1] /\ m = [id |-> r[2], of |-> r, result |-> res]
    BY <2>2 DEF asyncCallback, TypeOK
  <2>4. QED
    BY <2>1, <2>3 DEF Answers, Arrives
<1>3. ASSUME NEW w \in wire, AsyncOnMessageCallback(w)
      PROVE  m \in inbox[i] \/ m \in wire
  BY <1>3 DEF AsyncOnMessageCallback, TypeOK
<1>4. ASSUME NEW j \in Instance, NEW x \in inbox[j],
             OnAsyncMessagingCallback(j, x)
      PROVE  m \in inbox[i]
  BY <1>4 DEF OnAsyncMessagingCallback, TypeOK
<1>5. ASSUME NEW j \in Instance, Close(j)
      PROVE  m \in inbox[i]
  BY <1>5 DEF Close, TypeOK
<1>6. QED
  BY <1>1, <1>2, <1>3, <1>4, <1>5
     DEF Next, Spawn, Drained, Caller, SpawnDone, SpawnFailed, Register,
         RegisterLate, Target, Push,
         Refuse, HandlePanic, asyncCancelAll, Halt, LoseReply, vars

(* A new outcome is that of a callback mail, or a cancellation.          *)
LEMMA EndedComesFrom ==
  ASSUME TypeOK, [Next]_vars, NEW r \in Request, NEW k \in 1 .. Len(ended'[r])
  PROVE  \/ k \in 1 .. Len(ended[r]) /\ ended'[r][k] = ended[r][k]
         \/ ended'[r][k].of = None
         \/ \E m \in inbox[r[1]] : /\ m.id = r[2]
                                   /\ ended'[r][k].of = m.of
                                   /\ ended'[r][k].result = m.result
<1>0. ended[r] \in Seq(Outcome) /\ r[1] \in Instance
  BY DEF TypeOK, Request
<1>1. CASE ended' = ended
  BY <1>1
<1>2. ASSUME NEW i \in Instance, asyncCancelAll(i)
      PROVE  \/ k \in 1 .. Len(ended[r]) /\ ended'[r][k] = ended[r][k]
             \/ ended'[r][k].of = None
  <2>1. Cancelled \in Outcome /\ Cancelled.of = None
    BY DEF Cancelled, Outcome
  <2>2. ended'[r] \in {ended[r], Append(ended[r], Cancelled)}
    BY <1>2 DEF asyncCancelAll
  <2>3. QED
    BY <1>0, <2>1, <2>2, AppendProperties
<1>3. ASSUME NEW i \in Instance, NEW m \in inbox[i],
             OnAsyncMessagingCallback(i, m)
      PROVE  \/ k \in 1 .. Len(ended[r]) /\ ended'[r][k] = ended[r][k]
             \/ \E x \in inbox[r[1]] : /\ x.id = r[2]
                                       /\ ended'[r][k].of = x.of
                                       /\ ended'[r][k].result = x.result
  <2> DEFINE o == [of |-> m.of, result |-> m.result]
  <2>1. o \in Outcome /\ o.of = m.of /\ o.result = m.result
    BY DEF TypeOK, Reply, Outcome
  <2>2. \/ ended'[r] = ended[r]
        \/ r = <<i, m.id>> /\ ended'[r] = Append(ended[r], o)
    BY <1>3 DEF OnAsyncMessagingCallback, TypeOK
  <2> HIDE DEF o
  <2>3. CASE ended'[r] = ended[r]
    BY <2>3
  <2>4. CASE r = <<i, m.id>> /\ ended'[r] = Append(ended[r], o)
    <3>1. \/ k \in 1 .. Len(ended[r]) /\ ended'[r][k] = ended[r][k]
          \/ ended'[r][k] = o
      BY <1>0, <2>1, <2>4, AppendProperties
    <3>2. m \in inbox[r[1]] /\ m.id = r[2]
      BY <2>4
    <3>3. QED
      BY <2>1, <3>1, <3>2
  <2>5. QED
    BY <2>2, <2>3, <2>4
<1>4. QED
  BY <1>1, <1>2, <1>3
     DEF Next, Spawn, Drained, Caller, SpawnDone, SpawnFailed, Register,
         RegisterLate, Target, Push,
         Refuse, Handle, HandlePanic, Close, Halt, AsyncOnMessageCallback,
         LoseReply, vars

(* Every action keeps the replies true to their requests.                *)
LEMMA NextReply == TypeOK /\ TableInv /\ ReplyInv /\ [Next]_vars => ReplyInv'
<1> SUFFICES ASSUME TypeOK, TableInv, ReplyInv, [Next]_vars PROVE ReplyInv'
  OBVIOUS
<1>1. \A q \in Request :
        stage[q] = "handled" => /\ stage'[q] = "handled"
                                /\ result'[q] = result[q]
                                /\ q \in remote' <=> q \in remote
  BY HandledIsStable
<1>2. \A m \in wire : m.of \in Request
  BY DEF TypeOK, Reply
<1>3. \A i \in Instance : \A m \in inbox[i] : m.of \in Request
  BY DEF TypeOK, Reply
<1>4. ASSUME NEW m \in wire'
      PROVE  Answers(m)' /\ m.of \in remote'
  <2>1. CASE m \in wire
    BY <1>1, <1>2, <2>1 DEF ReplyInv, Answers
  <2>2. CASE m \notin wire
    BY <2>2, WireComesFrom
  <2>3. QED
    BY <2>1, <2>2
<1>5. ASSUME NEW i \in Instance, NEW m \in inbox'[i]
      PROVE  Answers(m)' /\ Arrives(i, m)'
  <2>1. CASE m \in inbox[i]
    BY <1>1, <1>3, <2>1 DEF ReplyInv, Answers, Arrives
  <2>2. CASE m \in wire
    BY <1>1, <1>2, <2>2 DEF ReplyInv, Answers, Arrives
  <2>3. CASE m \notin inbox[i] /\ m \notin wire
    BY <2>3, InboxComesFrom
  <2>4. QED
    BY <2>1, <2>2, <2>3
<1>6. ASSUME NEW r \in Request, NEW k \in 1 .. Len(ended'[r])
      PROVE  Ends(r, ended[r][k])'
  <2>1. \/ k \in 1 .. Len(ended[r]) /\ ended'[r][k] = ended[r][k]
        \/ ended'[r][k].of = None
        \/ \E m \in inbox[r[1]] : /\ m.id = r[2]
                                  /\ ended'[r][k].of = m.of
                                  /\ ended'[r][k].result = m.result
    BY EndedComesFrom
  <2>2. CASE k \in 1 .. Len(ended[r]) /\ ended'[r][k] = ended[r][k]
    <3>1. ended[r][k] \in Outcome
      BY <2>2, ElementOfSeq DEF TypeOK
    <3>2. ended[r][k].of # None => ended[r][k].of \in Request
      BY <3>1 DEF Outcome
    <3>3. Ends(r, ended[r][k])
      BY <2>2 DEF ReplyInv
    <3>4. QED
      BY <1>1, <2>2, <3>2, <3>3 DEF Ends
  <2>3. CASE ended'[r][k].of = None
    BY <2>3 DEF Ends
  <2>4. ASSUME NEW m \in inbox[r[1]], m.id = r[2], ended'[r][k].of = m.of,
               ended'[r][k].result = m.result
        PROVE  Ends(r, ended[r][k])'
    <3>1. r[1] \in Instance /\ r = <<r[1], r[2]>>
      BY DEF Request
    <3>2. m.of \in Request /\ m.of = <<m.of[1], m.of[2]>>
      BY <1>3, <3>1 DEF Request
    <3>3. Answers(m) /\ Arrives(r[1], m)
      BY <3>1 DEF ReplyInv
    <3>4. m.of \notin remote => m.of = r /\ m.result = result[m.of]
      BY <2>4, <3>1, <3>2, <3>3 DEF Answers, Arrives
    <3>5. stage[m.of] = "handled" /\ m.of[2] = r[2]
      BY <2>4, <3>3 DEF Answers
    <3>6. QED
      BY <1>1, <2>4, <3>2, <3>4, <3>5 DEF Ends
  <2>5. QED
    BY <2>1, <2>2, <2>3, <2>4
<1>7. QED
  BY <1>4, <1>5, <1>6 DEF ReplyInv

(* The replies are right in every reachable state.                       *)
LEMMA ReplyOK == Spec => [](TypeOK /\ TableInv /\ ReplyInv)
<1>1. Init => TypeOK /\ TableInv /\ ReplyInv
  BY InitInv
<1>2. TypeOK /\ TableInv /\ ReplyInv /\ [Next]_vars
        => (TypeOK /\ TableInv /\ ReplyInv)'
  BY NextType, NextTable, NextReply
<1>3. QED
  BY <1>1, <1>2, PTL DEF Spec

(* Inside the process a callback gets the answer to its own message, with   *)
(* the result the handler returned, however often the name is respawned.   *)
THEOREM LocalReplies == Spec => []LocalRepliesMatch
<1>1. ReplyInv => LocalRepliesMatch
  <2>1. SUFFICES ASSUME ReplyInv, NEW r \in Request,
                        NEW k \in 1 .. Len(ended[r]), ended[r][k].of # None,
                        ended[r][k].of \notin remote
                 PROVE  /\ ended[r][k].of = r
                        /\ ended[r][k].result = result[r]
    BY DEF LocalRepliesMatch
  <2>2. Ends(r, ended[r][k])
    BY <2>1 DEF ReplyInv
  <2>3. QED
    BY <2>1, <2>2 DEF Ends
<1>2. QED
  BY <1>1, ReplyOK, PTL

-----------------------------------------------------------------------------
(* While the entry of the name stays, its counter runs through: the newest *)
(* instance is the only one that registers, and it counts on from the last.*)
Steady == Held /\ "spawn" \notin Fault

CountsOn ==
  Steady =>
    /\ atom = made
    /\ \A i \in Instance : /\ phase[i] # "failed"
                           /\ i < made => phase[i] \in {"cleared", "halted"}
    /\ \A r \in Request : stage[r] # "none" => r[2] <= asyncCallbackID[made]
    /\ \A r, q \in Request :
         stage[r] # "none" /\ stage[q] # "none" /\ r[2] = q[2] => r = q

(* Initially no counter has moved.                                       *)
LEMMA InitCounts == Init => CountsOn
  BY DEF Init, CountsOn, Instance

(* While entries are held, the ids of different instances stay apart.    *)
LEMMA NextCounts == TypeOK /\ TableInv /\ CountsOn /\ [Next]_vars => CountsOn'
<1> SUFFICES ASSUME TypeOK, TableInv, CountsOn, [Next]_vars, Steady
             PROVE  CountsOn'
  BY DEF CountsOn, Steady
<1>1. \A r \in Request : r[1] \in Instance /\ r[2] \in Id /\ r = <<r[1], r[2]>>
  BY DEF Request
<1>2. /\ atom = made
      /\ \A i \in Instance : /\ phase[i] # "failed"
                             /\ i < made => phase[i] \in {"cleared", "halted"}
      /\ \A r \in Request : stage[r] # "none" => r[2] <= asyncCallbackID[made]
      /\ \A r, q \in Request :
           stage[r] # "none" /\ stage[q] # "none" /\ r[2] = q[2] => r = q
  BY DEF CountsOn
<1>3. CASE UNCHANGED <<atom, made, phase, asyncCallbackID, stage>>
  BY <1>2, <1>3 DEF CountsOn
<1>4. CASE Spawn
  <2>1. /\ made \in 0 .. MaxInstance /\ made' = made + 1 /\ atom' = made'
        /\ UNCHANGED stage
    BY <1>4 DEF Spawn, TypeOK, peer
  <2>2. \A i \in Instance : /\ phase'[i] # "failed"
                            /\ i < made' => phase'[i] \in {"cleared", "halted"}
    BY <1>2, <1>4, <2>1 DEF Spawn, Replaceable, TypeOK, Instance
  <2>3. ASSUME NEW r \in Request, stage[r] # "none"
        PROVE  r[2] <= asyncCallbackID'[made']
    <3>1. made # 0
      BY <1>1, <2>1, <2>3 DEF TableInv, Numbered, MadeSoFar, Instance
    <3>2. asyncCallbackID'[made'] = asyncCallbackID[made]
      BY <1>2, <1>4, <2>1, <3>1 DEF Spawn, TypeOK, Instance
    <3>3. QED
      BY <1>2, <2>3, <3>2
  <2>4. QED
    BY <1>2, <2>1, <2>2, <2>3 DEF CountsOn
<1>5. ASSUME NEW i \in Instance, NEW far \in BOOLEAN, Register(i, far)
      PROVE  CountsOn'
  <2> DEFINE id == asyncCallbackID[i] + 1
             key == <<i, id>>
  <2>1. id \in Id /\ key \in Request /\ key[2] = id /\ UNCHANGED lifetime
    BY <1>5 DEF Register, Request
  <2>2. i = made
    <3>1. phase[i] \notin {"none", "cleared", "halted"}
      BY <1>5 DEF Register
    <3>2. ~(i < made) /\ ~(i > made)
      BY <1>2, <3>1 DEF TableInv, MadeSoFar
    <3>3. i \in Nat /\ made \in Nat
      BY DEF TypeOK, Instance
    <3>4. QED
      BY <3>2, <3>3
  <2>3. asyncCallbackID'[made] = asyncCallbackID[made] + 1
    BY <1>5, <2>2 DEF Register, TypeOK
  <2>4. asyncCallbackID[made] \in Nat
    BY <2>2 DEF TypeOK
  <2>5. \A r \in Request :
          stage'[r] = IF r = key THEN "registered" ELSE stage[r]
    BY <1>5, <2>1 DEF Register, TypeOK
  <2>6. id = asyncCallbackID[made] + 1
    BY <2>2
  <2> HIDE DEF id, key
  <2>7. \A r \in Request : stage'[r] # "none" => r[2] <= asyncCallbackID'[made]
    BY <1>1, <1>2, <2>1, <2>3, <2>4, <2>5, <2>6 DEF Id
  <2>8. \A r \in Request : stage[r] # "none" => r[2] # id
    BY <1>1, <1>2, <2>4, <2>6 DEF Id
  <2>9. \A r, q \in Request :
          stage'[r] # "none" /\ stage'[q] # "none" /\ r[2] = q[2] => r = q
    BY <1>2, <2>1, <2>5, <2>8
  <2>10. QED
    BY <1>2, <2>1, <2>7, <2>9 DEF CountsOn, lifetime
<1>6. ASSUME NEW i \in Instance,
             \/ SpawnDone(i) \/ SpawnFailed(i)
             \/ Close(i) \/ asyncCancelAll(i) \/ Halt(i)
      PROVE  CountsOn'
  <2>1. UNCHANGED <<atom, made, asyncCallbackID, stage>>
    BY <1>6 DEF Steady, SpawnDone, SpawnFailed, Close, asyncCancelAll, Halt,
                table, peer
  <2>2. \/ phase[i] = "spawning" /\ phase' = [phase EXCEPT ![i] = "up"]
        \/ phase[i] = "up" /\ phase' = [phase EXCEPT ![i] = "closed"]
        \/ phase[i] = "closed" /\ phase' = [phase EXCEPT ![i] = "cleared"]
        \/ phase[i] = "cleared" /\ phase' = [phase EXCEPT ![i] = "halted"]
    BY <1>6 DEF Steady, SpawnDone, SpawnFailed, Close, asyncCancelAll, Halt
  <2>3. \A j \in Instance : /\ phase'[j] # "failed"
                            /\ j < made => phase'[j] \in {"cleared", "halted"}
    BY <1>2, <2>2 DEF TypeOK
  <2>4. QED
    BY <1>2, <2>1, <2>3 DEF CountsOn
<1>7. ASSUME NEW r \in Request, Target(r)
      PROVE  CountsOn'
  <2>1. UNCHANGED <<atom, made, phase, asyncCallbackID>>
    BY <1>7 DEF Target, Push, Refuse, Handle, HandlePanic, lifetime, table
  <2>2. stage[r] # "none"
    BY <1>7 DEF Target, Push, Refuse, Handle, HandlePanic
  <2>3. \A q \in Request : q # r => stage'[q] = stage[q]
    BY <1>7 DEF Target, Push, Refuse, Handle, HandlePanic, TypeOK
  <2>4. \A q \in Request : stage'[q] # "none" => stage[q] # "none"
    BY <2>2, <2>3
  <2>5. QED
    BY <1>2, <2>1, <2>4 DEF CountsOn
<1>8. QED
  BY <1>3, <1>4, <1>5, <1>6, <1>7
     DEF Next, Steady, Drained, Caller, RegisterLate, OnAsyncMessagingCallback,
         AsyncOnMessageCallback, LoseReply, vars, lifetime, table, peer

(* As long as an IDTracker of the name is held and no start-up fails, no    *)
(* callback gets the reply to another message, not even one from another    *)
(* node that is late by a respawn: what the carry-over of asyncCallbackID   *)
(* is for.                                                                  *)
THEOREM RepliesMatchWhenHeld ==
  Spec => [](Held /\ "spawn" \notin Fault => RepliesMatch)
<1>1. TypeOK /\ TableInv /\ CountsOn /\ [Next]_vars => CountsOn'
  BY NextCounts
<1>2. TypeOK /\ TableInv /\ ReplyInv /\ CountsOn
        => (Held /\ "spawn" \notin Fault => RepliesMatch)
  <2>1. SUFFICES ASSUME TypeOK, TableInv, ReplyInv, CountsOn, Steady,
                        NEW r \in Request, NEW k \in 1 .. Len(ended[r]),
                        ended[r][k].of # None
                 PROVE  ended[r][k].of = r
    BY DEF RepliesMatch, Steady
  <2>2. ended[r][k] \in Outcome
    BY <2>1, ElementOfSeq DEF TypeOK
  <2>3. ended[r][k].of \in Request
    BY <2>1, <2>2 DEF Outcome
  <2>4. stage[ended[r][k].of] # "none" /\ ended[r][k].of[2] = r[2]
    BY <2>1 DEF ReplyInv, Ends
  <2>5. stage[r] # "none"
    BY <2>1 DEF TableInv, Counted
  <2>6. QED
    BY <2>1, <2>3, <2>4, <2>5 DEF CountsOn
<1>3. QED
  BY <1>1, <1>2, InitCounts, ReplyOK, PTL DEF Spec
=============================================================================
