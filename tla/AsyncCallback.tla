--------------------------- MODULE AsyncCallback ---------------------------
(***************************************************************************)
(* The asynchronous messages of one atom name and their callbacks: asyncSet,*)
(* asyncPop and asyncCancelAll of base_atomos.go, the two ways a message    *)
(* takes (BaseAtomos in the process, BaseRemote and the gRPC service to     *)
(* another node) and the two ways its reply comes back.  The atom under the *)
(* name is killed and spawned again: each spawn is an instance with a       *)
(* callback table of its own.                                              *)
(*                                                                         *)
(* A request is the pair <<instance, asyncID>> of the callback it was       *)
(* registered with.  The replies waiting in a mailbox are a set: their      *)
(* order is not observable here.                                           *)
(***************************************************************************)
EXTENDS Naturals, Sequences

CONSTANTS MaxInstance, \* bound: how often the name is spawned
          MaxId,       \* bound: the largest asyncID handed out
          Held,        \* is an IDTracker of every instance held throughout?
          Fault,       \* what may go wrong, of the set below
          None

ASSUME AsyncCallbackAssumption ==
  /\ MaxInstance \in Nat /\ MaxId \in Nat
  /\ Held \in BOOLEAN
  /\ Fault \subseteq {"refuse", "panic", "lose", "spawn"}

Instance == 1 .. MaxInstance
Id == 1 .. MaxId
Request == Instance \X Id

VARIABLES
  atom,    \* e.atoms[name]: an instance, 0 if there is none
  made,    \* the number of instances so far
  phase,   \* of each instance, see Phase
  asyncCallbackID,  \* the counter of each instance
  asyncCallbackMap, \* the keys of the callback table of each instance
  remote,  \* the requests that were sent to another node
  stage,   \* of each request, see Stage
  result,  \* what the handler of the request returned
  wire,    \* the calls AsyncOnMessageCallback under way to this node
  inbox,   \* the callback mails in the mailbox of each instance
  ended,   \* the outcomes a callback was called with (history)
  lateSent \* was a message sent whose callback was cancelled already? (history)

vars == <<atom, made, phase, asyncCallbackID, asyncCallbackMap, remote, stage,
          result, wire, inbox, ended, lateSent>>

table == <<asyncCallbackID, asyncCallbackMap>>
lifetime == <<atom, made, phase>>
peer == <<remote, stage, result>>

\* "closed": running is false and popAll is done; "cleared": asyncCancelAll is;
\* "failed": OnSpawn returned an error and the mailbox goroutine is over.
Phase == {"none", "spawning", "up", "closed", "cleared", "halted", "failed"}
Stage == {"none", "registered", "queued", "handled", "refused"}
Result == {"ok", "err"}

\* A reply: the id it is addressed by, the request it answers, its content.
Reply == [id : Id, of : Request, result : Result]
Outcome == [of : Request \cup {None}, result : Result \cup {"cancelled"}]
Cancelled == [of |-> None, result |-> "cancelled"]

TypeOK ==
  /\ atom \in 0 .. MaxInstance /\ made \in 0 .. MaxInstance
  /\ phase \in [Instance -> Phase]
  /\ asyncCallbackID \in [Instance -> 0 .. MaxId]
  /\ asyncCallbackMap \in [Instance -> SUBSET Id]
  /\ remote \subseteq Request
  /\ stage \in [Request -> Stage]
  /\ result \in [Request -> Result \cup {None}]
  /\ wire \subseteq Reply
  /\ inbox \in [Instance -> SUBSET Reply]
  /\ ended \in [Request -> Seq(Outcome)]
  /\ lateSent \in BOOLEAN

\* The mailbox of i accepts mails, and the state of i is not BaseAtomosHalt.
Accepting(i) == phase[i] \in {"spawning", "up"}

\* i will not run again: elementAtomSpawn puts a new instance in its place.
Replaceable(i) == phase[i] \in {"cleared", "halted", "failed"}

-----------------------------------------------------------------------------
Init ==
  /\ atom = 0 /\ made = 0
  /\ phase = [i \in Instance |-> "none"]
  /\ asyncCallbackID = [i \in Instance |-> 0]
  /\ asyncCallbackMap = [i \in Instance |-> {}]
  /\ remote = {}
  /\ stage = [r \in Request |-> "none"]
  /\ result = [r \in Request |-> None]
  /\ wire = {}
  /\ inbox = [i \in Instance |-> {}]
  /\ ended = [r \in Request |-> << >>]
  /\ lateSent = FALSE

\* Mutant of Spawn: the counter is not carried over.
SpawnFromZero ==
  /\ made < MaxInstance
  /\ atom # 0 => Replaceable(atom)
  /\ atom' = made + 1 /\ made' = made + 1
  /\ phase' = [phase EXCEPT ![made + 1] = "spawning"]
  /\ UNCHANGED <<table, peer, wire, inbox, ended, lateSent>>

(* elementAtomSpawnNewAtom: under a name whose entry is still there the     *)
(* counter goes on, otherwise it starts at zero.  An entry in the state     *)
(* Stopping is replaced when its halt takes longer than ten seconds.        *)
(* What arrives before mailBox.start is dropped, which LoseReply stands for. *)
Spawn ==
  /\ made < MaxInstance
  /\ atom # 0 => Replaceable(atom)
  /\ atom' = made + 1 /\ made' = made + 1
  /\ phase' = [phase EXCEPT ![made + 1] = "spawning"]
  /\ asyncCallbackID' =
       [asyncCallbackID EXCEPT ![made + 1] =
          IF atom = 0 THEN 0 ELSE asyncCallbackID[atom]]
  /\ UNCHANGED <<asyncCallbackMap, peer, wire, inbox, ended, lateSent>>

SpawnDone(i) ==
  /\ phase[i] = "spawning"
  /\ phase' = [phase EXCEPT ![i] = "up"]
  /\ UNCHANGED <<atom, made, table, peer, wire, inbox, ended, lateSent>>

(* OnSpawn fails: mailboxOnStop never runs, nor does asyncCancelAll.        *)
(* elementAtomRelease keeps the entry if somebody got an IDTracker already. *)
SpawnFailed(i) ==
  /\ "spawn" \in Fault
  /\ phase[i] = "spawning"
  /\ phase' = [phase EXCEPT ![i] = "failed"]
  /\ atom' \in IF Held THEN {atom} ELSE {atom, 0}
  /\ UNCHANGED <<made, table, peer, wire, inbox, ended, lateSent>>

\* Mutant of Register: asyncCleared is not tested.
RegisterAlways(i, far) ==
  LET id == asyncCallbackID[i] + 1 IN
  /\ phase[i] # "none"
  /\ id \in Id
  /\ asyncCallbackID' = [asyncCallbackID EXCEPT ![i] = id]
  /\ asyncCallbackMap' = [asyncCallbackMap EXCEPT ![i] = @ \cup {id}]
  /\ stage' = [stage EXCEPT ![<<i, id>>] = "registered"]
  /\ remote' = IF far THEN remote \cup {<<i, id>>} ELSE remote
  /\ UNCHANGED <<lifetime, result, wire, inbox, ended, lateSent>>

(* asyncSet, called by PushAsyncMessage of the local or of the remote       *)
(* target on any goroutine that holds the ID of instance i.                 *)
Register(i, far) ==
  LET id == asyncCallbackID[i] + 1 IN
  /\ phase[i] \notin {"none", "cleared", "halted"}
  /\ id \in Id
  /\ asyncCallbackID' = [asyncCallbackID EXCEPT ![i] = id]
  /\ asyncCallbackMap' = [asyncCallbackMap EXCEPT ![i] = @ \cup {id}]
  /\ stage' = [stage EXCEPT ![<<i, id>>] = "registered"]
  /\ remote' = IF far THEN remote \cup {<<i, id>>} ELSE remote
  /\ UNCHANGED <<lifetime, result, wire, inbox, ended, lateSent>>

(* asyncSet after the clearing calls the callback at once and returns 0: the *)
(* local target is not sent the message, the remote one is.                 *)
RegisterLate(i, far) ==
  /\ phase[i] \in {"cleared", "halted"}
  /\ lateSent' = (lateSent \/ far)
  /\ UNCHANGED <<lifetime, table, peer, wire, inbox, ended>>

-----------------------------------------------------------------------------
\* The message enters the mailbox of the target.
Push(r) ==
  /\ stage[r] = "registered"
  /\ stage' = [stage EXCEPT ![r] = "queued"]
  /\ UNCHANGED <<lifetime, table, remote, result, wire, inbox, ended, lateSent>>

(* The mailbox or the network refuses it: the caller gets an error, and the *)
(* callback stays in the table.                                             *)
Refuse(r) ==
  /\ "refuse" \in Fault
  /\ stage[r] = "registered"
  /\ stage' = [stage EXCEPT ![r] = "refused"]
  /\ UNCHANGED <<lifetime, table, remote, result, wire, inbox, ended, lateSent>>

\* Mutant of asyncCallback: a reply in the process is routed by the name too.
asyncCallbackByName(r, res) ==
  /\ inbox' = IF atom # 0 /\ Accepting(atom)
              THEN [inbox EXCEPT ![atom] =
                      @ \cup {[id |-> r[2], of |-> r, result |-> res]}]
              ELSE inbox
  /\ wire' = wire

(* fromID.asyncCallback.  In the process the reply goes to the mailbox of   *)
(* the very instance that asked.  To another node BaseRemote sends it, and  *)
(* its local err, which shadows the handler's, is nil by then.               *)
asyncCallback(r, res) ==
  IF r \in remote
  THEN /\ wire' = wire \cup {[id |-> r[2], of |-> r, result |-> "ok"]}
       /\ inbox' = inbox
  ELSE /\ inbox' = IF Accepting(r[1])
                   THEN [inbox EXCEPT ![r[1]] =
                           @ \cup {[id |-> r[2], of |-> r, result |-> res]}]
                   ELSE inbox
       /\ wire' = wire

(* OnAsyncMessaging.  An err is also the answer to a message without a      *)
(* handler and to one that the stopping target finds in its mailbox.        *)
Handle(r, res) ==
  /\ stage[r] = "queued"
  /\ stage' = [stage EXCEPT ![r] = "handled"]
  /\ result' = [result EXCEPT ![r] = res]
  /\ asyncCallback(r, res)
  /\ UNCHANGED <<lifetime, table, remote, ended, lateSent>>

\* The handler panics: the recovery skips asyncCallback.
HandlePanic(r) ==
  /\ "panic" \in Fault
  /\ stage[r] = "queued"
  /\ stage' = [stage EXCEPT ![r] = "handled"]
  /\ UNCHANGED <<lifetime, table, remote, result, wire, inbox, ended, lateSent>>

(* AsyncOnMessageCallback: getLocalIDFromIDInfo finds the instance that has *)
(* the name now; InstanceId is not compared.                                *)
AsyncOnMessageCallback(m) ==
  /\ m \in wire
  /\ wire' = wire \ {m}
  /\ inbox' = IF atom # 0 /\ Accepting(atom)
              THEN [inbox EXCEPT ![atom] = @ \cup {m}]
              ELSE inbox
  /\ UNCHANGED <<lifetime, table, peer, ended, lateSent>>

\* The call fails: PushAsyncMessageCallback logs it and does not retry.
LoseReply(m) ==
  /\ "lose" \in Fault
  /\ m \in wire
  /\ wire' = wire \ {m}
  /\ UNCHANGED <<lifetime, table, peer, inbox, ended, lateSent>>

\* Mutant of OnAsyncMessagingCallback: asyncPop leaves the entry in the map.
CallbackPeeks(i, m) ==
  /\ phase[i] = "up" /\ m \in inbox[i]
  /\ inbox' = [inbox EXCEPT ![i] = @ \ {m}]
  /\ ended' = IF m.id \in asyncCallbackMap[i]
              THEN [ended EXCEPT ![<<i, m.id>>] =
                      Append(@, [of |-> m.of, result |-> m.result])]
              ELSE ended
  /\ UNCHANGED <<lifetime, table, peer, wire, lateSent>>

(* OnAsyncMessagingCallback: asyncPop, then the callback; a reply without a *)
(* callback is logged.                                                      *)
OnAsyncMessagingCallback(i, m) ==
  /\ phase[i] = "up" /\ m \in inbox[i]
  /\ inbox' = [inbox EXCEPT ![i] = @ \ {m}]
  /\ asyncCallbackMap' = [asyncCallbackMap EXCEPT ![i] = @ \ {m.id}]
  /\ ended' = IF m.id \in asyncCallbackMap[i]
              THEN [ended EXCEPT ![<<i, m.id>>] =
                      Append(@, [of |-> m.of, result |-> m.result])]
              ELSE ended
  /\ UNCHANGED <<lifetime, asyncCallbackID, peer, wire, lateSent>>

-----------------------------------------------------------------------------
(* The exit mail: the mailbox refuses mails and gives up the ones it has;   *)
(* mailboxOnStop logs the callback mails among them.                        *)
Close(i) ==
  /\ phase[i] = "up"
  /\ phase' = [phase EXCEPT ![i] = "closed"]
  /\ inbox' = [inbox EXCEPT ![i] = {}]
  /\ UNCHANGED <<atom, made, table, peer, wire, ended, lateSent>>

\* Mutant of asyncCancelAll: the table is dropped, its callbacks with it.
asyncDropAll(i) ==
  /\ phase[i] = "closed"
  /\ phase' = [phase EXCEPT ![i] = "cleared"]
  /\ asyncCallbackMap' = [asyncCallbackMap EXCEPT ![i] = {}]
  /\ UNCHANGED <<atom, made, asyncCallbackID, peer, wire, inbox, ended,
                 lateSent>>

asyncCancelAll(i) ==
  /\ phase[i] = "closed"
  /\ phase' = [phase EXCEPT ![i] = "cleared"]
  /\ asyncCallbackMap' = [asyncCallbackMap EXCEPT ![i] = {}]
  /\ ended' = [r \in Request |->
                 IF r[1] = i /\ r[2] \in asyncCallbackMap[i]
                 THEN Append(ended[r], Cancelled) ELSE ended[r]]
  /\ UNCHANGED <<atom, made, asyncCallbackID, peer, wire, inbox, lateSent>>

(* OnStopping, which takes the entry out of e.atoms unless an IDTracker of  *)
(* the instance is held, and setHalted.                                     *)
Halt(i) ==
  /\ phase[i] = "cleared"
  /\ phase' = [phase EXCEPT ![i] = "halted"]
  /\ \/ atom' = atom
     \/ ~Held /\ atom = i /\ atom' = 0
  /\ UNCHANGED <<made, table, peer, wire, inbox, ended, lateSent>>

\* onInstanceRefsDrained: the last IDTracker of a halted instance is released.
Drained ==
  /\ ~Held
  /\ atom # 0 /\ phase[atom] \in {"halted", "failed"}
  /\ atom' = 0
  /\ UNCHANGED <<made, phase, table, peer, wire, inbox, ended, lateSent>>

Caller(i) ==
  \/ \E far \in BOOLEAN : Register(i, far) \/ RegisterLate(i, far)
  \/ \E m \in inbox[i] : OnAsyncMessagingCallback(i, m)
  \/ SpawnDone(i) \/ SpawnFailed(i) \/ Close(i) \/ asyncCancelAll(i) \/ Halt(i)

Target(r) ==
  Push(r) \/ Refuse(r) \/ HandlePanic(r) \/ \E res \in Result : Handle(r, res)

Next ==
  \/ Spawn \/ Drained
  \/ \E i \in Instance : Caller(i)
  \/ \E r \in Request : Target(r)
  \/ \E m \in wire : AsyncOnMessageCallback(m) \/ LoseReply(m)

Spec == Init /\ [][Next]_vars

(* The goroutines and the network go on, handlers return, and an atom that *)
(* has taken its exit mail gets to asyncCancelAll.                          *)
Fairness ==
  /\ \A r \in Request : WF_vars(Target(r))
  /\ \A m \in Reply : WF_vars(AsyncOnMessageCallback(m))
  /\ \A i \in Instance :
       /\ \A m \in Reply : WF_vars(OnAsyncMessagingCallback(i, m))
       /\ WF_vars(SpawnDone(i)) /\ WF_vars(asyncCancelAll(i))

FairSpec == Spec /\ Fairness
-----------------------------------------------------------------------------
\* No callback is called twice, whether by a reply, a stale one or the halt.
AtMostOnce == \A r \in Request : Len(ended[r]) <= 1

(* When asyncCancelAll is done every callback of the instance has been      *)
(* called: none was added behind it, none was missed for a refused push, a  *)
(* panic or a lost reply.                                                   *)
NoneLeftBehind ==
  \A r \in Request :
    phase[r[1]] \in {"cleared", "halted"} /\ stage[r] # "none"
      => ended[r] # << >>

(* The same of every instance that is gone, as the comment on asyncCancelAll *)
(* has it: no callback dies silently with its instance.                     *)
NoneDiesSilently ==
  \A r \in Request :
    phase[r[1]] \in {"halted", "failed"} /\ stage[r] # "none"
      => ended[r] # << >>

(* A reply from inside the process ends the callback of its own request,    *)
(* with the result the handler returned.                                    *)
LocalRepliesMatch ==
  \A r \in Request : \A k \in 1 .. Len(ended[r]) :
    LET o == ended[r][k] IN
    o.of # None /\ o.of \notin remote => o.of = r /\ o.result = result[r]

(* A stale reply finds no callback in a new instance (first lines of         *)
(* repro_async_stale_test.go), so a callback only ever gets its own reply.  *)
RepliesMatch ==
  \A r \in Request : \A k \in 1 .. Len(ended[r]) : ended[r][k].of \in {r, None}

(* A callback learns that its request failed, from another node too: it     *)
(* tests err first (the callback example of FRAMEWORK_GUIDE.md).            *)
ErrorsArrive ==
  \A r \in Request : \A k \in 1 .. Len(ended[r]) :
    ended[r][k].of = r => ended[r][k].result = result[r]

(* A message whose callback is already cancelled is not sent (comment in    *)
(* PushAsyncMessage).                                                       *)
CancelledNotSent == ~lateSent

(* If nothing is refused, panics or is lost, every callback is called.      *)
EveryCallbackEnds ==
  \A r \in Request : stage[r] = "registered" ~> ended[r] # << >>
=============================================================================
