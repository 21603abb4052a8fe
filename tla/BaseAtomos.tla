------------------------------ MODULE BaseAtomos ------------------------------
(***************************************************************************)
(* The life of one actor: BaseAtomos of base_atomos.go with its mailbox     *)
(* goroutine, from start to halt, and the goroutines that send it mails and *)
(* wait for an answer.  The list inside the mailbox is a sequence, which    *)
(* module Mailbox justifies; ids, asynchronous mails and tasks are the      *)
(* subject of modules AsyncCallback and TaskManager.                       *)
(*                                                                         *)
(* A mail has one sender, so the state of the sender is a function of the   *)
(* mail.                                                                   *)
(***************************************************************************)
EXTENDS Naturals, Sequences, SequencesExt

CONSTANTS Sync,      \* the mails of PushSyncMessage
          Wormhole,  \* of PushWormholeMailAndWaitReply
          Kill,      \* of PushKillMail with ArgBaseAtomosWaitKilled
          KillSelf,  \* of PushKillMail without it
          Callback,  \* of PushTaskCallbackMail
          Fault,     \* what may go wrong, of the set below
          None

Mail == Sync \cup Wormhole \cup Kill \cup KillSelf \cup Callback
Message == Sync \cup Wormhole
Exit == Kill \cup KillSelf
Waited == Message \cup Kill

\* What comes through waitCh, and what a sender is told.
Reply == {"ok", "stopping"}
Told == Reply \cup {"notRunning", "rejected", "handling", "sent"}

ASSUME BaseAtomosAssumption ==
  /\ Fault \subseteq {"spawn", "wormhole", "stop"}
  /\ None \notin Mail \cup Told
  /\ Message \cap (Exit \cup Callback) = {}
  /\ Exit \cap Callback = {} /\ Kill \cap KillSelf = {}
  /\ Sync \cap Wormhole = {}

VARIABLES
  state,     \* a.state
  running,   \* mailbox.running
  queue,     \* the list of the mailbox
  loop,      \* where the mailbox goroutine is, see Loop
  curMail,   \* the mail it has taken
  remain,    \* the rest of the list popAll took
  sender,    \* of each mail: "new", "waiting" in waitReply, "done"
  waitCh,    \* the channel of each mail, of capacity one
  answer,    \* what the sender was told
  executed,  \* the mails whose handler or callback has begun (history)
  panicked   \* the mails whose answer a panic has skipped (history)

vars == <<state, running, queue, loop, curMail, remain, sender, waitCh, answer,
          executed, panicked>>

box == <<running, queue>>
sending == <<sender, answer>>
history == <<executed, panicked>>

State == {"spawning", "waiting", "busy", "stopping", "halt"}

\* "exit": the exit mail is taken; "closed": running is false; "onStop":
\* popAll is done; "walk": the state is Stopping; "stopped": OnStopping is over.
Loop == {"none", "startup", "spawn", "failed", "idle", "taken", "handler",
         "handled", "exit", "closed", "onStop", "walk", "stopped", "ended"}

TypeOK ==
  /\ state \in State /\ running \in BOOLEAN
  /\ queue \in Seq(Mail) /\ remain \in Seq(Mail)
  /\ loop \in Loop /\ curMail \in Mail \cup {None}
  /\ sender \in [Mail -> {"new", "waiting", "done"}]
  /\ waitCh \in [Mail -> Reply \cup {None}]
  /\ answer \in [Mail -> Told \cup {None}]
  /\ executed \subseteq Mail /\ panicked \subseteq Mail

Init ==
  /\ state = "halt" /\ running = FALSE /\ queue = << >> /\ remain = << >>
  /\ loop = "none" /\ curMail = None
  /\ sender = [m \in Mail |-> "new"]
  /\ waitCh = [m \in Mail |-> None]
  /\ answer = [m \in Mail |-> None]
  /\ executed = {} /\ panicked = {}

-----------------------------------------------------------------------------
\* mailBox.start: the box accepts mails before its goroutine has run.
Start ==
  /\ loop = "none"
  /\ loop' = "startup" /\ running' = TRUE
  /\ UNCHANGED <<state, queue, curMail, remain, waitCh, sending, history>>

setSpawning ==
  /\ loop = "startup"
  /\ loop' = "spawn" /\ state' = "spawning"
  /\ UNCHANGED <<box, curMail, remain, waitCh, sending, history>>

setSpawn ==
  /\ loop = "spawn"
  /\ loop' = "idle" /\ state' = "waiting"
  /\ UNCHANGED <<box, curMail, remain, waitCh, sending, history>>

\* The spawner returns an error or panics: setHalted, and the goroutine ends.
SpawnFailed ==
  /\ "spawn" \in Fault
  /\ loop = "spawn"
  /\ loop' = "failed" /\ state' = "halt"
  /\ UNCHANGED <<box, curMail, remain, waitCh, sending, history>>

\* startLoop has received the error: what is in the list stays there.
StartFailed ==
  /\ loop = "failed" /\ running
  /\ running' = FALSE
  /\ UNCHANGED <<state, queue, loop, curMail, remain, waitCh, sending, history>>

-----------------------------------------------------------------------------
Queued(m) == \E i \in 1 .. Len(queue) : queue[i] = m

\* Where a mail may be put: task callbacks always go to the tail.
Pushed(m) == {Append(queue, m)} \cup
             IF m \in Callback THEN {} ELSE {<<m>> \o queue}

(* PushSyncMessage, PushWormholeMailAndWaitReply, PushKillMail and           *)
(* PushTaskCallbackMail; the first two and a waiting kill go on to waitReply. *)
Push(m) ==
  /\ sender[m] = "new" /\ running
  /\ queue' \in Pushed(m)
  /\ sender' = [sender EXCEPT ![m] = IF m \in Waited THEN "waiting" ELSE "done"]
  /\ answer' = [answer EXCEPT ![m] = IF m \in Waited THEN None ELSE "sent"]
  /\ UNCHANGED <<state, running, loop, curMail, remain, waitCh, history>>

PushRefused(m) ==
  /\ sender[m] = "new" /\ ~running /\ loop # "none"
  /\ sender' = [sender EXCEPT ![m] = "done"]
  /\ answer' = [answer EXCEPT ![m] = "notRunning"]
  /\ UNCHANGED <<state, box, loop, curMail, remain, waitCh, history>>

\* waitReply: the reply has come.
Answered(m) ==
  /\ sender[m] = "waiting" /\ waitCh[m] # None
  /\ sender' = [sender EXCEPT ![m] = "done"]
  /\ answer' = [answer EXCEPT ![m] = waitCh[m]]
  /\ waitCh' = [waitCh EXCEPT ![m] = None]
  /\ UNCHANGED <<state, box, loop, curMail, remain, history>>

\* Mutant of TimedOut: what removeMail returns is not looked at.
TimedOutRejected(m) ==
  /\ sender[m] = "waiting"
  /\ sender' = [sender EXCEPT ![m] = "done"]
  /\ answer' = [answer EXCEPT ![m] = "rejected"]
  /\ IF Queued(m)
     THEN \E i \in 1 .. Len(queue) :
            queue[i] = m /\ queue' = RemoveAt(queue, i)
     ELSE UNCHANGED queue
  /\ UNCHANGED <<state, running, loop, curMail, remain, waitCh, history>>

(* waitReply: the timer has fired, and perhaps the reply has come as well.  *)
(* removeMail takes the mail out of the list, or says that it is not there. *)
TimedOut(m) ==
  /\ sender[m] = "waiting"
  /\ sender' = [sender EXCEPT ![m] = "done"]
  /\ \/ /\ \E i \in 1 .. Len(queue) :
             queue[i] = m /\ queue' = RemoveAt(queue, i)
        /\ answer' = [answer EXCEPT ![m] = "rejected"]
     \/ /\ ~Queued(m)
        /\ queue' = queue
        /\ answer' = [answer EXCEPT ![m] = "handling"]
  /\ UNCHANGED <<state, running, loop, curMail, remain, waitCh, history>>

\* sendReply: a full channel keeps the reply it has.
sendReply(m, r) == waitCh' = [waitCh EXCEPT ![m] = IF @ = None THEN r ELSE @]

-----------------------------------------------------------------------------
\* waitPop gives the loop the first mail of the list.
Take ==
  /\ loop = "idle" /\ queue # << >>
  /\ curMail' = Head(queue) /\ queue' = Tail(queue)
  /\ loop' = IF Head(queue) \in Exit THEN "exit" ELSE "taken"
  /\ UNCHANGED <<state, running, remain, waitCh, sending, history>>

\* mailboxOnReceive begins: setBusy, and the handler is called.
setBusy ==
  /\ loop = "taken"
  /\ loop' = "handler" /\ state' = "busy"
  /\ executed' = executed \cup {curMail}
  /\ UNCHANGED <<box, curMail, remain, waitCh, sending, panicked>>

(* The handler returns and the answer is sent.  OnSyncMessaging and          *)
(* OnFnCallback recover from a panic of their own, so that it is an error.  *)
HandlerDone ==
  /\ loop = "handler"
  /\ loop' = "handled"
  /\ IF curMail \in Message THEN sendReply(curMail, "ok") ELSE UNCHANGED waitCh
  /\ UNCHANGED <<state, box, curMail, remain, sending, history>>

\* OnWormhole does not recover: the loop does, behind sendReply.
WormholePanic ==
  /\ "wormhole" \in Fault
  /\ loop = "handler" /\ curMail \in Wormhole
  /\ loop' = "handled"
  /\ panicked' = panicked \cup {curMail}
  /\ UNCHANGED <<state, box, curMail, remain, waitCh, sending, executed>>

\* The deferred setWaiting.
setWaiting ==
  /\ loop = "handled"
  /\ loop' = "idle" /\ state' = "waiting" /\ curMail' = None
  /\ UNCHANGED <<box, remain, waitCh, sending, history>>

-----------------------------------------------------------------------------
\* The loop has an exit mail: the box refuses mails from here on.
ExitRefuse ==
  /\ loop = "exit"
  /\ loop' = "closed" /\ running' = FALSE
  /\ UNCHANGED <<state, queue, curMail, remain, waitCh, sending, history>>

popAll ==
  /\ loop = "closed"
  /\ loop' = "onStop" /\ remain' = queue /\ queue' = << >>
  /\ UNCHANGED <<state, running, curMail, waitCh, sending, history>>

\* asyncCancelAll and stopLock come first, see AsyncCallback and TaskManager.
setStopping ==
  /\ loop = "onStop"
  /\ loop' = "walk" /\ state' = "stopping"
  /\ UNCHANGED <<box, curMail, remain, waitCh, sending, history>>

\* Mutant of Walk: the remaining calls are dropped without an answer.
WalkSilently ==
  /\ loop = "walk" /\ remain # << >>
  /\ LET m == Head(remain) IN
     /\ IF m \in Kill THEN sendReply(m, "ok") ELSE UNCHANGED waitCh
     /\ executed' = IF m \in Callback THEN executed \cup {m} ELSE executed
  /\ remain' = Tail(remain)
  /\ UNCHANGED <<state, box, loop, curMail, sending, panicked>>

\* Mutant of Walk: the remaining calls are still handled.
WalkHandles ==
  /\ loop = "walk" /\ remain # << >>
  /\ LET m == Head(remain) IN
     /\ IF m \in Waited THEN sendReply(m, "ok") ELSE UNCHANGED waitCh
     /\ executed' = IF m \in Exit THEN executed ELSE executed \cup {m}
  /\ remain' = Tail(remain)
  /\ UNCHANGED <<state, box, loop, curMail, sending, panicked>>

(* One mail of the list that was left: another kill is answered without an  *)
(* error, a call with ErrAtomosIsStopping, and a callback is still called.   *)
Walk ==
  /\ loop = "walk" /\ remain # << >>
  /\ LET m == Head(remain) IN
     /\ CASE m \in Kill -> sendReply(m, "ok")
          [] m \in Message -> sendReply(m, "stopping")
          [] OTHER -> UNCHANGED waitCh
     /\ executed' = IF m \in Callback THEN executed \cup {m} ELSE executed
  /\ remain' = Tail(remain)
  /\ UNCHANGED <<state, box, loop, curMail, sending, panicked>>

(* OnStopping of the holder, and the answer to the kill.  AtomLocal recovers *)
(* from a panic of its own.                                                 *)
OnStopping ==
  /\ loop = "walk" /\ remain = << >>
  /\ loop' = "stopped"
  /\ IF curMail \in Kill THEN sendReply(curMail, "ok") ELSE UNCHANGED waitCh
  /\ UNCHANGED <<state, box, curMail, remain, sending, history>>

(* OnStopping of an element panics in StopTimeout or StopGap, outside its    *)
(* own recovery: mailboxOnStop recovers, behind sendReply.                  *)
StopPanic ==
  /\ "stop" \in Fault
  /\ loop = "walk" /\ remain = << >>
  /\ loop' = "stopped"
  /\ panicked' = panicked \cup {curMail}
  /\ UNCHANGED <<state, box, curMail, remain, waitCh, sending, executed>>

\* The deferred setHalted, after the answer.
setHalted ==
  /\ loop = "stopped"
  /\ loop' = "ended" /\ state' = "halt" /\ curMail' = None
  /\ UNCHANGED <<box, remain, waitCh, sending, history>>

-----------------------------------------------------------------------------
Sender(m) == Push(m) \/ PushRefused(m) \/ Answered(m) \/ TimedOut(m)

Goroutine ==
  \/ setSpawning \/ setSpawn \/ SpawnFailed
  \/ Take \/ setBusy \/ HandlerDone \/ WormholePanic \/ setWaiting
  \/ ExitRefuse \/ popAll \/ setStopping \/ Walk \/ OnStopping \/ StopPanic
  \/ setHalted

Next ==
  \/ Start \/ StartFailed \/ Goroutine
  \/ \E m \in Mail : Sender(m)

Spec == Init /\ [][Next]_vars

(* The mailbox goroutine runs when it can, and so does a sender whose reply  *)
(* is there.  Timers need not fire, and nobody has to send.                 *)
Fairness == WF_vars(Goroutine) /\ \A m \in Mail : WF_vars(Answered(m))

FairSpec == Spec /\ Fairness
-----------------------------------------------------------------------------
(* What a sender is told is what has happened.  A message that was refused,  *)
(* withdrawn by the timer or left over by a stop is not handled and never    *)
(* will be, so that it may be sent again; one that was answered was handled; *)
(* and the reply channel of a mail that is still to be served is empty.      *)
AnswersAreTrue ==
  /\ \A m \in Message :
       /\ answer[m] \in {"notRunning", "rejected", "stopping"}
            => m \notin executed
       /\ answer[m] = "ok" => m \in executed
  /\ \A i \in 1 .. Len(queue) : waitCh[queue[i]] = None
  /\ \A i \in 1 .. Len(remain) : waitCh[remain[i]] = None

(* The states the code reports as framework errors never occur: a mail is    *)
(* served, and a stop begins, in the state Waiting only.                     *)
InStep ==
  /\ loop \in {"idle", "taken", "exit", "closed", "onStop"} => state = "waiting"
  /\ loop = "ended" => state = "halt" /\ ~running /\ queue = << >>

(* From the moment on in which one kill has been answered no message is      *)
(* handled any more.                                                        *)
NothingAfterKilled ==
  [][(\E k \in Kill : answer[k] = "ok")
       => executed' \cap Message = executed \cap Message]_vars

(* A kill that waits returns when the actor has been killed                 *)
(* (ArgBaseAtomosWaitKilled in args.go): OnStopping is over by then.        *)
WaitKilled ==
  \A k \in Kill : answer[k] = "ok" => loop \in {"stopped", "ended"}

(* Without timers every sender is answered, unless the actor's start fails  *)
(* or a panic has skipped the answer.                                       *)
EverySenderAnswered ==
  \A m \in Waited :
    sender[m] = "waiting" ~> sender[m] = "done" \/ m \in panicked
                             \/ loop = "failed"

=============================================================================
