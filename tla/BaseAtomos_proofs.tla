-------------------------- MODULE BaseAtomos_proofs --------------------------
(***************************************************************************)
(* For any set of mails of each kind: type correctness, the states of the  *)
(* actor are in step with its mailbox goroutine, what a sender is told is  *)
(* what has happened, and nothing is handled after an answered kill.       *)
(***************************************************************************)
EXTENDS BaseAtomos, QueueLemmas

-----------------------------------------------------------------------------
(* The goroutine is in mailboxOnStop, behind setStopping.                  *)
After == {"walk", "stopped", "ended"}

(* What the place of the goroutine says of the mailbox and its mail.       *)
Phases ==
  /\ loop \in {"none", "closed", "onStop", "walk", "stopped", "ended"}
       => ~running
  /\ loop \in {"onStop", "walk", "stopped", "ended"} => queue = << >>
  /\ loop \notin {"onStop", "walk"} => remain = << >>
  /\ loop \in {"none", "startup", "spawn", "failed", "idle", "ended"}
       => curMail = None
  /\ loop \in {"taken", "handler", "handled"} => curMail \in Mail \ Exit
  /\ loop \in {"exit", "closed", "onStop", "walk", "stopped"}
       => curMail \in Exit

(* A mail that was sent, and that the goroutine has not served.            *)
Untouched(m) ==
  /\ sender[m] # "new" /\ m \notin executed
  /\ waitCh[m] = None /\ answer[m] \in {None, "sent", "handling"}

(* A mail lies in one place only, untouched until it is served.            *)
Placed ==
  /\ Distinct(queue) /\ Distinct(remain)
  /\ \A m \in Mail : In(m, queue) \/ In(m, remain)
                       => Untouched(m) /\ m # curMail
  /\ loop = "taken" => Untouched(curMail)
  /\ loop = "handler" => curMail \in executed
  /\ \A m \in Mail : sender[m] = "new" =>
       /\ m # curMail /\ m \notin executed
       /\ waitCh[m] = None /\ answer[m] = None

(* What an answer, given or on its way, says of its mail.                  *)
Answers ==
  /\ \A m \in Message :
       /\ waitCh[m] = "ok" \/ answer[m] = "ok" => m \in executed
       /\ waitCh[m] = "stopping" \/ answer[m] = "stopping"
            => m \notin executed /\ loop \in After
       /\ answer[m] \in {"notRunning", "rejected"}
            => m \notin executed /\ sender[m] = "done"
  /\ \A k \in Kill : waitCh[k] = "ok" \/ answer[k] = "ok" => loop \in After

Inv == TypeOK /\ Phases /\ InStep /\ Placed /\ Answers

-----------------------------------------------------------------------------
(* The mails are of the kinds the variables speak of, and of one kind each; *)
(* None is no mail and nothing a sender is told.                            *)
LEMMA Kinds ==
  /\ Message \subseteq Mail /\ Exit \subseteq Mail /\ Kill \subseteq Exit
  /\ Kill \subseteq Mail /\ Callback \subseteq Mail
  /\ Waited = Message \cup Kill
  /\ Message \cap Exit = {} /\ Message \cap Callback = {}
  /\ Exit \cap Callback = {}
  /\ None \notin Mail /\ None \notin Told
<1>1. None \notin Mail /\ None \notin Told
  BY BaseAtomosAssumption
<1>2. /\ Message \subseteq Mail /\ Exit \subseteq Mail /\ Kill \subseteq Exit
      /\ Kill \subseteq Mail /\ Callback \subseteq Mail
      /\ Waited = Message \cup Kill
  BY DEF Mail, Message, Exit, Waited
<1>3. /\ Message \cap Exit = {} /\ Message \cap Callback = {}
      /\ Exit \cap Callback = {}
  BY BaseAtomosAssumption
<1>4. QED
  BY <1>1, <1>2, <1>3

(* At the start there is no mail anywhere.                                 *)
LEMMA InitInv == Init => Inv
<1>1. SUFFICES ASSUME Init PROVE Inv
  OBVIOUS
<1>2. TypeOK
  <2>1. << >> \in Seq(Mail)
    OBVIOUS
  <2>2. QED
    BY <1>1, <2>1 DEF Init, TypeOK, State, Loop
<1>3. Phases /\ InStep
  BY <1>1 DEF Init, Phases, InStep
<1>4. Placed
  <2>1. queue = << >> /\ remain = << >> /\ curMail = None /\ loop = "none"
    BY <1>1 DEF Init
  <2>2. \A m \in Mail : /\ m \notin executed /\ m # curMail
                        /\ waitCh[m] = None /\ answer[m] = None
    BY <1>1, Kinds DEF Init
  <2>3. QED
    BY <2>1, <2>2, EmptyQueue DEF Placed
<1>5. Answers
  BY <1>1, Kinds DEF Init, Answers, Told, Reply
<1>6. QED
  BY <1>2, <1>3, <1>4, <1>5 DEF Inv

(* The start and the end of the goroutine, and the deferred state changes: *)
(* no mail is moved or answered.                                           *)
LEMMA QuietStep ==
  ASSUME Inv, Start \/ setSpawning \/ setSpawn \/ SpawnFailed \/ StartFailed
                \/ setWaiting \/ ExitRefuse \/ setStopping \/ setHalted
  PROVE  Inv'
<1>1. UNCHANGED <<queue, remain, waitCh, sender, answer, executed, panicked>>
  BY DEF Start, setSpawning, setSpawn, SpawnFailed, StartFailed, setWaiting,
         ExitRefuse, setStopping, setHalted, box, sending, history
<1>2. TypeOK'
  BY DEF Inv, TypeOK, Start, setSpawning, setSpawn, SpawnFailed, StartFailed,
         setWaiting, ExitRefuse, setStopping, setHalted, box, sending, history,
         State, Loop
<1>3. Phases'
  BY DEF Inv, Phases, Start, setSpawning, setSpawn, SpawnFailed, StartFailed,
         setWaiting, ExitRefuse, setStopping, setHalted, box
<1>4. InStep'
  BY DEF Inv, Phases, InStep, Start, setSpawning, setSpawn, SpawnFailed,
         StartFailed, setWaiting, ExitRefuse, setStopping, setHalted, box
<1>5. /\ curMail' = curMail \/ curMail' = None
      /\ loop' \notin {"taken", "handler"}
      /\ loop \in After => loop' \in After
  BY DEF Inv, Phases, Start, setSpawning, setSpawn, SpawnFailed, StartFailed,
         setWaiting, ExitRefuse, setStopping, setHalted, After
<1>6. Placed'
  BY <1>1, <1>5, Kinds DEF Inv, Placed, Untouched
<1>7. Answers'
  BY <1>1, <1>5 DEF Inv, Answers
<1>8. QED
  BY <1>2, <1>3, <1>4, <1>6, <1>7 DEF Inv

(* A mail that is pushed was nowhere before.                               *)
LEMMA PushStep ==
  ASSUME Inv, NEW m \in Mail, Push(m)
  PROVE  Inv'
<1> USE DEF sending, history, box
<1>1. UNCHANGED <<state, running, loop, curMail, remain, waitCh, executed,
                  panicked>> /\ sender[m] = "new" /\ running
  BY DEF Push
<1>2. /\ queue' \in Seq(Mail)
      /\ \A x : In(x, queue') => In(x, queue) \/ x = m
      /\ Distinct(queue')
  <2>1. queue \in Seq(Mail) /\ Distinct(queue) /\ ~In(m, queue)
    BY <1>1 DEF Inv, TypeOK, Placed, Untouched
  <2>2. queue' = Append(queue, m) \/ queue' = <<m>> \o queue
    BY DEF Push, Pushed
  <2>3. CASE queue' = Append(queue, m)
    BY <2>1, <2>3, AppendElements
  <2>4. CASE queue' = <<m>> \o queue
    BY <2>1, <2>4, ConsElements
  <2>5. QED
    BY <2>2, <2>3, <2>4
<1>3. /\ sender' = [sender EXCEPT ![m] = IF m \in Waited THEN "waiting"
                                        ELSE "done"]
      /\ answer' = [answer EXCEPT ![m] = IF m \in Waited THEN None ELSE "sent"]
  BY DEF Push
<1>4. TypeOK'
  <2>1. None \in Told \cup {None} /\ "sent" \in Told \cup {None}
    BY DEF Told
  <2>2. QED
    BY <1>1, <1>2, <1>3, <2>1 DEF Inv, TypeOK
<1>5. Phases' /\ InStep'
  BY <1>1 DEF Inv, Phases, InStep
<1>6. /\ sender'[m] # "new" /\ answer'[m] \in {None, "sent"}
      /\ \A x \in Mail \ {m} : sender'[x] = sender[x] /\ answer'[x] = answer[x]
  BY <1>3 DEF Inv, TypeOK
<1>7. Placed'
  BY <1>1, <1>2, <1>6 DEF Inv, Phases, Placed, Untouched
<1>8. Answers'
  <2>1. m \notin executed /\ waitCh[m] = None
    BY <1>1 DEF Inv, Placed
  <2>2. \A r \in {"ok", "stopping", "notRunning", "rejected"} :
          r # None /\ r # "sent"
    BY Kinds DEF Told, Reply
  <2>3. QED
    BY <1>1, <1>6, <2>1, <2>2, Kinds DEF Inv, Answers
<1>9. QED
  BY <1>4, <1>5, <1>7, <1>8 DEF Inv

(* The other steps of a sender: it is told something, and is done.         *)
LEMMA RefusedStep ==
  ASSUME Inv, NEW m \in Mail, PushRefused(m)
  PROVE  Inv'
<1>1. /\ UNCHANGED <<state, queue, running, loop, curMail, remain, waitCh,
                     executed, panicked>>
      /\ sender[m] = "new"
      /\ sender' = [sender EXCEPT ![m] = "done"]
      /\ answer' = [answer EXCEPT ![m] = "notRunning"]
  BY DEF PushRefused, box, history
<1>2. TypeOK'
  <2>1. "notRunning" \in Told \cup {None}
    BY DEF Told
  <2>2. QED
    BY <1>1, <2>1 DEF Inv, TypeOK
<1>3. Phases' /\ InStep'
  BY <1>1 DEF Inv, Phases, InStep
<1>4. /\ sender'[m] = "done" /\ answer'[m] = "notRunning"
      /\ \A x \in Mail \ {m} : sender'[x] = sender[x] /\ answer'[x] = answer[x]
  BY <1>1 DEF Inv, TypeOK
<1>5. Placed'
  BY <1>1, <1>4 DEF Inv, Placed, Untouched
<1>6. Answers'
  <2>1. m \notin executed /\ waitCh[m] = None
    BY <1>1 DEF Inv, Placed
  <2>2. None # "ok" /\ None # "stopping"
    BY Kinds DEF Told, Reply
  <2>3. QED
    BY <1>1, <1>4, <2>1, <2>2, Kinds DEF Inv, Answers
<1>7. QED
  BY <1>2, <1>3, <1>5, <1>6 DEF Inv

\* A sender takes the answer in its channel.
LEMMA AnsweredStep ==
  ASSUME Inv, NEW m \in Mail, Answered(m)
  PROVE  Inv'
<1>1. /\ UNCHANGED <<state, queue, running, loop, curMail, remain,
                     executed, panicked>>
      /\ sender[m] = "waiting" /\ waitCh[m] # None
      /\ sender' = [sender EXCEPT ![m] = "done"]
      /\ answer' = [answer EXCEPT ![m] = waitCh[m]]
      /\ waitCh' = [waitCh EXCEPT ![m] = None]
  BY DEF Answered, box, history
<1>2. TypeOK'
  <2>1. waitCh[m] \in Told \cup {None}
    BY DEF Inv, TypeOK, Told
  <2>2. QED
    BY <1>1, <2>1 DEF Inv, TypeOK
<1>3. Phases' /\ InStep'
  BY <1>1 DEF Inv, Phases, InStep
<1>4. /\ sender'[m] = "done" /\ answer'[m] = waitCh[m] /\ waitCh'[m] = None
      /\ \A x \in Mail \ {m} : /\ sender'[x] = sender[x]
                               /\ answer'[x] = answer[x]
                               /\ waitCh'[x] = waitCh[x]
  BY <1>1 DEF Inv, TypeOK
<1>5. Placed'
  <2>1. \A x \in Mail : In(x, queue) \/ In(x, remain) => x # m
    BY <1>1 DEF Inv, Placed, Untouched
  <2>2. loop = "taken" => curMail # m
    BY <1>1 DEF Inv, Placed, Untouched
  <2>3. loop = "taken" => curMail \in Mail
    BY DEF Inv, Phases
  <2>4. QED
    BY <1>1, <1>4, <2>1, <2>2, <2>3 DEF Inv, Placed, Untouched
<1>6. Answers'
  <2>1. None # "ok" /\ None # "stopping" /\ waitCh[m] \in {"ok", "stopping"}
    BY <1>1, Kinds DEF Told, Reply, Inv, TypeOK
  <2>2. QED
    BY <1>1, <1>4, <2>1, Kinds DEF Inv, Answers
<1>7. QED
  BY <1>2, <1>3, <1>5, <1>6 DEF Inv

\* A sender gives up waiting, and takes its mail back if it can.
LEMMA TimedOutStep ==
  ASSUME Inv, NEW m \in Mail, TimedOut(m)
  PROVE  Inv'
<1>1. /\ UNCHANGED <<state, running, loop, curMail, remain, waitCh, executed,
                     panicked>>
      /\ sender[m] = "waiting"
      /\ sender' = [sender EXCEPT ![m] = "done"]
  BY DEF TimedOut, history
<1>2. \/ /\ In(m, queue)
         /\ answer' = [answer EXCEPT ![m] = "rejected"]
         /\ \E i \in 1 .. Len(queue) : /\ queue[i] = m
                                       /\ queue' = RemoveAt(queue, i)
      \/ /\ ~In(m, queue) /\ queue' = queue
         /\ answer' = [answer EXCEPT ![m] = "handling"]
  BY DEF TimedOut, Queued, In
<1>3. /\ queue' \in Seq(Mail) /\ Distinct(queue') /\ ~In(m, queue')
      /\ \A x : In(x, queue') => In(x, queue)
  BY <1>2, RemoveElements DEF Inv, TypeOK, Placed
<1>4. /\ sender'[m] = "done"
      /\ \/ In(m, queue) /\ answer'[m] = "rejected"
         \/ ~In(m, queue) /\ answer'[m] = "handling"
      /\ \A x \in Mail \ {m} : sender'[x] = sender[x] /\ answer'[x] = answer[x]
  BY <1>1, <1>2 DEF Inv, TypeOK
<1>5. TypeOK'
  <2>1. "rejected" \in Told \cup {None} /\ "handling" \in Told \cup {None}
    BY DEF Told
  <2>2. answer' \in [Mail -> Told \cup {None}]
    BY <1>2, <2>1 DEF Inv, TypeOK
  <2>3. QED
    BY <1>1, <1>3, <2>2 DEF Inv, TypeOK
<1>6. Phases' /\ InStep'
  <2>1. queue = << >> => queue' = << >>
    BY <1>2, EmptyQueue
  <2>2. QED
    BY <1>1, <2>1 DEF Inv, Phases, InStep
<1>7. Placed'
  <2>1. In(m, remain) => ~In(m, queue)
    BY EmptyQueue DEF Inv, Phases
  <2>2. In(m, queue) => m # curMail
    BY DEF Inv, Placed
  <2>3. loop = "taken" => curMail \in Mail
    BY DEF Inv, Phases
  <2>4. QED
    BY <1>1, <1>3, <1>4, <2>1, <2>2, <2>3 DEF Inv, Placed, Untouched
<1>8. Answers'
  <2>1. In(m, queue) => m \notin executed
    BY DEF Inv, Placed, Untouched
  <2>2. QED
    BY <1>1, <1>4, <2>1, Kinds DEF Inv, Answers
<1>9. QED
  BY <1>5, <1>6, <1>7, <1>8 DEF Inv

-----------------------------------------------------------------------------
(* The goroutine takes the first mail: it is in no other place.            *)
LEMMA TakeStep ==
  ASSUME Inv, Take
  PROVE  Inv'
<1> DEFINE m == Head(queue)
<1>1. /\ UNCHANGED <<state, running, remain, waitCh, sender, answer, executed,
                     panicked>>
      /\ loop = "idle" /\ queue # << >> /\ queue' = Tail(queue) /\ curMail' = m
      /\ loop' = IF m \in Exit THEN "exit" ELSE "taken"
  BY DEF Take, sending, history
<1>2. /\ queue' \in Seq(Mail) /\ m \in Mail /\ In(m, queue)
      /\ Distinct(queue') /\ ~In(m, queue')
      /\ \A x : In(x, queue') => In(x, queue)
  BY <1>1, TailElements DEF Inv, TypeOK, Placed
<1> HIDE DEF m
<1>3. TypeOK'
  BY <1>1, <1>2 DEF Inv, TypeOK, Loop
<1>4. Phases' /\ InStep'
  BY <1>1, <1>2 DEF Inv, Phases, InStep
<1>5. Untouched(m)
  BY <1>2 DEF Inv, Placed
<1>6. Placed'
  <2>1. remain = << >>
    BY <1>1 DEF Inv, Phases
  <2>2. QED
    BY <1>1, <1>2, <1>5, <2>1, EmptyQueue DEF Inv, Placed, Untouched
<1>7. Answers'
  BY <1>1 DEF Inv, Answers, After
<1>8. QED
  BY <1>3, <1>4, <1>6, <1>7 DEF Inv

\* The mailbox goroutine begins to handle the mail it took.
LEMMA BusyStep ==
  ASSUME Inv, setBusy
  PROVE  Inv'
<1>1. /\ UNCHANGED <<running, queue, curMail, remain, waitCh, sender, answer,
                     panicked>>
      /\ loop = "taken" /\ loop' = "handler" /\ state' = "busy"
      /\ executed' = executed \cup {curMail}
  BY DEF setBusy, box, sending
<1>2. curMail \in Mail \ Exit /\ Untouched(curMail)
  BY <1>1 DEF Inv, Phases, Placed
<1>3. TypeOK'
  BY <1>1, <1>2 DEF Inv, TypeOK, State, Loop
<1>4. Phases' /\ InStep'
  BY <1>1 DEF Inv, Phases, InStep
<1>5. Placed'
  BY <1>1, <1>2 DEF Inv, Placed, Untouched
<1>6. Answers'
  <2>1. None \notin {"stopping", "notRunning", "rejected"}
    BY Kinds DEF Told, Reply
  <2>2. QED
    BY <1>1, <1>2, <2>1, Kinds DEF Inv, Answers, Untouched, After
<1>7. QED
  BY <1>3, <1>4, <1>5, <1>6 DEF Inv

(* The handler is over, with an answer or by a panic.                      *)
LEMMA HandledStep ==
  ASSUME Inv, HandlerDone \/ WormholePanic
  PROVE  Inv'
<1>1. /\ UNCHANGED <<state, running, queue, curMail, remain, sender, answer,
                     executed>>
      /\ loop = "handler" /\ loop' = "handled"
      /\ panicked' \in {panicked, panicked \cup {curMail}}
  BY DEF HandlerDone, WormholePanic, box, sending, history
<1>2. /\ curMail \in Mail \ Exit /\ curMail \in executed
      /\ ~In(curMail, queue) /\ ~In(curMail, remain) /\ sender[curMail] # "new"
  BY <1>1, Kinds DEF Inv, Phases, Placed
<1>3. /\ waitCh' \in [Mail -> Reply \cup {None}]
      /\ \A x \in Mail : x # curMail => waitCh'[x] = waitCh[x]
      /\ waitCh'[curMail] \in {waitCh[curMail], "ok"}
  BY <1>2 DEF HandlerDone, WormholePanic, sendReply, Inv, TypeOK, Reply
<1>4. TypeOK'
  BY <1>1, <1>2, <1>3 DEF Inv, TypeOK, Loop
<1>5. Phases' /\ InStep'
  BY <1>1 DEF Inv, Phases, InStep
<1>6. Placed'
  BY <1>1, <1>2, <1>3 DEF Inv, Placed, Untouched
<1>7. Answers'
  BY <1>1, <1>2, <1>3, Kinds DEF Inv, Answers, After
<1>8. QED
  BY <1>4, <1>5, <1>6, <1>7 DEF Inv

(* popAll moves the whole list.                                            *)
LEMMA PopAllStep ==
  ASSUME Inv, popAll
  PROVE  Inv'
<1>1. /\ UNCHANGED <<state, running, curMail, waitCh, sender, answer, executed,
                     panicked>>
      /\ loop = "closed" /\ loop' = "onStop"
      /\ remain' = queue /\ queue' = << >>
  BY DEF popAll, sending, history
<1>2. TypeOK'
  <2>1. << >> \in Seq(Mail)
    OBVIOUS
  <2>2. QED
    BY <1>1, <2>1 DEF Inv, TypeOK, Loop
<1>3. Phases' /\ InStep'
  BY <1>1 DEF Inv, Phases, InStep
<1>4. Placed'
  BY <1>1, EmptyQueue DEF Inv, Placed, Untouched
<1>5. Answers'
  BY <1>1 DEF Inv, Answers, After
<1>6. QED
  BY <1>2, <1>3, <1>4, <1>5 DEF Inv

(* A mail that was left over is answered, and is behind the others.        *)
LEMMA WalkStep ==
  ASSUME Inv, Walk
  PROVE  Inv'
<1> DEFINE m == Head(remain)
<1>1. /\ UNCHANGED <<state, running, queue, loop, curMail, sender, answer,
                     panicked>>
      /\ loop = "walk" /\ remain # << >> /\ remain' = Tail(remain)
      /\ executed' = IF m \in Callback THEN executed \cup {m} ELSE executed
  BY DEF Walk, sending, box
<1>2. /\ remain' \in Seq(Mail) /\ m \in Mail /\ In(m, remain)
      /\ Distinct(remain') /\ ~In(m, remain')
      /\ \A x : In(x, remain') => In(x, remain)
  BY <1>1, TailElements DEF Inv, TypeOK, Placed
<1>3. /\ m \in Kill =>
           waitCh' = [waitCh EXCEPT ![m] = IF @ = None THEN "ok" ELSE @]
      /\ m \in Message =>
           waitCh' = [waitCh EXCEPT ![m] = IF @ = None THEN "stopping" ELSE @]
      /\ m \notin Kill /\ m \notin Message => waitCh' = waitCh
  BY Kinds DEF Walk, sendReply
<1> HIDE DEF m
<1>4. Untouched(m) /\ m # curMail /\ queue = << >>
  BY <1>1, <1>2 DEF Inv, Placed, Phases
<1>5. /\ waitCh' \in [Mail -> Reply \cup {None}]
      /\ \A x \in Mail : x # m => waitCh'[x] = waitCh[x]
      /\ m \in Kill => waitCh'[m] = "ok"
      /\ m \in Message => waitCh'[m] = "stopping"
      /\ m \notin Kill /\ m \notin Message => waitCh'[m] = None
  BY <1>2, <1>3, <1>4 DEF Inv, TypeOK, Reply, Untouched
<1>6. TypeOK'
  BY <1>1, <1>2, <1>5 DEF Inv, TypeOK
<1>7. Phases' /\ InStep'
  BY <1>1 DEF Inv, Phases, InStep
<1>8. Placed'
  <2>1. \A x \in Mail : In(x, queue) \/ In(x, remain') => Untouched(x)'
    BY <1>1, <1>2, <1>4, <1>5, EmptyQueue DEF Inv, Placed, Untouched
  <2>2. \A x \in Mail : sender[x] = "new" =>
          x # m /\ x \notin executed' /\ waitCh'[x] = None
    BY <1>1, <1>4, <1>5 DEF Inv, Placed, Untouched
  <2>3. QED
    BY <1>1, <1>2, <1>4, <2>1, <2>2, EmptyQueue DEF Inv, Placed
<1>9. Answers'
  BY <1>1, <1>2, <1>4, <1>5, Kinds DEF Inv, Answers, Untouched, After
<1>10. QED
  BY <1>6, <1>7, <1>8, <1>9 DEF Inv

(* The end of OnStopping, with the answer to the kill or by a panic.       *)
LEMMA StoppedStep ==
  ASSUME Inv, OnStopping \/ StopPanic
  PROVE  Inv'
<1>1. /\ UNCHANGED <<state, running, queue, curMail, remain, sender, answer,
                     executed>>
      /\ loop = "walk" /\ loop' = "stopped" /\ remain = << >>
      /\ panicked' \in {panicked, panicked \cup {curMail}}
  BY DEF OnStopping, StopPanic, box, sending, history
<1>2. /\ curMail \in Exit /\ curMail \in Mail /\ queue = << >>
      /\ sender[curMail] # "new"
  BY <1>1, Kinds DEF Inv, Phases, Placed
<1>3. /\ waitCh' \in [Mail -> Reply \cup {None}]
      /\ \A x \in Mail : x # curMail => waitCh'[x] = waitCh[x]
  BY <1>2 DEF OnStopping, StopPanic, sendReply, Inv, TypeOK, Reply
<1>4. TypeOK'
  BY <1>1, <1>2, <1>3 DEF Inv, TypeOK, Loop
<1>5. Phases' /\ InStep'
  BY <1>1 DEF Inv, Phases, InStep
<1>6. Placed'
  BY <1>1, <1>2, <1>3, EmptyQueue DEF Inv, Placed, Untouched
<1>7. Answers'
  BY <1>1, <1>2, <1>3, Kinds DEF Inv, Answers, After
<1>8. QED
  BY <1>4, <1>5, <1>6, <1>7 DEF Inv

-----------------------------------------------------------------------------
(* Every step keeps the invariant.                                         *)
LEMMA NextInv == Inv /\ [Next]_vars => Inv'
<1>1. SUFFICES ASSUME Inv, [Next]_vars PROVE Inv'
  OBVIOUS
<1>2. CASE Start \/ setSpawning \/ setSpawn \/ SpawnFailed \/ StartFailed
             \/ setWaiting \/ ExitRefuse \/ setStopping \/ setHalted
  BY <1>1, <1>2, QuietStep
<1>3. CASE Take \/ setBusy \/ HandlerDone \/ WormholePanic \/ popAll
             \/ Walk \/ OnStopping \/ StopPanic
  BY <1>1, <1>3, TakeStep, BusyStep, HandledStep, PopAllStep, WalkStep,
     StoppedStep
<1>4. CASE \E m \in Mail : Sender(m)
  BY <1>1, <1>4, PushStep, RefusedStep, AnsweredStep, TimedOutStep DEF Sender
<1>5. CASE UNCHANGED vars
  <2>1. TypeOK'
    BY <1>1, <1>5 DEF Inv, TypeOK, vars
  <2>2. Phases' /\ InStep'
    BY <1>1, <1>5 DEF Inv, Phases, InStep, vars
  <2>3. Placed' /\ Answers'
    BY <1>1, <1>5 DEF Inv, Placed, Untouched, Answers, vars
  <2>4. QED
    BY <2>1, <2>2, <2>3 DEF Inv
<1>6. QED
  BY <1>1, <1>2, <1>3, <1>4, <1>5 DEF Next, Goroutine

(* The invariant holds throughout.                                         *)
LEMMA InvHolds == Spec => []Inv
  BY InitInv, NextInv, PTL DEF Spec

(* Type correctness of the actor.                                          *)
THEOREM TypeCorrect == Spec => []TypeOK
<1>1. Inv => TypeOK
  BY DEF Inv
<1>2. QED
  BY <1>1, InvHolds, PTL

(* The state of the actor is in step with its goroutine: a mail is served, *)
(* and a stop begins, in the state Waiting only.                           *)
THEOREM StateInStep == Spec => []InStep
<1>1. Inv => InStep
  BY DEF Inv
<1>2. QED
  BY <1>1, InvHolds, PTL

(* What a sender is told is what has happened.                             *)
THEOREM AnswersTrue == Spec => []AnswersAreTrue
<1>1. Inv => AnswersAreTrue
  <2>1. SUFFICES ASSUME Inv PROVE AnswersAreTrue
    OBVIOUS
  <2>2. \A i \in 1 .. Len(queue) : queue[i] \in Mail /\ In(queue[i], queue)
    BY <2>1, ElementOfSeq DEF Inv, TypeOK, In
  <2>3. \A i \in 1 .. Len(remain) : remain[i] \in Mail /\ In(remain[i], remain)
    BY <2>1, ElementOfSeq DEF Inv, TypeOK, In
  <2>4. QED
    BY <2>1, <2>2, <2>3 DEF Inv, Placed, Untouched, Answers, AnswersAreTrue
<1>2. QED
  BY <1>1, InvHolds, PTL

(* Nothing is handled when a kill has been answered.                       *)
THEOREM KilledHandlesNothing == Spec => NothingAfterKilled
<1>1. Inv /\ [Next]_vars =>
        [(\E k \in Kill : answer[k] = "ok")
           => executed' \cap Message = executed \cap Message]_vars
  <2>1. SUFFICES ASSUME Inv, Next, \E k \in Kill : answer[k] = "ok"
                 PROVE  executed' \cap Message = executed \cap Message
    OBVIOUS
  <2>2. loop \in After
    BY <2>1 DEF Inv, Answers
  <2>3. ~setBusy
    BY <2>2 DEF setBusy, After
  <2>4. CASE Walk
    BY <2>4, Kinds DEF Walk
  <2>5. CASE ~Walk
    BY <2>1, <2>3, <2>5 DEF Next, Goroutine, Sender, Start, StartFailed,
       setSpawning, setSpawn, SpawnFailed, Take, HandlerDone, WormholePanic,
       setWaiting, ExitRefuse, popAll, setStopping, OnStopping, StopPanic,
       setHalted, Push, PushRefused, Answered, TimedOut, history
  <2>6. QED
    BY <2>4, <2>5
<1>2. QED
  BY <1>1, InvHolds, PTL DEF Spec, NothingAfterKilled
=============================================================================
