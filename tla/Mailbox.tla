------------------------------ MODULE Mailbox ------------------------------
(***************************************************************************)
(* The mailbox of mail.go: a linked list of mails guarded by one mutex, a  *)
(* condition variable, and the goroutine that runs mailBox.loop.  One      *)
(* action is one critical section of the mutex or one step of the loop     *)
(* goroutine between two of them.  A mail is allocated once and is never   *)
(* reused (allocMail in its default mode).                                 *)
(***************************************************************************)
EXTENDS Naturals, SequencesExt

CONSTANTS Mail,      \* every mail that is ever allocated
          ExitMail,  \* those whose data is a *mailExitCommand
          MailId,    \* the field id of each mail
          Nil        \* the nil pointer

ASSUME MailboxAssumption ==
  /\ ExitMail \subseteq Mail
  /\ MailId \in [Mail -> Nat]
  /\ Nil \notin Mail

VARIABLES
  running, head, tail, num,  \* the fields of mailBox
  next,    \* the field next of every mail
  asleep,  \* is the loop goroutine parked in cond.Wait?
  loop,    \* where the loop goroutine is
  curMail, \* the local of the same name in mailBox.loop
  mails,   \* the list that popAll returned, handed to mailboxOnStop
  fate,    \* what has become of each mail (history)
  order    \* the mails of the list, in the order of the list (history)

vars == <<running, head, tail, num, next, asleep, loop, curMail, mails,
          fate, order>>

list == <<head, tail, num, next, order>>

Ptr == Mail \cup {Nil}

Fate == {"fresh", "refused", "queued", "served", "handled", "withdrawn",
         "drained"}

\* "failed" is the goroutine that left through mailboxOnStartUp's error before
\* startLoop has reset running, "aborted" the same after it.
Loop == {"off", "startup", "failed", "aborted", "idle", "received",
         "refusing", "draining", "stopping", "exited"}

TypeOK ==
  /\ running \in BOOLEAN
  /\ head \in Ptr /\ tail \in Ptr /\ curMail \in Ptr /\ mails \in Ptr
  /\ num \in Nat
  /\ next \in [Mail -> Ptr]
  /\ asleep \in BOOLEAN
  /\ loop \in Loop
  /\ fate \in [Mail -> Fate]
  /\ order \in Seq(Mail)

-----------------------------------------------------------------------------
(* The mails a traversal meets when it starts at p and follows next: the   *)
(* least set that contains p and is closed under next.                     *)
ClosedFrom(p, S) ==
  /\ p # Nil => p \in S
  /\ \A x \in S : next[x] # Nil => next[x] \in S

From(p) == {m \in Mail : \A S \in SUBSET Mail : ClosedFrom(p, S) => m \in S}

Listed == From(head)

\* The first mail with id i that a traversal from head meets.
FirstWithId(i) ==
  {m \in Listed : /\ MailId[m] = i
                  /\ \A o \in Listed : MailId[o] = i => o \in From(m)}

\* pM: the mail a traversal leaves to reach m, nil if m is the first.
Before(m) == IF m = head THEN Nil ELSE CHOOSE p \in Listed : next[p] = m

-----------------------------------------------------------------------------
Init ==
  /\ running = FALSE
  /\ head = Nil /\ tail = Nil /\ num = 0
  /\ next = [m \in Mail |-> Nil]
  /\ asleep = FALSE
  /\ loop = "off"
  /\ curMail = Nil /\ mails = Nil
  /\ fate = [m \in Mail |-> "fresh"]
  /\ order = << >>

(* start and startLoop: running is set before the goroutine exists, so a   *)
(* mail may be accepted while mailboxOnStartUp still runs.                  *)
Start ==
  /\ loop = "off" /\ ~running
  /\ running' = TRUE
  /\ loop' = "startup"
  /\ UNCHANGED <<list, asleep, curMail, mails, fate>>

StartUp ==
  /\ loop = "startup"
  /\ loop' \in {"idle", "failed"}
  /\ UNCHANGED <<running, list, asleep, curMail, mails, fate>>

StartFailed ==
  /\ loop = "failed"
  /\ running' = FALSE
  /\ loop' = "aborted"
  /\ UNCHANGED <<list, asleep, curMail, mails, fate>>

LinkFirst(m) ==
  /\ num' = num + 1
  /\ head' = m
  /\ IF head = Nil
     THEN tail' = m /\ next' = next
     ELSE tail' = tail /\ next' = [next EXCEPT ![m] = head]
  /\ order' = <<m>> \o order
  /\ asleep' = FALSE

\* Mutant of LinkLast: mb.cond.Signal is forgotten.
LinkLastSilently(m) ==
  /\ num' = num + 1
  /\ tail' = m
  /\ IF head = Nil
     THEN head' = m /\ next' = next
     ELSE head' = head /\ next' = [next EXCEPT ![tail] = m]
  /\ order' = Append(order, m)
  /\ asleep' = asleep

LinkLast(m) ==
  /\ num' = num + 1
  /\ tail' = m
  /\ IF head = Nil
     THEN head' = m /\ next' = next
     ELSE head' = head /\ next' = [next EXCEPT ![tail] = m]
  /\ order' = Append(order, m)
  /\ asleep' = FALSE

pushHead(m) ==
  /\ running /\ fate[m] = "fresh"
  /\ LinkFirst(m)
  /\ fate' = [fate EXCEPT ![m] = "queued"]
  /\ UNCHANGED <<running, loop, curMail, mails>>

pushTail(m) ==
  /\ running /\ fate[m] = "fresh"
  /\ LinkLast(m)
  /\ fate' = [fate EXCEPT ![m] = "queued"]
  /\ UNCHANGED <<running, loop, curMail, mails>>

\* Either push on a mailbox that is not running returns false.
pushRefused(m) ==
  /\ ~running /\ fate[m] = "fresh"
  /\ fate' = [fate EXCEPT ![m] = "refused"]
  /\ UNCHANGED <<running, list, asleep, loop, curMail, mails>>

\* Mutant of stopIfNoMail: it stops a mailbox that still has mails.
stopWithMail(m) ==
  /\ running
  /\ m \in ExitMail /\ fate[m] = "fresh"
  /\ running' = FALSE
  /\ LinkFirst(m)
  /\ fate' = [fate EXCEPT ![m] = "queued"]
  /\ UNCHANGED <<loop, curMail, mails>>

stopIfNoMail(m) ==
  /\ running /\ num = 0
  /\ m \in ExitMail /\ fate[m] = "fresh"
  /\ running' = FALSE
  /\ LinkFirst(m)
  /\ fate' = [fate EXCEPT ![m] = "queued"]
  /\ UNCHANGED <<loop, curMail, mails>>

-----------------------------------------------------------------------------
\* Mutant of Unlink: the tail stays on the mail that is taken out.
UnlinkKeepsTail(m) ==
  LET pM == Before(m) IN
  /\ num' = num - 1
  /\ IF pM = Nil
     THEN head' = next[m] /\ next' = [next EXCEPT ![m] = Nil]
     ELSE head' = head /\ next' = [next EXCEPT ![pM] = next[m], ![m] = Nil]
  /\ tail' = tail
  /\ \E i \in 1 .. Len(order) : order[i] = m /\ order' = RemoveAt(order, i)

(* The common body of removeMail and popByID once the traversal has found  *)
(* the mail m: unlink it, repairing head and tail.                         *)
Unlink(m) ==
  LET pM == Before(m) IN
  /\ num' = num - 1
  /\ IF pM = Nil
     THEN head' = next[m] /\ next' = [next EXCEPT ![m] = Nil]
     ELSE head' = head /\ next' = [next EXCEPT ![pM] = next[m], ![m] = Nil]
  /\ tail' = IF m = tail THEN pM ELSE tail
  /\ \E i \in 1 .. Len(order) : order[i] = m /\ order' = RemoveAt(order, i)

Withdrawn(m) ==
  /\ Unlink(m)
  /\ fate' = [fate EXCEPT ![m] = "withdrawn"]
  /\ UNCHANGED <<running, asleep, loop, curMail, mails>>

\* Mutant of removeMail: it cuts m off without having found it in the list.
removeMailUnseen(m) ==
  \/ m \in Listed /\ Withdrawn(m)
  \/ /\ m \notin Listed /\ fate[m] # "fresh"
     /\ next' = [next EXCEPT ![m] = Nil]
     /\ UNCHANGED <<running, head, tail, num, asleep, loop, curMail, mails,
                    fate, order>>

removeMail(m) == m \in Listed /\ Withdrawn(m)

popByID(i) == \E m \in FirstWithId(i) : Withdrawn(m)

-----------------------------------------------------------------------------
(* The loop goroutine.                                                     *)

\* waitPop finds no mail and waits for a signal.
waitPopSleep ==
  /\ loop = "idle" /\ ~asleep /\ num = 0
  /\ asleep' = TRUE
  /\ UNCHANGED <<running, list, loop, curMail, mails, fate>>

\* waitPop returns the head of the list; the loop then looks at its type.
waitPop ==
  /\ loop = "idle" /\ ~asleep /\ num # 0
  /\ num' = num - 1
  /\ curMail' = head
  /\ IF head = tail
     THEN head' = Nil /\ tail' = Nil
     ELSE head' = next[head] /\ tail' = tail
  /\ next' = IF head = Nil THEN next ELSE [next EXCEPT ![head] = Nil]
  /\ order' = Tail(order)
  /\ fate' = IF head = Nil THEN fate ELSE [fate EXCEPT ![head] = "served"]
  /\ loop' = IF head = Nil THEN "idle"
             ELSE IF head \in ExitMail THEN "refusing" ELSE "received"
  /\ UNCHANGED <<running, asleep, mails>>

(* mailboxOnReceive returns, or panics and is recovered: in both cases     *)
(* curMail is released and the loop goes on.                               *)
Received ==
  /\ loop = "received"
  /\ fate' = [fate EXCEPT ![curMail] = "handled"]
  /\ curMail' = Nil
  /\ loop' = "idle"
  /\ UNCHANGED <<running, list, asleep, mails>>

\* Mutant of ExitRefuse: the mailbox goes on accepting mails.
ExitAccepts ==
  /\ loop = "refusing"
  /\ loop' = "draining"
  /\ UNCHANGED <<running, list, asleep, curMail, mails, fate>>

\* An exit command: refuse all incoming mails ...
ExitRefuse ==
  /\ loop = "refusing"
  /\ running' = FALSE
  /\ loop' = "draining"
  /\ UNCHANGED <<list, asleep, curMail, mails, fate>>

\* ... then take what is left with popAll ...
popAll ==
  /\ loop = "draining"
  /\ mails' = head
  /\ head' = Nil
  /\ IF head = Nil THEN UNCHANGED <<tail, num>> ELSE tail' = Nil /\ num' = 0
  /\ order' = << >>
  /\ fate' = [m \in Mail |-> IF m \in Listed THEN "drained" ELSE fate[m]]
  /\ loop' = "stopping"
  /\ UNCHANGED <<running, next, asleep, curMail>>

\* ... and return from mailboxOnStop, normally or by a recovered panic.
Stopped ==
  /\ loop = "stopping"
  /\ fate' = [fate EXCEPT ![curMail] = "handled"]
  /\ curMail' = Nil
  /\ mails' = Nil
  /\ loop' = "exited"
  /\ UNCHANGED <<running, list, asleep>>

-----------------------------------------------------------------------------
Loops == \/ StartUp \/ StartFailed \/ waitPopSleep \/ waitPop \/ Received
         \/ ExitRefuse \/ popAll \/ Stopped

Senders == \E m \in Mail : \/ pushHead(m) \/ pushTail(m) \/ pushRefused(m)
                           \/ stopIfNoMail(m) \/ removeMail(m)

Next == \/ Start \/ Loops \/ Senders
        \/ \E i \in {MailId[m] : m \in Mail} : popByID(i)

Spec == Init /\ [][Next]_vars

\* The Go scheduler runs the loop goroutine, and every handler returns.
FairSpec == Spec /\ WF_vars(Loops)
-----------------------------------------------------------------------------
(* The list is the queue it stands for: num counts it, head and tail are   *)
(* its ends, next links it in order without a cycle, and the last next is   *)
(* nil.  Everything in mail.go that walks the list or compares head with   *)
(* tail relies on it (waitPop, removeMail, popByID, popAll).               *)
ListShape ==
  /\ num = Len(order)
  /\ \A i, j \in 1 .. Len(order) : i # j => order[i] # order[j]
  /\ head = IF order = << >> THEN Nil ELSE order[1]
  /\ tail = IF order = << >> THEN Nil ELSE order[Len(order)]
  /\ \A i \in 1 .. Len(order) :
       next[order[i]] = IF i = Len(order) THEN Nil ELSE order[i + 1]

(* When the loop has handed the rest to mailboxOnStop, and after it, the   *)
(* list is empty and stays empty: no mail slips in behind popAll to be     *)
(* neither handled nor reported (mail.go, "refuse all incoming mails").    *)
NothingBehindTheDrain ==
  loop \in {"stopping", "exited"} => head = Nil /\ num = 0 /\ ~running

(* The list mailboxOnStop walks without the mutex is exactly the mails     *)
(* popAll took from the box: no sender that times out cuts it meanwhile.   *)
RemainIntact ==
  loop = "stopping" => From(mails) = {m \in Mail : fate[m] = "drained"}

(* No mail is left lying and no wake-up is lost: an accepted mail is       *)
(* eventually served, withdrawn or drained, unless the start-up failed.    *)
EveryMailLeaves ==
  \A m \in Mail : fate[m] = "queued" ~> (fate[m] # "queued" \/ loop = "aborted")

(* The mailbox implements the queue it promises.                           *)
Queue == INSTANCE MailQueue WITH queue <- order, accepting <- running,
                                 served <- curMail
QueueSpec == Queue!Spec
=============================================================================
