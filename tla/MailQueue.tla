----------------------------- MODULE MailQueue -----------------------------
(***************************************************************************)
(* What a mailbox promises to the code that pushes mails into it: a queue  *)
(* that serves one mail at a time, in the order of the queue, that every   *)
(* accepted mail leaves exactly once, and that hands whatever is left to   *)
(* the stop handler when an exit mail is taken.  Mailbox.tla implements it *)
(* with the linked list of mail.go.                                        *)
(***************************************************************************)
EXTENDS Naturals, SequencesExt

CONSTANTS Mail,      \* every mail that is ever allocated
          ExitMail,  \* the mails whose data is a *mailExitCommand
          Nil

VARIABLES queue,     \* the accepted mails, in the order they will be served
          accepting, \* are pushes accepted?
          served,    \* the mail in the handler's hands, or Nil
          fate       \* what has become of each mail

vars == <<queue, accepting, served, fate>>

Queued(m) == \E i \in 1 .. Len(queue) : queue[i] = m

Init ==
  /\ queue = << >>
  /\ accepting = FALSE
  /\ served = Nil
  /\ fate = [m \in Mail |-> "fresh"]

Open ==
  /\ ~accepting
  /\ accepting' = TRUE
  /\ UNCHANGED <<queue, served, fate>>

AcceptFirst(m) ==
  /\ accepting
  /\ fate[m] = "fresh"
  /\ queue' = <<m>> \o queue
  /\ fate' = [fate EXCEPT ![m] = "queued"]
  /\ UNCHANGED <<accepting, served>>

AcceptLast(m) ==
  /\ accepting
  /\ fate[m] = "fresh"
  /\ queue' = Append(queue, m)
  /\ fate' = [fate EXCEPT ![m] = "queued"]
  /\ UNCHANGED <<accepting, served>>

Refuse(m) ==
  /\ ~accepting
  /\ fate[m] = "fresh"
  /\ fate' = [fate EXCEPT ![m] = "refused"]
  /\ UNCHANGED <<queue, accepting, served>>

Serve ==
  /\ queue # << >>
  /\ served = Nil
  /\ served' = Head(queue)
  /\ queue' = Tail(queue)
  /\ fate' = [fate EXCEPT ![Head(queue)] = "served"]
  /\ UNCHANGED accepting

Finish ==
  /\ served # Nil
  /\ served' = Nil
  /\ fate' = [fate EXCEPT ![served] = "handled"]
  /\ UNCHANGED <<queue, accepting>>

Withdraw(m) ==
  /\ \E i \in 1 .. Len(queue) : queue[i] = m /\ queue' = RemoveAt(queue, i)
  /\ fate' = [fate EXCEPT ![m] = "withdrawn"]
  /\ UNCHANGED <<accepting, served>>

Shut ==
  /\ accepting
  /\ accepting' = FALSE
  /\ UNCHANGED <<queue, served, fate>>

ShutIfEmpty(m) ==
  /\ accepting
  /\ queue = << >>
  /\ m \in ExitMail
  /\ fate[m] = "fresh"
  /\ accepting' = FALSE
  /\ queue' = <<m>>
  /\ fate' = [fate EXCEPT ![m] = "queued"]
  /\ UNCHANGED served

HandOver ==
  /\ ~accepting
  /\ served \in ExitMail
  /\ queue' = << >>
  /\ fate' = [m \in Mail |-> IF Queued(m) THEN "drained" ELSE fate[m]]
  /\ UNCHANGED <<accepting, served>>

Next ==
  \/ Open \/ Serve \/ Finish \/ Shut \/ HandOver
  \/ \E m \in Mail : \/ AcceptFirst(m) \/ AcceptLast(m) \/ Refuse(m)
                     \/ Withdraw(m) \/ ShutIfEmpty(m)

Spec == Init /\ [][Next]_vars
=============================================================================
