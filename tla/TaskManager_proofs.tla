-------------------------- MODULE TaskManager_proofs --------------------------
(***************************************************************************)
(* Proofs about TaskManager: the types, that a task that was refused or     *)
(* cancelled never runs, that the serial queue runs one task at a time, and *)
(* how often a task is run and called back.                                 *)
(***************************************************************************)
EXTENDS TaskManager, QueueLemmas

\* m occurs at most once in s.
Once(m, s) == \A i, j \in 1 .. Len(s) : s[i] = m /\ s[j] = m => i = j

\* The mailbox b has the mail of t: in its list, or its goroutine has it.
Present(t, b) == In(MailOf(t), queue[b]) \/ cur[b] = MailOf(t)

\* The tasks without an atomosTask in a queue; such a task's mail still waits.
Own == Closure \cup After
Taken(t) == cur[Main] = MailOf(t) /\ phase[Main] = "taken"
Waits(t) == In(MailOf(t), queue[Main]) \/ Taken(t)

\* A mail is in the mailbox its task was given.
Boxed == \A t \in Task, b \in Box : Present(t, b) => b = mailbox[t]

(* Which tasks go to which mailbox; the mailbox of the serial queue that has *)
(* not ended is the one under its name.                                     *)
Kinds ==
  /\ \A t \in Own : mailbox[t] = Main
  /\ \A t \in Serial : mailbox[t] \in SerialBox \cup {None}
  /\ \A b \in SerialBox : phase[b] \notin {"none", "ended"} => queueMap = b

\* A task is added by the goroutine of the actor, which is in a handler.
Adding ==
  adding # None =>
    /\ adding \in Queued /\ fate[adding] = "none" /\ mailbox[adding] \in Box
    /\ phase[Main] \in {"idle", "run"}
    /\ adding \in tasks => timerState[adding] = "mailing"

\* What the goroutine of a mailbox works on.
Running ==
  \A b \in Box :
    /\ phase[b] \in {"taken", "run", "ran"} => cur[b] \in Mail
    /\ phase[b] = "ran" => ~cur[b].callback /\ cur[b].task \in Queued
    /\ phase[b] \in {"run", "ran"} /\ ~cur[b].callback /\ cur[b].task \in Queued
         => timerState[cur[b].task] = "executing"

(* A closure, or a task of AddAfter: its mail is in one place and has not    *)
(* been run while it is there.                                              *)
Lone(t) ==
  /\ Once(MailOf(t), queue[Main])
  /\ ~(In(MailOf(t), queue[Main]) /\ Taken(t))

OwnTask(t) ==
  /\ Lone(t)
  /\ Waits(t) =>
       runs[t] = 0 /\ fate[t] \in {"added", "dropped"} /\ t \notin tasks
  /\ t \in tasks => t \in After /\ runs[t] = 0 /\ fate[t] = "added"
  /\ In(MailOf(t), remain) => t \notin tasks /\ fate[t] # "none"
  /\ fate[t] \in {"none", "refused", "cancelled"} => runs[t] = 0
  /\ fate[t] = "none" => ~Waits(t) /\ t \notin tasks
  /\ calls[t] = 0 /\ runs[t] <= 1

\* A task of a queue: its state tells what has become of it.
Told(t) ==
  /\ timerState[t] = "none" => fate[t] = "none"
  /\ timerState[t] = "scheduling" => fate[t] = "added"
  /\ timerState[t] \in {"none", "scheduling", "mailing"} =>
       /\ fate[t] \in {"none", "added", "refused"} /\ runs[t] = 0
       /\ calls[t] = IF fate[t] = "refused" THEN 1 ELSE 0
  /\ timerState[t] = "cancelled" =>
       /\ fate[t] \in {"cancelled", "refused"} /\ runs[t] = 0
       /\ calls[t] = IF fate[t] = "refused" THEN 2 ELSE 1
  /\ timerState[t] \in {"executing", "done"} =>
       fate[t] = "added" /\ runs[t] = 1 /\ calls[t] = 0

QueuedTask(t) ==
  /\ Told(t)
  /\ t \in tasks => timerState[t] # "none"
  /\ timerState[t] # "none" => mailbox[t] \in Box
  /\ \A b \in Box : Present(t, b) =>
       /\ fate[t] \notin {"none", "refused"}
       /\ timerState[t] \notin {"none", "scheduling"}
  /\ timerState[t] = "executing" =>
       cur[mailbox[t]] = MailOf(t) /\ phase[mailbox[t]] \in {"run", "ran"}

IInv ==
  /\ TypeOK
  /\ Boxed /\ Kinds /\ Adding /\ Running
  /\ \A t \in Own : OwnTask(t)
  /\ \A t \in Queued : QueuedTask(t)
  /\ mutex = "stop" => toCancel \subseteq tasks

-----------------------------------------------------------------------------
\* The mail of a task, and that of no task, which stands for no mail.
LEMMA MailFacts ==
  /\ \A t \in Task : MailOf(t) \in Mail
  /\ \A t \in Task : MailOf(t).task = t /\ MailOf(t).callback = FALSE
  /\ \A t, u \in Task : MailOf(t) = MailOf(u) => t = u
  /\ \A t \in Task : [task |-> t, callback |-> TRUE] \in Mail
  /\ \A t, u \in Task : [task |-> u, callback |-> TRUE] # MailOf(t)
  /\ \A t \in Task : NoMail # MailOf(t)
<1>1. \A t \in Task : MailOf(t) \in Mail /\ MailOf(t).task = t
                        /\ MailOf(t).callback = FALSE
  BY DEF MailOf, Mail
<1>2. \A t, u \in Task : MailOf(t) = MailOf(u) => t = u
  BY DEF MailOf
<1>3. \A t \in Task : [task |-> t, callback |-> TRUE] \in Mail
  BY DEF Mail
<1>4. \A t, u \in Task : [task |-> u, callback |-> TRUE] # MailOf(t)
  BY DEF MailOf
<1>5. \A t \in Task : NoMail # MailOf(t)
  BY TaskManagerAssumption DEF NoMail, MailOf, TaskManagerAssumption
<1>6. QED
  BY <1>1, <1>2, <1>3, <1>4, <1>5

\* A mail without a callback is the mail of its task.
LEMMA MailIsOf ==
  ASSUME NEW m \in Mail
  PROVE  m.task \in Task /\ (~m.callback => m = MailOf(m.task))
<1>1. m.task \in Task
  BY DEF Mail
<1>2. ASSUME ~m.callback PROVE m = MailOf(m.task)
  <2>1. m.callback = FALSE
    BY <1>2 DEF Mail
  <2>2. m = [task |-> m.task, callback |-> m.callback]
    BY DEF Mail
  <2>3. QED
    BY <2>1, <2>2 DEF MailOf
<1>3. QED
  BY <1>1, <1>2

\* The sets of tasks and of mailboxes.
LEMMA Sets ==
  /\ Task = Own \cup Queued /\ Own \cap Queued = {} /\ Closure \subseteq Own
  /\ After \subseteq Own /\ Delayed \subseteq Queued /\ Serial \subseteq Queued
  /\ Main \in Box /\ SerialBox \subseteq Box /\ Main \notin SerialBox
  /\ Concurrent \subseteq Box /\ SerialBox \cap Concurrent = {}
  /\ None \notin Task /\ None \notin Box
  BY TaskManagerAssumption DEF TaskManagerAssumption, Task, Own, Queued, Box

-----------------------------------------------------------------------------
\* The queue q has no mail that s has not, and none twice that s has once.
Fewer(q, s) ==
  /\ q \in Seq(Mail)
  /\ \A n : In(n, q) => In(n, s)
  /\ \A n : Once(n, s) => Once(n, q)

\* The queue q has the mail m and what s has.
More(q, s, m) ==
  /\ q \in Seq(Mail)
  /\ \A n : In(n, q) => In(n, s) \/ n = m
  /\ \A n : Once(n, s) /\ (n # m \/ ~In(n, s)) => Once(n, q)

\* A push, to either end.
LEMMA PushedMore ==
  ASSUME NEW s \in Seq(Mail), NEW m \in Mail
  PROVE  More(Append(s, m), s, m) /\ More(<<m>> \o s, s, m)
<1>1. Len(s) \in Nat
  BY LenProperties
<1>2. More(Append(s, m), s, m)
  <2>1. /\ Len(Append(s, m)) = Len(s) + 1 /\ Append(s, m)[Len(s) + 1] = m
        /\ \A i \in 1 .. Len(s) : Append(s, m)[i] = s[i]
    BY AppendProperties
  <2>2. \A i \in 1 .. Len(s) + 1 : i \in 1 .. Len(s) \/ i = Len(s) + 1
    BY <1>1
  <2>3. \A n : Once(n, s) /\ (n # m \/ ~In(n, s)) => Once(n, Append(s, m))
    BY <2>1, <2>2 DEF Once, In
  <2>4. QED
    BY <2>3, AppendElements DEF More
<1>3. More(<<m>> \o s, s, m)
  <2> DEFINE q == <<m>> \o s
  <2>1. <<m>> \in Seq(Mail) /\ Len(<<m>>) = 1 /\ <<m>>[1] = m
    OBVIOUS
  <2>2. /\ q \in Seq(Mail) /\ Len(q) = 1 + Len(s)
        /\ \A i \in 1 .. 1 + Len(s) :
             q[i] = IF i <= 1 THEN <<m>>[i] ELSE s[i - 1]
    BY <2>1, ConcatProperties
  <2>3. q[1] = m /\ \A i \in 1 .. Len(q) : i # 1 => q[i] = s[i - 1]
    BY <1>1, <2>1, <2>2
  <2>4. \A i \in 1 .. Len(q) : i # 1 => i - 1 \in 1 .. Len(s)
    BY <1>1, <2>2
  <2>5. \A i, j \in 1 .. Len(q) : i - 1 = j - 1 => i = j
    BY <1>1, <2>2
  <2> HIDE DEF q
  <2>6. ASSUME NEW n, Once(n, s), n # m \/ ~In(n, s) PROVE Once(n, q)
    <3>1. SUFFICES ASSUME NEW i \in 1 .. Len(q), NEW j \in 1 .. Len(q),
                          q[i] = n, q[j] = n
                   PROVE  i = j
      BY DEF Once
    <3>2. CASE i = 1 \/ j = 1
      BY <2>3, <2>4, <2>6, <3>1, <3>2 DEF In
    <3>3. CASE i # 1 /\ j # 1
      <4>1. /\ i - 1 \in 1 .. Len(s) /\ s[i - 1] = n
            /\ j - 1 \in 1 .. Len(s) /\ s[j - 1] = n
        BY <2>3, <2>4, <3>1, <3>3
      <4>2. i - 1 = j - 1
        BY <2>6, <4>1 DEF Once
      <4>3. QED
        BY <2>5, <3>1, <4>2
    <3>4. QED
      BY <3>2, <3>3
  <2>7. \A n : In(n, q) => In(n, s) \/ n = m
    BY <2>3, <2>4 DEF In
  <2>8. QED
    BY <2>2, <2>6, <2>7 DEF More, q
<1>4. QED
  BY <1>2, <1>3

\* A pop of the head; an element that was there once is gone.
LEMMA TailFewer ==
  ASSUME NEW s \in Seq(Mail), s # << >>
  PROVE  /\ Fewer(Tail(s), s) /\ Head(s) \in Mail /\ In(Head(s), s)
         /\ Once(Head(s), s) => ~In(Head(s), Tail(s))
<1>1. Len(s) \in Nat \ {0}
  BY EmptySeq
<1>2. /\ Len(Tail(s)) = Len(s) - 1
      /\ \A i \in 1 .. Len(Tail(s)) : Tail(s)[i] = s[i + 1]
  BY HeadTailProperties
<1>3. Head(s) = s[1]
  OBVIOUS
<1>4. \A i \in 1 .. Len(Tail(s)) : i + 1 \in 1 .. Len(s) /\ i + 1 # 1
  BY <1>1, <1>2
<1>5. 1 \in 1 .. Len(s)
  BY <1>1
<1>6. \A i, j \in 1 .. Len(Tail(s)) : i + 1 = j + 1 => i = j
  OBVIOUS
<1>7. \A n : Once(n, s) => Once(n, Tail(s))
  BY <1>2, <1>4, <1>6 DEF Once
<1>8. Once(Head(s), s) => ~In(Head(s), Tail(s))
  BY <1>2, <1>3, <1>4, <1>5 DEF Once, In
<1>9. QED
  BY <1>7, <1>8, TailElements DEF Fewer

\* popByID: the mail is gone if it was there once.
LEMMA PopByIDFewer ==
  ASSUME NEW s \in Seq(Mail), NEW m
  PROVE  /\ Fewer(RemoveFirst(s, m), s)
         /\ Once(m, s) => ~In(m, RemoveFirst(s, m))
<1>1. CASE ~In(m, s) /\ RemoveFirst(s, m) = s
  BY <1>1 DEF Fewer
<1>2. ASSUME NEW i \in 1 .. Len(s),
             s[i] = m, RemoveFirst(s, m) = RemoveAt(s, i)
      PROVE  /\ Fewer(RemoveFirst(s, m), s)
             /\ Once(m, s) => ~In(m, RemoveFirst(s, m))
  <2> DEFINE q == RemoveAt(s, i)
             from(j) == IF j < i THEN j ELSE j + 1
  <2>1. Len(s) \in Nat /\ i \in Nat
    BY LenProperties
  <2>2. /\ q \in Seq(Mail) /\ Len(q) = Len(s) - 1
        /\ \A j \in 1 .. Len(s) - 1 : q[j] = IF j < i THEN s[j] ELSE s[j + 1]
    BY RemoveAtProperties
  <2> HIDE DEF q
  <2>3. \A j \in 1 .. Len(q) : q[j] = s[from(j)]
    BY <2>2
  <2>4. \A j \in 1 .. Len(q) : from(j) \in 1 .. Len(s) /\ from(j) # i
    BY <2>1, <2>2
  <2>5. \A j, k \in 1 .. Len(q) : from(j) = from(k) => j = k
    BY <2>1, <2>2
  <2> HIDE DEF from
  <2>6. \A n : Once(n, s) => Once(n, q)
    BY <2>3, <2>4, <2>5 DEF Once
  <2>7. Once(m, s) => ~In(m, q)
    BY <1>2, <2>3, <2>4 DEF Once, In
  <2>8. \A n : In(n, q) => In(n, s)
    BY <2>3, <2>4 DEF In
  <2>9. QED
    BY <1>2, <2>2, <2>6, <2>7, <2>8 DEF Fewer, q
<1>3. QED
  BY <1>1, <1>2, RemoveFirstCases

\* An empty list, and one that is left alone.
LEMMA EmptyFewer ==
  ASSUME NEW s \in Seq(Mail)
  PROVE  Fewer(<< >>, s) /\ Fewer(s, s)
  BY EmptyQueue DEF Fewer, Once

-----------------------------------------------------------------------------
\* The lists, of a mailbox that exists.
LEMMA Queues ==
  ASSUME TypeOK, NEW b \in Box
  PROVE  /\ queue[b] \in Seq(Mail)
         /\ \A q \in Seq(Mail) :
              [queue EXCEPT ![b] = q] \in [Box -> Seq(Mail)]
         /\ \A n : Fewer(PopByID(n, b), queue[b])
         /\ \A n : PopByID(n, b) \in Seq(Mail)
<1>1. queue \in [Box -> Seq(Mail)]
  BY DEF TypeOK
<1>2. ASSUME NEW n PROVE Fewer(PopByID(n, b), queue[b])
  BY <1>1, PopByIDFewer DEF PopByID
<1>3. QED
  BY <1>1, <1>2 DEF Fewer

\* A push to a mailbox.
LEMMA Pushes ==
  ASSUME TypeOK, NEW b \in Box, NEW m \in Mail
  PROVE  /\ More(Append(queue[b], m), queue[b], m)
         /\ More(<<m>> \o queue[b], queue[b], m)
         /\ [queue EXCEPT ![b] = Append(@, m)] \in [Box -> Seq(Mail)]
         /\ [queue EXCEPT ![b] = <<m>> \o @] \in [Box -> Seq(Mail)]
<1>1. queue \in [Box -> Seq(Mail)] /\ queue[b] \in Seq(Mail)
  BY DEF TypeOK
<1>2. /\ More(Append(queue[b], m), queue[b], m)
      /\ More(<<m>> \o queue[b], queue[b], m)
  BY <1>1, PushedMore
<1>3. QED
  BY <1>1, <1>2 DEF More

\* addToQueue: the mail is pushed and the task added, or it is refused.
LEMMA AddToQueueTypes ==
  ASSUME TypeOK, NEW t \in Task, mailbox[t] \in Box, addToQueue(t)
  PROVE  /\ queue' \in [Box -> Seq(Mail)]
         /\ fate' \in [Task -> {"none", "added", "refused", "cancelled",
                                "dropped"}]
         /\ calls' \in [Task -> Nat]
<1>1. CASE running[mailbox[t]]
  <2>1. PICK q \in Pushed(t, mailbox[t]) :
          queue' = [queue EXCEPT ![mailbox[t]] = q]
    BY <1>1 DEF addToQueue
  <2>2. q \in Seq(Mail)
    <3>1. MailOf(t) \in Mail
      BY MailFacts
    <3>2. \/ q = <<MailOf(t)>> \o queue[mailbox[t]]
          \/ q = Append(queue[mailbox[t]], MailOf(t))
      BY <2>1 DEF Pushed
    <3>3. queue[mailbox[t]] \in Seq(Mail)
      BY Queues
    <3>4. More(q, queue[mailbox[t]], MailOf(t))
      BY <3>1, <3>2, <3>3, PushedMore
    <3>5. QED
      BY <3>4 DEF More
  <2>3. queue' \in [Box -> Seq(Mail)]
    BY <2>1, <2>2, Queues
  <2>4. QED
    BY <1>1, <2>3 DEF addToQueue, Fate, TypeOK
<1>2. CASE ~running[mailbox[t]]
  <2>1. queue' = queue /\ fate' = [fate EXCEPT ![t] = "refused"]
        /\ calls' = [calls EXCEPT ![t] = @ + 1]
    BY <1>2 DEF addToQueue, Fate, Call
  <2>2. /\ queue \in [Box -> Seq(Mail)] /\ calls \in [Task -> Nat]
        /\ fate \in [Task -> {"none", "added", "refused", "cancelled",
                              "dropped"}]
    BY DEF TypeOK
  <2>3. QED
    BY <2>1, <2>2
<1>3. QED
  BY <1>1, <1>2

\* cancelTaskQueue: the timer stops or the mail is popped.
LEMMA CancelTaskQueueTypes ==
  ASSUME IInv, NEW t \in Queued, cancelTaskQueue(t)
  PROVE  /\ queue' \in [Box -> Seq(Mail)]
         /\ fate' \in [Task -> {"none", "added", "refused", "cancelled",
                                "dropped"}]
         /\ calls' \in [Task -> Nat]
         /\ timer' \in [Task -> BOOLEAN]
         /\ timerState' \in [Task -> {"none", "scheduling", "mailing",
                                      "executing", "done", "cancelled"}]
         /\ tasks' \subseteq Task
<1>1. TypeOK /\ t \in Task /\ mailbox[t] \in Box
  BY Sets DEF IInv, QueuedTask, cancelTaskQueue
<1>2. fate' \in [Task -> {"none", "added", "refused", "cancelled", "dropped"}]
  BY <1>1 DEF cancelTaskQueue, Cancelled, TypeOK
<1>3. /\ calls' \in [Task -> Nat]
      /\ timerState' \in [Task -> {"none", "scheduling", "mailing",
                                   "executing", "done", "cancelled"}]
  BY <1>1 DEF cancelTaskQueue, Call, Become, TypeOK
<1>4. CASE timerState[t] = "scheduling"
  BY <1>1, <1>2, <1>3, <1>4 DEF cancelTaskQueue, StopTimer, TypeOK
<1>5. CASE timerState[t] # "scheduling"
  <2>1. PopByID(t, mailbox[t]) \in Seq(Mail)
    BY <1>1, Queues
  <2>2. queue' = [queue EXCEPT ![mailbox[t]] = PopByID(t, mailbox[t])]
    BY <1>5 DEF cancelTaskQueue
  <2>3. queue' \in [Box -> Seq(Mail)]
    BY <1>1, <2>1, <2>2, Queues
  <2>4. QED
    BY <1>1, <1>2, <1>3, <1>5, <2>3 DEF cancelTaskQueue, TypeOK
<1>6. QED
  BY <1>4, <1>5

\* The steps that add a task keep the types.
LEMMA AddTypes ==
  ASSUME IInv, NEW t \in Task,
         \/ Add(t) \/ AddAfter(t) \/ getMailbox(t) \/ genTaskID(t) \/ addNow(t)
  PROVE  TypeOK'
<1>1. TypeOK
  BY DEF IInv
<1>2. CASE Add(t)
  <2>1. queue' \in [Box -> Seq(Mail)]
    <3>1. MailOf(t) \in Mail /\ Main \in Box
      BY MailFacts, Sets
    <3>2. [queue EXCEPT ![Main] = Append(@, MailOf(t))] \in [Box -> Seq(Mail)]
      BY <1>1, <3>1, Pushes
    <3>3. queue \in [Box -> Seq(Mail)]
      BY <1>1 DEF TypeOK
    <3>4. QED
      BY <1>2, <3>2, <3>3 DEF Add
  <2>2. QED
    BY <1>1, <1>2, <2>1 DEF Add, Fate, stop, TypeOK
<1>3. CASE AddAfter(t)
  BY <1>1, <1>3 DEF AddAfter, Become, Fate, boxes, stop, TypeOK
<1>4. CASE getMailbox(t)
  <2>1. PICK b \in taskMailboxOf(t) :
          /\ mailbox' = [mailbox EXCEPT ![t] = b]
          /\ running' = [running EXCEPT ![b] = TRUE]
          /\ phase' = [phase EXCEPT ![b] = IF @ = "none" THEN "idle" ELSE @]
          /\ queueMap' = IF t \in Serial THEN b ELSE queueMap
    BY <1>4 DEF getMailbox
  <2>2. b \in Box /\ (t \in Serial => b \in SerialBox)
    BY <1>1, <1>4, <2>1, TaskManagerAssumption
    DEF getMailbox, taskMailboxOf, Unused, TypeOK, Queued, Box,
        TaskManagerAssumption
  <2>3. QED
    BY <1>1, <1>4, <2>1, <2>2
    DEF getMailbox, stop, history, Phase, TypeOK
<1>5. CASE genTaskID(t)
  BY <1>1, <1>5 DEF genTaskID, Become, Fate, boxes, stop, TypeOK
<1>6. CASE addNow(t)
  <2>1. mailbox[t] \in Box
    BY <1>6, Sets DEF IInv, Adding, addNow
  <2>2. QED
    BY <1>1, <1>6, <2>1, AddToQueueTypes DEF addNow, stop, TypeOK
<1>7. QED
  BY <1>2, <1>3, <1>4, <1>5, <1>6

\* So do a timer and the cancels.
LEMMA CancelTypes ==
  ASSUME IInv, NEW t \in Task,
         \/ Fire(t) \/ CancelQueued(t) \/ Cancel(t) \/ CancelLocksTwice(t)
  PROVE  TypeOK'
<1>1. TypeOK
  BY DEF IInv
<1>2. CASE Fire(t)
  <2>1. timer' \in [Task -> BOOLEAN]
    BY <1>1, <1>2 DEF Fire, TypeOK
  <2>2. CASE ~(t \in tasks /\ timerState[t] = "scheduling")
    BY <1>1, <1>2, <2>1, <2>2 DEF Fire, stop, TypeOK
  <2>3. CASE t \in tasks /\ timerState[t] = "scheduling" /\ t \in After
    <3>1. queue' \in [Box -> Seq(Mail)]
      <4>1. MailOf(t) \in Mail /\ Main \in Box
        BY MailFacts, Sets
      <4>2. [queue EXCEPT ![Main] = <<MailOf(t)>> \o @]
              \in [Box -> Seq(Mail)]
        BY <1>1, <4>1, Pushes
      <4>3. queue \in [Box -> Seq(Mail)]
        BY <1>1 DEF TypeOK
      <4>4. QED
        BY <1>2, <2>3, <4>2, <4>3 DEF Fire, mailAfter
    <3>2. timerState' = [timerState EXCEPT ![t] = "mailing"]
      BY <1>2, <2>3 DEF Fire, Become
    <3>3. tasks' = tasks \ {t} /\ calls' = calls
      BY <1>2, <2>3 DEF Fire, mailAfter
    <3>4. fate' = fate \/ fate' = [fate EXCEPT ![t] = "refused"]
      BY <1>2, <2>3 DEF Fire, mailAfter, Fate
    <3>5. UNCHANGED <<mailbox, queueMap, adding, mutex, running, cur, phase,
                      toCancel, remain, runs>>
      BY <1>2 DEF Fire, stop
    <3>6. /\ timerState' \in [Task -> {"none", "scheduling", "mailing",
                                        "executing", "done", "cancelled"}]
          /\ tasks' \subseteq Task
      BY <1>1, <3>2, <3>3 DEF TypeOK
    <3>7. fate' \in [Task -> {"none", "added", "refused", "cancelled",
                              "dropped"}]
      BY <1>1, <3>4 DEF TypeOK
    <3>8. QED
      BY <1>1, <2>1, <3>1, <3>3, <3>5, <3>6, <3>7 DEF TypeOK
  <2>4. CASE t \in tasks /\ timerState[t] = "scheduling" /\ t \notin After
    <3>1. mailbox[t] \in Box
      BY <2>4, Sets DEF IInv, OwnTask, QueuedTask
    <3>2. addToQueue(t)
      BY <1>2, <2>4 DEF Fire
    <3>3. QED
      BY <1>1, <1>2, <2>1, <2>4, <3>1, <3>2, AddToQueueTypes
      DEF Fire, Become, stop, TypeOK
  <2>5. QED
    BY <2>2, <2>3, <2>4
<1>3. CASE CancelQueued(t)
  <2>1. CASE cancelTaskQueue(t) /\ UNCHANGED mutex
    BY <1>1, <1>3, <2>1, CancelTaskQueueTypes DEF CancelQueued, stop, TypeOK
  <2>2. CASE ~(cancelTaskQueue(t) /\ UNCHANGED mutex)
    BY <1>1, <1>3, <2>2 DEF CancelQueued, stop, TypeOK
  <2>3. QED
    BY <2>1, <2>2
<1>4. CASE Cancel(t)
  <2>1. /\ queue' \in [Box -> Seq(Mail)]
        /\ timer' \in [Task -> BOOLEAN]
        /\ timerState' \in [Task -> {"none", "scheduling", "mailing",
                                     "executing", "done", "cancelled"}]
        /\ tasks' \subseteq Task
    <3>1. PopByID(t, Main) \in Seq(Mail) /\ Main \in Box
      BY <1>1, Queues, Sets
    <3>2. [queue EXCEPT ![Main] = PopByID(t, Main)] \in [Box -> Seq(Mail)]
      BY <1>1, <3>1, Queues
    <3>3. CASE t \in tasks
      <4>1. /\ StopTimer(t) /\ tasks' = tasks \ {t} /\ Become(t, "cancelled")
            /\ UNCHANGED queue
        BY <1>4, <3>3 DEF Cancel
      <4>2. timer' \in [Task -> BOOLEAN]
        BY <1>1, <4>1 DEF StopTimer, TypeOK
      <4>3. QED
        BY <1>1, <4>1, <4>2 DEF Become, TypeOK
    <3>4. CASE t \notin tasks
      BY <1>1, <1>4, <3>2, <3>4 DEF Cancel, TypeOK
    <3>5. QED
      BY <3>3, <3>4
  <2>2. QED
    BY <1>1, <1>4, <2>1 DEF Cancel, Fate, stop, TypeOK
<1>5. CASE CancelLocksTwice(t)
  BY <1>1, <1>5 DEF CancelLocksTwice, boxes, stop, history, TypeOK
<1>6. QED
  BY <1>2, <1>3, <1>4, <1>5

\* Served and Leave put a goroutine where its queue goes on.
LEMMA ServedTypes ==
  ASSUME TypeOK, NEW b \in Box, Served(b)
  PROVE  phase' \in [Box -> Phase] /\ cur' \in [Box -> Mail \cup {NoMail}]
  BY DEF Served, Leave, Goto, TypeOK, Phase

\* The goroutine of a mailbox keeps the types.
LEMMA LoopTypes ==
  ASSUME IInv, NEW b \in Box, Loop(b)
  PROVE  TypeOK'
<1>1. TypeOK /\ cur[b] \in Mail \cup {NoMail} /\ queue[b] \in Seq(Mail)
  BY DEF IInv, TypeOK
<1>2. phase[b] \in {"taken", "run", "ran"} =>
        cur[b] \in Mail /\ cur[b].task \in Task
  BY MailIsOf DEF IInv, Running
<1>3. CASE Take(b)
  <2>1. Tail(queue[b]) \in Seq(Mail) /\ Head(queue[b]) \in Mail
    BY <1>1, <1>3, TailFewer DEF Take, Fewer
  <2>2. queue' \in [Box -> Seq(Mail)]
    BY <1>1, <1>3, <2>1, Queues DEF Take
  <2>3. QED
    BY <1>1, <1>3, <2>1, <2>2 DEF Take, Goto, Phase, stop, history, TypeOK
<1>4. CASE RunClosure(b)
  BY <1>1, <1>2, <1>4 DEF RunClosure, Goto, Phase, stop, TypeOK
<1>5. CASE handleTaskQueue(b)
  <2>1. CASE timerState[cur[b].task] = "mailing"
    <3>1. PICK t \in Task : t = cur[b].task
      BY <1>2, <1>5 DEF handleTaskQueue
    <3>2. /\ timerState' = [timerState EXCEPT ![t] = "executing"]
          /\ phase' = [phase EXCEPT ![b] = "run"]
          /\ runs' = [runs EXCEPT ![t] = @ + 1] /\ UNCHANGED cur
      BY <1>5, <2>1, <3>1 DEF handleTaskQueue, Become, Goto
    <3>3. QED
      BY <1>1, <1>5, <3>2 DEF handleTaskQueue, Phase, stop, TypeOK
  <2>2. CASE timerState[cur[b].task] # "mailing"
    <3>1. Served(b)
      BY <1>5, <2>2 DEF handleTaskQueue
    <3>2. QED
      BY <1>1, <1>5, <2>2, <3>1, ServedTypes DEF handleTaskQueue, stop, TypeOK
  <2>3. QED
    BY <2>1, <2>2
<1>6. CASE Finish(b)
  <2>1. queue' \in [Box -> Seq(Mail)]
    <3>1. CASE UNCHANGED queue
      BY <1>1, <3>1 DEF TypeOK
    <3>2. CASE ~UNCHANGED queue
      <4> DEFINE m == [task |-> cur[b].task, callback |-> TRUE]
      <4>1. m \in Mail /\ phase[b] = "run"
        BY <1>2, <1>6, MailFacts DEF Finish
      <4>2. queue' = [queue EXCEPT ![Main] = Append(@, m)]
        BY <1>6, <3>2 DEF Finish
      <4> HIDE DEF m
      <4>3. QED
        BY <1>1, <4>1, <4>2, Queues, PushedMore, Sets DEF More
    <3>3. QED
      BY <3>1, <3>2
  <2>2. phase' \in [Box -> Phase] /\ cur' \in [Box -> Mail \cup {NoMail}]
    <3>1. CASE Served(b)
      BY <1>1, <3>1, ServedTypes
    <3>2. CASE ~Served(b)
      BY <1>1, <1>6, <3>2 DEF Finish, Goto, Phase, TypeOK
    <3>3. QED
      BY <3>1, <3>2
  <2>3. QED
    BY <1>1, <1>6, <2>1, <2>2 DEF Finish, stop, history, TypeOK
<1>7. CASE TaskDone(b)
  <2>1. phase' \in [Box -> Phase] /\ cur' \in [Box -> Mail \cup {NoMail}]
    BY <1>1, <1>7, ServedTypes DEF TaskDone
  <2>2. QED
    BY <1>1, <1>2, <1>7, <2>1 DEF TaskDone, Become, stop, history, TypeOK
<1>8. CASE Continue(b)
  BY <1>1, <1>8 DEF Continue, Goto, Phase, stop, history, TypeOK
<1>9. CASE checkClose(b)
  BY <1>1, <1>9 DEF checkClose, Goto, Phase, stop, history, TypeOK
<1>10. QED
  BY <1>3, <1>4, <1>5, <1>6, <1>7, <1>8, <1>9 DEF Loop

\* The stop of the actor keeps the types.
LEMMA StopTypes ==
  ASSUME IInv, Exit \/ Stops
  PROVE  TypeOK'
<1>1. TypeOK /\ Main \in Box
  BY Sets DEF IInv
<1>2. CASE Exit
  BY <1>1, <1>2 DEF Exit, Goto, Phase, stop, history, TypeOK
<1>3. CASE stopLock
  <2>1. << >> \in Seq(Mail) /\ queue[Main] \in Seq(Mail)
    BY <1>1, Queues, EmptyFewer DEF Fewer
  <2>2. queue' \in [Box -> Seq(Mail)]
    BY <1>1, <1>3, <2>1, Queues DEF stopLock
  <2>3. QED
    BY <1>1, <1>3, <2>1, <2>2 DEF stopLock, Goto, Phase, history, TypeOK
<1>4. CASE stopUnlock
  BY <1>1, <1>4 DEF stopUnlock, Goto, Phase, stop, history, TypeOK
<1>5. CASE StopWalks
  <2>1. Tail(remain) \in Seq(Mail) /\ Head(remain) \in Mail
    BY <1>1, <1>5, TailFewer DEF StopWalks, Fewer, TypeOK
  <2>2. Head(remain).task \in Task
    BY <2>1, MailIsOf
  <2>3. QED
    BY <1>1, <1>5, <2>1, <2>2 DEF StopWalks, Fate, boxes, TypeOK
<1>6. ASSUME NEW t \in Task, StopCancels(t)
      PROVE  TypeOK'
  <2>1. CASE t \in Queued /\ cancelTaskQueue(t) /\ UNCHANGED mutex
    BY <1>1, <1>6, <2>1, CancelTaskQueueTypes DEF StopCancels, TypeOK
  <2>2. CASE ~(t \in Queued /\ cancelTaskQueue(t) /\ UNCHANGED mutex)
    <3>1. CASE UNCHANGED <<timerState, tasks, timer, queue, fate, calls>>
      BY <1>1, <1>6, <2>2, <3>1 DEF StopCancels, TypeOK
    <3>2. CASE ~UNCHANGED <<timerState, tasks, timer, queue, fate, calls>>
      <4>1. /\ StopTimer(t) /\ tasks' = tasks \ {t} /\ Become(t, "cancelled")
            /\ Fate(t, "cancelled") /\ UNCHANGED <<queue, calls, mutex>>
        BY <1>6, <2>2, <3>2 DEF StopCancels
      <4>2. /\ timer' \in [Task -> BOOLEAN]
            /\ timerState' \in [Task -> {"none", "scheduling", "mailing",
                                         "executing", "done", "cancelled"}]
        BY <1>1, <4>1 DEF StopTimer, Become, TypeOK
      <4>3. QED
        BY <1>1, <1>6, <4>1, <4>2 DEF StopCancels, Fate, TypeOK
    <3>3. QED
      BY <3>1, <3>2
  <2>3. QED
    BY <2>1, <2>2
<1>7. QED
  BY <1>2, <1>3, <1>4, <1>5, <1>6 DEF Stops

\* Every step keeps the types.
LEMMA TypeStep ==
  ASSUME IInv, [Next]_vars
  PROVE  TypeOK'
<1>1. CASE UNCHANGED vars
  BY <1>1 DEF IInv, TypeOK, vars
<1>2. CASE Next
  BY <1>2, AddTypes, CancelTypes, LoopTypes, StopTypes DEF Next, Adds
<1>3. QED
  BY <1>1, <1>2

-----------------------------------------------------------------------------
\* No mailbox gets a mail; b alone gets one, m.
Drained == \A b \in Box : Fewer(queue'[b], queue[b])
Gets(b, m) ==
  /\ More(queue'[b], queue[b], m)
  /\ \A c \in Box : c # b => Fewer(queue'[c], queue[c])

\* No goroutine takes a mail.
Quiet ==
  \A b \in Box :
    /\ cur'[b] = cur[b] \/ cur'[b] = NoMail
    /\ phase'[b] = "taken" => phase[b] = "taken"

\* The mail of u gets nowhere, or to no other mailbox than c.
Unfed(u) == \A b \in Box : Present(u, b)' => Present(u, b)
Fed(u, c) == \A b \in Box : Present(u, b)' => Present(u, b) \/ b = c

\* A list that is left alone has lost and won nothing.
LEMMA SameDrained ==
  ASSUME TypeOK, UNCHANGED queue
  PROVE  Drained
<1>1. \A b \in Box : queue[b] \in Seq(Mail) /\ queue'[b] = queue[b]
  BY DEF TypeOK
<1>2. QED
  BY <1>1, EmptyFewer DEF Drained

\* One list is shortened.
LEMMA OneDrained ==
  ASSUME TypeOK, NEW b \in Box, NEW q, Fewer(q, queue[b]),
         queue' = [queue EXCEPT ![b] = q]
  PROVE  Drained /\ queue'[b] = q
<1>1. queue'[b] = q /\ \A c \in Box : c # b => queue'[c] = queue[c]
  BY DEF TypeOK
<1>2. \A c \in Box : queue[c] \in Seq(Mail)
  BY DEF TypeOK
<1>3. QED
  BY <1>1, <1>2, EmptyFewer DEF Drained

\* One list gets a mail.
LEMMA OneGets ==
  ASSUME TypeOK, NEW b \in Box, NEW m, NEW q, More(q, queue[b], m),
         queue' = [queue EXCEPT ![b] = q]
  PROVE  Gets(b, m)
<1>1. queue'[b] = q /\ \A c \in Box : c # b => queue'[c] = queue[c]
  BY DEF TypeOK
<1>2. \A c \in Box : queue[c] \in Seq(Mail)
  BY DEF TypeOK
<1>3. QED
  BY <1>1, <1>2, EmptyFewer DEF Gets

\* A step in which no mailbox gets a mail is one in which b gets none.
LEMMA DrainedGets ==
  ASSUME Drained, NEW b \in Box, NEW m
  PROVE  Gets(b, m)
  BY DEF Drained, Gets, Fewer, More

\* addToQueue: the mailbox of the task may get its mail.
LEMMA AddToQueueGets ==
  ASSUME TypeOK, NEW t \in Task, mailbox[t] \in Box, addToQueue(t)
  PROVE  Gets(mailbox[t], MailOf(t))
<1>1. PICK b \in Box : b = mailbox[t]
  OBVIOUS
<1>2. queue[b] \in Seq(Mail) /\ MailOf(t) \in Mail
  BY Queues, MailFacts
<1>3. CASE running[b]
  <2>1. PICK q \in Pushed(t, b) : queue' = [queue EXCEPT ![b] = q]
    BY <1>1, <1>3 DEF addToQueue
  <2>2. More(q, queue[b], MailOf(t))
    BY <1>2, <2>1, PushedMore DEF Pushed
  <2>3. QED
    BY <1>1, <2>1, <2>2, OneGets
<1>4. CASE ~running[b]
  BY <1>1, <1>4, SameDrained, DrainedGets DEF addToQueue
<1>5. QED
  BY <1>3, <1>4

\* cancelTaskQueue pushes nothing.
LEMMA CancelTaskQueueDrained ==
  ASSUME IInv, NEW t \in Queued, cancelTaskQueue(t)
  PROVE  Drained
<1>1. PICK b \in Box : b = mailbox[t]
  BY DEF IInv, QueuedTask, cancelTaskQueue
<1>2. TypeOK
  BY DEF IInv
<1>3. CASE timerState[t] = "scheduling"
  BY <1>2, <1>3, SameDrained DEF cancelTaskQueue
<1>4. CASE timerState[t] # "scheduling"
  <2>1. queue' = [queue EXCEPT ![b] = PopByID(t, b)]
    BY <1>1, <1>4 DEF cancelTaskQueue
  <2>2. Fewer(PopByID(t, b), queue[b])
    BY <1>2, Queues
  <2>3. QED
    BY <1>2, <2>1, <2>2, OneDrained
<1>5. QED
  BY <1>3, <1>4

\* Which steps push no mail.
LEMMA DrainStep ==
  ASSUME IInv,
         \/ \E t \in Task : \/ AddAfter(t) \/ getMailbox(t) \/ genTaskID(t)
                            \/ CancelQueued(t) \/ Cancel(t)
                            \/ CancelLocksTwice(t)
         \/ \E b \in Box : \/ Take(b) \/ RunClosure(b) \/ handleTaskQueue(b)
                           \/ TaskDone(b) \/ Continue(b) \/ checkClose(b)
         \/ Exit \/ Stops
  PROVE  Drained
<1>1. TypeOK
  BY DEF IInv
<1>2. ASSUME NEW t \in Task,
             \/ AddAfter(t) \/ getMailbox(t) \/ genTaskID(t)
             \/ CancelLocksTwice(t)
      PROVE  UNCHANGED queue
  BY <1>2 DEF AddAfter, getMailbox, genTaskID, CancelLocksTwice, boxes
<1>3. ASSUME NEW t \in Task, CancelQueued(t)
      PROVE  Drained
  BY <1>1, <1>3, CancelTaskQueueDrained, SameDrained DEF CancelQueued
<1>4. ASSUME NEW t \in Task, Cancel(t)
      PROVE  Drained
  <2>1. Main \in Box
    BY Sets
  <2>2. \/ UNCHANGED queue
        \/ queue' = [queue EXCEPT ![Main] = PopByID(t, Main)]
    BY <1>4 DEF Cancel
  <2>3. Fewer(PopByID(t, Main), queue[Main])
    BY <1>1, <2>1, Queues
  <2>4. QED
    BY <1>1, <2>1, <2>2, <2>3, OneDrained, SameDrained
<1>5. ASSUME NEW b \in Box, Take(b)
      PROVE  Drained
  <2>1. queue[b] \in Seq(Mail) /\ queue[b] # << >>
        /\ queue' = [queue EXCEPT ![b] = Tail(@)]
    BY <1>1, <1>5, Queues DEF Take
  <2>2. Fewer(Tail(queue[b]), queue[b])
    BY <2>1, TailFewer
  <2>3. QED
    BY <1>1, <2>1, <2>2, OneDrained
<1>6. ASSUME NEW b \in Box,
             \/ RunClosure(b) \/ handleTaskQueue(b) \/ TaskDone(b)
             \/ Continue(b) \/ checkClose(b)
      PROVE  UNCHANGED queue
  BY <1>6 DEF RunClosure, handleTaskQueue, TaskDone, Continue, checkClose
<1>7. ASSUME Exit \/ stopUnlock \/ StopWalks
      PROVE  UNCHANGED queue
  BY <1>7 DEF Exit, stopUnlock, StopWalks, boxes
<1>8. ASSUME stopLock
      PROVE  Drained
  <2>1. Main \in Box /\ Fewer(<< >>, queue[Main])
    BY <1>1, Sets, Queues, EmptyFewer
  <2>2. queue' = [queue EXCEPT ![Main] = << >>]
    BY <1>8 DEF stopLock
  <2>3. QED
    BY <1>1, <2>1, <2>2, OneDrained
<1>9. ASSUME NEW t \in Task, StopCancels(t)
      PROVE  Drained
  BY <1>1, <1>9, CancelTaskQueueDrained, SameDrained DEF StopCancels
<1>10. QED
  BY <1>1, <1>2, <1>3, <1>4, <1>5, <1>6, <1>7, <1>8, <1>9, SameDrained
  DEF Stops

\* Which steps push the mail of a task.
LEMMA GetsStep ==
  ASSUME IInv, NEW t \in Task, Add(t) \/ addNow(t) \/ Fire(t)
  PROVE  /\ Add(t) => Gets(Main, MailOf(t))
         /\ ~Add(t) => \/ Gets(mailbox[t], MailOf(t)) /\ mailbox[t] \in Box
                       \/ Drained
<1>1. TypeOK /\ Main \in Box
  BY Sets DEF IInv
<1>2. /\ More(Append(queue[Main], MailOf(t)), queue[Main], MailOf(t))
      /\ More(<<MailOf(t)>> \o queue[Main], queue[Main], MailOf(t))
  BY <1>1, Queues, PushedMore, MailFacts
<1>3. ASSUME Add(t)
      PROVE  Gets(Main, MailOf(t))
  <2>1. CASE running[Main]
    <3>1. queue' = [queue EXCEPT ![Main] = Append(queue[Main], MailOf(t))]
      BY <1>3, <2>1 DEF Add
    <3>2. QED
      BY <1>1, <1>2, <3>1, OneGets
  <2>2. CASE ~running[Main]
    BY <1>1, <1>3, <2>2, SameDrained, DrainedGets DEF Add
  <2>3. QED
    BY <2>1, <2>2
<1>4. ASSUME addNow(t)
      PROVE  Gets(mailbox[t], MailOf(t)) /\ mailbox[t] \in Box
  <2>1. mailbox[t] \in Box
    BY <1>4, Sets DEF IInv, Adding, addNow
  <2>2. QED
    BY <1>1, <1>4, <2>1, AddToQueueGets DEF addNow
<1>5. ASSUME Fire(t)
      PROVE  \/ Gets(mailbox[t], MailOf(t)) /\ mailbox[t] \in Box
             \/ Drained
  <2>1. CASE ~(t \in tasks /\ timerState[t] = "scheduling")
    BY <1>1, <1>5, <2>1, SameDrained DEF Fire
  <2>2. CASE t \in tasks /\ timerState[t] = "scheduling" /\ t \in After
    <3>1. mailbox[t] = Main
      BY <2>2, Sets DEF IInv, Kinds
    <3>2. CASE running[Main]
      <4>1. queue' = [queue EXCEPT ![Main] = <<MailOf(t)>> \o queue[Main]]
        BY <1>5, <2>2, <3>2 DEF Fire, mailAfter
      <4>2. QED
        BY <1>1, <1>2, <3>1, <4>1, OneGets
    <3>3. CASE ~running[Main]
      BY <1>1, <1>5, <2>2, <3>3, SameDrained DEF Fire, mailAfter
    <3>4. QED
      BY <3>2, <3>3
  <2>3. CASE t \in tasks /\ timerState[t] = "scheduling" /\ t \notin After
    <3>1. mailbox[t] \in Box
      BY <2>3, Sets DEF IInv, OwnTask, QueuedTask
    <3>2. QED
      BY <1>1, <1>5, <2>3, <3>1, AddToQueueGets DEF Fire
  <2>4. QED
    BY <2>1, <2>2, <2>3
<1>6. QED
  BY <1>3, <1>4, <1>5

\* Finish pushes a callback if anything.
LEMMA FinishGets ==
  ASSUME IInv, NEW b \in Box, Finish(b), NEW u \in Task
  PROVE  \E m : m # MailOf(u) /\ Gets(Main, m)
<1>1. TypeOK /\ Main \in Box
  BY Sets DEF IInv
<1>2. CASE UNCHANGED queue
  BY <1>1, <1>2, SameDrained, DrainedGets, MailFacts
<1>3. CASE ~UNCHANGED queue
  <2>1. PICK t \in Task : t = cur[b].task
    BY MailIsOf DEF IInv, Running, Finish
  <2>2. PICK m \in Mail : m = [task |-> t, callback |-> TRUE]
    BY MailFacts
  <2>3. queue' = [queue EXCEPT ![Main] = Append(queue[Main], m)]
    BY <1>3, <2>1, <2>2 DEF Finish
  <2>4. More(Append(queue[Main], m), queue[Main], m)
    BY <1>1, Queues, PushedMore
  <2>5. m # MailOf(u)
    BY <2>2, MailFacts
  <2>6. QED
    BY <1>1, <2>3, <2>4, <2>5, OneGets
<1>4. QED
  BY <1>2, <1>3

-----------------------------------------------------------------------------
\* The steps of the goroutine of a mailbox after it has taken a mail.
Works(b) ==
  \/ RunClosure(b) \/ handleTaskQueue(b) \/ Finish(b) \/ TaskDone(b)
  \/ Continue(b) \/ checkClose(b)

\* All the others but Take.
Calls(t) ==
  \/ Add(t) \/ AddAfter(t) \/ getMailbox(t) \/ Fire(t) \/ CancelQueued(t)
  \/ Cancel(t) \/ CancelLocksTwice(t) \/ genTaskID(t) \/ addNow(t)

\* The calls leave the goroutines alone, but for one that is started.
LEMMA CallsPhase ==
  ASSUME TypeOK, NEW t \in Task, Calls(t)
  PROVE  /\ UNCHANGED cur
         /\ \A b \in Box :
              \/ phase'[b] = phase[b]
              \/ /\ getMailbox(t) /\ phase[b] = "none" /\ phase'[b] = "idle"
                 /\ b \in taskMailboxOf(t) /\ queueMap' =
                      IF t \in Serial THEN b ELSE queueMap
<1>1. CASE getMailbox(t)
  <2>1. PICK b \in taskMailboxOf(t) :
          /\ phase' = [phase EXCEPT ![b] = IF @ = "none" THEN "idle" ELSE @]
          /\ queueMap' = IF t \in Serial THEN b ELSE queueMap
    BY <1>1 DEF getMailbox
  <2>2. UNCHANGED cur
    BY <1>1 DEF getMailbox
  <2>3. ASSUME NEW c \in Box, phase'[c] # phase[c]
        PROVE  phase[c] = "none" /\ phase'[c] = "idle" /\ c = b
    BY <2>1, <2>3 DEF TypeOK
  <2>4. QED
    BY <1>1, <2>1, <2>2, <2>3
<1>2. CASE ~getMailbox(t)
  BY <1>2
  DEF Calls, Add, AddAfter, Fire, CancelQueued, Cancel, CancelLocksTwice,
      genTaskID, addNow, boxes
<1>3. QED
  BY <1>1, <1>2

\* Where a goroutine goes on, and what it lets go.
LEMMA WorksPhase ==
  ASSUME TypeOK, NEW b \in Box, Works(b)
  PROVE  /\ phase[b] \notin {"none", "idle", "exit", "stop", "ended"}
         /\ phase'[b] \notin {"none", "taken", "exit", "stop"}
         /\ phase'[b] = "ended" <=> checkClose(b)
         /\ cur'[b] = cur[b] \/ cur'[b] = NoMail
         /\ \A c \in Box : c # b => phase'[c] = phase[c] /\ cur'[c] = cur[c]
<1>1. CASE RunClosure(b)
  BY <1>1 DEF RunClosure, checkClose, Goto, TypeOK
<1>2. CASE handleTaskQueue(b)
  BY <1>2 DEF handleTaskQueue, checkClose, Served, Leave, Goto, TypeOK
<1>3. CASE Finish(b)
  BY <1>3 DEF Finish, checkClose, Served, Leave, Goto, TypeOK
<1>4. CASE TaskDone(b)
  BY <1>4 DEF TaskDone, checkClose, Served, Leave, Goto, TypeOK
<1>5. CASE Continue(b)
  BY <1>5 DEF Continue, checkClose, Goto, TypeOK
<1>6. CASE checkClose(b)
  BY <1>6 DEF checkClose, Goto, TypeOK
<1>7. QED
  BY <1>1, <1>2, <1>3, <1>4, <1>5, <1>6 DEF Works

\* The stop is a matter of the goroutine of the actor.
LEMMA StopPhase ==
  ASSUME TypeOK, Exit \/ Stops
  PROVE  /\ UNCHANGED cur
         /\ phase[Main] \in {"idle", "exit", "stop"}
         /\ phase[Main] = "idle" => adding = None
         /\ phase'[Main] \in {"exit", "stop", "ended"}
         /\ \A b \in Box : b # Main => phase'[b] = phase[b]
<1>1. Main \in Box
  BY Sets
<1>2. CASE Exit
  BY <1>1, <1>2 DEF Exit, Goto, TypeOK
<1>3. CASE stopLock
  BY <1>1, <1>3 DEF stopLock, Goto, TypeOK
<1>4. CASE stopUnlock
  BY <1>1, <1>4 DEF stopUnlock, Goto, TypeOK
<1>5. CASE StopWalks
  BY <1>5 DEF StopWalks, boxes
<1>6. ASSUME NEW t \in Task, StopCancels(t)
      PROVE  UNCHANGED <<cur, phase>> /\ phase[Main] = "stop"
  BY <1>6 DEF StopCancels
<1>7. QED
  BY <1>2, <1>3, <1>4, <1>5, <1>6 DEF Stops

\* All but Take leave the mails in the hands of the goroutines.
LEMMA QuietStep ==
  ASSUME TypeOK,
         \/ \E t \in Task : Calls(t)
         \/ \E b \in Box : Works(b)
         \/ Exit \/ Stops
  PROVE  Quiet
<1>1. ASSUME NEW t \in Task, Calls(t)
      PROVE  Quiet
  BY <1>1, CallsPhase DEF Quiet
<1>2. ASSUME NEW b \in Box, Works(b)
      PROVE  Quiet
  BY <1>2, WorksPhase DEF Quiet
<1>3. CASE Exit \/ Stops
  BY <1>3, StopPhase DEF Quiet
<1>4. QED
  BY <1>1, <1>2, <1>3

\* The cases of a step.
LEMMA NextCases ==
  ASSUME Next
  PROVE  \/ \E t \in Task : Calls(t)
         \/ \E b \in Box : Take(b) \/ Works(b)
         \/ Exit \/ Stops
  BY DEF Next, Adds, Loop, Calls, Works

\* A mail that is pushed nowhere and taken by nobody gets nowhere.
LEMMA QuietUnfed ==
  ASSUME Quiet, Drained, NEW u \in Task
  PROVE  Unfed(u)
<1>1. SUFFICES ASSUME NEW b \in Box, Present(u, b)'
               PROVE  Present(u, b)
  BY DEF Unfed
<1>2. cur'[b] = MailOf(u) => cur[b] = MailOf(u)
  BY MailFacts DEF Quiet
<1>3. In(MailOf(u), queue'[b]) => In(MailOf(u), queue[b])
  BY DEF Drained, Fewer
<1>4. QED
  BY <1>1, <1>2, <1>3 DEF Present

\* A mail gets to no other mailbox than the one that it is pushed to.
LEMMA QuietFed ==
  ASSUME Quiet, NEW u \in Task, NEW c \in Box, NEW m, Gets(c, m)
  PROVE  Fed(u, c) /\ (m # MailOf(u) => Unfed(u))
<1>1. ASSUME NEW b \in Box, Present(u, b)', ~Present(u, b)
      PROVE  b = c /\ m = MailOf(u)
  <2>1. cur'[b] = MailOf(u) => cur[b] = MailOf(u)
    BY MailFacts DEF Quiet
  <2>2. In(MailOf(u), queue'[b]) /\ ~In(MailOf(u), queue[b])
    BY <1>1, <2>1 DEF Present
  <2>3. QED
    BY <2>2 DEF Gets, Fewer, More
<1>2. QED
  BY <1>1 DEF Fed, Unfed

\* Take moves a mail from the list to the goroutine.
LEMMA TakeUnfed ==
  ASSUME IInv, NEW b \in Box, Take(b), NEW u \in Task
  PROVE  Unfed(u)
<1>1. TypeOK /\ queue[b] \in Seq(Mail) /\ queue[b] # << >>
  BY Queues DEF IInv, Take
<1>2. SUFFICES ASSUME NEW c \in Box, Present(u, c)'
               PROVE  Present(u, c)
  BY DEF Unfed
<1>3. In(MailOf(u), queue'[c]) => In(MailOf(u), queue[c])
  BY DrainStep DEF Drained, Fewer
<1>4. cur'[c] = MailOf(u) => Present(u, c)
  <2>1. CASE c = b
    <3>1. cur'[c] = Head(queue[c])
      BY <1>1, <2>1 DEF Take, TypeOK
    <3>2. In(Head(queue[c]), queue[c])
      BY <1>1, <2>1, TailFewer
    <3>3. QED
      BY <3>1, <3>2 DEF Present
  <2>2. CASE c # b
    BY <1>1, <2>2 DEF Take, TypeOK, Present
  <2>3. QED
    BY <2>1, <2>2
<1>5. QED
  BY <1>2, <1>3, <1>4 DEF Present

\* Which steps bring the mail of a task anywhere: its own push, to its mailbox.
LEMMA FedStep ==
  ASSUME IInv, Next, NEW u \in Task
  PROVE  \/ Unfed(u)
         \/ (Add(u) \/ addNow(u) \/ Fire(u)) /\ Fed(u, mailbox[u])
<1>1. TypeOK /\ Main \in Box
  BY Sets DEF IInv
<1>2. ASSUME NEW t \in Task, Add(t) \/ addNow(t) \/ Fire(t)
      PROVE  \/ Unfed(u)
             \/ (Add(u) \/ addNow(u) \/ Fire(u)) /\ Fed(u, mailbox[u])
  <2>1. Quiet
    BY <1>1, <1>2, QuietStep DEF Calls
  <2>2. CASE Drained
    BY <2>1, <2>2, QuietUnfed
  <2>3. CASE ~Drained
    <3>1. Gets(mailbox[t], MailOf(t)) /\ mailbox[t] \in Box
      <4>1. CASE Add(t)
        <5>1. mailbox[t] = Main
          BY <4>1, Sets DEF IInv, Kinds, Add
        <5>2. QED
          BY <1>1, <4>1, <5>1, GetsStep
      <4>2. CASE ~Add(t)
        BY <1>2, <2>3, <4>2, GetsStep
      <4>3. QED
        BY <4>1, <4>2
    <3>2. CASE t = u
      BY <1>2, <2>1, <3>1, <3>2, QuietFed
    <3>3. CASE t # u
      <4>1. MailOf(t) # MailOf(u)
        BY <3>3, MailFacts
      <4>2. QED
        BY <2>1, <3>1, <4>1, QuietFed
    <3>4. QED
      BY <3>2, <3>3
  <2>4. QED
    BY <2>2, <2>3
<1>3. ASSUME NEW b \in Box, Finish(b)
      PROVE  Unfed(u)
  <2>1. Quiet
    BY <1>1, <1>3, QuietStep DEF Works
  <2>2. PICK m : m # MailOf(u) /\ Gets(Main, m)
    BY <1>3, FinishGets
  <2>3. QED
    BY <1>1, <2>1, <2>2, QuietFed
<1>4. ASSUME NEW b \in Box, Take(b)
      PROVE  Unfed(u)
  BY <1>4, TakeUnfed
<1>5. ASSUME \/ \E t \in Task :
                  \/ AddAfter(t) \/ getMailbox(t) \/ genTaskID(t)
                  \/ CancelQueued(t) \/ Cancel(t) \/ CancelLocksTwice(t)
             \/ \E b \in Box : Works(b) /\ ~Finish(b)
             \/ Exit \/ Stops
      PROVE  Unfed(u)
  <2>1. Quiet
    BY <1>1, <1>5, QuietStep DEF Calls
  <2>2. Drained
    BY <1>5, DrainStep DEF Works
  <2>3. QED
    BY <2>1, <2>2, QuietUnfed
<1>6. QED
  BY <1>2, <1>3, <1>4, <1>5, NextCases DEF Calls

\* The mailbox of a task is given once, by getMailbox.
LEMMA MailboxStep ==
  ASSUME TypeOK, Next, NEW u \in Task
  PROVE  \/ mailbox'[u] = mailbox[u]
         \/ getMailbox(u) /\ mailbox'[u] \in taskMailboxOf(u)
<1>1. ASSUME NEW t \in Task, getMailbox(t)
      PROVE  \/ mailbox'[u] = mailbox[u]
             \/ t = u /\ mailbox'[u] \in taskMailboxOf(u)
  BY <1>1 DEF getMailbox, TypeOK
<1>2. ASSUME NEW t \in Task, Calls(t), ~getMailbox(t)
      PROVE  UNCHANGED mailbox
  BY <1>2
  DEF Calls, Add, AddAfter, Fire, CancelQueued, Cancel, CancelLocksTwice,
      genTaskID, addNow
<1>3. ASSUME NEW b \in Box, Take(b) \/ Works(b)
      PROVE  UNCHANGED mailbox
  BY <1>3
  DEF Works, Take, RunClosure, handleTaskQueue, Finish, TaskDone, Continue,
      checkClose
<1>4. ASSUME Exit \/ Stops
      PROVE  UNCHANGED mailbox
  BY <1>4 DEF Exit, Stops, stopLock, stopUnlock, StopWalks, StopCancels
<1>5. QED
  BY <1>1, <1>2, <1>3, <1>4, NextCases

\* The mail of a task stays in the mailbox that it was given.
LEMMA BoxedStep ==
  ASSUME IInv, Next
  PROVE  Boxed'
<1>1. SUFFICES ASSUME NEW u \in Task, NEW b \in Box, Present(u, b)'
               PROVE  b = mailbox'[u]
  BY DEF Boxed
<1>2. TypeOK /\ Boxed
  BY DEF IInv
<1>3. CASE getMailbox(u)
  <2>1. u \in Queued /\ fate[u] = "none" /\ ~Add(u)
    BY <1>3, Sets DEF getMailbox, New, Add
  <2>2. ~Present(u, b)
    BY <2>1 DEF IInv, QueuedTask
  <2>3. UNCHANGED <<queue, cur>>
    BY <1>3 DEF getMailbox
  <2>4. QED
    BY <1>1, <2>2, <2>3 DEF Present
<1>4. CASE ~getMailbox(u)
  <2>1. mailbox'[u] = mailbox[u]
    BY <1>2, <1>4, MailboxStep
  <2>2. Unfed(u) \/ Fed(u, mailbox[u])
    BY FedStep
  <2>3. QED
    BY <1>1, <1>2, <2>1, <2>2 DEF Unfed, Fed, Boxed
<1>5. QED
  BY <1>3, <1>4

\* A task keeps to the mailboxes of its kind.
LEMMA KindsStep ==
  ASSUME IInv, Next
  PROVE  Kinds'
<1>1. TypeOK /\ Kinds
  BY DEF IInv
<1>2. ASSUME NEW u \in Own
      PROVE  mailbox'[u] = Main
  <2>1. u \in Task /\ ~getMailbox(u)
    BY Sets DEF getMailbox
  <2>2. QED
    BY <1>1, <2>1, MailboxStep DEF Kinds
<1>3. ASSUME NEW u \in Serial
      PROVE  mailbox'[u] \in SerialBox \cup {None}
  <2>1. u \in Task /\ taskMailboxOf(u) \subseteq SerialBox
    BY <1>1, Sets, TaskManagerAssumption
    DEF taskMailboxOf, Unused, TypeOK, TaskManagerAssumption
  <2>2. QED
    BY <1>1, <2>1, MailboxStep DEF Kinds
<1>4. ASSUME NEW b \in SerialBox, phase'[b] \notin {"none", "ended"}
      PROVE  queueMap' = b
  <2>1. b \in Box /\ b # Main
    BY Sets
  <2>2. ASSUME NEW t \in Task, Calls(t)
        PROVE  queueMap' = b
    <3>1. CASE getMailbox(t)
      <4>1. PICK c \in taskMailboxOf(t) :
              /\ phase' = [phase EXCEPT ![c] = IF @ = "none" THEN "idle" ELSE @]
              /\ queueMap' = IF t \in Serial THEN c ELSE queueMap
        BY <3>1 DEF getMailbox
      <4>2. CASE t \in Serial
        <5>1. CASE queueMap # None
          <6>1. c = queueMap
            BY <4>2, <5>1, TaskManagerAssumption
            DEF taskMailboxOf, TaskManagerAssumption
          <6>2. b = c \/ phase'[b] = phase[b]
            BY <1>1, <2>1, <4>1 DEF TypeOK
          <6>3. QED
            BY <1>1, <1>4, <4>1, <4>2, <6>1, <6>2 DEF Kinds
        <5>2. CASE queueMap = None
          <6>1. phase[b] \in {"none", "ended"}
            BY <1>1, <2>1, <5>2, Sets DEF Kinds
          <6>2. b = c \/ phase'[b] = phase[b]
            BY <1>1, <2>1, <4>1 DEF TypeOK
          <6>3. QED
            BY <1>4, <4>1, <4>2, <6>1, <6>2
        <5>3. QED
          BY <5>1, <5>2
      <4>3. CASE t \notin Serial
        <5>1. c \notin SerialBox
          BY <3>1, <4>3, TaskManagerAssumption
          DEF getMailbox, taskMailboxOf, TaskManagerAssumption, Queued, Task
        <5>2. phase'[b] = phase[b]
          BY <1>1, <2>1, <4>1, <5>1 DEF TypeOK
        <5>3. QED
          BY <1>1, <1>4, <4>1, <4>3, <5>2 DEF Kinds
      <4>4. QED
        BY <4>2, <4>3
    <3>2. CASE ~getMailbox(t)
      <4>1. phase'[b] = phase[b]
        BY <1>1, <2>1, <2>2, <3>2, CallsPhase
      <4>2. UNCHANGED queueMap
        BY <2>2, <3>2
        DEF Calls, Add, AddAfter, Fire, CancelQueued, Cancel,
            CancelLocksTwice, genTaskID, addNow
      <4>3. QED
        BY <1>1, <1>4, <4>1, <4>2 DEF Kinds
    <3>3. QED
      BY <3>1, <3>2
  <2>3. ASSUME NEW c \in Box, Take(c)
        PROVE  queueMap' = b
    <3>1. phase[b] \notin {"none", "ended"}
      BY <1>1, <1>4, <2>1, <2>3 DEF Take, Goto, TypeOK
    <3>2. QED
      BY <1>1, <2>3, <3>1 DEF Take, Kinds
  <2>4. ASSUME NEW c \in Box, Works(c)
        PROVE  queueMap' = b
    <3>1. phase[b] \notin {"none", "ended"}
      BY <1>1, <1>4, <2>1, <2>4, WorksPhase
    <3>2. queueMap = b
      BY <1>1, <3>1 DEF Kinds
    <3>3. CASE checkClose(c) /\ c \in SerialBox
      <4>1. phase[c] \notin {"none", "ended"}
        BY <1>1, <2>4, WorksPhase
      <4>2. c = b
        BY <1>1, <3>2, <3>3, <4>1 DEF Kinds
      <4>3. QED
        BY <1>1, <1>4, <2>4, <3>3, <4>2, WorksPhase
    <3>4. CASE ~(checkClose(c) /\ c \in SerialBox)
      <4>1. UNCHANGED queueMap
        BY <2>4, <3>4
        DEF Works, RunClosure, handleTaskQueue, Finish, TaskDone, Continue,
            checkClose
      <4>2. QED
        BY <3>2, <4>1
    <3>5. QED
      BY <3>3, <3>4
  <2>5. ASSUME Exit \/ Stops
        PROVE  queueMap' = b
    <3>1. phase'[b] = phase[b]
      BY <1>1, <2>1, <2>5, StopPhase
    <3>2. UNCHANGED queueMap
      BY <2>5
      DEF Exit, Stops, stopLock, stopUnlock, StopWalks, StopCancels
    <3>3. QED
      BY <1>1, <1>4, <3>1, <3>2 DEF Kinds
  <2>6. QED
    BY <2>2, <2>3, <2>4, <2>5, NextCases
<1>5. QED
  BY <1>2, <1>3, <1>4 DEF Kinds

-----------------------------------------------------------------------------
\* A step that has nothing to do with the queue task u.
Alone(u) ==
  /\ timerState'[u] = timerState[u] /\ fate'[u] = fate[u]
  /\ runs'[u] = runs[u] /\ calls'[u] = calls[u]
  /\ u \in tasks' => u \in tasks

\* The steps that have.
Timeout(u) == Fire(u) /\ u \in tasks /\ timerState[u] = "scheduling"
Starts(u) ==
  \E b \in Box : /\ handleTaskQueue(b) /\ cur[b] = MailOf(u)
                 /\ timerState[u] = "mailing"
Ends(u) == \E b \in Box : TaskDone(b) /\ cur[b] = MailOf(u)
Concerns(u) ==
  \/ genTaskID(u) \/ addNow(u) \/ Timeout(u) \/ cancelTaskQueue(u)
  \/ Starts(u) \/ Ends(u)

\* The calls of the task manager concern the task they are made for.
LEMMA CallsAlone ==
  ASSUME IInv, NEW u \in Queued, NEW t \in Task, Calls(t)
  PROVE  Alone(u) \/ Concerns(u)
<1>1. TypeOK /\ u \in Task
  BY Sets DEF IInv
<1>2. /\ timerState \in [Task -> {"none", "scheduling", "mailing", "executing",
                                  "done", "cancelled"}]
      /\ fate \in [Task -> {"none", "added", "refused", "cancelled", "dropped"}]
      /\ runs \in [Task -> Nat] /\ calls \in [Task -> Nat]
  BY <1>1 DEF TypeOK
<1>3. CASE Add(t)
  <2>1. t # u
    BY <1>3, Sets DEF Add
  <2>2. QED
    BY <1>1, <1>2, <1>3, <2>1 DEF Add, Fate, Alone
<1>4. CASE AddAfter(t)
  <2>1. t # u
    BY <1>4, Sets DEF AddAfter
  <2>2. QED
    BY <1>1, <1>2, <1>4, <2>1 DEF AddAfter, Fate, Become, Alone
<1>5. CASE getMailbox(t)
  BY <1>5 DEF getMailbox, history, Alone
<1>6. CASE genTaskID(t)
  <2>1. CASE t = u
    BY <1>6, <2>1 DEF Concerns
  <2>2. CASE t # u
    BY <1>1, <1>2, <1>6, <2>2 DEF genTaskID, Become, Fate, Alone
  <2>3. QED
    BY <2>1, <2>2
<1>7. CASE addNow(t)
  <2>1. CASE t = u
    BY <1>7, <2>1 DEF Concerns
  <2>2. CASE t # u
    BY <1>1, <1>2, <1>7, <2>2 DEF addNow, addToQueue, Call, Fate, Alone
  <2>3. QED
    BY <2>1, <2>2
<1>8. CASE Fire(t)
  <2>1. CASE t = u /\ t \in tasks /\ timerState[t] = "scheduling"
    BY <1>8, <2>1 DEF Concerns, Timeout
  <2>2. CASE ~(t \in tasks /\ timerState[t] = "scheduling")
    BY <1>8, <2>2 DEF Fire, Alone
  <2>3. CASE t # u
    BY <1>1, <1>2, <1>8, <2>3
    DEF Fire, mailAfter, addToQueue, Become, Call, Fate, Alone
  <2>4. QED
    BY <2>1, <2>2, <2>3
<1>9. CASE CancelQueued(t)
  <2>1. CASE cancelTaskQueue(t)
    <3>1. CASE t = u
      BY <2>1, <3>1 DEF Concerns
    <3>2. CASE t # u
      BY <1>1, <1>2, <1>9, <2>1, <3>2
      DEF CancelQueued, cancelTaskQueue, Cancelled, Become, Call, Alone
    <3>3. QED
      BY <3>1, <3>2
  <2>2. CASE ~cancelTaskQueue(t)
    BY <1>9, <2>2 DEF CancelQueued, Alone
  <2>3. QED
    BY <2>1, <2>2
<1>10. CASE Cancel(t)
  <2>1. t # u
    BY <1>10, Sets DEF Cancel, Own
  <2>2. QED
    BY <1>1, <1>2, <1>10, <2>1 DEF Cancel, Fate, Become, Alone
<1>11. CASE CancelLocksTwice(t)
  BY <1>11 DEF CancelLocksTwice, history, Alone
<1>12. QED
  BY <1>3, <1>4, <1>5, <1>6, <1>7, <1>8, <1>9, <1>10, <1>11 DEF Calls

\* The goroutine of a mailbox concerns the task that it has in its hands.
LEMMA WorksAlone ==
  ASSUME IInv, NEW u \in Queued, NEW b \in Box, Take(b) \/ Works(b)
  PROVE  Alone(u) \/ Concerns(u)
<1>1. TypeOK /\ u \in Task
  BY Sets DEF IInv
<1>2. /\ timerState \in [Task -> {"none", "scheduling", "mailing", "executing",
                                  "done", "cancelled"}]
      /\ runs \in [Task -> Nat]
  BY <1>1 DEF TypeOK
<1>3. CASE Take(b)
  BY <1>3 DEF Take, history, Alone
<1>4. CASE RunClosure(b)
  <2>1. cur[b].callback \/ cur[b].task # u
    BY <1>4 DEF RunClosure
  <2>2. QED
    BY <1>1, <1>2, <1>4, <2>1 DEF RunClosure, Alone
<1>5. CASE handleTaskQueue(b)
  <2>1. PICK t \in Task : t = cur[b].task
    BY <1>5, MailIsOf DEF IInv, Running, handleTaskQueue
  <2>2. CASE timerState[t] = "mailing"
    <3>1. CASE t = u
      <4>1. cur[b] = MailOf(u)
        BY <1>5, <2>1, <3>1, MailIsOf DEF IInv, Running, handleTaskQueue
      <4>2. QED
        BY <1>5, <2>2, <3>1, <4>1 DEF Concerns, Starts
    <3>2. CASE t # u
      BY <1>1, <1>2, <1>5, <2>1, <2>2, <3>2
      DEF handleTaskQueue, Become, Alone
    <3>3. QED
      BY <3>1, <3>2
  <2>3. CASE timerState[t] # "mailing"
    BY <1>5, <2>1, <2>3 DEF handleTaskQueue, Alone
  <2>4. QED
    BY <2>2, <2>3
<1>6. CASE Finish(b)
  BY <1>6 DEF Finish, history, Alone
<1>7. CASE TaskDone(b)
  <2>1. cur[b] = MailOf(cur[b].task) /\ cur[b].task \in Task
    BY <1>7, MailIsOf DEF IInv, Running, TaskDone
  <2>2. CASE cur[b].task = u
    BY <1>7, <2>1, <2>2 DEF Concerns, Ends
  <2>3. CASE cur[b].task # u
    BY <1>1, <1>2, <1>7, <2>1, <2>3 DEF TaskDone, Become, history, Alone
  <2>4. QED
    BY <2>2, <2>3
<1>8. CASE Continue(b)
  BY <1>8 DEF Continue, history, Alone
<1>9. CASE checkClose(b)
  BY <1>9 DEF checkClose, history, Alone
<1>10. QED
  BY <1>3, <1>4, <1>5, <1>6, <1>7, <1>8, <1>9 DEF Works

\* The stop concerns the tasks that it cancels.
LEMMA StopAlone ==
  ASSUME IInv, NEW u \in Queued, Exit \/ Stops
  PROVE  Alone(u) \/ Concerns(u)
<1>1. TypeOK /\ u \in Task
  BY Sets DEF IInv
<1>2. /\ timerState \in [Task -> {"none", "scheduling", "mailing", "executing",
                                  "done", "cancelled"}]
      /\ fate \in [Task -> {"none", "added", "refused", "cancelled", "dropped"}]
      /\ calls \in [Task -> Nat]
  BY <1>1 DEF TypeOK
<1>3. CASE Exit \/ stopLock \/ stopUnlock
  BY <1>3 DEF Exit, stopLock, stopUnlock, history, Alone
<1>4. CASE StopWalks
  BY <1>1, <1>2, <1>4 DEF StopWalks, Fate, Alone
<1>5. ASSUME NEW t \in Task, StopCancels(t)
      PROVE  Alone(u) \/ Concerns(u)
  <2>1. CASE t \in Queued /\ cancelTaskQueue(t)
    <3>1. CASE t = u
      BY <2>1, <3>1 DEF Concerns
    <3>2. CASE t # u
      BY <1>1, <1>2, <1>5, <2>1, <3>2
      DEF StopCancels, cancelTaskQueue, Cancelled, Become, Call, Alone
    <3>3. QED
      BY <3>1, <3>2
  <2>2. CASE t \in After
    <3>1. t # u
      BY <2>2, Sets
    <3>2. QED
      BY <1>1, <1>2, <1>5, <2>2, <3>1, Sets
      DEF StopCancels, Become, Fate, Alone
  <2>3. CASE ~(t \in Queued /\ cancelTaskQueue(t)) /\ t \notin After
    BY <1>5, <2>3 DEF StopCancels, Alone
  <2>4. QED
    BY <2>1, <2>2, <2>3
<1>6. QED
  BY <1>3, <1>4, <1>5 DEF Stops

\* Every step leaves a queued task alone, or is about it.
LEMMA AloneStep ==
  ASSUME IInv, Next, NEW u \in Queued
  PROVE  Alone(u) \/ Concerns(u)
  BY CallsAlone, WorksAlone, StopAlone, NextCases

\* A task that is executed stays so, in the hands of its goroutine.
LEMMA ExecutingStep ==
  ASSUME IInv, Next, NEW u \in Queued, NEW b \in Box,
         cur[b] = MailOf(u), phase[b] \in {"run", "ran"}
  PROVE  \/ TaskDone(b)
         \/ cur'[b] = cur[b] /\ phase'[b] \in {"run", "ran"}
<1>1. /\ TypeOK /\ u \in Task
      /\ cur[b].task = u /\ cur[b].callback = FALSE
  BY Sets, MailFacts DEF IInv
<1>2. ASSUME NEW t \in Task, Calls(t)
      PROVE  cur'[b] = cur[b] /\ phase'[b] \in {"run", "ran"}
  BY <1>1, <1>2, CallsPhase
<1>3. ASSUME NEW c \in Box, Take(c)
      PROVE  cur'[b] = cur[b] /\ phase'[b] \in {"run", "ran"}
  BY <1>1, <1>3 DEF Take, Goto, TypeOK
<1>4. ASSUME NEW c \in Box, c # b, Works(c)
      PROVE  cur'[b] = cur[b] /\ phase'[b] \in {"run", "ran"}
  BY <1>1, <1>4, WorksPhase
<1>5. ASSUME Works(b), ~TaskDone(b)
      PROVE  cur'[b] = cur[b] /\ phase'[b] \in {"run", "ran"}
  <2>1. Finish(b)
    BY <1>5 DEF Works, RunClosure, handleTaskQueue, Continue, checkClose
  <2>2. QED
    BY <1>1, <2>1 DEF Finish, Goto, TypeOK
<1>6. ASSUME Exit \/ Stops
      PROVE  cur'[b] = cur[b] /\ phase'[b] \in {"run", "ran"}
  BY <1>1, <1>6, StopPhase
<1>7. QED
  BY <1>2, <1>3, <1>4, <1>5, <1>6, NextCases

\* While a task is added, nothing else happens to it and the actor is busy.
LEMMA AddingStep ==
  ASSUME IInv, Next
  PROVE  Adding'
<1>1. TypeOK /\ Adding /\ Main \in Box
  BY Sets DEF IInv
<1>2. ASSUME NEW t \in Task, getMailbox(t)
      PROVE  Adding'
  <2>1. /\ adding' = t /\ t \in Queued /\ fate[t] = "none"
        /\ UNCHANGED <<fate, tasks, timerState>>
        /\ phase[Main] \in {"idle", "run"}
    BY <1>2 DEF getMailbox, New, OwnerCalls, history
  <2>2. mailbox'[t] \in Box
    <3>1. PICK b \in taskMailboxOf(t) : mailbox' = [mailbox EXCEPT ![t] = b]
      BY <1>2 DEF getMailbox
    <3>2. b \in Box
      BY <1>1, <1>2, <3>1, TaskManagerAssumption
      DEF getMailbox, taskMailboxOf, Unused, TypeOK, Queued, Box,
          TaskManagerAssumption
    <3>3. QED
      BY <1>1, <3>1, <3>2 DEF TypeOK
  <2>3. phase'[Main] = phase[Main]
    BY <1>1, <1>2, <2>1, CallsPhase DEF Calls
  <2>4. t \in tasks => timerState[t] = "mailing"
    BY <1>1, <2>1 DEF IInv, QueuedTask, Told, TypeOK
  <2>5. QED
    BY <2>1, <2>2, <2>3, <2>4 DEF Adding
<1>3. ASSUME \A t \in Task : ~getMailbox(t)
      PROVE  Adding'
  <2>1. adding' \in {adding, None}
    BY <1>3, NextCases
    DEF Calls, Works, Stops, Add, AddAfter, Fire, CancelQueued, Cancel,
        CancelLocksTwice, genTaskID, addNow, Take, RunClosure,
        handleTaskQueue, Finish, TaskDone, Continue, checkClose, Exit,
        stopLock, stopUnlock, StopWalks, StopCancels
  <2>2. SUFFICES ASSUME adding' # None
                 PROVE  Adding'
    BY DEF Adding
  <2>3. PICK u \in Queued :
          /\ adding = u /\ adding' = u /\ fate[u] = "none"
          /\ mailbox[u] \in Box /\ phase[Main] \in {"idle", "run"}
          /\ u \in tasks => timerState[u] = "mailing"
    BY <1>1, <2>1, <2>2 DEF Adding
  <2>4. u \in Task /\ u # None
    BY Sets
  <2>5. mailbox'[u] = mailbox[u]
    BY <1>1, <1>3, <2>4, MailboxStep
  <2>6. \A b \in Box : ~Present(u, b) /\ cur[b] # MailOf(u)
    BY <2>3 DEF IInv, QueuedTask, Present
  <2>7. ~addNow(u) /\ ~Starts(u) /\ ~Ends(u)
    BY <2>2, <2>6 DEF addNow, Starts, Ends
  <2>8. ~Timeout(u)
    BY <2>3 DEF IInv, QueuedTask, Told, Timeout
  <2>9. ~(Exit \/ Stops)
    BY <1>1, <2>3, <2>4, StopPhase
  <2>10. phase'[Main] \in {"idle", "run"}
    <3>1. ASSUME NEW t \in Task, Calls(t)
          PROVE  phase'[Main] \in {"idle", "run"}
      BY <1>1, <2>3, <3>1, CallsPhase
    <3>2. ASSUME NEW b \in Box, Take(b) \/ Works(b)
          PROVE  phase'[Main] \in {"idle", "run"}
      <4>1. b # Main
        BY <2>3, <2>4, <3>2
        DEF Works, Take, RunClosure, handleTaskQueue, Finish, TaskDone,
            Continue, checkClose
      <4>2. CASE Take(b)
        BY <1>1, <2>3, <4>1, <4>2 DEF Take, Goto, TypeOK
      <4>3. CASE Works(b)
        BY <1>1, <2>3, <4>1, <4>3, WorksPhase
      <4>4. QED
        BY <3>2, <4>2, <4>3
    <3>3. QED
      BY <2>9, <3>1, <3>2, NextCases
  <2>11. CASE Alone(u)
    BY <2>3, <2>5, <2>10, <2>11 DEF Alone, Adding
  <2>12. CASE genTaskID(u)
    <3>1. /\ UNCHANGED fate
          /\ timerState' = [timerState EXCEPT ![u] = "mailing"]
      BY <2>2, <2>12 DEF genTaskID, Become
    <3>2. timerState'[u] = "mailing"
      BY <1>1, <2>4, <3>1 DEF TypeOK
    <3>3. QED
      BY <2>3, <2>5, <2>10, <3>1, <3>2 DEF Adding
  <2>13. CASE cancelTaskQueue(u)
    <3>1. timerState'[u] = "cancelled" /\ timerState[u] # "cancelled"
      BY <1>1, <2>4, <2>13 DEF cancelTaskQueue, Become, TypeOK
    <3>2. \E t \in Task : CancelQueued(t)
      <4>1. ASSUME NEW t \in Task, Calls(t), ~CancelQueued(t)
            PROVE  FALSE
        <5>1. ~AddAfter(t) /\ ~Cancel(t) /\ ~getMailbox(t)
          BY <2>3, <2>4 DEF AddAfter, Cancel, getMailbox, OwnerCalls
        <5>2. UNCHANGED timerState \/ timerState'[u] # "cancelled"
                \/ timerState'[u] = timerState[u]
          BY <1>1, <2>4, <4>1, <5>1
          DEF Calls, Add, Fire, genTaskID, addNow, CancelLocksTwice, Become,
              TypeOK
        <5>3. QED
          BY <3>1, <5>2
      <4>2. ASSUME NEW b \in Box, Take(b) \/ Works(b)
            PROVE  FALSE
        <5>1. UNCHANGED timerState \/ timerState'[u] # "cancelled"
                \/ timerState'[u] = timerState[u]
          BY <1>1, <2>4, <4>2
          DEF Works, Take, RunClosure, handleTaskQueue, Finish, TaskDone,
              Continue, checkClose, Become, TypeOK
        <5>2. QED
          BY <3>1, <5>1
      <4>3. QED
        BY <2>9, <4>1, <4>2, NextCases
    <3>3. QED
      BY <2>3, <2>4, <3>2 DEF CancelQueued, OwnerCalls
  <2>14. QED
    BY <2>7, <2>8, <2>11, <2>12, <2>13, AloneStep DEF Concerns
<1>4. QED
  BY <1>2, <1>3

-----------------------------------------------------------------------------
\* Whose goroutine is at work after a step.
LEMMA RunStep ==
  ASSUME TypeOK, Next, NEW b \in Box, phase'[b] \in {"taken", "run", "ran"}
  PROVE  \/ phase'[b] = "taken" /\ Take(b)
         \/ phase'[b] = "run" /\ (RunClosure(b) \/ handleTaskQueue(b))
         \/ phase[b] = "run" /\ phase'[b] = "ran" /\ Finish(b)
         \/ phase'[b] = phase[b] /\ cur'[b] = cur[b]
<1>1. ASSUME NEW t \in Task, Calls(t)
      PROVE  phase'[b] = phase[b] /\ cur'[b] = cur[b]
  BY <1>1, CallsPhase
<1>2. ASSUME NEW c \in Box, Take(c)
      PROVE  \/ phase'[b] = "taken" /\ Take(b)
             \/ phase'[b] = phase[b] /\ cur'[b] = cur[b]
  BY <1>2 DEF Take, Goto, TypeOK
<1>3. ASSUME NEW c \in Box, c # b, Works(c)
      PROVE  phase'[b] = phase[b] /\ cur'[b] = cur[b]
  BY <1>3, WorksPhase
<1>4. CASE RunClosure(b) \/ handleTaskQueue(b)
  <2>1. phase'[b] = "run" \/ Served(b)
    BY <1>4 DEF RunClosure, handleTaskQueue, Goto, TypeOK
  <2>2. QED
    BY <1>4, <2>1 DEF Served, Leave, Goto, TypeOK
<1>5. CASE Finish(b)
  <2>1. phase[b] = "run" /\ (phase'[b] = "ran" \/ Served(b))
    BY <1>5 DEF Finish, Goto, TypeOK
  <2>2. QED
    BY <1>5, <2>1 DEF Served, Leave, Goto, TypeOK
<1>6. CASE TaskDone(b)
  BY <1>6 DEF TaskDone, Served, Leave, Goto, TypeOK
<1>7. CASE Continue(b) \/ checkClose(b)
  BY <1>7 DEF Continue, checkClose, Goto, TypeOK
<1>8. ASSUME Exit \/ Stops
      PROVE  phase'[b] = phase[b] /\ cur'[b] = cur[b]
  BY <1>8, StopPhase
<1>9. QED
  BY <1>1, <1>2, <1>3, <1>4, <1>5, <1>6, <1>7, <1>8, NextCases DEF Works

\* A queue task whose function runs, or has returned, is Executing.
LEMMA RunningStep ==
  ASSUME IInv, Next
  PROVE  Running'
<1>1. TypeOK /\ Running /\ Boxed
  BY DEF IInv
<1>2. SUFFICES ASSUME NEW b \in Box, phase'[b] \in {"taken", "run", "ran"}
               PROVE  /\ cur'[b] \in Mail
                      /\ phase'[b] = "ran" =>
                           ~cur'[b].callback /\ cur'[b].task \in Queued
                      /\ phase'[b] \in {"run", "ran"} /\ ~cur'[b].callback
                           /\ cur'[b].task \in Queued
                           => timerState'[cur'[b].task] = "executing"
  BY DEF Running
<1>3. CASE phase'[b] = "taken" /\ Take(b)
  <2>1. cur'[b] = Head(queue[b]) /\ queue[b] \in Seq(Mail) /\ queue[b] # << >>
    BY <1>1, <1>3, Queues DEF Take, TypeOK
  <2>2. QED
    BY <1>3, <2>1, TailFewer
<1>4. CASE phase'[b] = "run" /\ RunClosure(b)
  BY <1>1, <1>4 DEF RunClosure, Running
<1>5. CASE phase'[b] = "run" /\ handleTaskQueue(b)
  <2>1. timerState[cur[b].task] = "mailing"
    BY <1>1, <1>5 DEF handleTaskQueue, Served, Leave, Goto, TypeOK
  <2>2. cur[b] \in Mail /\ cur[b].task \in Task
    BY <1>1, <1>5, MailIsOf DEF handleTaskQueue, Running
  <2>3. UNCHANGED cur /\ timerState'[cur[b].task] = "executing"
    BY <1>1, <1>5, <2>1, <2>2 DEF handleTaskQueue, Become, TypeOK
  <2>4. QED
    BY <1>5, <2>2, <2>3
<1>6. ASSUME \/ phase[b] = "run" /\ phase'[b] = "ran" /\ Finish(b)
             \/ phase'[b] = phase[b] /\ cur'[b] = cur[b]
      PROVE  /\ cur'[b] \in Mail
             /\ phase'[b] = "ran" =>
                  ~cur'[b].callback /\ cur'[b].task \in Queued
             /\ phase'[b] \in {"run", "ran"} /\ ~cur'[b].callback
                  /\ cur'[b].task \in Queued
                  => timerState'[cur'[b].task] = "executing"
  <2>1. /\ cur'[b] = cur[b] /\ phase[b] \in {"taken", "run", "ran"}
        /\ phase'[b] \in {"run", "ran"} => phase[b] \in {"run", "ran"}
        /\ phase'[b] = "ran" => ~cur[b].callback /\ cur[b].task \in Queued
    <3>1. CASE phase[b] = "run" /\ phase'[b] = "ran" /\ Finish(b)
      BY <1>1, <3>1 DEF Finish, Served, Leave, Goto, TypeOK
    <3>2. CASE phase'[b] = phase[b] /\ cur'[b] = cur[b]
      BY <1>1, <1>2, <3>2 DEF Running
    <3>3. QED
      BY <1>6, <3>1, <3>2
  <2>2. cur[b] \in Mail
    BY <1>1, <2>1 DEF Running
  <2>3. ASSUME phase'[b] \in {"run", "ran"}, ~cur[b].callback,
               cur[b].task \in Queued
        PROVE  timerState'[cur[b].task] = "executing"
    <3>1. PICK u \in Queued : u = cur[b].task /\ cur[b] = MailOf(u)
      BY <2>2, <2>3, MailIsOf
    <3>2. u \in Task /\ timerState[u] = "executing"
      BY <1>1, <2>1, <2>3, <3>1, Sets DEF Running
    <3>3. ~TaskDone(b)
      BY <1>1, <2>1, <2>3, <3>1, MailFacts, Sets
      DEF TaskDone, Served, Leave, TypeOK
    <3>4. ~Ends(u)
      <4>1. ASSUME NEW c \in Box, TaskDone(c), cur[c] = MailOf(u)
            PROVE  FALSE
        <5>1. c = b
          BY <1>1, <3>1, <3>2, <4>1 DEF Boxed, Present
        <5>2. QED
          BY <3>3, <4>1, <5>1
      <4>2. QED
        BY <4>1 DEF Ends
    <3>5. ~genTaskID(u) /\ ~Timeout(u) /\ ~cancelTaskQueue(u) /\ ~Starts(u)
      BY <3>2 DEF genTaskID, Timeout, cancelTaskQueue, Starts
    <3>6. Alone(u) \/ addNow(u)
      BY <3>4, <3>5, AloneStep DEF Concerns
    <3>7. QED
      BY <3>1, <3>2, <3>6 DEF Alone, addNow
  <2>4. QED
    BY <2>1, <2>2, <2>3
<1>7. QED
  BY <1>1, <1>2, <1>3, <1>4, <1>5, <1>6, RunStep

-----------------------------------------------------------------------------
\* What cancelTaskQueue makes of a task.
LEMMA CancelledTask ==
  ASSUME IInv, NEW u \in Queued, cancelTaskQueue(u)
  PROVE  /\ timerState[u] \in {"scheduling", "mailing"}
         /\ timerState'[u] = "cancelled" /\ runs[u] = 0
         /\ fate'[u] = IF fate[u] = "refused" THEN "refused" ELSE "cancelled"
         /\ calls'[u] = IF fate[u] = "refused" THEN 2 ELSE 1
         /\ u \in tasks' => u \in tasks
<1>1. TypeOK /\ u \in Task /\ Told(u)
  BY Sets DEF IInv, QueuedTask
<1>2. timerState[u] \in {"scheduling", "mailing"}
  BY DEF cancelTaskQueue
<1>3. /\ runs[u] = 0
      /\ calls[u] = IF fate[u] = "refused" THEN 1 ELSE 0
  BY <1>1, <1>2 DEF Told
<1>4. /\ timerState'[u] = "cancelled"
      /\ fate'[u] = IF fate[u] = "refused" THEN "refused" ELSE "cancelled"
      /\ calls'[u] = calls[u] + 1
  BY <1>1 DEF cancelTaskQueue, Become, Cancelled, Call, TypeOK
<1>5. u \in tasks' => u \in tasks
  BY DEF cancelTaskQueue
<1>6. QED
  BY <1>2, <1>3, <1>4, <1>5

\* What addToQueue makes of one: it is refused only if its mail is nowhere new.
LEMMA AddedTask ==
  ASSUME TypeOK, NEW u \in Task, addToQueue(u)
  PROVE  \/ fate'[u] = "added" /\ calls' = calls
         \/ fate'[u] = "refused" /\ calls'[u] = calls[u] + 1 /\ UNCHANGED queue
  BY DEF addToQueue, Fate, Call, TypeOK

\* addNow and the timer are the two ways to addToQueue.
LEMMA PushedTask ==
  ASSUME IInv, NEW u \in Queued, addNow(u) \/ Timeout(u)
  PROVE  /\ addToQueue(u) /\ UNCHANGED <<runs, tasks, cur, mailbox>>
         /\ timerState'[u] = "mailing" /\ fate[u] \in {"none", "added"}
         /\ timerState[u] \in {"scheduling", "mailing"}
         /\ runs[u] = 0 /\ calls[u] = 0
         /\ fate'[u] = "added" => calls'[u] = 0
         /\ fate'[u] = "refused" => calls'[u] = 1
         /\ fate'[u] \in {"added", "refused"}
<1>1. TypeOK /\ u \in Task /\ u # None /\ u \notin After
  BY Sets DEF IInv
<1>2. CASE addNow(u)
  <2>1. fate[u] = "none" /\ timerState[u] = "mailing" /\ u \in tasks
    BY <1>1, <1>2 DEF IInv, Adding, addNow
  <2>2. /\ addToQueue(u) /\ UNCHANGED <<runs, tasks, cur, mailbox, timerState>>
    BY <1>2 DEF addNow
  <2>3. runs[u] = 0 /\ calls[u] = 0
    BY <2>1 DEF IInv, QueuedTask, Told
  <2>4. QED
    BY <1>1, <2>1, <2>2, <2>3, AddedTask
<1>3. CASE Timeout(u)
  <2>1. fate[u] = "added" /\ timerState[u] = "scheduling" /\ u \in tasks
    BY <1>3 DEF Timeout, IInv, QueuedTask, Told
  <2>2. /\ addToQueue(u) /\ UNCHANGED <<runs, tasks, cur, mailbox>>
        /\ timerState'[u] = "mailing"
    BY <1>1, <1>3 DEF Timeout, Fire, Become, TypeOK
  <2>3. runs[u] = 0 /\ calls[u] = 0
    BY <2>1 DEF IInv, QueuedTask, Told
  <2>4. QED
    BY <1>1, <2>1, <2>2, <2>3, AddedTask
<1>4. QED
  BY <1>2, <1>3

\* A task that starts was added, and neither refused nor cancelled.
LEMMA StartedTask ==
  ASSUME IInv, NEW u \in Queued, Starts(u)
  PROVE  /\ timerState'[u] = "executing" /\ runs'[u] = 1
         /\ fate[u] = "added" /\ calls[u] = 0
         /\ UNCHANGED <<fate, calls, tasks, cur, mailbox>>
         /\ cur[mailbox[u]] = MailOf(u) /\ phase'[mailbox[u]] = "run"
<1>1. TypeOK /\ u \in Task /\ QueuedTask(u)
  BY Sets DEF IInv
<1>2. PICK b \in Box : handleTaskQueue(b) /\ cur[b] = MailOf(u)
                         /\ timerState[u] = "mailing"
  BY DEF Starts
<1>3. cur[b].task = u /\ Present(u, b) /\ b = mailbox[u]
  BY <1>1, <1>2, MailFacts DEF Present, IInv, Boxed
<1>4. fate[u] = "added" /\ runs[u] = 0 /\ calls[u] = 0
  BY <1>1, <1>2, <1>3 DEF QueuedTask, Told
<1>5. /\ timerState' = [timerState EXCEPT ![u] = "executing"]
      /\ phase' = [phase EXCEPT ![b] = "run"]
      /\ runs' = [runs EXCEPT ![u] = @ + 1]
      /\ UNCHANGED <<fate, calls, tasks, cur, mailbox>>
  BY <1>2, <1>3 DEF handleTaskQueue, Become, Goto
<1>6. QED
  BY <1>1, <1>2, <1>3, <1>4, <1>5 DEF TypeOK

\* A task that is done had been executed.
LEMMA DoneTask ==
  ASSUME IInv, NEW u \in Queued, Ends(u)
  PROVE  /\ timerState[u] = "executing" /\ timerState'[u] = "done"
         /\ UNCHANGED <<fate, calls, runs, mailbox>>
         /\ u \notin tasks'
<1>1. TypeOK /\ u \in Task
  BY Sets DEF IInv
<1>2. PICK b \in Box : TaskDone(b) /\ cur[b] = MailOf(u)
  BY DEF Ends
<1>3. cur[b].task = u
  BY <1>1, <1>2, MailFacts
<1>4. timerState[u] = "executing"
  BY <1>2, <1>3 DEF IInv, Running, TaskDone
<1>5. /\ timerState'[u] = "done" /\ u \notin tasks'
      /\ UNCHANGED <<fate, calls, runs, mailbox>>
  BY <1>1, <1>2, <1>3 DEF TaskDone, Become, history, TypeOK
<1>6. QED
  BY <1>4, <1>5

\* A task whose state is none yet, given an id.
LEMMA NamedTask ==
  ASSUME IInv, NEW u \in Queued, genTaskID(u)
  PROVE  /\ UNCHANGED <<runs, calls, queue, cur, mailbox>>
         /\ timerState[u] = "none" /\ fate[u] = "none" /\ mailbox[u] \in Box
         /\ runs[u] = 0 /\ calls[u] = 0
         /\ \/ timerState'[u] = "scheduling" /\ fate'[u] = "added"
            \/ timerState'[u] = "mailing" /\ fate'[u] = "none"
<1>1. TypeOK /\ u \in Task /\ u # None
  BY Sets DEF IInv
<1>2. timerState[u] = "none" /\ fate[u] = "none" /\ mailbox[u] \in Box
  BY <1>1 DEF genTaskID, IInv, Adding
<1>3. runs[u] = 0 /\ calls[u] = 0
  BY <1>2 DEF IInv, QueuedTask, Told
<1>4. /\ UNCHANGED <<runs, calls, queue, cur, mailbox>>
      /\ \/ timerState'[u] = "scheduling" /\ fate'[u] = "added"
         \/ timerState'[u] = "mailing" /\ fate'[u] = "none"
  BY <1>1, <1>2 DEF genTaskID, Become, Fate, boxes, TypeOK
<1>5. QED
  BY <1>2, <1>3, <1>4

\* The state of a task goes on telling what has become of it.
LEMMA ToldStep ==
  ASSUME IInv, Next, NEW u \in Queued
  PROVE  Told(u)'
<1>1. Told(u)
  BY DEF IInv, QueuedTask
<1>2. CASE Alone(u)
  BY <1>1, <1>2 DEF Alone, Told
<1>3. CASE genTaskID(u)
  BY <1>3, NamedTask DEF Told
<1>4. CASE addNow(u) \/ Timeout(u)
  BY <1>4, PushedTask DEF Told
<1>5. CASE cancelTaskQueue(u)
  <2>1. runs'[u] = runs[u]
    <3>1. TypeOK /\ u \in Task /\ timerState'[u] # timerState[u]
          /\ timerState'[u] = "cancelled"
      BY <1>5, Sets, CancelledTask DEF IInv
    <3>2. ASSUME NEW b \in Box, Works(b)
          PROVE  FALSE
      <4>1. \/ UNCHANGED timerState
            \/ \E t : \/ timerState' = [timerState EXCEPT ![t] = "executing"]
                     \/ timerState' = [timerState EXCEPT ![t] = "done"]
        BY <3>2
        DEF Works, RunClosure, handleTaskQueue, Finish, TaskDone, Continue,
            checkClose, Become
      <4>2. QED
        BY <3>1, <4>1 DEF TypeOK
    <3>3. ASSUME NEW t \in Task, Calls(t)
          PROVE  UNCHANGED runs
      BY <3>3
      DEF Calls, Add, AddAfter, getMailbox, Fire, CancelQueued, Cancel,
          CancelLocksTwice, genTaskID, addNow, history
    <3>4. ASSUME \/ \E b \in Box : Take(b)
                 \/ Exit \/ Stops
          PROVE  UNCHANGED runs
      BY <3>4
      DEF Take, Exit, Stops, stopLock, stopUnlock, StopWalks, StopCancels,
          history
    <3>5. QED
      BY <3>2, <3>3, <3>4, NextCases
  <2>2. QED
    BY <1>5, <2>1, CancelledTask DEF Told
<1>6. CASE Starts(u)
  BY <1>6, StartedTask DEF Told
<1>7. CASE Ends(u)
  BY <1>1, <1>7, DoneTask DEF Told
<1>8. QED
  BY <1>2, <1>3, <1>4, <1>5, <1>6, <1>7, AloneStep DEF Concerns

\* The mail of a task is only where the task is known.
LEMMA PresentStep ==
  ASSUME IInv, Next, NEW u \in Queued, NEW b \in Box, Present(u, b)'
  PROVE  /\ fate'[u] \notin {"none", "refused"}
         /\ timerState'[u] \notin {"none", "scheduling"}
<1>1. TypeOK /\ u \in Task /\ ~Add(u)
  BY Sets DEF IInv, Add
<1>2. Present(u, b) =>
        /\ fate[u] \notin {"none", "refused"}
        /\ timerState[u] \notin {"none", "scheduling"}
  BY DEF IInv, QueuedTask
<1>3. CASE addNow(u) \/ Timeout(u)
  <2>1. /\ addToQueue(u) /\ UNCHANGED cur /\ timerState'[u] = "mailing"
        /\ fate'[u] \in {"added", "refused"}
    BY <1>3, PushedTask
  <2>2. fate'[u] # "refused"
    <3>1. ASSUME fate'[u] = "refused"
          PROVE  FALSE
      <4>1. UNCHANGED queue
        BY <1>1, <2>1, <3>1, AddedTask
      <4>2. Present(u, b)
        BY <2>1, <4>1 DEF Present
      <4>3. fate[u] \in {"none", "added"}
              /\ timerState[u] \in {"scheduling", "mailing"}
        BY <1>3, PushedTask
      <4>4. timerState[u] = "scheduling" \/ fate[u] = "none"
        BY <1>1, <1>3, Sets DEF Timeout, addNow, IInv, Adding
      <4>5. QED
        BY <1>2, <4>2, <4>4
    <3>2. QED
      BY <3>1
  <2>3. QED
    BY <2>1, <2>2
<1>4. CASE ~addNow(u) /\ ~Timeout(u)
  <2>1. Present(u, b)
    <3>1. CASE Unfed(u)
      BY <3>1 DEF Unfed
    <3>2. CASE ~Unfed(u)
      <4>1. Fire(u) /\ ~(u \in tasks /\ timerState[u] = "scheduling")
        BY <1>1, <1>4, <3>2, FedStep DEF Timeout
      <4>2. UNCHANGED <<queue, cur>>
        BY <4>1 DEF Fire
      <4>3. QED
        BY <4>2 DEF Present
    <3>3. QED
      BY <3>1, <3>2
  <2>2. CASE Alone(u)
    BY <1>2, <2>1, <2>2 DEF Alone
  <2>3. CASE genTaskID(u)
    BY <1>2, <2>1, <2>3, NamedTask
  <2>4. CASE cancelTaskQueue(u)
    BY <1>2, <2>1, <2>4, CancelledTask
  <2>5. CASE Starts(u)
    BY <2>5, StartedTask
  <2>6. CASE Ends(u)
    BY <1>2, <2>1, <2>6, DoneTask
  <2>7. QED
    BY <1>4, <2>2, <2>3, <2>4, <2>5, <2>6, AloneStep DEF Concerns
<1>5. QED
  BY <1>3, <1>4

\* A queue task keeps what is known of it.
LEMMA QueuedStep ==
  ASSUME IInv, Next, NEW u \in Queued
  PROVE  QueuedTask(u)'
<1>1. TypeOK /\ u \in Task /\ QueuedTask(u)
  BY Sets DEF IInv
<1>2. mailbox'[u] \in Box \cup {None}
  BY <1>1, TypeStep DEF TypeOK
<1>3. Told(u)'
  BY ToldStep
<1>4. u \in tasks' => timerState'[u] # "none"
  <2>1. CASE Alone(u)
    BY <1>1, <2>1 DEF Alone, QueuedTask
  <2>2. CASE ~Alone(u)
    BY <2>2, AloneStep, NamedTask, PushedTask, CancelledTask, StartedTask,
       DoneTask DEF Concerns
  <2>3. QED
    BY <2>1, <2>2
<1>5. timerState'[u] # "none" => mailbox'[u] \in Box
  <2>1. CASE getMailbox(u)
    <3>1. PICK b \in taskMailboxOf(u) : mailbox' = [mailbox EXCEPT ![u] = b]
      BY <2>1 DEF getMailbox
    <3>2. b \in Box
      BY <1>1, <2>1, <3>1, TaskManagerAssumption
      DEF taskMailboxOf, Unused, TypeOK, Queued, Box, TaskManagerAssumption
    <3>3. QED
      BY <1>1, <3>1, <3>2 DEF TypeOK
  <2>2. CASE ~getMailbox(u)
    <3>1. mailbox'[u] = mailbox[u]
      BY <1>1, <2>2, MailboxStep
    <3>2. CASE Alone(u)
      BY <1>1, <3>1, <3>2 DEF Alone, QueuedTask
    <3>3. CASE ~Alone(u)
      <4>1. timerState[u] # "none" \/ mailbox[u] \in Box
        BY <3>3, AloneStep, NamedTask, PushedTask, CancelledTask, StartedTask,
           DoneTask DEF Concerns, Starts
      <4>2. QED
        BY <1>1, <3>1, <4>1 DEF QueuedTask
    <3>4. QED
      BY <3>2, <3>3
  <2>3. QED
    BY <2>1, <2>2
<1>6. ASSUME timerState'[u] = "executing"
      PROVE  /\ cur'[mailbox'[u]] = MailOf(u)
             /\ phase'[mailbox'[u]] \in {"run", "ran"}
  <2>1. CASE Starts(u)
    BY <2>1, StartedTask
  <2>2. CASE ~Starts(u)
    <3>1. Alone(u) /\ timerState[u] = "executing"
      <4>1. ~addNow(u) /\ ~Timeout(u)
        BY <1>6, PushedTask
      <4>2. ~genTaskID(u)
        BY <1>6, NamedTask
      <4>3. ~cancelTaskQueue(u)
        BY <1>6, CancelledTask
      <4>4. ~Ends(u)
        BY <1>6, DoneTask
      <4>5. QED
        BY <1>6, <2>2, <4>1, <4>2, <4>3, <4>4, AloneStep DEF Concerns, Alone
    <3>2. PICK b \in Box : /\ b = mailbox[u] /\ cur[b] = MailOf(u)
                           /\ phase[b] \in {"run", "ran"}
      BY <1>1, <3>1 DEF QueuedTask
    <3>3. ~TaskDone(b)
      <4>1. ASSUME TaskDone(b)
            PROVE  FALSE
        <5>1. Ends(u)
          BY <3>2, <4>1 DEF Ends
        <5>2. QED
          BY <1>6, <5>1, DoneTask
      <4>2. QED
        BY <4>1
    <3>4. ~getMailbox(u)
      BY <1>1, <3>1 DEF getMailbox, New, QueuedTask, Told
    <3>5. mailbox'[u] = b
      BY <1>1, <3>2, <3>4, MailboxStep
    <3>6. QED
      BY <3>2, <3>3, <3>5, ExecutingStep
  <2>3. QED
    BY <2>1, <2>2
<1>7. QED
  BY <1>3, <1>4, <1>5, <1>6, PresentStep DEF QueuedTask

-----------------------------------------------------------------------------
\* The mail of a task stays alone while no other is pushed to the actor.
LEMMA LoneKept ==
  ASSUME NEW u \in Task, NEW m, m # MailOf(u), Lone(u), Quiet, Main \in Box,
         More(queue'[Main], queue[Main], m)
  PROVE  Lone(u)' /\ (Waits(u)' => Waits(u))
<1>1. Taken(u)' => Taken(u)
  BY MailFacts DEF Taken, Quiet
<1>2. /\ In(MailOf(u), queue'[Main]) => In(MailOf(u), queue[Main])
      /\ Once(MailOf(u), queue[Main]) => Once(MailOf(u), queue'[Main])
  BY DEF More
<1>3. QED
  BY <1>1, <1>2 DEF Lone, Waits

\* So does one that is pushed while it is nowhere.
LEMMA LonePushed ==
  ASSUME NEW u \in Task, Lone(u), ~Waits(u), Quiet, Main \in Box,
         More(queue'[Main], queue[Main], MailOf(u))
  PROVE  Lone(u)'
<1>1. ~Taken(u)'
  BY MailFacts DEF Taken, Quiet, Waits
<1>2. Once(MailOf(u), queue'[Main])
  BY DEF More, Lone, Waits
<1>3. QED
  BY <1>1, <1>2 DEF Lone

\* And one that is taken: the goroutine has it and the list has not.
LEMMA LoneTaken ==
  ASSUME TypeOK, NEW u \in Task, Lone(u), Take(Main), Main \in Box
  PROVE  Lone(u)' /\ (Waits(u)' => Waits(u))
<1>1. queue[Main] \in Seq(Mail) /\ queue[Main] # << >>
  BY Queues DEF Take
<1>2. queue'[Main] = Tail(queue[Main]) /\ cur'[Main] = Head(queue[Main])
  BY DEF Take, TypeOK
<1>3. /\ Fewer(Tail(queue[Main]), queue[Main])
      /\ In(Head(queue[Main]), queue[Main])
      /\ Once(Head(queue[Main]), queue[Main])
           => ~In(Head(queue[Main]), Tail(queue[Main]))
  BY <1>1, TailFewer
<1>4. Once(MailOf(u), queue[Main])
  BY DEF Lone
<1>5. Once(MailOf(u), queue'[Main])
  BY <1>2, <1>3, <1>4 DEF Fewer
<1>6. Taken(u)' => /\ In(MailOf(u), queue[Main])
                   /\ ~In(MailOf(u), queue'[Main])
  BY <1>2, <1>3, <1>4 DEF Taken
<1>7. In(MailOf(u), queue'[Main]) => In(MailOf(u), queue[Main])
  BY <1>2, <1>3 DEF Fewer
<1>8. QED
  BY <1>5, <1>6, <1>7 DEF Lone, Waits

\* The mail of a closure, or of AddAfter, is pushed while it is nowhere.
Comes(u) == Add(u) \/ Timeout(u)

\* Every step leaves a task without a queue at most one mail.
LEMMA LoneStep ==
  ASSUME IInv, Next, NEW u \in Own
  PROVE  Lone(u)' /\ (Waits(u)' => Waits(u) \/ Comes(u))
<1>1. TypeOK /\ u \in Task /\ Main \in Box /\ OwnTask(u) /\ Lone(u)
  BY Sets DEF IInv, OwnTask
<1>2. ASSUME Drained, Quiet
      PROVE  Lone(u)' /\ (Waits(u)' => Waits(u))
  BY <1>1, <1>2, DrainedGets, LoneKept, MailFacts DEF Gets
<1>3. ASSUME NEW t \in Task, Add(t) \/ addNow(t) \/ Fire(t)
      PROVE  Lone(u)' /\ (Waits(u)' => Waits(u) \/ Comes(u))
  <2>1. Quiet
    BY <1>1, <1>3, QuietStep DEF Calls
  <2>2. CASE Drained
    BY <1>2, <2>1, <2>2
  <2>3. CASE ~Drained
    <3>1. Gets(mailbox[t], MailOf(t)) /\ mailbox[t] \in Box
      <4>1. CASE Add(t)
        <5>1. mailbox[t] = Main
          BY <4>1, Sets DEF IInv, Kinds, Add
        <5>2. QED
          BY <1>1, <4>1, <5>1, GetsStep
      <4>2. CASE ~Add(t)
        BY <1>3, <2>3, <4>2, GetsStep
      <4>3. QED
        BY <4>1, <4>2
    <3>2. More(queue'[Main], queue[Main], MailOf(t))
      BY <1>1, <3>1 DEF Gets, Fewer, More
    <3>3. CASE t # u
      <4>1. MailOf(t) # MailOf(u)
        BY <1>1, <3>3, MailFacts
      <4>2. QED
        BY <1>1, <2>1, <3>2, <4>1, LoneKept
    <3>4. CASE t = u
      <4>1. ~addNow(t)
        BY <3>4, Sets DEF IInv, Adding, addNow
      <4>2. Comes(u)
        <5>1. CASE Fire(u) /\ ~Timeout(u)
          <6>1. UNCHANGED queue
            BY <5>1 DEF Fire, Timeout
          <6>2. QED
            BY <1>1, <2>3, <6>1, SameDrained
        <5>2. QED
          BY <1>3, <3>4, <4>1, <5>1 DEF Comes
      <4>3. ~Waits(u)
        BY <1>1, <4>2 DEF Comes, Add, New, Timeout, OwnTask
      <4>4. QED
        BY <1>1, <2>1, <3>2, <3>4, <4>2, <4>3, LonePushed
    <3>5. QED
      BY <3>3, <3>4
  <2>4. QED
    BY <2>2, <2>3
<1>4. ASSUME NEW b \in Box, Finish(b)
      PROVE  Lone(u)' /\ (Waits(u)' => Waits(u))
  <2>1. Quiet
    BY <1>1, <1>4, QuietStep DEF Works
  <2>2. PICK m : m # MailOf(u) /\ Gets(Main, m)
    BY <1>1, <1>4, FinishGets
  <2>3. QED
    BY <1>1, <2>1, <2>2, LoneKept DEF Gets
<1>5. ASSUME NEW b \in Box, Take(b)
      PROVE  Lone(u)' /\ (Waits(u)' => Waits(u))
  <2>1. CASE b = Main
    BY <1>1, <1>5, <2>1, LoneTaken
  <2>2. CASE b # Main
    <3>1. /\ queue'[Main] = queue[Main] /\ cur'[Main] = cur[Main]
          /\ phase'[Main] = phase[Main]
      BY <1>1, <1>5, <2>2 DEF Take, Goto, TypeOK
    <3>2. QED
      BY <1>1, <3>1 DEF Lone, Waits, Taken
  <2>3. QED
    BY <2>1, <2>2
<1>6. ASSUME \/ \E t \in Task :
                  \/ AddAfter(t) \/ getMailbox(t) \/ genTaskID(t)
                  \/ CancelQueued(t) \/ Cancel(t) \/ CancelLocksTwice(t)
             \/ \E b \in Box : Works(b) /\ ~Finish(b)
             \/ Exit \/ Stops
      PROVE  Lone(u)' /\ (Waits(u)' => Waits(u))
  <2>1. Quiet
    BY <1>1, <1>6, QuietStep DEF Calls
  <2>2. Drained
    BY <1>6, DrainStep DEF Works
  <2>3. QED
    BY <1>2, <2>1, <2>2
<1>7. QED
  BY <1>3, <1>4, <1>5, <1>6, NextCases DEF Calls

\* A step that leaves what is known of u alone, but for its mail.
OwnAlone(u) ==
  /\ fate'[u] = fate[u] /\ runs'[u] = runs[u] /\ calls'[u] = calls[u]
  /\ u \in tasks' => u \in tasks

\* The steps that do not.
RunsOwn(u) == \E b \in Box : RunClosure(b) /\ cur[b] = MailOf(u)
StopsOwn(u) ==
  /\ u \in toCancel /\ mutex = "stop" /\ phase[Main] = "stop"
  /\ fate' = [fate EXCEPT ![u] = "cancelled"] /\ tasks' = tasks \ {u}
  /\ UNCHANGED <<runs, calls>>
DropsOwn(u) ==
  /\ StopWalks /\ In(MailOf(u), remain)
  /\ fate' = [fate EXCEPT ![u] = "dropped"]
OwnConcerns(u) ==
  \/ Add(u) \/ AddAfter(u) \/ Timeout(u) \/ Cancel(u)
  \/ RunsOwn(u) \/ StopsOwn(u) \/ DropsOwn(u)

\* The calls, for a closure or a task of AddAfter.
LEMMA CallsOwn ==
  ASSUME IInv, NEW u \in Own, NEW t \in Task, Calls(t)
  PROVE  OwnAlone(u) \/ OwnConcerns(u)
<1>1. TypeOK /\ u \in Task /\ u \notin Queued
  BY Sets DEF IInv
<1>2. /\ fate \in [Task -> {"none", "added", "refused", "cancelled", "dropped"}]
      /\ runs \in [Task -> Nat] /\ calls \in [Task -> Nat]
  BY <1>1 DEF TypeOK
<1>3. CASE Add(t) \/ AddAfter(t) \/ Cancel(t)
  <2>1. CASE t = u
    BY <1>3, <2>1 DEF OwnConcerns
  <2>2. CASE t # u
    BY <1>1, <1>2, <1>3, <2>2 DEF Add, AddAfter, Cancel, Fate, OwnAlone
  <2>3. QED
    BY <2>1, <2>2
<1>4. CASE getMailbox(t) \/ CancelLocksTwice(t)
  BY <1>4 DEF getMailbox, CancelLocksTwice, history, OwnAlone
<1>5. CASE genTaskID(t) \/ addNow(t)
  <2>1. t \in Queued /\ t # u
    BY <1>1, <1>5, Sets DEF IInv, Adding, genTaskID, addNow
  <2>2. CASE genTaskID(t)
    BY <1>1, <1>2, <2>1, <2>2 DEF genTaskID, Fate, OwnAlone
  <2>3. CASE addNow(t)
    BY <1>1, <1>2, <2>1, <2>3 DEF addNow, addToQueue, Call, Fate, OwnAlone
  <2>4. QED
    BY <1>5, <2>2, <2>3
<1>6. CASE Fire(t)
  <2>1. CASE ~(t \in tasks /\ timerState[t] = "scheduling")
    BY <1>6, <2>1 DEF Fire, OwnAlone
  <2>2. CASE t \in tasks /\ timerState[t] = "scheduling" /\ t = u
    BY <1>6, <2>2 DEF OwnConcerns, Timeout
  <2>3. CASE t # u
    BY <1>1, <1>2, <1>6, <2>3
    DEF Fire, mailAfter, addToQueue, Call, Fate, OwnAlone
  <2>4. QED
    BY <2>1, <2>2, <2>3
<1>7. CASE CancelQueued(t)
  <2>1. t # u
    BY <1>1, <1>7 DEF CancelQueued
  <2>2. CASE cancelTaskQueue(t)
    BY <1>1, <1>2, <1>7, <2>1, <2>2
    DEF CancelQueued, cancelTaskQueue, Cancelled, Call, OwnAlone
  <2>3. CASE ~cancelTaskQueue(t)
    BY <1>7, <2>3 DEF CancelQueued, OwnAlone
  <2>4. QED
    BY <2>2, <2>3
<1>8. QED
  BY <1>3, <1>4, <1>5, <1>6, <1>7 DEF Calls

\* The goroutine of a mailbox, for such a task.
LEMMA WorksOwn ==
  ASSUME IInv, NEW u \in Own, NEW b \in Box, Take(b) \/ Works(b)
  PROVE  OwnAlone(u) \/ OwnConcerns(u)
<1>1. TypeOK /\ u \in Task /\ u \notin Queued
  BY Sets DEF IInv
<1>2. runs \in [Task -> Nat]
  BY <1>1 DEF TypeOK
<1>3. CASE Take(b)
  BY <1>3 DEF Take, history, OwnAlone
<1>4. CASE RunClosure(b)
  <2>1. cur[b] \in Mail
    BY <1>4 DEF IInv, Running, RunClosure
  <2>2. CASE cur[b] = MailOf(u)
    BY <1>4, <2>2 DEF OwnConcerns, RunsOwn
  <2>3. CASE cur[b] # MailOf(u)
    <3>1. cur[b].callback \/ cur[b].task # u
      BY <2>1, <2>3, MailIsOf
    <3>2. QED
      BY <1>1, <1>2, <1>4, <3>1 DEF RunClosure, OwnAlone
  <2>4. QED
    BY <2>2, <2>3
<1>5. CASE handleTaskQueue(b)
  <2>1. u # cur[b].task
    BY <1>1, <1>5 DEF handleTaskQueue
  <2>2. QED
    BY <1>1, <1>2, <1>5, <2>1 DEF handleTaskQueue, OwnAlone
<1>6. CASE Finish(b) \/ TaskDone(b) \/ Continue(b) \/ checkClose(b)
  BY <1>6 DEF Finish, TaskDone, Continue, checkClose, history, OwnAlone
<1>7. QED
  BY <1>3, <1>4, <1>5, <1>6 DEF Works

\* The stop, for such a task.
LEMMA StopOwn ==
  ASSUME IInv, NEW u \in Own, Exit \/ Stops
  PROVE  OwnAlone(u) \/ OwnConcerns(u)
<1>1. TypeOK /\ u \in Task /\ u \notin Queued
  BY Sets DEF IInv
<1>2. /\ fate \in [Task -> {"none", "added", "refused", "cancelled", "dropped"}]
      /\ calls \in [Task -> Nat]
  BY <1>1 DEF TypeOK
<1>3. CASE Exit \/ stopLock \/ stopUnlock
  BY <1>3 DEF Exit, stopLock, stopUnlock, history, OwnAlone
<1>4. CASE StopWalks
  <2>1. Head(remain) \in Mail /\ In(Head(remain), remain)
    BY <1>1, <1>4, TailFewer DEF StopWalks, TypeOK
  <2>2. CASE Head(remain) = MailOf(u)
    <3>1. Head(remain).task = u /\ ~Head(remain).callback
      BY <1>1, <2>2, MailFacts
    <3>2. fate' = [fate EXCEPT ![u] = "dropped"]
      BY <1>1, <1>4, <3>1 DEF StopWalks, Fate
    <3>3. QED
      BY <1>4, <2>1, <2>2, <3>2 DEF OwnConcerns, DropsOwn
  <2>3. CASE Head(remain) # MailOf(u)
    <3>1. Head(remain).callback \/ Head(remain).task # u
      BY <2>1, <2>3, MailIsOf
    <3>2. QED
      BY <1>1, <1>2, <1>4, <3>1 DEF StopWalks, Fate, OwnAlone
  <2>4. QED
    BY <2>2, <2>3
<1>5. ASSUME NEW t \in Task, StopCancels(t)
      PROVE  OwnAlone(u) \/ OwnConcerns(u)
  <2>1. CASE t \in Queued /\ cancelTaskQueue(t)
    <3>1. t # u
      BY <1>1, <2>1
    <3>2. fate'[u] = fate[u] /\ calls'[u] = calls[u]
      BY <1>1, <1>2, <2>1, <3>1 DEF cancelTaskQueue, Cancelled, Call
    <3>3. (u \in tasks' => u \in tasks) /\ UNCHANGED runs
      BY <1>5, <2>1 DEF cancelTaskQueue, StopCancels
    <3>4. QED
      BY <3>2, <3>3 DEF OwnAlone
  <2>2. CASE ~(t \in Queued /\ cancelTaskQueue(t))
    <3>1. CASE UNCHANGED <<fate, calls, tasks>>
      BY <1>5, <3>1 DEF StopCancels, OwnAlone
    <3>2. CASE ~UNCHANGED <<fate, calls, tasks>>
      <4>1. /\ fate' = [fate EXCEPT ![t] = "cancelled"] /\ tasks' = tasks \ {t}
            /\ UNCHANGED <<runs, calls>>
            /\ t \in toCancel /\ mutex = "stop" /\ phase[Main] = "stop"
        BY <1>5, <2>2, <3>2 DEF StopCancels, Fate
      <4>2. CASE t = u
        BY <4>1, <4>2 DEF OwnConcerns, StopsOwn
      <4>3. CASE t # u
        BY <1>1, <1>2, <4>1, <4>3 DEF OwnAlone
      <4>4. QED
        BY <4>2, <4>3
    <3>3. QED
      BY <3>1, <3>2
  <2>3. QED
    BY <2>1, <2>2
<1>6. QED
  BY <1>3, <1>4, <1>5 DEF Stops

\* Every step leaves such a task alone, or is about it.
LEMMA OwnAloneStep ==
  ASSUME IInv, Next, NEW u \in Own
  PROVE  OwnAlone(u) \/ OwnConcerns(u)
  BY CallsOwn, WorksOwn, StopOwn, NextCases

\* What the stop has still to walk over was in the list of the actor.
LEMMA RemainStep ==
  ASSUME IInv, Next, NEW m, In(m, remain')
  PROVE  In(m, remain) \/ In(m, queue[Main])
<1>1. remain \in Seq(Mail)
  BY DEF IInv, TypeOK
<1>2. ASSUME NEW t \in Task, Calls(t)
      PROVE  UNCHANGED remain
  BY <1>2
  DEF Calls, Add, AddAfter, getMailbox, Fire, CancelQueued, Cancel,
      CancelLocksTwice, genTaskID, addNow, stop
<1>3. ASSUME NEW b \in Box, Take(b) \/ Works(b)
      PROVE  UNCHANGED remain
  BY <1>3
  DEF Works, Take, RunClosure, handleTaskQueue, Finish, TaskDone, Continue,
      checkClose, stop
<1>4. CASE StopWalks
  BY <1>1, <1>4, TailFewer DEF StopWalks, Fewer
<1>5. CASE stopLock
  BY <1>5 DEF stopLock
<1>6. ASSUME Exit \/ stopUnlock \/ \E t \in Task : StopCancels(t)
      PROVE  UNCHANGED remain
  BY <1>6 DEF Exit, stopUnlock, StopCancels, stop
<1>7. QED
  BY <1>2, <1>3, <1>4, <1>5, <1>6, NextCases DEF Stops

\* Once added, a task is never new again and not scheduled a second time.
OwnKnown(u) ==
  /\ runs'[u] \in {0, 1} /\ calls'[u] = 0
  /\ Waits(u)' => /\ runs'[u] = 0 /\ fate'[u] \in {"added", "dropped"}
                  /\ u \notin tasks'
  /\ u \in tasks' => u \in After /\ runs'[u] = 0 /\ fate'[u] = "added"
  /\ fate'[u] \in {"none", "refused", "cancelled"} => runs'[u] = 0
  /\ fate'[u] = "none" => ~Waits(u)' /\ u \notin tasks'
  /\ fate[u] # "none" /\ u \notin tasks => fate'[u] # "none" /\ u \notin tasks'

\* Every step keeps what is known of such a task.
LEMMA OwnKnownStep ==
  ASSUME IInv, Next, NEW u \in Own
  PROVE  OwnKnown(u)
<1>1. TypeOK /\ u \in Task /\ OwnTask(u) /\ u \notin Queued
  BY Sets DEF IInv
<1>2. /\ fate \in [Task -> {"none", "added", "refused", "cancelled", "dropped"}]
      /\ runs[u] \in {0, 1} /\ calls[u] = 0
  BY <1>1 DEF TypeOK, OwnTask
<1>3. Waits(u)' => Waits(u) \/ Comes(u)
  BY LoneStep
<1>4. CASE Add(u)
  <2>1. /\ fate[u] = "none" /\ UNCHANGED <<tasks, runs, calls>>
        /\ \/ fate' = [fate EXCEPT ![u] = "added"]
           \/ /\ fate' = [fate EXCEPT ![u] = "refused"]
              /\ UNCHANGED <<queue, cur, phase>>
    <3>1. CASE running[Main]
      BY <1>4, <3>1 DEF Add, New, Fate
    <3>2. CASE ~running[Main]
      BY <1>4, <3>2 DEF Add, New, Fate
    <3>3. QED
      BY <3>1, <3>2
  <2>2. ~Waits(u) /\ u \notin tasks /\ runs[u] = 0
    BY <1>1, <2>1 DEF OwnTask
  <2>3. CASE fate' = [fate EXCEPT ![u] = "added"]
    BY <1>1, <1>2, <2>1, <2>2, <2>3 DEF OwnKnown
  <2>4. CASE fate' = [fate EXCEPT ![u] = "refused"]
                /\ UNCHANGED <<queue, cur, phase>>
    <3>1. ~Waits(u)'
      BY <2>2, <2>4 DEF Waits, Taken
    <3>2. QED
      BY <1>1, <1>2, <2>1, <2>2, <2>4, <3>1 DEF OwnKnown
  <2>5. QED
    BY <2>1, <2>3, <2>4
<1>5. CASE AddAfter(u)
  <2>1. /\ fate[u] = "none" /\ UNCHANGED <<queue, cur, phase, runs, calls>>
        /\ fate' = [fate EXCEPT ![u] = "added"] /\ u \in After
    BY <1>5 DEF AddAfter, New, Fate, boxes
  <2>2. ~Waits(u) /\ u \notin tasks /\ runs[u] = 0
    BY <1>1, <2>1 DEF OwnTask
  <2>3. ~Waits(u)'
    BY <2>1, <2>2 DEF Waits, Taken
  <2>4. QED
    BY <1>1, <1>2, <2>1, <2>2, <2>3 DEF OwnKnown
<1>6. CASE Timeout(u)
  <2>1. /\ u \in tasks /\ u \in After /\ runs[u] = 0
        /\ fate[u] = "added" /\ ~Waits(u)
    BY <1>1, <1>6 DEF Timeout, OwnTask
  <2>2. /\ u \notin tasks' /\ UNCHANGED <<runs, calls>>
        /\ \/ UNCHANGED fate
           \/ fate' = [fate EXCEPT ![u] = "refused"]
                /\ UNCHANGED <<queue, cur, phase>>
    BY <1>6, <2>1 DEF Timeout, Fire, mailAfter, Fate
  <2>3. CASE UNCHANGED fate
    BY <1>1, <1>2, <2>1, <2>2, <2>3 DEF OwnKnown
  <2>4. CASE fate' = [fate EXCEPT ![u] = "refused"]
                /\ UNCHANGED <<queue, cur, phase>>
    <3>1. ~Waits(u)'
      BY <2>1, <2>4 DEF Waits, Taken
    <3>2. QED
      BY <1>1, <1>2, <2>1, <2>2, <2>4, <3>1 DEF OwnKnown
  <2>5. QED
    BY <2>2, <2>3, <2>4
<1>7. CASE Cancel(u)
  <2>1. /\ fate' = [fate EXCEPT ![u] = "cancelled"] /\ u \notin tasks'
        /\ UNCHANGED <<cur, phase, runs, calls>> /\ fate[u] = "added"
    BY <1>7 DEF Cancel, Fate
  <2>2. ~Waits(u)' /\ runs[u] = 0
    <3>1. CASE u \in tasks
      <4>1. UNCHANGED queue /\ ~Waits(u) /\ runs[u] = 0
        BY <1>1, <1>7, <3>1 DEF Cancel, OwnTask
      <4>2. QED
        BY <2>1, <4>1 DEF Waits, Taken
    <3>2. CASE u \notin tasks
      <4>1. Main \in Box /\ queue[Main] \in Seq(Mail)
        BY <1>1, Sets, Queues
      <4>2. /\ queue'[Main] = RemoveFirst(queue[Main], MailOf(u))
            /\ MailOf(u) \in ToSet(queue[Main])
        BY <1>1, <1>7, <3>2, <4>1 DEF Cancel, PopByID, InQueue, TypeOK
      <4>3. In(MailOf(u), queue[Main])
        BY <4>1, <4>2 DEF ToSet, In
      <4>4. ~Taken(u) /\ Once(MailOf(u), queue[Main]) /\ runs[u] = 0
        BY <1>1, <4>3 DEF OwnTask, Lone, Waits
      <4>5. ~In(MailOf(u), queue'[Main])
        BY <4>1, <4>2, <4>4, PopByIDFewer
      <4>6. QED
        BY <2>1, <4>4, <4>5 DEF Waits, Taken
    <3>3. QED
      BY <3>1, <3>2
  <2>3. QED
    BY <1>1, <1>2, <2>1, <2>2 DEF OwnKnown
<1>8. CASE RunsOwn(u)
  <2>1. PICK b \in Box : RunClosure(b) /\ cur[b] = MailOf(u)
    BY <1>8 DEF RunsOwn
  <2>2. b = Main
    BY <1>1, <2>1 DEF IInv, Boxed, Kinds, Present
  <2>3. Taken(u)
    BY <2>1, <2>2 DEF Taken, RunClosure
  <2>4. /\ ~In(MailOf(u), queue[Main]) /\ runs[u] = 0
        /\ fate[u] \in {"added", "dropped"} /\ u \notin tasks
    BY <1>1, <2>3 DEF OwnTask, Lone, Waits
  <2>5. cur[b].task = u /\ ~cur[b].callback
    BY <1>1, <2>1, MailFacts
  <2>6. /\ runs' = [runs EXCEPT ![u] = @ + 1]
        /\ UNCHANGED <<queue, fate, tasks, calls>>
        /\ phase' = [phase EXCEPT ![b] = "run"]
    BY <2>1, <2>5 DEF RunClosure, Goto
  <2>7. ~Waits(u)'
    BY <1>1, <2>2, <2>4, <2>6 DEF Waits, Taken, TypeOK
  <2>8. runs'[u] = 1
    BY <1>1, <2>4, <2>6 DEF TypeOK
  <2>9. QED
    BY <1>2, <2>4, <2>6, <2>7, <2>8 DEF OwnKnown
<1>9. CASE StopsOwn(u)
  <2>1. u \in tasks
    BY <1>9 DEF StopsOwn, IInv
  <2>2. /\ fate'[u] = "cancelled" /\ u \notin tasks'
        /\ runs'[u] = 0 /\ calls'[u] = 0 /\ ~Waits(u)
    BY <1>1, <1>2, <1>9, <2>1 DEF StopsOwn, OwnTask
  <2>3. ~Comes(u)
    <3>1. ~Add(u)
      BY <1>1, <2>1 DEF OwnTask, Add, New
    <3>2. ~Timeout(u)
      BY <1>9, TaskManagerAssumption
      DEF StopsOwn, Timeout, Fire, Unlocked, TaskManagerAssumption
    <3>3. QED
      BY <3>1, <3>2 DEF Comes
  <2>4. QED
    BY <1>3, <2>2, <2>3 DEF OwnKnown
<1>10. CASE DropsOwn(u)
  <2>1. /\ fate' = [fate EXCEPT ![u] = "dropped"] /\ u \notin tasks
        /\ UNCHANGED <<queue, cur, phase, tasks, runs, calls>>
    BY <1>1, <1>10 DEF DropsOwn, StopWalks, OwnTask, boxes
  <2>2. fate'[u] = "dropped" /\ (Waits(u)' => Waits(u))
    BY <1>1, <1>2, <2>1 DEF Waits, Taken
  <2>3. QED
    BY <1>1, <1>2, <2>1, <2>2 DEF OwnTask, OwnKnown
<1>11. CASE OwnAlone(u) /\ ~Comes(u)
  <2>1. Waits(u)' => Waits(u)
    BY <1>3, <1>11
  <2>2. QED
    BY <1>1, <1>2, <1>11, <2>1 DEF OwnAlone, OwnTask, OwnKnown
<1>12. QED
  BY <1>4, <1>5, <1>6, <1>7, <1>8, <1>9, <1>10, <1>11, OwnAloneStep
  DEF OwnConcerns, Comes

\* A closure or a task of AddAfter keeps what is known of it.
LEMMA OwnStep ==
  ASSUME IInv, Next, NEW u \in Own
  PROVE  OwnTask(u)'
<1>1. TypeOK /\ u \in Task /\ OwnTask(u)
  BY Sets DEF IInv
<1>2. Lone(u)' /\ OwnKnown(u)
  BY LoneStep, OwnKnownStep
<1>3. In(MailOf(u), remain') => u \notin tasks' /\ fate'[u] # "none"
  <2>1. In(MailOf(u), remain') => fate[u] # "none" /\ u \notin tasks
    BY <1>1, RemainStep DEF OwnTask, Waits
  <2>2. QED
    BY <1>2, <2>1 DEF OwnKnown
<1>4. QED
  BY <1>2, <1>3 DEF OwnTask, OwnKnown

-----------------------------------------------------------------------------
\* The stop cancels tasks of at.tasks only, which nobody else touches then.
LEMMA ToCancelStep ==
  ASSUME IInv, Next, mutex' = "stop"
  PROVE  toCancel' \subseteq tasks'
<1>1. TypeOK /\ None # "stop"
  BY TaskManagerAssumption DEF IInv, TaskManagerAssumption
<1>2. CASE stopLock
  BY <1>2 DEF stopLock
<1>3. CASE ~stopLock
  <2>1. mutex = "stop"
    <3>1. ASSUME NEW t \in Task, Calls(t)
          PROVE  UNCHANGED mutex \/ mutex' = "stuck"
      BY <3>1
      DEF Calls, Add, AddAfter, getMailbox, Fire, CancelQueued, Cancel,
          CancelLocksTwice, genTaskID, addNow
    <3>2. ASSUME NEW b \in Box, Take(b) \/ Works(b)
          PROVE  UNCHANGED mutex
      BY <3>2
      DEF Works, Take, RunClosure, handleTaskQueue, Finish, TaskDone,
          Continue, checkClose
    <3>3. ASSUME Exit \/ StopWalks \/ \E t \in Task : StopCancels(t)
          PROVE  UNCHANGED mutex \/ mutex' = "stuck"
      BY <3>3 DEF Exit, StopWalks, StopCancels
    <3>4. ASSUME stopUnlock
          PROVE  mutex' = None
      BY <3>4 DEF stopUnlock
    <3>5. QED
      BY <1>1, <1>3, <3>1, <3>2, <3>3, <3>4, NextCases DEF Stops
  <2>2. toCancel \subseteq tasks
    BY <2>1 DEF IInv
  <2>3. ASSUME NEW t \in Task, Calls(t)
        PROVE  UNCHANGED <<toCancel, tasks>>
    BY <1>1, <2>1, <2>3
    DEF Calls, Add, AddAfter, getMailbox, Fire, CancelQueued, Cancel,
        CancelLocksTwice, genTaskID, addNow, Unlocked, OwnerCalls, stop
  <2>4. ASSUME NEW b \in Box, Take(b) \/ Works(b)
        PROVE  UNCHANGED <<toCancel, tasks>>
    BY <1>1, <2>1, <2>4
    DEF Works, Take, RunClosure, handleTaskQueue, Finish, TaskDone, Continue,
        checkClose, Unlocked, stop
  <2>5. ASSUME NEW t \in Task, StopCancels(t)
        PROVE  toCancel' \subseteq tasks'
    <3>1. toCancel' = toCancel \ {t} /\ (tasks' = tasks \/ tasks' = tasks \ {t})
      BY <2>5 DEF StopCancels, cancelTaskQueue
    <3>2. QED
      BY <2>2, <3>1
  <2>6. ASSUME Exit \/ StopWalks
        PROVE  UNCHANGED <<toCancel, tasks>>
    BY <2>6 DEF Exit, StopWalks, stop
  <2>7. ASSUME stopUnlock
        PROVE  toCancel' = {}
    BY <2>7 DEF stopUnlock, stop
  <2>8. QED
    BY <1>3, <2>2, <2>3, <2>4, <2>5, <2>6, <2>7, NextCases DEF Stops
<1>4. QED
  BY <1>2, <1>3

-----------------------------------------------------------------------------
\* There are no tasks at the start.
LEMMA InitIInv ==
  ASSUME Init
  PROVE  IInv
<1>1. TypeOK
  <2>1. << >> \in Seq(Mail)
    OBVIOUS
  <2>2. Main \in Box
    BY Sets
  <2>3. QED
    BY <2>1, <2>2, Sets DEF Init, TypeOK, Phase
<1>2. \A t \in Task : \A b \in Box : ~Present(t, b)
  BY EmptyQueue, MailFacts DEF Init, Present
<1>3. Boxed
  BY <1>2 DEF Boxed
<1>4. Kinds
  BY Sets DEF Init, Kinds, Own
<1>5. Adding /\ Running
  BY DEF Init, Adding, Running
<1>6. ASSUME NEW t \in Own
      PROVE  OwnTask(t)
  <2>1. t \in Task /\ Main \in Box
    BY Sets
  <2>2. queue[Main] = << >> /\ remain = << >>
    BY <2>1 DEF Init
  <2>3. ~In(MailOf(t), queue[Main]) /\ ~In(MailOf(t), remain)
        /\ Once(MailOf(t), queue[Main])
    BY <2>2, EmptyQueue DEF Once
  <2>4. ~Taken(t) /\ ~Waits(t)
    BY <1>2, <2>1 DEF Taken, Waits, Present
  <2>5. /\ tasks = {} /\ fate[t] = "none" /\ runs[t] = 0 /\ calls[t] = 0
    BY <2>1 DEF Init
  <2>6. QED
    BY <2>3, <2>4, <2>5 DEF OwnTask, Lone
<1>7. ASSUME NEW t \in Queued
      PROVE  QueuedTask(t)
  <2>1. t \in Task
    BY Sets
  <2>2. /\ tasks = {} /\ fate[t] = "none" /\ runs[t] = 0 /\ calls[t] = 0
        /\ timerState[t] = "none"
    BY <2>1 DEF Init
  <2>3. QED
    BY <1>2, <2>1, <2>2 DEF QueuedTask, Told
<1>8. mutex = "stop" => toCancel \subseteq tasks
  BY DEF Init
<1>9. QED
  BY <1>1, <1>3, <1>4, <1>5, <1>6, <1>7, <1>8 DEF IInv

\* The invariant is inductive.
LEMMA NextIInv ==
  ASSUME IInv, [Next]_vars
  PROVE  IInv'
<1>1. CASE Next
  <2>1. TypeOK' /\ Boxed' /\ Kinds' /\ Adding' /\ Running'
    BY <1>1, TypeStep, BoxedStep, KindsStep, AddingStep, RunningStep
  <2>2. \A t \in Own : OwnTask(t)'
    BY <1>1, OwnStep
  <2>3. \A t \in Queued : QueuedTask(t)'
    BY <1>1, QueuedStep
  <2>4. mutex' = "stop" => toCancel' \subseteq tasks'
    BY <1>1, ToCancelStep
  <2>5. QED
    BY <2>1, <2>2, <2>3, <2>4 DEF IInv
<1>2. CASE UNCHANGED vars
  BY <1>2
  DEF vars, boxes, stop, history, IInv, TypeOK, Boxed, Kinds, Adding, Running,
      OwnTask, QueuedTask, Lone, Told, Taken, Waits, Present
<1>3. QED
  BY <1>1, <1>2

\* The inductive invariant holds always.
THEOREM Invariant == Spec => []IInv
<1>1. Init => IInv
  BY InitIInv
<1>2. IInv /\ [Next]_vars => IInv'
  BY NextIInv
<1>3. QED
  BY <1>1, <1>2, PTL DEF Spec

(* The values of the variables are of the types that TypeOK gives them.       *)
THEOREM TypeCorrect == Spec => []TypeOK
<1>1. IInv => TypeOK
  BY DEF IInv
<1>2. QED
  BY <1>1, Invariant, PTL

(* A task that was refused or cancelled never runs, also when its mail had    *)
(* been taken from the list before the cancel.                               *)
THEOREM CancelMeansNeverAlways == Spec => []CancelMeansNever
<1>1. IInv => CancelMeansNever
  <2>1. SUFFICES ASSUME IInv, NEW t \in Task,
                        fate[t] \in {"refused", "cancelled"}
                 PROVE  runs[t] = 0
    BY DEF CancelMeansNever
  <2>2. CASE t \in Own
    BY <2>1, <2>2 DEF IInv, OwnTask
  <2>3. CASE t \in Queued
    <3>1. timerState[t] \in {"none", "scheduling", "mailing", "executing",
                             "done", "cancelled"}
      BY <2>1 DEF IInv, TypeOK
    <3>2. QED
      BY <2>1, <2>3, <3>1 DEF IInv, QueuedTask, Told
  <2>4. QED
    BY <2>2, <2>3, Sets
<1>2. QED
  BY <1>1, Invariant, PTL

(* No two tasks of the serial queue are executed at the same time, also not   *)
(* when the queue is given a new mailbox while the old one ends; any number  *)
(* of them may wait in a mailbox.                                            *)
THEOREM SerialOneAtATimeAlways == Spec => []SerialOneAtATime
<1>1. IInv => SerialOneAtATime
  <2>1. SUFFICES ASSUME IInv, NEW t \in Serial, NEW u \in Serial,
                        timerState[t] = "executing",
                        timerState[u] = "executing"
                 PROVE  t = u
    BY DEF SerialOneAtATime
  <2>2. t \in Queued /\ u \in Queued /\ t \in Task /\ u \in Task
    BY Sets
  <2>3. ASSUME NEW v \in Serial, v \in Queued, timerState[v] = "executing"
        PROVE  mailbox[v] = queueMap /\ cur[mailbox[v]] = MailOf(v)
    <3>1. /\ cur[mailbox[v]] = MailOf(v) /\ mailbox[v] \in Box
          /\ phase[mailbox[v]] \in {"run", "ran"}
      BY <2>1, <2>3 DEF IInv, QueuedTask
    <3>2. mailbox[v] \in SerialBox
      BY <2>1, <3>1, Sets DEF IInv, Kinds
    <3>3. QED
      BY <2>1, <3>1, <3>2 DEF IInv, Kinds
  <2>4. MailOf(t) = MailOf(u)
    BY <2>1, <2>2, <2>3
  <2>5. QED
    BY <2>2, <2>4, MailFacts
<1>2. QED
  BY <1>1, Invariant, PTL

(* A task is run or called back once, and not both; only one that was         *)
(* refused, and called back for it, may be called back a second time.        *)
THEOREM EndsOnceAlways == Spec => []EndsOnce
<1>1. IInv => EndsOnce
  <2>1. SUFFICES ASSUME IInv, NEW t \in Task
                 PROVE  calls[t] + runs[t]
                          <= IF fate[t] = "refused" THEN 2 ELSE 1
    BY DEF EndsOnce
  <2>2. CASE t \in Own
    <3>1. calls[t] = 0 /\ runs[t] \in {0, 1}
      BY <2>1, <2>2 DEF IInv, OwnTask, TypeOK
    <3>2. QED
      BY <3>1
  <2>3. CASE t \in Queued
    <3>1. timerState[t] \in {"none", "scheduling", "mailing", "executing",
                             "done", "cancelled"}
      BY <2>1 DEF IInv, TypeOK
    <3>2. QED
      BY <2>1, <2>3, <3>1 DEF IInv, QueuedTask, Told
  <2>4. QED
    BY <2>2, <2>3, Sets
<1>2. QED
  BY <1>1, Invariant, PTL
=============================================================================
