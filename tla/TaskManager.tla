------------------------------ MODULE TaskManager ------------------------------
(***************************************************************************)
(* The tasks of one actor: atomosTaskManager with its timers, the mailbox   *)
(* of the actor (Main), the serial queue of one name with the mailboxes it  *)
(* gets one after the other, and a mailbox for each concurrent task.        *)
(*                                                                         *)
(* at.mutex is state where it is held over several steps: while the actor   *)
(* stops, and for ever by a goroutine that locks it twice.  The functions   *)
(* of the actor are called by its own goroutine, as the source demands.     *)
(***************************************************************************)
EXTENDS Naturals, Sequences, SequencesExt, FiniteSets

CONSTANTS Closure,     \* tasks of Add, which a cron goroutine may call as well
          After,       \* of AddAfter
          Direct,      \* of AddToAtomosQueue
          Serial,      \* of AddToSerialQueue, all with one name
          Concurrent,  \* of AddToConcurrentQueue
          Delayed,     \* queue tasks with a delay or a cron schedule
          Cron,        \* those with a cron schedule
          Returning,   \* tasks that return a callback for the actor
          SerialBox,   \* bound: the mailboxes that the serial queue ever gets
          MaxTasks,    \* bound: how many of the tasks are added
          Main, None

Queued == Direct \cup Serial \cup Concurrent
Task == Closure \cup After \cup Queued
Box == {Main} \cup SerialBox \cup Concurrent

ASSUME TaskManagerAssumption ==
  /\ Cron \subseteq Delayed /\ Delayed \subseteq Queued
  /\ Returning \subseteq Serial \cup Concurrent
  /\ MaxTasks \in Nat
  /\ None \notin Task \cup Box \cup {"stop"}
  /\ Main \notin SerialBox \cup Task
  /\ SerialBox \cap Task = {}
  /\ (Closure \cup After) \cap Queued = {}
  /\ Serial \cap (Direct \cup Concurrent) = {}

VARIABLES
  timerState,  \* of each task; only tasks with an atomosTask have one
  tasks,       \* at.tasks
  timer,       \* of each task: may its function still run?
  mailbox,     \* the mailbox a queue task was given
  queueMap,    \* the mailbox under the name of the serial queue
  adding,      \* the task addToAtomos is adding
  mutex,       \* at.mutex: "stop", or "stuck" when it was locked twice
  running,     \* of each mailbox
  queue,       \* of each mailbox
  cur,         \* of each mailbox: the mail its goroutine has taken
  phase,       \* of each mailbox: where its goroutine is
  toCancel,    \* the tasks cancelAllSchedulingTasks has still to visit
  remain,      \* what mailboxOnStop has still to walk over
  fate,        \* what became of each task (history)
  runs,        \* how often each task was run (history)
  calls        \* how often its cancelCallback was called (history)

vars == <<timerState, tasks, timer, mailbox, queueMap, adding, mutex, running,
          queue, cur, phase, toCancel, remain, fate, runs, calls>>

boxes == <<running, queue, cur, phase>>
stop == <<toCancel, remain>>
history == <<fate, runs, calls>>

Mail == [task : Task, callback : BOOLEAN]
\* Mutant of MailOf: the mail does not carry its task.
emptyMailOf(t) == [task |-> None, callback |-> FALSE]

\* initTaskQueueMail, initTaskClosureMail.
MailOf(t) == [task |-> t, callback |-> FALSE]
NoMail == [task |-> None, callback |-> FALSE]

Phase == {"none", "idle", "taken", "run", "ran", "check", "exit", "stop",
          "ended"}

TypeOK ==
  /\ timerState \in [Task -> {"none", "scheduling", "mailing", "executing",
                              "done", "cancelled"}]
  /\ tasks \subseteq Task /\ toCancel \subseteq Task
  /\ timer \in [Task -> BOOLEAN]
  /\ mailbox \in [Task -> Box \cup {None}]
  /\ queueMap \in SerialBox \cup {None}
  /\ adding \in Task \cup {None}
  /\ mutex \in {None, "stop", "stuck"}
  /\ running \in [Box -> BOOLEAN]
  /\ queue \in [Box -> Seq(Mail)] /\ remain \in Seq(Mail)
  /\ cur \in [Box -> Mail \cup {NoMail}]
  /\ phase \in [Box -> Phase]
  /\ fate \in [Task -> {"none", "added", "refused", "cancelled", "dropped"}]
  /\ runs \in [Task -> Nat] /\ calls \in [Task -> Nat]

Init ==
  /\ timerState = [t \in Task |-> "none"] /\ tasks = {} /\ toCancel = {}
  /\ timer = [t \in Task |-> FALSE]
  /\ mailbox = [t \in Task |-> IF t \in Closure \cup After THEN Main ELSE None]
  /\ queueMap = None /\ adding = None /\ mutex = None
  /\ running = [b \in Box |-> b = Main]
  /\ queue = [b \in Box |-> << >>] /\ remain = << >>
  /\ cur = [b \in Box |-> NoMail]
  /\ phase = [b \in Box |-> IF b = Main THEN "idle" ELSE "none"]
  /\ fate = [t \in Task |-> "none"]
  /\ runs = [t \in Task |-> 0] /\ calls = [t \in Task |-> 0]

Become(t, s) == timerState' = [timerState EXCEPT ![t] = s]
Fate(t, f) == fate' = [fate EXCEPT ![t] = f]
Goto(b, p) == phase' = [phase EXCEPT ![b] = p]
Call(t) == calls' = [calls EXCEPT ![t] = @ + 1]
Unlocked == mutex = None

\* Where the mail of t may be put: at the head or at the tail.
Pushed(t, b) == {<<MailOf(t)>> \o queue[b], Append(queue[b], MailOf(t))}
\* popByID: the first mail with that id, if there is one.
PopByID(t, b) == RemoveFirst(queue[b], MailOf(t))
InQueue(t, b) == MailOf(t) \in ToSet(queue[b])

New(t) ==
  /\ fate[t] = "none"
  /\ Cardinality({u \in Task : fate[u] # "none"}) < MaxTasks

\* The goroutine of the actor is in a handler or a task and calls the manager.
OwnerCalls == phase[Main] \in {"idle", "run"} /\ adding = None /\ Unlocked

-----------------------------------------------------------------------------
\* Add; a cron goroutine (AddCrontab) calls it at any time.
Add(t) ==
  /\ t \in Closure /\ New(t) /\ Unlocked
  /\ IF running[Main]
     THEN /\ queue' = [queue EXCEPT ![Main] = Append(@, MailOf(t))]
          /\ Fate(t, "added")
     ELSE Fate(t, "refused") /\ UNCHANGED queue
  /\ UNCHANGED <<timerState, tasks, timer, mailbox, queueMap, adding, mutex,
                 running, cur, phase, stop, runs, calls>>

AddAfter(t) ==
  /\ t \in After /\ New(t) /\ OwnerCalls
  /\ tasks' = tasks \cup {t}
  /\ Become(t, "scheduling")
  /\ timer' = [timer EXCEPT ![t] = TRUE]
  /\ Fate(t, "added")
  /\ UNCHANGED <<mailbox, queueMap, adding, mutex, boxes, stop, runs, calls>>

\* Mailboxes of the serial queue that were never started.
Unused == {b \in SerialBox : phase[b] = "none"}

\* Mutant of taskMailboxOf: the mailbox under the name is not looked up.
freshMailboxOf(t) ==
  CASE t \in Direct -> {Main}
    [] t \in Serial -> Unused
    [] t \in Concurrent -> {t}

\* AddToAtomosQueue, getTaskSerialMailbox, newTaskSerialMailboxForConcurrent.
taskMailboxOf(t) ==
  CASE t \in Direct -> {Main}
    [] t \in Serial -> IF queueMap # None THEN {queueMap} ELSE Unused
    [] t \in Concurrent -> {t}

\* AddToXxxQueue: the task gets its mailbox, which is started if it is new.
getMailbox(t) ==
  /\ t \in Queued /\ New(t) /\ OwnerCalls
  /\ \E b \in taskMailboxOf(t) :
       /\ mailbox' = [mailbox EXCEPT ![t] = b]
       /\ running' = [running EXCEPT ![b] = TRUE]
       /\ phase' = [phase EXCEPT ![b] = IF @ = "none" THEN "idle" ELSE @]
       /\ queueMap' = IF t \in Serial THEN b ELSE queueMap
  /\ adding' = t
  /\ UNCHANGED <<timerState, tasks, timer, mutex, queue, cur, stop, history>>

\* genTaskID; a delayed task starts its timer and is added.
genTaskID(t) ==
  /\ adding = t /\ t \notin tasks /\ timerState[t] = "none" /\ Unlocked
  /\ tasks' = tasks \cup {t}
  /\ IF t \in Delayed
     THEN /\ Become(t, "scheduling") /\ Fate(t, "added")
          /\ timer' = [timer EXCEPT ![t] = TRUE] /\ adding' = None
     ELSE Become(t, "mailing") /\ UNCHANGED <<fate, timer, adding>>
  /\ UNCHANGED <<mailbox, queueMap, mutex, boxes, stop, runs, calls>>

\* addToQueue: a mailbox that is not running refuses, and errorHelper calls the
\* cancelCallback; the task stays in at.tasks.
addToQueue(t) ==
  LET b == mailbox[t] IN
  IF running[b]
  THEN /\ \E q \in Pushed(t, b) : queue' = [queue EXCEPT ![b] = q]
       /\ Fate(t, "added") /\ UNCHANGED calls
  ELSE Fate(t, "refused") /\ Call(t) /\ UNCHANGED queue

addNow(t) ==
  /\ adding = t /\ t \in tasks
  /\ addToQueue(t)
  /\ adding' = None
  /\ UNCHANGED <<timerState, tasks, timer, mailbox, queueMap, mutex, running,
                 cur, phase, stop, runs>>

-----------------------------------------------------------------------------
\* The function of AddAfter: a refused mail is only logged.
mailAfter(t) ==
  /\ tasks' = tasks \ {t}
  /\ IF running[Main]
     THEN /\ queue' = [queue EXCEPT ![Main] = <<MailOf(t)>> \o @]
          /\ UNCHANGED fate
     ELSE Fate(t, "refused") /\ UNCHANGED queue
  /\ UNCHANGED calls

\* The timer function, delayAddToQueue; a cron schedule comes round again.
Fire(t) ==
  /\ timer[t] /\ Unlocked
  /\ timer' = [timer EXCEPT ![t] = t \in Cron /\ phase[Main] # "ended"]
  /\ IF t \in tasks /\ timerState[t] = "scheduling"
     THEN /\ Become(t, "mailing")
          /\ IF t \in After THEN mailAfter(t)
             ELSE addToQueue(t) /\ UNCHANGED tasks
     ELSE UNCHANGED <<timerState, tasks, queue, fate, calls>>
  /\ UNCHANGED <<mailbox, queueMap, adding, mutex, running, cur, phase, stop,
                 runs>>

-----------------------------------------------------------------------------
\* time.Timer.Stop comes too late for a function that waits for at.mutex.
StopTimer(t) == \E late \in {FALSE, timer[t]} :
                  timer' = [timer EXCEPT ![t] = late]

\* getCron locks at.mutex, which its caller holds.
CronHangs(t) == t \in Cron /\ timerState[t] = "scheduling"

\* A refused task is still called so when it is cancelled as well.
Cancelled(t) ==
  fate' = [fate EXCEPT ![t] = IF @ = "refused" THEN @ ELSE "cancelled"]

\* Mutant of cancelTaskQueue: a task whose mail was popped stays Mailing.
cancelTaskQueueMailOnly(t) ==
  /\ timerState[t] \in {"scheduling", "mailing"} /\ ~CronHangs(t)
  /\ IF timerState[t] = "scheduling"
     THEN /\ StopTimer(t) /\ tasks' = tasks \ {t} /\ UNCHANGED queue
          /\ Become(t, "cancelled")
     ELSE /\ queue' = [queue EXCEPT ![mailbox[t]] = PopByID(t, mailbox[t])]
          /\ UNCHANGED <<timer, tasks, timerState>>
  /\ Cancelled(t) /\ Call(t)

(* cancelTaskQueue.  The mail of a Mailing task may be gone from the list:   *)
(* its goroutine has it and will see the state.                             *)
cancelTaskQueue(t) ==
  /\ timerState[t] \in {"scheduling", "mailing"} /\ ~CronHangs(t)
  /\ Become(t, "cancelled") /\ Cancelled(t) /\ Call(t)
  /\ IF timerState[t] = "scheduling"
     THEN StopTimer(t) /\ tasks' = tasks \ {t} /\ UNCHANGED queue
     ELSE /\ queue' = [queue EXCEPT ![mailbox[t]] = PopByID(t, mailbox[t])]
          /\ UNCHANGED <<timer, tasks>>

\* The function that AddToXxxQueue has returned; the one of a task that was
\* refused at once does nothing.
CancelQueued(t) ==
  /\ t \in Queued /\ OwnerCalls
  /\ fate[t] = "added" \/ (fate[t] = "refused" /\ t \in Delayed)
  /\ \/ cancelTaskQueue(t) /\ UNCHANGED mutex
     \/ /\ CronHangs(t) /\ mutex' = "stuck"
        /\ UNCHANGED <<timerState, tasks, timer, queue, fate, calls>>
  /\ UNCHANGED <<mailbox, queueMap, adding, running, cur, phase, stop, runs>>

\* Cancel(id): a timer task that is scheduled, or a mail that is in the list.
Cancel(t) ==
  /\ t \in Closure \cup After /\ fate[t] = "added" /\ OwnerCalls
  /\ \/ /\ t \in tasks
        /\ StopTimer(t) /\ tasks' = tasks \ {t} /\ Become(t, "cancelled")
        /\ UNCHANGED queue
     \/ /\ t \notin tasks /\ InQueue(t, Main)
        /\ queue' = [queue EXCEPT ![Main] = PopByID(t, Main)]
        /\ UNCHANGED <<timer, tasks, timerState>>
  /\ Fate(t, "cancelled")
  /\ UNCHANGED <<mailbox, queueMap, adding, mutex, running, cur, phase, stop,
                 runs, calls>>

\* Cancel with the id of a queue task: cancelTaskQueue locks at.mutex again.
CancelLocksTwice(t) ==
  /\ t \in tasks \cap Queued /\ OwnerCalls
  /\ mutex' = "stuck"
  /\ UNCHANGED <<timerState, tasks, timer, mailbox, queueMap, adding, boxes,
                 stop, history>>

-----------------------------------------------------------------------------
\* The goroutine of a mailbox; a queue looks whether it is empty after a mail.
Leave(b, p) == Goto(b, p) /\ cur' = [cur EXCEPT ![b] = NoMail]
Served(b) == Leave(b, IF b = Main THEN "idle" ELSE "check")

Take(b) ==
  /\ phase[b] = "idle" /\ queue[b] # << >> /\ (b = Main => adding = None)
  /\ cur' = [cur EXCEPT ![b] = Head(queue[b])]
  /\ queue' = [queue EXCEPT ![b] = Tail(@)]
  /\ Goto(b, "taken")
  /\ UNCHANGED <<timerState, tasks, timer, mailbox, queueMap, adding, mutex,
                 running, stop, history>>

\* handleTask runs a closure without a look at at.mutex; OnFnCallback too.
RunClosure(b) ==
  LET m == cur[b] IN
  /\ phase[b] = "taken" /\ (m.callback \/ m.task \notin Queued)
  /\ runs' = IF m.callback THEN runs ELSE [runs EXCEPT ![m.task] = @ + 1]
  /\ Goto(b, "run")
  /\ UNCHANGED <<timerState, tasks, timer, mailbox, queueMap, adding, mutex,
                 running, queue, cur, stop, fate, calls>>

\* Mutant of handleTaskQueue: the state Cancelled is not looked at.
handleAnyTask(b) ==
  LET t == cur[b].task IN
  /\ phase[b] = "taken" /\ ~cur[b].callback /\ t \in Queued /\ Unlocked
  /\ Become(t, "executing") /\ Goto(b, "run")
  /\ runs' = [runs EXCEPT ![t] = @ + 1]
  /\ UNCHANGED <<tasks, timer, mailbox, queueMap, adding, mutex, running, queue,
                 cur, stop, fate, calls>>

\* handleTaskQueue: the state decides, under at.mutex.
handleTaskQueue(b) ==
  LET t == cur[b].task IN
  /\ phase[b] = "taken" /\ ~cur[b].callback /\ t \in Queued /\ Unlocked
  /\ IF timerState[t] = "mailing"
     THEN /\ Become(t, "executing") /\ Goto(b, "run")
          /\ runs' = [runs EXCEPT ![t] = @ + 1] /\ UNCHANGED cur
     ELSE Served(b) /\ UNCHANGED <<timerState, runs>>
  /\ UNCHANGED <<tasks, timer, mailbox, queueMap, adding, mutex, running, queue,
                 stop, fate, calls>>

(* The function returns or panics; with TaskFnWithCallback it may have       *)
(* returned a callback for the actor, which is lost when that has stopped.   *)
Finish(b) ==
  LET m == cur[b] IN
  /\ phase[b] = "run" /\ (b = Main => adding = None)
  /\ \/ UNCHANGED queue
     \/ /\ m.task \in Returning /\ ~m.callback /\ running[Main]
        /\ queue' = [queue EXCEPT ![Main] =
                       Append(@, [task |-> m.task, callback |-> TRUE])]
  /\ IF m.callback \/ m.task \notin Queued THEN Served(b)
     ELSE Goto(b, "ran") /\ UNCHANGED cur
  /\ UNCHANGED <<timerState, tasks, timer, mailbox, queueMap, adding, mutex,
                 running, stop, history>>

TaskDone(b) ==
  /\ phase[b] = "ran" /\ Unlocked
  /\ Become(cur[b].task, "done")
  /\ tasks' = tasks \ {cur[b].task}
  /\ Served(b)
  /\ UNCHANGED <<timer, mailbox, queueMap, adding, mutex, running, queue, stop,
                 history>>

Continue(b) ==
  /\ phase[b] = "check" /\ queue[b] # << >>
  /\ b \in SerialBox => Unlocked
  /\ Goto(b, "idle")
  /\ UNCHANGED <<timerState, tasks, timer, mailbox, queueMap, adding, mutex,
                 running, queue, cur, stop, history>>

\* Mutant of checkClose: stopIfNoMail does not look at the number of mails.
checkCloseAlways(b) ==
  /\ phase[b] = "check"
  /\ b \in SerialBox => Unlocked
  /\ running' = [running EXCEPT ![b] = FALSE]
  /\ queueMap' = IF b \in SerialBox THEN None ELSE queueMap
  /\ Goto(b, "ended")
  /\ UNCHANGED <<timerState, tasks, timer, mailbox, adding, mutex, queue, cur,
                 stop, history>>

\* checkCloseTaskSerialMailbox, checkCloseTaskMailbox: stopIfNoMail.
checkClose(b) ==
  /\ phase[b] = "check" /\ queue[b] = << >>
  /\ b \in SerialBox => Unlocked
  /\ running' = [running EXCEPT ![b] = FALSE]
  /\ queueMap' = IF b \in SerialBox THEN None ELSE queueMap
  /\ Goto(b, "ended")
  /\ UNCHANGED <<timerState, tasks, timer, mailbox, adding, mutex, queue, cur,
                 stop, history>>

-----------------------------------------------------------------------------
\* The actor takes an exit mail.
Exit ==
  /\ phase[Main] = "idle" /\ adding = None
  /\ running' = [running EXCEPT ![Main] = FALSE]
  /\ Goto(Main, "exit")
  /\ UNCHANGED <<timerState, tasks, timer, mailbox, queueMap, adding, mutex,
                 queue, cur, stop, history>>

\* stopLock, after popAll.
stopLock ==
  /\ phase[Main] = "exit" /\ Unlocked
  /\ mutex' = "stop" /\ Goto(Main, "stop")
  /\ toCancel' = tasks
  /\ remain' = queue[Main] /\ queue' = [queue EXCEPT ![Main] = << >>]
  /\ UNCHANGED <<timerState, tasks, timer, mailbox, queueMap, adding, running,
                 cur, history>>

\* cancelAllSchedulingTasks: one task.
StopCancels(t) ==
  /\ phase[Main] = "stop" /\ mutex = "stop" /\ t \in toCancel
  /\ toCancel' = toCancel \ {t}
  /\ \/ /\ t \in Queued /\ cancelTaskQueue(t)
        /\ UNCHANGED mutex
     \/ /\ t \in After
        /\ StopTimer(t) /\ tasks' = tasks \ {t} /\ Become(t, "cancelled")
        /\ Fate(t, "cancelled") /\ UNCHANGED <<queue, calls, mutex>>
     \/ /\ CronHangs(t) /\ mutex' = "stuck"
        /\ UNCHANGED <<timerState, tasks, timer, queue, fate, calls>>
     \/ /\ timerState[t] \in {"executing", "done", "cancelled"}
        /\ UNCHANGED <<timerState, tasks, timer, queue, fate, calls, mutex>>
  /\ UNCHANGED <<mailbox, queueMap, adding, running, cur, phase, remain, runs>>

(* A mail that was left: callbacks are called, and cancelTask finds neither   *)
(* the task nor the mail of a closure, which is dropped without a word.      *)
StopWalks ==
  /\ phase[Main] = "stop" /\ mutex = "stop" /\ toCancel = {} /\ remain # << >>
  /\ LET m == Head(remain) IN
     IF ~m.callback /\ m.task \notin Queued THEN Fate(m.task, "dropped")
                                            ELSE UNCHANGED fate
  /\ remain' = Tail(remain)
  /\ UNCHANGED <<timerState, tasks, timer, mailbox, queueMap, adding, mutex,
                 boxes, toCancel, runs, calls>>

\* OnStopping is over.
stopUnlock ==
  /\ phase[Main] = "stop" /\ mutex = "stop" /\ toCancel = {} /\ remain = << >>
  /\ mutex' = None /\ Goto(Main, "ended")
  /\ UNCHANGED <<timerState, tasks, timer, mailbox, queueMap, adding, running,
                 queue, cur, stop, history>>

-----------------------------------------------------------------------------
\* What the goroutine of a mailbox does once it is started.
Loop(b) ==
  \/ Take(b) \/ RunClosure(b) \/ handleTaskQueue(b) \/ Finish(b) \/ TaskDone(b)
  \/ Continue(b) \/ checkClose(b)

Stops == stopLock \/ stopUnlock \/ StopWalks \/ \E t \in Task : StopCancels(t)
Adds == \E t \in Task : genTaskID(t) \/ addNow(t)

Next ==
  \/ \E t \in Task :
       \/ Add(t) \/ AddAfter(t) \/ getMailbox(t) \/ Fire(t)
       \/ CancelQueued(t) \/ Cancel(t) \/ CancelLocksTwice(t)
  \/ \E b \in Box : Loop(b)
  \/ Exit \/ Stops \/ Adds

Spec == Init /\ [][Next]_vars

(* Goroutines run, the functions of tasks return, a stop goes on and timers   *)
(* elapse.  Nobody has to add, to cancel or to stop.                         *)
Fairness ==
  /\ \A b \in Box : WF_vars(Loop(b))
  /\ \A t \in Task : WF_vars(Fire(t))
  /\ WF_vars(Stops) /\ WF_vars(Adds)

FairSpec == Spec /\ Fairness
-----------------------------------------------------------------------------
(* A task that was refused or cancelled has not run and never will, even if   *)
(* its mail had been taken before the cancel.                                *)
CancelMeansNever ==
  \A t \in Task : fate[t] \in {"refused", "cancelled"} => runs[t] = 0

(* The serial queue runs one task at a time, over the change of its mailbox:  *)
(* a new one is only made when the old one has no task left.                 *)
SerialOneAtATime ==
  \A t, u \in Serial :
    timerState[t] = "executing" /\ timerState[u] = "executing" => t = u

(* A task is cancelled at most once, by a cancel or by the stop, and a task   *)
(* runs at most once, also one with a cron schedule, and not both; only one   *)
(* that was refused, and called back for it, may be called back again.       *)
EndsOnce ==
  \A t \in Task : calls[t] + runs[t] <= IF fate[t] = "refused" THEN 2 ELSE 1

Pending == {t \in Task : fate[t] = "added" /\ runs[t] = 0}

(* Every task that was added runs, or is told its fate, also when the actor   *)
(* stops meanwhile; unless at.mutex was locked twice.  A task is added once, *)
(* so it is enough that time and again none is pending.                     *)
EveryTaskEnds == []<>(Pending = {} \/ mutex = "stuck")

(* Nobody gets the mailbox of a serial queue that is exiting (comment on      *)
(* checkCloseTaskSerialMailbox), so none refuses a task.                     *)
QueueNotExiting == \A t \in Serial : fate[t] # "refused"
=============================================================================
