# TLA+ models of go-atomos

go-atomos is an actor framework in Go. An *atom* is an actor with a mailbox and
one goroutine; an *element* is the actor that owns the atoms of one type; a
*cosmos* is the process, and the processes of a cluster find each other through
etcd and call each other with gRPC. This directory holds TLA+ modules of the
parts where interleavings, stops, crashes and lost answers decide whether the
framework is correct, the configurations that check them with TLC, and proofs of
the most important properties that hold for every value of the constants.

Paths are relative to the root of the repository (`src/` here).

## 1. Inventory

| Component | State it keeps | Operations | Status |
|---|---|---|---|
| Mailbox (`mail.go`) | `running`, `head`, `tail`, `num`, the `next` of each mail, a mutex, a condition variable, the loop goroutine | `start`, `pushHead`, `pushTail`, `waitPop`, `popAll`, `popByID`, `removeMail`, `stopIfNoMail`, `loop` | modelled: `Mailbox` |
| Synchronous calls and wait graph (`base_atomos.go:200-266`, `base_atomos_mails.go`, `cosmos_process.go:165-221`) | `waitGraph`, the `waitCh` of each mail, the timer of each call | `PushSyncMessage`, `detectDeadlockAndWait`, `removeWaitEdge`, `waitReply`, `sendReply`, `mailboxOnStop` | modelled: `WaitGraph` |
| Asynchronous messages and callbacks (`base_atomos.go:270-580`, `base_remote.go`, `atomos_remote_service.go`) | the counter `asyncCallbackID` and the table `asyncCallbackMap` of each instance | `asyncSet`, `asyncPop`, `asyncCancelAll`, `OnAsyncMessaging`, `OnAsyncMessagingCallback`, the remote reply | modelled: `AsyncCallback` |
| `BaseAtomos` life cycle (`base_atomos.go`, `base_atomos_mails.go`) | `state`, `running`, the remaining mails of a stop | messages, wormholes, kill with and without waiting, task callbacks, start, stop, `setHalted`, timers of senders | modelled: `BaseAtomos` |
| Atom registry and ID trackers (`element_local.go`, `atomos_id_tracker.go`, `util_sync_map.go`) | `atoms`, `names`, the reference states of the instances, the lock of a name, `e.lock` | get, spawn, respawn, release, `onInstanceRefsDrained`, `elementAtomStopping` | modelled: `AtomRegistry` |
| Task manager and queues (`atomos_task_manager*.go`, `task_mailbox.go`) | the tasks with their states, timers, the mailboxes of the queues, `mutex` | add, delay, schedule, fire, cancel, handle, close an idle queue, stop | partly: `TaskManager` |
| Process life cycle (`cosmos_process.go`, `cosmos_local.go`) | `state`, `draining`, the drain watcher, the info channel | `Start`, `Stop`, `stopFromOtherNode`, `Drain`, the clean-ups | partly: `CosmosProcess` |
| Registration and version lock in etcd (`cosmos_etcd.go`, `cosmos_etcd_version_lock.go`) | the versions of a node under one key; the registration and its lease | lock, make current, unlock; keep alive, update, delete | modelled: `VersionLock`, `CosmosProcess` |
| Remote cosmos (`cosmos_remote.go`, `element_remote.go`, `base_remote.go`) | version table, current version, connections, `dialed`, `enable`; the pinned connection of an ID | update, delete, refresh, dial, disable; resolve, call, kill | partly: `CosmosRemote`, `RemoteHandle` |
| gRPC service (`atomos_remote_service.go`) | none of its own | looks the atom up and calls it | partly, in the modules of its callers |
| Logging (`logging_atomos.go`) | a mailbox | push, stop | inherits `Mailbox` |
| Message tracker, application shell, supervisor, file utilities, code generator, vet analyzers | | | not modelled, see section 17 |

How they interact. A sender calls a push of the target's mailbox under the
mutex of that mailbox; the target's goroutine pops the mail and calls
`BaseAtomos.mailboxOnReceive`, which runs the handler and sends the reply, over
the channel of the mail for a synchronous call and as a new mail in the
caller's mailbox for an asynchronous one. A synchronous call blocks the calling
goroutine, which is often the mailbox goroutine of another actor: that is why
calls register in one graph of the process. A kill is a mail too; it closes
the mailbox, takes the rest of the list and answers it. An element spawns an
atom under a name, and again after the atom has halted; other goroutines refer
to it by an ID with a tracker or, from another node, by its name and the number
of its instance. Tasks are mails to the actor itself or to the mailboxes of its
queues. A process takes a place in the version lock of its node, registers under
a lease and becomes the current version; the other processes watch etcd, pick a
version to route to and dial it when the first call needs it.

What is hard here:

* the mailbox is shared by any number of senders, by senders that take a mail
  back when their timer fires, by `stopIfNoMail`, and by the loop, which leaves
  the mutex between clearing `running` and taking the rest;
* two goroutines can close a cycle of calls in the same moment, and actors may
  be starting or stopping when they are called;
* a callback can be ended by its reply, by a stale reply with the same number,
  by the halt of its atom, or by nobody;
* an atom's name outlives its instances: spawns, releases and stops of several
  instances meet in one map, and IDs on other nodes outlive all of them;
* a cancel meets a task whose mail has been taken, a push meets a queue that
  closes because it is idle;
* the processes of a node share one key in etcd without a lock on it, may crash
  at any point, and may be stopped from three sides at once;
* what a process knows of the cluster is a sequence of events that lags behind.

What makes each part correct is what sections 4 to 13 check: the mailbox is a
queue; calls never wait in a ring and always return; a callback is called once
and with its own reply; what a sender is told is what has happened; a name
leads to its live instance; a cancelled task never runs; the version lock is a
bounded set of slots; a process that is off has left the cluster; routing
prefers started versions; a message reaches the instance its ID was made for.

## 2. Plan

The modules were written in the order of their weight, with their proofs beside
them, and all of the plan is done: `MailQueue`, `Mailbox`,
`WaitGraph`, `AsyncCallback`, `BaseAtomos`, `AtomRegistry`, `TaskManager`,
`VersionLock` with `VersionSlots`, `CosmosProcess`, `CosmosRemote`,
`RemoteHandle`. No module with a theorem uses a RECURSIVE operator:
reachability along `next` and along the wait edges is written as the least
closed set. Two abstract specifications say what a component promises:
`MailQueue` (a mailbox is a queue that can be closed) and `VersionSlots` (a
version lock is a bounded set of slots).

The components are composed by what one module takes from another. `BaseAtomos`,
`WaitGraph` and `TaskManager` have a sequence in the place of the list of
`mail.go`, which the refinement of `MailQueue` justifies. `CosmosProcess` has one bit
in the place of the version lock, `RemoteHandle` any choice of the current version
in the place of `CosmosRemote`, and `CosmosRemote` has the processes of a node as the
writes that `CosmosProcess` and `VersionLock` make.

The proofs came in the same order, and no safety property of a run is left
without one. What could come next: the death watch of remote atoms, the two
cosmos of a call composed over one network, and an abstract specification of the
task queues.

## 3. Modules

| Module | What it is | Checked by | Proofs |
|---|---|---|---|
| `MailQueue` | abstract: what a mailbox promises | | |
| `Mailbox` | the linked list of `mail.go` and its loop goroutine | `MCMailbox` | `Messaging_proofs` |
| `WaitGraph` | synchronous calls, timers, stops, the wait graph | `MCWaitGraph` | `Messaging_proofs` |
| `AsyncCallback` | callbacks of one atom name over its instances | `MCAsyncCallback` | `AsyncCallback_proofs` |
| `BaseAtomos` | one actor from start to halt, and its senders | `MCBaseAtomos` | `BaseAtomos_proofs` |
| `AtomRegistry` | the instances of one name, references, locks | `MCAtomRegistry` | `AtomRegistry_proofs` |
| `TaskManager` | the tasks, timers and queues of one actor | `MCTaskManager` | `TaskManager_proofs` |
| `VersionSlots` | abstract: what the version lock promises | | |
| `VersionLock` | the lock key of a node, read and conditionally written | `MCVersionLock` | `Registration_proofs` |
| `CosmosProcess` | one process, from its start to its end | `MCCosmosProcess` | `Registration_proofs` |
| `RemoteNode` | the processes and callers that the next two share | | |
| `CosmosRemote` | watcher, version table, routing, dialling | `MCCosmosRemote` | `RemoteNode_proofs` |
| `RemoteHandle` | IDs of an atom on another node | `MCRemoteHandle` | `RemoteNode_proofs` |
| `QueueLemmas` | facts on sequences that the proofs share | | itself |

Three modules of proofs extend two components each, those that belong to one
layer. The second component has names of its own for what every module has:
`GraphInit`, `GraphNext`, `GraphSpec` and `GraphTypeOK` in `WaitGraph`, the same with
`Handle` in `RemoteHandle` and with `Process` in `CosmosProcess`.

Definitions named "Mutant of X" in the comment are X with a plausible mistake:
with it in the place of X the run of the module reports the property that guards
X. They are not part of any specification. Variables called history in their
comment record what happened; no guard that models the code reads them, except
to give a mail, a task or a spawn one life.

Each module has one type invariant, and it is proved (`TypeCorrect`, or with the
prefix of the component). Where it says more than the set of values of a variable,
it is an invariant of the run as well.

## 4. Mailbox

One action is one critical section of `mailBox.mutex`, or one step of the loop
goroutine between two of them. `Start` is `start`/`startLoop` (`running` is set
before the goroutine exists); `StartUp` and `StartFailed` are
`mailboxOnStartUp` and its error; `pushHead`, `pushTail`, `pushRefused`,
`stopIfNoMail`, `removeMail`, `popByID` and `popAll` are the methods of these
names; `waitPopSleep` and `waitPop` are the two outcomes of `waitPop` (asleep in
`cond.Wait`, or a mail); `Received`, `ExitRefuse`, `popAll`, `Stopped` are the
branches of `loop`. `fate` (what became of each mail) and `order` (the mails
in list order) are history: no guard that models the code reads `order`, and
`fate` only says that a mail is pushed once. `num` is a natural number: the
proved `TypeOK` shows that the code's `uint32` is never decremented at zero.

Run `mailbox` (20 682 distinct states): mails `m1`, `m2` with equal id, `m3`, exit mails
`k1`, `k2`. Three mails make a list with a first, a middle and a last, two equal
ids make `popByID` choose, and the second exit mail is the one that is refused,
drained or withdrawn behind the first.

* `ListShape`: `num`, `head`, `tail` and `next` always describe one list without a
  cycle, in the order in which it will be served.
* `NothingBehindTheDrain`: from `popAll` on the box stays empty.
* `RemainIntact`: the list that `mailboxOnStop` walks without the mutex is what
  `popAll` took, also when a sender times out meanwhile.
* `EveryMailLeaves`: no wake-up is lost, an accepted mail is served, withdrawn
  or drained, unless the start-up failed (see section 15).
* `QueueSpec`: `Mailbox` implements `MailQueue`, with `queue <- order`,
  `accepting <- running`, `served <- curMail`.

## 5. Wait graph

A goroutine is an actor's (`Actor`) or another one (`Client`: `Parallel`, a gRPC
handler, main). `CallRefused`/`CallStarts`/`CallUnseen` are the three outcomes
of the check in `PushSyncMessage`: refused with `ErrIDFirstSyncCallDeadlock`,
passed and registered in the same critical section of `waitMu`, or skipped
because the target's goroutine id still reads zero. `Push` and `PushRefused`
are the two outcomes of the push, `Answered` and `TimedOut` of `waitReply`,
`Return` is `removeEdge`. `Handle`, `HandleOther`, `Reply` are the target's side;
`StartMailbox`, `Spawn`, `SpawnFailed` its beginning; `Stop` is the exit branch with the
answers to the remaining mails, after which `OnStopping` runs and may call.
`Reaches` is the walk along the edges, written as the least closed set. The list
inside the mailbox is a sequence here, which section 4 justifies.

Run `wait_graph` (154 316 states): three actors, one call each, one actor still
being started. A ring of three is the smallest that a check of one edge misses.
One call each keeps the state space small, and the proofs have no bound. A
goroutine that is no actor's can wait but is never waited for, so it closes no
ring; the proofs cover it.

* `Acyclic`: the registered edges never form a ring.
* `NoDeadlock`: no group of goroutines waits on itself, unless a call in it had
  no registered edge.
* `EveryCallReturns`: a call returns without its timer, under the same exception.

## 6. Asynchronous callbacks

One atom name and its instances `1 .. MaxInstance`. A request is the pair of the
instance and the id `asyncSet` gave its callback. `Register`/`RegisterLate` are
`asyncSet` before and after the clearing; `Push`/`Refuse` the push or the
remote call; `Handle` and `HandlePanic` are `OnAsyncMessaging`; `asyncCallback` is
the reply, put into the mailbox of the instance that asked or sent over the
network; `AsyncOnMessageCallback` is its arrival, routed by name;
`OnAsyncMessagingCallback` pops the callback and calls it. `Close`,
`asyncCancelAll` and `Halt` are the three parts of a stop that other goroutines
can get between. `Spawn` carries the counter over if the entry of the name is
still there. `Fault` says which of a refused push ("refuse"), a panic ("panic"), a
lost reply ("lose") and a failing `OnSpawn` ("spawn") may happen; `Held` says
whether somebody keeps an ID tracker throughout.

* `async_callback` (4 004 139 states; two instances, two ids, all four faults,
  the entry not held): `AtMostOnce`; `NoneLeftBehind`, after the clearing every
  callback has been called; `LocalRepliesMatch`, a reply from inside the process
  reaches the callback of its own request. Two instances are enough for a
  stale reply to find a successor, two ids for it to find another's callback.
* `async_held` (13 782 states; the entry held, no faults): `RepliesMatch`, also
  replies from another node reach the callback of their request while the
  counter is carried over; `EveryCallbackEnds`, every callback is called.

## 7. Life of an actor

`BaseAtomos` is the actor with everything that can be put into its mailbox:
synchronous messages, wormholes, kills that wait, kills that do not, and task
callbacks. `Push`, `PushRefused`, `Answered` and `TimedOut` are the four steps
of a sender; the last covers the timer that fires in the moment in which the
reply arrives (`removeMail` tells a mail that was withdrawn from one that is being
handled). `Take` to `setWaiting` serve a mail; `ExitRefuse`, `popAll`,
`setStopping`, `Walk`, `OnStopping`, `setHalted` are a stop with the answers to
what was left. `WormholePanic` and `StopPanic` are the two places where a panic
skips the answer; elsewhere the code recovers in front of `sendReply`.

Run `base_atomos` (48 471 states): one mail of each of the five kinds, so that every
kind meets every other in the list and in the walk; a failing start and both
panics may happen.

* `AnswersAreTrue`: a message answered "not running", "rejected" or "stopping"
  is not handled and never will be, so that the caller may send it again; one
  answered without an error was handled; the reply channel of a mail that is
  still to be served is empty.
* `NothingAfterKilled`: once a kill was answered no message is handled.
* `EverySenderAnswered`: every sender that waits is answered without its timer,
  unless the start fails or a panic skips the answer.

## 8. Atoms of one name

`AtomRegistry` has one name of an element and the goroutines that get, spawn and
release it. Each step is one section of one lock; `e.lock` and the mailbox mutex
of an instance are variables because two paths hold one of them and take the
other: `elementAtomSpawn` the mailbox's and then `e.lock` (`FoundRunning`,
`addRefAtom`), `onInstanceRefsDrained` the reverse. A reference state is looked
up under `e.lock` and used after the unlock (`addRefAtom`, `addRef`;
`StoppingRead`, `StoppingCount`, `elementAtomStopping`): another goroutine may
have replaced it. The spawn lock is the counted mutex of `util_sync_map.go`.

Run `atom_registry` (265 794 states): one goroutine that gets, one that spawns,
both release; two instances, two reference states, an element with `AutoData`,
so that a get spawns too. Two callers are what each hazard here needs; the second
instance is the respawn. `AtBound` names the states in which a goroutine would
need a third.

* `OneSpawner`: at most one goroutine is between the lock and the unlock of the
  name, also when the lock's entry in the map is removed and made again.
* `LiveIsEntry`: an instance that is not stopping is what the name leads to, so
  that there are never two: neither the end of the older instance nor the
  release of its last reference drops the entry of the new one.
* `TrackerKeepsEntry`: a tracker keeps the entry of its instance, except in the
  three cases of section 15.
* `EveryCallReturns`: every call returns, a spawn that waits for a stop
  included, except when the two locks are taken in opposite order.

## 9. Tasks

`TaskManager` has the tasks of one actor by the way they are added (`Closure`,
`After`, `Direct`, `Serial`, `Concurrent`; `Delayed` and `Cron` for those with a
timer), the mailboxes they go to, and `at.mutex`, which is a variable because a
stop holds it throughout and some paths lock it twice. `Add`, `AddAfter`,
`getMailbox`/`genTaskID`/`addNow` are the ways in; `Fire` is the timer's
function, which may be late (`StopTimer`); `CancelQueued`, `Cancel` and
`CancelLocksTwice` are the cancels; `Take`, `RunClosure`, `handleTaskQueue`,
`Finish`, `TaskDone`, `Continue`, `checkClose` the loop of a mailbox, the last one
closing a queue that is idle; `stopLock`, `StopCancels`, `StopWalks` and `stopUnlock`
the stop of the actor.

Run `tasks` (266 161 states): any three of five tasks: one of `Add`, one of
`AddAfter`, one with a cron schedule, two of one serial queue of which one is
delayed and one returns a callback; the queue may get two mailboxes. Three tasks
are enough for a push, a cancel and a close to meet. A concurrent task takes the
steps of a serial one that is alone in its mailbox, so there is none.

* `CancelMeansNever`: a task that was cancelled or refused never runs, also when
  its mail had been taken and not yet looked at, or its timer had fired.
* `SerialOneAtATime`: a serial queue runs one task at a time, over the change of
  its mailbox.
* `EndsOnce`: the function and the `cancelCallback` of a task are called once
  together, also when a cancel meets the stop; but for the callback of a refused
  task, which may come a second time (section 15).
* `EveryTaskEnds`: every added task runs or learns its fate, unless a path of
  section 15 has locked `at.mutex` twice.

## 10. Version lock

Each operation on the key is a read and a later write on the condition that the
key was not written in between (`Committed`, `Conflict`); no operation retries.
`TryLocking`/`Locking`, `StartedVersion`/`Setting`, `StartUpFailed`/
`StartUpUnlock` and `Stopping`/`StoppingUnlock` are the four functions of
`cosmos_etcd_version_lock.go` in these two halves; `Crash` ends a process
anywhere, `Fault` lets etcd answer a request with an error whether the write was
done or not. `VersionSlots` is the lock as one wishes it: take, promote and give
back a slot in one step.

Run `version_lock` (1 041 601 states): three processes for two slots, so that one
is refused and one is lost; one error of etcd; any crashes.

* `AtMostMaxNodes`: the key never lists more than `maxNodes` versions.
* `CurrentListed`: the current version is a listed one.
* `ListMatches`: no process loses its place to another's write, and a place is kept
  only by a process that is up or on its way, died, or whose unlock was not done.
* `Implements`: `VersionLock` implements `VersionSlots`, with the set of listed
  versions as slots.

## 11. A process

`CosmosProcess` is one process of a cluster node: the main goroutine (`Boot` to
`Enter`, then `StopMain`, and in the end `Exit`), requests to kill it (`TryKilling`) and to drain it
(`Drain`, `StartDrain`), the watcher of a drain, and the goroutine that keeps the
registration (`Keeper...`). A stop from the main goroutine and one from another node share the steps
`Shutdown`, `Unset`, `Tell`, `ShutScript`, `unloadClusterLocalNode` and `Kill` in
the two orders of the code. `CloseInfoCh`, `AwaitKeeper`, `DeleteKey` and
`StopGRPC` are the clean-up, after a failed start too. `Publish` hands a state to the
goroutine of the registration if that one is waiting, and drops it if not.

`launchAndRun` (`app_main.go:165-188`) returns after a failed start and after `Stop`,
also when `Stop` only said that the state is not Running, and `main` returns with it.
`Exit` is that: from then on no goroutine moves (`Over`, as after a panic that nobody
recovers), only the lease of the process can still run out (`LeaseExpires`). A stop
for another node that was on its way is cut off where it is (`CutOff`).

Run `cosmos_process` (113 276 states): one request of each kind, a signal, and two
failures of any steps: the second failure is the one of the clean-up that the
first one caused.

* `OffLeavesNothing`: a process that is off, or has exited without cutting a stop
  off, is not registered, not in the version lock, has no etcd client and no gRPC
  server.
* `RunningIsRegistered`: one that runs is in the version lock, and registered as long
  as it has its lease, whatever the registration's goroutine is doing, unless a
  `TryKilling` was refused during the start.
* `ShutdownOnce`: the main script is shut down once at most, and no atomos outlives
  that in a process that is off, unless a `TryKilling` was refused.
* `EveryEndComes`: a drain or a shutdown that has begun ends, or is cut off by the
  exit: no goroutine waits for a channel that nobody serves.

The exceptions (`broken`, `rude`, `crashed`, `CutOff`) are explained in section 15.

## 12. What a process knows of a remote node

`CosmosRemote` has the writes of a node's processes in etcd (`Register`,
`SetCurrent`, `Drain`, `Unset`, `ShowStopping`, `Leave`, `Crash`), the changes as
events on their way, the watcher (`FirstGet`, `StartWatch`, `WatchEnds`, `handleKey`)
that applies them to the table and picks the version to route to, and callers (`Snapshot`, `check`,
`EndDial`) that dial outside the lock and publish the connection afterwards.

Run `cosmos_remote` (2 335 883 states): two processes that start in two seconds, or
after a crash in the same one, the watcher at most two changes behind. Two callers
race for one dial and one of them meets the removal of the version.

* `PrefersStarted`: a draining version is routed to only if none is started.
* `CaughtUp`: a watcher with nothing left to apply knows what etcd has, unless a
  change was made while it had no watch (`missed`): between its get and its first
  watch, or between one that etcd ended and the next, which `watchCluster` begins
  without a revision too.
* `NoConnLeak`: a version that was removed keeps no open connection, except the
  case of section 15.

The processes are interchangeable, and so are the callers: the run uses symmetry
and checks no liveness.

## 13. IDs of atoms on another node

`RemoteHandle` has IDs that were resolved on one process (`GetAtomID`,
`Resolved`), pinned its connection (`Pin`), and are used while processes come and
go (`Start`, `Switch`, `Deleted`, `End`) and the atom halts and is spawned again
(`Halt`, `Respawn`). `getCli` is the choice of the connection; `Message` and
`KillAtom` are the handlers on the other side.

* `remote_handle` (316 956 states; two processes, two callers, two instances):
  `SameInstance`, a message handled where its ID was resolved is handled by the
  instance the ID was made for; `KeepsToItsProcess`, a pinned ID reaches its own
  process.
* `remote_kill`: see section 15.

## 14. Fairness and deadlock

Fairness stands for the Go scheduler, for mutexes, which in Go hand over to a
waiter after a while, and for handlers that return, which the framework requires
of its users. Nobody has to call, to cancel, to stop or to spawn again, and timers
that give a call up need not fire: nothing returns *because* of its timer.

* `Mailbox`: weak fairness of the loop goroutine.
* `WaitGraph`: weak fairness of every step of a goroutine inside a call and of a
  handler's return, strong fairness of `Handle`, because `HandleOther` (mails of
  other kinds) competes with it and the queue in front of a mail is finite.
* `AsyncCallback`: weak fairness of the target, of the network, of the callback
  mails, and of a stop that has begun.
* `BaseAtomos`: weak fairness of the mailbox goroutine and of `Answered`.
* `AtomRegistry`: strong fairness of a caller inside an operation and of the starts
  and stops of the instances, as their steps compete for the mutexes. The steps of
  all instances are finitely many, so one condition covers them.
* `TaskManager`: weak fairness of the loops, of a stop, of an add that has begun
  and of `Fire`: the timers of tasks do elapse, that is what they are for.
* `CosmosProcess`: weak fairness of what each goroutine does next, until the process
  is over (the return of `main` included, which nothing holds up), strong fairness
  of `KeeperClosed`: the `select` that finds the channel closed may find a renewal
  ready as well, but renewals are seconds apart.
* `CosmosRemote`, `RemoteHandle`, `VersionLock`: safety only. Their goroutines may
  lag, crash or never call again.

The configurations switch the deadlock check off because the systems may really
come to rest: a mailbox whose loop is over, actors with no call left, a process
that has exited, a name that is not spawned again. What must not get stuck is stated
as a property instead (`NoDeadlock` and the properties called `Every...`).

## 15. Where code and documentation disagree

Run `remote_kill` ends in a violation of `HitsItsInstance`: `KillAtom`
(`atomos_remote_service.go:399-405`) finds the atom by its name only, while the comment
on `getAtomFromRemote` (`element_local.go:867-872`) and the tests of the policy
(`cosmos_remote_test.go:146-148`) say that an ID of a replaced instance must be
resolved again. Messages follow that policy; a kill ends the successor. With
`AutoData` there need not even be one: in the run's trace the instance of the ID has
halted, the look-up of the kill itself spawns the next one, and the kill ends that.

The modules keep more statements of comments and documents that TLC refutes, each
as a definition that can be put into a configuration:

* `WaitGraph!RefusedOnlyOnDeadlock` (`base_atomos.go:256`): an actor that has
  answered a call and then calls its caller back can be refused as a deadlock,
  because the edge is removed only after the caller has picked up the reply.
* `WaitGraph!NoDeadlockAtSpawn` (`base_atomos.go:219`): an element is reachable
  by name before its goroutine id is set; a call to it then has no edge, and a
  call that its `OnSpawn` makes back passes the check. Both wait for a timer.
* `AsyncCallback!RepliesMatch` when the entry is not held
  (`atomos_remote_service.go:483`; the repository's `repro_async_stale_test.go`
  shows the same): ids start at zero again and a stale reply from another node
  ends a callback of the new instance.
* `AsyncCallback!ErrorsArrive` (`base_remote.go:260`): `:=` in the scope of a
  parameter assigns to it; the error of a remote handler is overwritten and the
  callback gets nil.
* `AsyncCallback!CancelledNotSent` (`base_remote.go:236`): the remote path ignores
  the id 0 of `asyncSet` and sends a message whose callback was cancelled.
* `AsyncCallback!NoneDiesSilently` (`base_atomos.go:683`): callbacks registered by
  an `OnSpawn` that fails are never called.
* `BaseAtomos!WaitKilled` (`args.go:25`): of two kills that wait, the one that is
  left in the list is answered in the walk, before `OnStopping`.
* `AtomRegistry!AllAtomsListed` (`element_local.go:409`, `657`): a respawn that
  waited for a stop inherits a node that the stop has removed, and the stop of the
  element, which walks the list, misses the atom.
* `AtomRegistry!HaltedCollected` (`element_local.go:785-786`): a reference that
  drains while the instance is still stopping leaves the entry, and the stop has
  counted it already.
* `TaskManager!QueueNotExiting` (`atomos_task_manager_queue.go:418-419`): a delayed
  task keeps the mailbox it was given, and finds it closed.
* `VersionLock!AtMostMaxNodesUp` (`cosmos_etcd_version_lock.go:9-12`): a stopping
  process leaves the lock first and its atoms run on while the next one comes in.
* `CosmosProcess!DeletesBeforeExit` (`app_main.go:183-187`): the comment on
  `trySettingClusterToCurrentAndKeepalive` (`cosmos_etcd.go:153-154`) says that "if the
  node exits normally, it will delete the node before exiting", and
  `DOCKER.md:126-133` has "etcd lease released, gRPC server stopped" before "Process
  exits". When a signal, or the end of a drain, comes while a `TryKilling` stops the
  process, `Stop` finds the state Shutdown and only returns an error, `launchAndRun`
  returns, and the process exits with its registration still in etcd, until the lease
  runs out, and with its place in the version lock, for ever, if that was not given
  back yet. TLC's trace has eleven states in the instance of `cosmos_process`.
* `CosmosRemote!NoLateLeak` (`cosmos_remote.go:590-600`): a caller that took a
  version before it was removed dials it afterwards, and nobody closes that
  connection.
* `CosmosRemote!EnabledWhileStarted` (`docs/DESIGN_DRAIN_GRADUAL.md:197-198`): with
  no current version in the lock the node is disabled although one is started.

What the checked properties except, and why:

* `EveryMailLeaves`, `EverySenderAnswered`: mails accepted while a start-up that
  fails is running stay in the list (`mail.go:493`); their senders are left to
  their timers. A panic in `StopTimeout` or `StopGap` of an element
  (`element_local.go:409`) skips the answer to the kill (`panicked`).
* `TrackerKeepsEntry`: `FRAMEWORK_GUIDE.md:290` says that a tracker keeps the
  atom. A reference added between another's last release and its
  `onInstanceRefsDrained` does not, nor one added after the stop of the instance
  began, whose count `elementAtomStopping` may have read before (both are not
  `early`), nor one that a spawn overtakes which went on after ten seconds
  (`hurried`).
* `AtomRegistry!EveryCallReturns`: `elementAtomSpawn` (602-612, 685) and
  `onInstanceRefsDrained` (713) take a mailbox mutex and `e.lock` in opposite order
  (`LockRing`).
* `EveryTaskEnds`: cancelling a scheduled cron task, also by the stop, calls
  `getCron`, which locks `at.mutex` again (`atomos_task_manager_queue.go:272`,
  `366`), and so does `Cancel` with the id of a queue task.
* `ListMatches`, `Implements`: processes started in the same second have the same
  version, and the one that fails removes the other's entry. A crash, or an unlock
  that meets another write, keeps its place for ever.
* `OffLeavesNothing`, `ShutdownOnce`: a step of the end failed (`broken`: after an
  error of `OnShutdown` the node is not unloaded), or a `TryKilling` that was
  refused unloaded the node all the same (`rude`); its second close of the channel panics in a
  goroutine that does not recover (`crashed`).
* `RunningIsRegistered`: a `TryKilling` refused during the start (`rude`) closes the
  channel and deletes the key (`cosmos_process.go:404-415`), and `Start` sets the state
  to Running all the same (341-343). The place in the lock stays.
* `OffLeavesNothing`, `EveryEndComes`: the exit of the process cuts a stop for
  another node off (`CutOff`, see `DeletesBeforeExit` above).
* `CaughtUp`: a change between the get and the watch is lost
  (`cosmos_etcd.go:281-294`), and so is one between two watches: when the channel of
  a watch is closed, the loop begins the next one without a revision (294-324).
* `KeepsToItsProcess`: `GetAtomID` asks for the connection again after its call, and
  that may be another process (the pin is then not that of the atom's process); a
  cleared pin is never set again although `base_remote.go:72-74` speaks of it; and
  instances are numbered by each process, so that an ID without a pin can reach
  another process's instance with the same number.

What else shows in the models, without a statement to set against it:

* Tasks: a cron task of a queue runs once (`args.go:55`); the functions of the task
  manager called from `OnStopping` or a `cancelCallback` lock `at.mutex` twice; a delayed
  task that is refused and a mailing task that is cancelled stay in `at.tasks`, and
  the refused one as Mailing, so that its cancel calls the `cancelCallback` a second
  time (`atomos_task_manager_queue.go:159-161`, `319-358`); a
  serial queue whose last task is cancelled is never closed; closures left at the
  stop are dropped without a word.
* Process: a killed process never exits, as nobody writes to its exit channel; a
  drain's state is dropped when the registration's goroutine is busy
  (`cosmos_process.go:551-553`); a process that lost its lease runs on without a
  registration (`cosmos_etcd.go:245`); a renewal during the shutdown makes the
  goroutine delete the key, and `Stopping` is never shown.
* Remote node: the loop of `watchCluster` does not look at its context, so that a
  watch that was cancelled begins anew without end (`cosmos_etcd.go:305-324`; read, and
  not in the models); the `version` field of a version is never set, so that any deletion
  clears the current one, which `refresh` mends; a dial that failed is never tried
  again, and callers that come during the first dial fail at once.

## 16. Proofs

All theorems hold for every value of the constants under the assumptions named
beside them in the modules: exit mails are mails and nil is no mail
(`MailboxAssumption`), actors and clients are disjoint (`WaitGraphAssumption`), the
kinds of mails and of tasks are disjoint (`BaseAtomosAssumption`,
`TaskManagerAssumption`), the main goroutine is not a request (`MainAssumption`),
versions and bounds are numbers (`AsyncCallbackAssumption`, `AtomRegistryAssumption`,
`VersionAssumption`, `MaxNodesAssumption`, `FaultsAssumption`,
`MaxFailuresAssumption`, `VersionsAssumption`, `MaxInstAssumption`), and `None` is
none of the things it stands beside. No finiteness is assumed of mails,
goroutines, tasks or processes.

Every safety property of a passing run is a theorem, stated for the
specification the run checks. Each proof has an inductive invariant, whose parts
are named in front of it; a lemma per part, or per action where the parts depend
on each other, shows that a step keeps it, and lemmas about what an action
leaves alone spare most parts most actions. TLC has checked each of these invariants on
the instance of the run.

`Messaging_proofs`, on `Mailbox`: `TypeCorrect`, `ShapeKept`, `NothingSlipsIn`, `RemainKept` and
`Refinement`. The inductive invariant adds to the type and the shape that
`fate` and the list agree and a fresh mail is linked to nothing (else a push would
drag an old chain in), that the loop holds the mail it serves, and that a closed
box stays closed and a drained one empty. Four lemmas say what linking at
either end, popping and unlinking leave; `ListedIsOrder` says that a traversal
from `head`, defined as a least closed set, meets exactly the mails of
`order`: the smallest position outside a closed set would have its predecessor
inside. `Refinement` needs the invariant for `waitPop` (the first of `order`
is `head`), for `popAll` and for `stopIfNoMail` (`num = 0` means an empty queue).

`Messaging_proofs`, on `WaitGraph`: `GraphAcyclic`, `DeadlockFree`,
`GraphTypeCorrect`. Inductive:
the graph has no cycle, and while a checked call is in progress its edge is in
the graph and points at its target. A new edge closes no cycle because the
caller lies outside a closed set that has the target: a closed group with the
edge would leave a smaller one without it. A ring of waiting checked calls
would be a cycle of edges.

`AsyncCallback_proofs`: `CalledAtMostOnce`, `CalledByTheHalt`, `LocalReplies`,
`RepliesMatchWhenHeld`, `TypeCorrect`. The first invariant counts: a callback is
in the table exactly from its registration until its one call, ids grow, and a
cleared table stays empty. The second follows each reply: it answers a handled
request under the id of that request, and one from inside the process is in
the box of its own instance. `RepliesMatchWhenHeld` is about the part of the
behaviours in which the entry is held and no spawn fails: there the counter of a
later instance starts where the earlier one ended, so ids of different instances
differ.

`BaseAtomos_proofs`: what a sender is told is true, and nothing is handled
behind an answered kill. The invariant says what the phase of the loop implies of
the state and the box, and where a mail is (`Placed`): in the list, taken, or among
the remaining ones, and in one of them only; until it is served its handler has
not begun and its channel is empty. `Answers` then follows each reply to its sender.

`AtomRegistry_proofs`: `TypeCorrect`, `OneSpawnerAlways`, `LiveIsEntryAlways`,
`TrackerKeepsEntryAlways`. `Locks`: the callers that `GetOrPut` gave a mutex, and
that `Remove` has not uncounted, share the one of the map, whose count is their
number; a new mutex is one that nobody uses. Only then is it one holder at a time.
`Counted`: a cell of a reference state is the number of trackers that refer to it.
`Entry`: the entry is the last instance made or nothing, and a spawn that goes on
has seen no live one. The fourth property needs two parts that hold until a spawn
gives up waiting (`hurried`): an instance that stops is still the entry and its
references are in the reference state of the name (`Timely`), and nobody is about
to drop the entry of a reference that came in time (`Kept`).

`TaskManager_proofs`: `TypeCorrect`, `CancelMeansNeverAlways`,
`SerialOneAtATimeAlways`, `EndsOnceAlways`. A mail is in the mailbox its task was
given (`Boxed`), and the mailbox of the serial queue that has not ended is the one
under its name (`Kinds`), so that there is one. A closure or a task of `AddAfter`
has its mail in one place, once, and has not been run while it is there
(`OwnTask`). The mail of a task of a queue may be in its mailbox after a cancel, so
there the state tells what has become of it (`QueuedTask`, `Told`), and a task in
execution is the one its goroutine has taken; that makes the serial queue serial.

`Registration_proofs`, on `VersionLock`: a copy of the key is either older than the
key or the key
itself, because every write counts, and so a write that is committed changes the
key as it is (`CopiesOld`, `CopiesChecked`); with that the room that a process
saw, and the entry it saw, are still there when it writes. The second invariant,
under `Apart` (no two processes of the same second), says that the list names
each version once and which processes it names; `ListIsRight` and
`LockImplements` (the refinement of `VersionSlots`) follow.

`Registration_proofs`, on `CosmosProcess`: `ProcessTypeCorrect`,
`OffLeavesNothingAlways`, `RunningIsRegisteredAlways`, `ShutdownOnceAlways`.
`OneStops`: the state is Running only between `Enter`, which comes once, and the
one `Shutdown` that takes it away, so that one thread at most is on its way to the
script; this holds for refused requests too. `StartFirst`: as long as none was
refused, nobody ends the process before the start is through, and then one
thread does. `KeeperWaited`: who has awaited the registration's goroutine finds that
it writes no more, because only an open channel hands it a state, and one that has
begun has made the channel of its exit. The type alone is not inductive: that a
new goroutine has nothing to write is `KeeperWaited`. `LockHeld` says, for refused requests too, that the place in the version lock is
there from the preparation until the shutdown, `Registered` what
there is at each place of the start, `Left` what an end has taken back at each place
of its thread, and that the closed client comes last; `KilledFirst` the same of the
local cosmos. `Stopped` says that a shutdown is some thread's until the process is off
and that the main goroutine ends after that or meets one on its way; an exit that
leaves the state at Shutdown is therefore one that cuts a stop off.

`RemoteNode_proofs`, on `CosmosRemote`: routing, that the watcher catches up, and
that connections end. For each version
and for the lock key, either the watcher knows what etcd has and no event about it is pending,
or the last pending event about it says what etcd has; three lemmas say
what a new event, one about something else, and taking the first one leave of that.
`ConnectionsEnd` needs that the events on a version take turns: those of a process
that was replaced or left come before the ones of its successor, so that one
that is out of the table does not return (`Turns`, `Out`); that a process of the
table is dialled by one caller, and before it has a connection (`Single`); and that
every process ever dialled is in the table, or was dialled late (`Links`).

`RemoteNode_proofs`, on `RemoteHandle`: a call on its way goes to the pin if there is
one, and what a message reached was the live instance with the number of the ID.

`QueueLemmas` holds the facts on sequences that several of them use.

Only model-checked: the liveness properties (`EveryMailLeaves`, `EveryCallReturns`
of two modules, `EveryCallbackEnds`, `EverySenderAnswered`, `EveryTaskEnds`,
`EveryEndComes`), because the prover has neither fairness nor ENABLED, and the
violation. No recursive definition is proved about.

## 17. Not modelled, and why

* The refusal of `SpawnAtom` while the process drains (`element_local.go:341`): a
  read of one flag in front of the spawn.
* Processes without a cluster: the same steps without the cluster's.
* The death watch of remote atoms, `tryKillingRemote` (nothing calls it) and the
  elements of a remote version.
* Pooled mails (a debugging mode of `allocMail`), waiting for an exit by goroutine
  id, `HasMarking` and the other getters of tasks, `CancelCrontab`, the message
  tracker: they read, count or log.
* Logging is a mailbox and inherits what section 4 shows; text and files are input
  and output, as are the application shell with pid files, signals and YAML, the
  supervisor and the file utilities.
* Generated code, the code generator and the vet analyzers are build-time. They are a
  large part of the repository's lines, and nothing in them interleaves.

A synchronous call to another node registers no edge in the wait graph by design, and a
goroutine that waits for another node is a client in `WaitGraph`: rings through
several nodes are outside what the code detects, and end by their timers.
