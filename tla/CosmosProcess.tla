---------------------------- MODULE CosmosProcess ----------------------------
(***************************************************************************)
(* One process of a cluster node, from its start to its end, and the       *)
(* goroutines that meet in it: the main goroutine (start, wait for the     *)
(* exit signal, stop), requests of other nodes to kill it or to drain it,  *)
(* the watcher of a drain, and the goroutine that keeps the registration   *)
(* of the node in etcd alive.                                              *)
(*                                                                         *)
(* etcd is what the process sees of it: whether its version is in the      *)
(* version lock, and the state that its registration shows.  The version   *)
(* lock itself, with several processes, is module VersionLock; the atomos  *)
(* of the process are one, alive or killed.                                *)
(***************************************************************************)
EXTENDS Naturals, FiniteSets

CONSTANTS
    Main,         \* the main goroutine: launchAndRun
    Killers,      \* TryKilling requests that reach the process
    Drains,       \* DrainNode requests that reach the process
    MaxFailures   \* bound: failures of steps that can fail

ASSUME MainAssumption == Main \notin Killers
ASSUME MaxFailuresAssumption == MaxFailures \in Nat

VARIABLES
    state,      \* p.state
    place,      \* where the main goroutine and the TryKilling requests are
    drainPc,    \* where the DrainNode requests are
    watcher,    \* drainWatcher
    draining,   \* p.draining
    cancelled,  \* the channel that ends the watcher is closed
    exitCh,     \* values in the exit channel of the app (room for one)
    signals,    \* signals of the operating system that arrived
    keeper,     \* the goroutine that keeps the registration alive
    putting,    \* the state it is about to write
    infoCh,     \* etcdInfoCh: not made, open, or closed
    keeperExit, \* etcdExitCh was made
    client,     \* the etcd client is there
    watching,   \* the watch of the cluster runs and is not cancelled
    grpc,       \* the gRPC server serves
    local,      \* the local cosmos and its atomos live
    inLock,     \* etcd: the version is in the version lock
    key,        \* etcd: the state the registration shows, or none
    lease,      \* etcd: the lease of the registration is renewed
    failures,   \* failures so far
    shutdowns,  \* how often the main script was shut down
    broken,     \* a step of an end failed: shutdown, unlock, delete, close
    rude,       \* a TryKilling request was refused, and unloads all the same
    crashed     \* a panic that nobody recovers ended the process

chans == <<infoCh, keeperExit>>
etcd == <<inLock, key, lease>>
drain == <<drainPc, watcher, draining>>
app == <<exitCh, signals>>
ends == <<shutdowns, broken, rude, crashed>>
keep == <<keeper, putting>>
processVars == <<state, place, drain, cancelled, app, keep, chans, client,
                 watching, grpc, local, etcd, failures, ends>>

Threads == {Main} \cup Killers

\* Where the main goroutine is while it starts the process, and while it
\* cleans up after a start that failed; where one is that ends the process.
Starting == {"boot", "prepare", "elements", "register", "current", "enter"}
Undoing == {"undoLocal", "undoClose", "undoAwait", "undoEtcd", "undoGRPC",
            "fail"}
Ending == {"unset", "tell", "script", "close", "await", "etcd", "grpc",
           "kill", "off"}

ProcessInit ==
    /\ state = "Prepare"
    /\ place = [t \in Threads |-> IF t = Main THEN "boot" ELSE "sent"]
    /\ drainPc = [d \in Drains |-> "sent"]
    /\ watcher = "none" /\ draining = FALSE /\ cancelled = FALSE
    /\ exitCh = 0 /\ signals = 0
    /\ keeper = "none" /\ putting = "none"
    /\ infoCh = "nil" /\ keeperExit = FALSE
    /\ client = FALSE /\ watching = FALSE /\ grpc = FALSE /\ local = TRUE
    /\ inLock = FALSE /\ key = "none" /\ lease = FALSE
    /\ failures = 0
    /\ shutdowns = 0 /\ broken = FALSE /\ rude = FALSE /\ crashed = FALSE

Goto(t, at) == place' = [place EXCEPT ![t] = at]

\* The process of the operating system is over: nobody goes on.
Exited == place[Main] = "exited"
Over == crashed \/ Exited

\* A step that can fail does so: one of the failures allowed.
Fails == failures < MaxFailures /\ failures' = failures + 1
Works == UNCHANGED failures

-----------------------------------------------------------------------------
(* Start, by the main goroutine.                                            *)

\* Start is called once; the runnable or the boot of its script may be
\* refused, before anything is prepared.
Boot ==
    /\ place[Main] = "boot"
    /\ \/ Works /\ state' = "Startup" /\ Goto(Main, "prepare")
       \/ Fails /\ state' = "Off" /\ Goto(Main, "end")
    /\ UNCHANGED <<drain, cancelled, app, keep, chans, client, watching, grpc,
                   local, etcd, ends>>

\* prepareCluster: the client and the channel of the registration, the
\* version lock, a port for gRPC and the watch, in this order; a failure
\* leaves what was there before it to the clean-up.
Prepare ==
    /\ place[Main] = "prepare"
    /\ \E got \in {"nothing", "client", "lock", "port", "all"}:
        /\ client' = (got # "nothing")
        /\ infoCh' = IF got = "nothing" THEN "nil" ELSE "open"
        /\ inLock' = (got \notin {"nothing", "client"})
        /\ grpc' = (got \in {"port", "all"})
        /\ watching' = (got = "all")
        /\ \/ got = "all" /\ Works /\ Goto(Main, "elements")
           \/ got # "all" /\ Fails /\ Goto(Main, "undoClose")
    /\ UNCHANGED <<state, drain, cancelled, app, keep, keeperExit, local, key,
                   lease, ends>>

\* trySpawningElements.  Elements that were spawned are killed by itself.
Elements ==
    /\ place[Main] = "elements"
    /\ \/ Works /\ Goto(Main, "register")
       \/ Fails /\ Goto(Main, "undoClose")
    /\ UNCHANGED <<state, drain, cancelled, app, keep, chans, client,
                   watching, grpc, local, etcd, ends>>

\* The registration is written with a lease, and the goroutine that keeps it
\* is started.  When all attempts failed, the key may be there or not.
Register ==
    /\ place[Main] = "register"
    /\ \/ /\ Works
          /\ key' = "Started" /\ lease' = TRUE
          /\ keeper' = "spawned"
          /\ Goto(Main, "current")
       \/ /\ Fails
          /\ key' \in {"none", "Started"}
          /\ Goto(Main, "undoLocal")
          /\ UNCHANGED <<lease, keeper>>
    /\ UNCHANGED <<state, drain, cancelled, app, putting, chans, client,
                   watching, grpc, local, inLock, ends>>

\* etcdStartedVersionNodeLock, then the start of the main script.
Current ==
    /\ place[Main] = "current"
    /\ \/ Works /\ Goto(Main, "enter")
       \/ Fails /\ Goto(Main, "undoLocal")
    /\ UNCHANGED <<state, drain, cancelled, app, keep, chans, client,
                   watching, grpc, local, etcd, ends>>

\* Start has come through: the state is set whatever it was meanwhile.
Enter ==
    /\ place[Main] = "enter"
    /\ state' = "Running"
    /\ Goto(Main, "wait")
    /\ UNCHANGED <<drain, cancelled, app, keep, chans, client, watching, grpc,
                   local, etcd, failures, ends>>

\* handleStartUpFailedLocalCleanUp: the local cosmos is killed and awaited.
UndoLocal ==
    /\ place[Main] = "undoLocal"
    /\ local' = FALSE
    /\ Goto(Main, "undoClose")
    /\ UNCHANGED <<state, drain, cancelled, app, keep, chans, client,
                   watching, grpc, etcd, failures, ends>>

-----------------------------------------------------------------------------
(* Taking the node out of the cluster: when a start failed (the version     *)
(* lock is given back too), by Stop, and after a TryKilling request.        *)

\* The channel of the registration is closed.  Closing it a second time
\* panics: Start and Stop recover from that, the goroutine that a TryKilling
\* request leaves behind does not.
CloseInfoCh(t, from, wait, out) ==
    /\ place[t] = from
    /\ \/ /\ infoCh = "nil"
          /\ Goto(t, out)
          /\ UNCHANGED <<infoCh, broken, crashed>>
       \/ /\ infoCh = "open"
          /\ infoCh' = "closed"
          /\ Goto(t, wait)
          /\ UNCHANGED <<broken, crashed>>
       \/ /\ infoCh = "closed"
          /\ broken' = TRUE
          /\ crashed' = (t # Main)
          /\ Goto(t, IF from = "undoClose" THEN "fail" ELSE "kill")
          /\ UNCHANGED infoCh
    /\ UNCHANGED <<state, drain, cancelled, app, keep, keeperExit, client,
                   watching, grpc, local, etcd, failures, shutdowns, rude>>

\* Then the goroutine of the registration is awaited, if it has made the
\* channel it reports its end on.
AwaitKeeper(t, from, out) ==
    /\ place[t] = from
    /\ \/ /\ ~keeperExit
          /\ UNCHANGED keeper
       \/ /\ keeperExit
          /\ keeper = "exiting"
          /\ keeper' = "gone"
    /\ keeperExit' = FALSE
    /\ infoCh' = "nil"
    /\ Goto(t, out)
    /\ UNCHANGED <<state, drain, cancelled, app, putting, client, watching,
                   grpc, local, etcd, failures, ends>>

\* Mutant of DeleteKey: the place in the lock is not given back, as the
\* unlock that is commented out in unloadClusterLocalNode.
DeleteKeyOnly(t, from, out, unlocks) ==
    /\ place[t] = from
    /\ IF client THEN Works /\ key' = "none" ELSE Works /\ UNCHANGED key
    /\ client' = FALSE
    /\ Goto(t, out)
    /\ UNCHANGED <<state, drain, cancelled, app, keep, chans, watching, grpc,
                   local, lease, inLock, ends>>

\* The registration is deleted and the client closed.
DeleteKey(t, from, out, unlocks) ==
    /\ place[t] = from
    /\ IF client
       THEN \/ /\ Works
               /\ key' = "none"
               /\ inLock' = (inLock /\ ~unlocks)
               /\ UNCHANGED broken
            \/ /\ Fails
               /\ key' \in {key, "none"}
               /\ inLock' \in {inLock, inLock /\ ~unlocks}
               /\ broken' = TRUE
       ELSE Works /\ UNCHANGED <<key, inLock, broken>>
    /\ client' = FALSE
    /\ Goto(t, out)
    /\ UNCHANGED <<state, drain, cancelled, app, keep, chans, watching, grpc,
                   local, lease, shutdowns, rude, crashed>>

\* The gRPC server is stopped.
StopGRPC(t, from, out) ==
    /\ place[t] = from
    /\ grpc' = FALSE
    /\ Goto(t, out)
    /\ UNCHANGED <<state, drain, cancelled, app, keep, chans, client,
                   watching, local, etcd, failures, ends>>

handleStartUpFailedClusterCleanUp ==
    \/ CloseInfoCh(Main, "undoClose", "undoAwait", "undoEtcd")
    \/ AwaitKeeper(Main, "undoAwait", "undoEtcd")
    \/ DeleteKey(Main, "undoEtcd", "undoGRPC", TRUE)
    \/ StopGRPC(Main, "undoGRPC", "fail")

unloadClusterLocalNode(t) ==
    \/ CloseInfoCh(t, "close", "await", "etcd")
    \/ AwaitKeeper(t, "await", "etcd")
    \/ DeleteKey(t, "etcd", "grpc", FALSE)
    \/ StopGRPC(t, "grpc", IF t = Main THEN "kill" ELSE "off")

\* The state of a process that is out, whoever took it out.
Off(t) ==
    /\ place[t] \in {"fail", "off"}
    /\ state' = "Off"
    /\ Goto(t, "end")
    /\ UNCHANGED <<drain, cancelled, app, keep, chans, client, watching, grpc,
                   local, etcd, failures, ends>>

-----------------------------------------------------------------------------
(* Stop and stopFromOtherNode.                                              *)

\* Mutant of Shutdown: one that shuts down already is told again.
ShutdownAgain(t) ==
    /\ state \in {"Running", "Shutdown"}
    /\ state' = "Shutdown"
    /\ cancelled' = draining
    /\ Goto(t, "unset")

\* A running process is told to shut down, and so is the watcher of a drain.
Shutdown(t) ==
    /\ state = "Running"
    /\ state' = "Shutdown"
    /\ cancelled' = draining
    /\ Goto(t, "unset")

\* A signal, or a drain that is over, wakes the main goroutine.  When the
\* state is not Running, Stop only returns an error, and the app exits.
StopMain ==
    /\ place[Main] = "wait"
    /\ exitCh > 0
    /\ exitCh' = exitCh - 1
    /\ \/ Shutdown(Main)
       \/ /\ state # "Running"
          /\ Goto(Main, "end")
          /\ UNCHANGED <<state, cancelled>>
    /\ UNCHANGED <<drain, signals, keep, chans, client, watching, grpc, local,
                   etcd, failures, ends>>

\* launchAndRun returns, whatever Start or Stop said, and with it main: every
\* other goroutine ends where it is, one that stops the process for another
\* node too.
Exit ==
    /\ place[Main] = "end"
    /\ Goto(Main, "exited")
    /\ UNCHANGED <<state, drain, cancelled, app, keep, chans, client,
                   watching, grpc, local, etcd, failures, ends>>

\* TryKilling: what unloads the node after the response is started even for
\* a request that is refused.
TryKilling(k) ==
    /\ place[k] = "sent"
    /\ grpc
    /\ \/ Shutdown(k) /\ UNCHANGED rude
       \/ /\ state # "Running"
          /\ rude' = TRUE
          /\ Goto(k, "close")
          /\ UNCHANGED <<state, cancelled>>
    /\ UNCHANGED <<drain, app, keep, chans, client, watching, grpc, local,
                   etcd, failures, shutdowns, broken, crashed>>

\* The version lock is given back; that it could not be is only logged.
Unset(t) ==
    /\ place[t] = "unset"
    /\ \/ Works /\ inLock' = FALSE /\ UNCHANGED broken
       \/ Fails /\ inLock' \in {inLock, FALSE} /\ broken' = TRUE
    /\ Goto(t, "tell")
    /\ UNCHANGED <<state, drain, cancelled, app, keep, chans, client,
                   watching, grpc, local, key, lease, shutdowns, rude,
                   crashed>>

\* A new state is handed to the goroutine of the registration if that one
\* waits for it, and dropped if not.
Publish(s) ==
    /\ infoCh # "closed"
    /\ IF infoCh = "open" /\ keeper = "select"
       THEN keeper' = "put" /\ putting' = s
       ELSE UNCHANGED keep

\* tryUnsettingCurrentAndUpdateNodeInfo tells the cluster; if the channel is
\* closed already, that panics and the stop goes on with the kill.
Tell(t) ==
    /\ place[t] = "tell"
    /\ \/ Publish("Stopping") /\ Goto(t, "script") /\ UNCHANGED broken
       \/ /\ infoCh = "closed"
          /\ broken' = TRUE
          /\ Goto(t, "kill")
          /\ UNCHANGED keep
    /\ UNCHANGED <<state, drain, cancelled, app, chans, client, watching,
                   grpc, local, etcd, failures, shutdowns, rude, crashed>>

\* The main script is shut down.  Stop unloads the node if that worked; for
\* a TryKilling request that comes after the response.
ShutScript(t) ==
    /\ place[t] = "script"
    /\ shutdowns' = shutdowns + 1
    /\ \/ /\ Works
          /\ Goto(t, IF t = Main THEN "close" ELSE "kill")
          /\ UNCHANGED broken
       \/ Fails /\ broken' = TRUE /\ Goto(t, "kill")
    /\ UNCHANGED <<state, drain, cancelled, app, keep, chans, client,
                   watching, grpc, local, etcd, rude, crashed>>

\* The deferred kill of the local cosmos, and the wait for it.
Kill(t) ==
    /\ place[t] = "kill"
    /\ local' = FALSE
    /\ Goto(t, IF t = Main THEN "off" ELSE "close")
    /\ UNCHANGED <<state, drain, cancelled, app, keep, chans, client,
                   watching, grpc, etcd, failures, ends>>

-----------------------------------------------------------------------------
(* Drain.                                                                   *)

\* Only a running process drains, and only once.
Drain(d) ==
    /\ drainPc[d] = "sent"
    /\ grpc
    /\ IF state = "Running" /\ ~draining
       THEN draining' = TRUE /\ drainPc' = [drainPc EXCEPT ![d] = "publish"]
       ELSE drainPc' = [drainPc EXCEPT ![d] = "end"] /\ UNCHANGED draining
    /\ UNCHANGED <<state, place, watcher, cancelled, app, keep, chans, client,
                   watching, grpc, local, etcd, failures, ends>>

\* The state is published and the watcher started.  A stop that has closed
\* the channel meanwhile makes the request panic: no watcher then.
StartDrain(d) ==
    /\ drainPc[d] = "publish"
    /\ drainPc' = [drainPc EXCEPT ![d] = "end"]
    /\ \/ Publish("Draining") /\ watcher' = "watch"
       \/ infoCh = "closed" /\ UNCHANGED <<keep, watcher>>
    /\ UNCHANGED <<state, place, draining, cancelled, app, chans, client,
                   watching, grpc, local, etcd, failures, ends>>

\* No active atom is left or the deadline is over: the app is to exit.
DrainOver ==
    /\ watcher = "watch"
    /\ watcher' = "exit"
    /\ UNCHANGED <<state, place, drainPc, draining, cancelled, app, keep,
                   chans, client, watching, grpc, local, etcd, failures,
                   ends>>

DrainCancelled ==
    /\ watcher = "watch"
    /\ cancelled
    /\ watcher' = "gone"
    /\ UNCHANGED <<state, place, drainPc, draining, cancelled, app, keep,
                   chans, client, watching, grpc, local, etcd, failures,
                   ends>>

\* Mutant of exitAfterDrain: a second value is put into the channel.
exitAfterDrainTwice ==
    /\ watcher = "exit"
    /\ exitCh' = exitCh + 1
    /\ watcher' = "gone"
    /\ UNCHANGED <<state, place, drainPc, draining, cancelled, signals, keep,
                   chans, client, watching, grpc, local, etcd, failures,
                   ends>>

\* exitAfterDrain: blocks while the exit channel is full.
exitAfterDrain ==
    /\ watcher = "exit"
    /\ exitCh = 0
    /\ exitCh' = 1
    /\ watcher' = "gone"
    /\ UNCHANGED <<state, place, drainPc, draining, cancelled, signals, keep,
                   chans, client, watching, grpc, local, etcd, failures,
                   ends>>

\* A signal of the operating system: daemonNotify sends the first one on.
Signal ==
    /\ signals = 0
    /\ exitCh = 0
    /\ signals' = 1
    /\ exitCh' = 1
    /\ UNCHANGED <<state, place, drain, cancelled, keep, chans, client,
                   watching, grpc, local, etcd, failures, ends>>

-----------------------------------------------------------------------------
(* The goroutine that keeps the registration alive.                         *)

KeeperUnchanged ==
    UNCHANGED <<state, place, drain, cancelled, app, infoCh, client, grpc,
                local, inLock, ends>>

KeeperBegins ==
    /\ keeper = "spawned"
    /\ keeperExit' = TRUE
    /\ keeper' = "select"
    /\ UNCHANGED <<putting, watching, key, lease, failures>>
    /\ KeeperUnchanged

\* The lease was renewed, or it was not and the channel says so (also when
\* the client is closed).
KeepAlive ==
    /\ keeper = "select"
    /\ keeper' = "awake"
    /\ UNCHANGED <<putting, keeperExit, watching, key, lease, failures>>
    /\ KeeperUnchanged

LeaseLost ==
    /\ lease
    /\ Fails
    /\ lease' = FALSE
    /\ key' = "none"
    /\ UNCHANGED <<keep, keeperExit, watching>>
    /\ KeeperUnchanged

\* The lease of a process that is over runs out, and its registration with it.
LeaseExpires ==
    /\ Over
    /\ lease' = FALSE
    /\ key' = "none"
    /\ UNCHANGED <<keep, keeperExit, watching, failures>>
    /\ KeeperUnchanged

\* Mutant of KeeperAwake: it ends unless the process runs, so also at a
\* renewal during the start.
KeeperAwakeUnlessRunning ==
    /\ keeper = "awake"
    /\ keeper' = IF state # "Running" \/ ~lease \/ ~client
                 THEN "delete" ELSE "select"
    /\ UNCHANGED <<putting, keeperExit, watching, key, lease, failures>>
    /\ KeeperUnchanged

KeeperAwake ==
    /\ keeper = "awake"
    /\ keeper' = IF state \in {"Shutdown", "Off"} \/ ~lease \/ ~client
                 THEN "delete" ELSE "select"
    /\ UNCHANGED <<putting, keeperExit, watching, key, lease, failures>>
    /\ KeeperUnchanged

\* Mutant of KeeperClosed: that the channel is closed is not looked at.
KeeperClosedGoesOn ==
    /\ keeper = "select"
    /\ infoCh = "closed"
    /\ keeper' = "put"
    /\ UNCHANGED <<putting, keeperExit, watching, key, lease, failures>>
    /\ KeeperUnchanged

KeeperClosed ==
    /\ keeper = "select"
    /\ infoCh = "closed"
    /\ keeper' = "delete"
    /\ UNCHANGED <<putting, keeperExit, watching, key, lease, failures>>
    /\ KeeperUnchanged

\* A state is written under the lease, if etcd still knows that.
KeeperPuts ==
    /\ keeper = "put"
    /\ keeper' = "select"
    /\ putting' = "none"
    /\ \/ Works /\ key' = IF lease THEN putting ELSE key
       \/ Fails /\ UNCHANGED key
    /\ UNCHANGED <<keeperExit, watching, lease>>
    /\ KeeperUnchanged

\* At its end it deletes the registration, cancels the watch and reports.
\* Without the client it panics instead, and recovers from that.
KeeperDeletes ==
    /\ keeper = "delete"
    /\ IF client
       THEN /\ \/ Works /\ key' = "none"
               \/ Fails /\ UNCHANGED key
            /\ watching' = FALSE
            /\ keeper' = IF keeperExit THEN "exiting" ELSE "gone"
       ELSE /\ keeper' = "gone"
            /\ UNCHANGED <<key, watching, failures>>
    /\ UNCHANGED <<putting, keeperExit, lease>>
    /\ KeeperUnchanged

-----------------------------------------------------------------------------

StartStep ==
    \/ Boot \/ Prepare \/ Elements \/ Register \/ Current \/ Enter
    \/ UndoLocal \/ handleStartUpFailedClusterCleanUp

StopStep(t) ==
    \/ Unset(t) \/ Tell(t) \/ ShutScript(t) \/ unloadClusterLocalNode(t)
    \/ Kill(t) \/ Off(t)

DrainStep ==
    \/ \E d \in Drains: StartDrain(d)
    \/ DrainOver \/ DrainCancelled \/ exitAfterDrain

KeeperStep ==
    \/ KeeperBegins \/ KeeperAwake \/ KeeperClosed \/ KeeperPuts
    \/ KeeperDeletes

ProcessStep ==
    \/ StartStep
    \/ StopMain
    \/ Exit
    \/ \E t \in Threads: StopStep(t)
    \/ \E k \in Killers: TryKilling(k)
    \/ \E d \in Drains: Drain(d)
    \/ DrainStep
    \/ Signal
    \/ KeeperStep
    \/ KeepAlive
    \/ LeaseLost

ProcessNext == (~Over /\ ProcessStep) \/ LeaseExpires

ProcessSpec == ProcessInit /\ [][ProcessNext]_processVars

\* Every goroutine that can go on does; no request, signal, renewal or failure
\* has to come.  A closed channel is seen although the select that finds it
\* may find a renewal ready as well: the renewals are seconds apart.
ProcessFairSpec ==
    /\ ProcessSpec
    /\ WF_processVars(~Over /\ StartStep)
    /\ WF_processVars(~Over /\ StopMain)
    /\ WF_processVars(~Over /\ Exit)
    /\ \A t \in Threads: WF_processVars(~Over /\ StopStep(t))
    /\ WF_processVars(~Over /\ DrainStep)
    /\ WF_processVars(~Over /\ KeeperStep)
    /\ SF_processVars(~Over /\ KeeperClosed)

-----------------------------------------------------------------------------
(* What is checked.                                                         *)

\* Where the goroutines may be, and the variables that are true or false.
PlacesOK ==
    /\ place \in [Threads -> Starting \cup Undoing \cup Ending
                             \cup {"wait", "sent", "end", "exited"}]
    /\ \A k \in Killers: place[k] \in Ending \cup {"sent", "end"}
    /\ drainPc \in [Drains -> {"sent", "publish", "end"}]

FlagsOK ==
    {draining, cancelled, keeperExit, client, watching, grpc, local, inLock,
     lease, broken, rude, crashed} \subseteq BOOLEAN

\* Every variable has a value of its type.
ProcessTypeOK ==
    /\ PlacesOK /\ FlagsOK
    /\ state \in {"Prepare", "Startup", "Running", "Shutdown", "Off"}
    /\ watcher \in {"none", "watch", "exit", "gone"}
    /\ keeper \in {"none", "spawned", "select", "awake", "put", "delete",
                   "exiting", "gone"}
    /\ putting \in {"none", "Draining", "Stopping"}
    /\ (keeper = "put") <=> (putting # "none")
    /\ infoCh \in {"nil", "open", "closed"}
    /\ key \in {"none", "Started", "Draining", "Stopping"}
    /\ exitCh \in 0 .. 1 /\ signals \in 0 .. 1
    /\ failures \in 0 .. MaxFailures /\ shutdowns \in Nat

\* A stop for another node was on its way when the process exited: Stop found
\* the state Shutdown.
CutOff == Exited /\ \E k \in Killers: place[k] \in Ending

\* A process that is off, or has exited, has left the cluster: its
\* registration is deleted, its place in the version lock is free, the etcd
\* client is closed and gRPC does not serve; whether its start failed or it
\* was stopped, and whoever stopped it.  Excepted are an exit that cuts a
\* stop off, the ends of which a step failed, and those with a refused
\* TryKilling, which unloads all the same.
OffLeavesNothing ==
    ((state = "Off" \/ (Exited /\ ~CutOff)) /\ ~broken /\ ~rude) =>
        /\ key = "none" /\ ~inLock
        /\ ~client /\ ~grpc

\* A process that runs has its version in the version lock.  As long as its
\* lease is renewed it is registered too, however the goroutine that keeps
\* the registration interleaves with the start, a drain and a stop.  Excepted
\* is a TryKilling that was refused during the start: it closes the channel
\* and deletes the key, and Start sets Running all the same.
RunningIsRegistered ==
    state = "Running" =>
        /\ inLock
        /\ (lease /\ ~rude) => key \in {"Started", "Draining"}

\* However many ask for it, the main script is shut down once.  None of the
\* atomos live on when a process that was shut down is off, except after a
\* refused TryKilling, which sets a process off that another still stops.
ShutdownOnce ==
    /\ shutdowns <= 1
    /\ (state = "Off" /\ shutdowns > 0 /\ ~rude) => ~local

\* A process that was told to drain or to shut down comes to its end: it is
\* off, unless a panic or the exit of the main goroutine cuts the stop off.
EveryEndComes ==
    (draining \/ state = "Shutdown") ~> (state = "Off" \/ crashed \/ CutOff)

\* Stated by the comment on trySettingClusterToCurrentAndKeepalive ("if the
\* node exits normally, it will delete the node before exiting") and by
\* DOCKER.md: a process that exits, without a failure, has deleted its
\* registration.  A stop for another node that is cut off has not.
DeletesBeforeExit == (Exited /\ ~broken /\ ~rude) => key = "none"

=============================================================================
