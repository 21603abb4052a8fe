----------------------------- MODULE WaitGraph -----------------------------
(***************************************************************************)
(* Synchronous calls between local actors and the wait graph of the        *)
(* process that refuses a call which would close a cycle: PushSyncMessage  *)
(* (base_atomos.go), waitReply and sendReply (base_atomos_mails.go),       *)
(* detectDeadlockAndWait and removeWaitEdge (cosmos_process.go).           *)
(* A mail is the pair <<caller, number of the call>>.  A stop is the step  *)
(* that refuses further mails and answers the queued ones; Mailbox.tla     *)
(* has its parts.  Waits that register no edge (kill, wormhole, spawn) are *)
(* not calls of this module.                                               *)
(***************************************************************************)
EXTENDS Naturals, SequencesExt

CONSTANTS Actor,    \* mailbox goroutines
          Client,   \* other goroutines that call: Parallel, gRPC, main
          Spawning, \* the actors whose mailbox goroutine is just being started
          MaxCalls, \* bound: calls one goroutine makes
          SpawnHook, None

Goroutine == Actor \cup Client

ASSUME WaitGraphAssumption ==
  /\ Actor \cap Client = {}
  /\ None \notin Goroutine
  /\ Spawning \subseteq Actor
  /\ MaxCalls \in Nat

VARIABLES
  waitGraph, \* CosmosProcess.waitGraph
  pc,        \* where each goroutine is
  target,    \* whom its call in progress addresses
  hasWaitEdge, \* those whose local of that name in PushSyncMessage is true
  calls,     \* how many calls it has made
  mailbox,   \* the sync mails queued at each actor
  handling,  \* the sync mail an actor handles, SpawnHook, or None for the rest
  answered,  \* the calls whose waitCh holds a reply
  accepting    \* the mailboxes that accept mails

graphVars == <<waitGraph, pc, target, hasWaitEdge, calls, mailbox, handling,
          answered, accepting>>

caller == <<waitGraph, target, hasWaitEdge, calls>>
box == <<mailbox, handling, accepting>>

Mails == Goroutine \X (1 .. MaxCalls)
Call(g) == <<g, calls[g]>>

GraphTypeOK ==
  /\ waitGraph \in [Goroutine -> Actor \cup {None}]
  /\ pc \in [Goroutine -> {"starting", "idle", "running", "pushing", "waiting",
                           "returning", "halted"}]
  /\ target \in [Goroutine -> Actor \cup {None}]
  /\ hasWaitEdge \subseteq Goroutine
  /\ calls \in [Goroutine -> 0 .. MaxCalls]
  /\ mailbox \in [Actor -> Seq(Mails)]
  /\ handling \in [Actor -> Mails \cup {SpawnHook, None}]
  /\ answered \subseteq Mails
  /\ accepting \subseteq Actor

-----------------------------------------------------------------------------
(* The walk of detectDeadlockAndWait along the edges reaches g from t: g   *)
(* is in every set that contains t and is closed under the edges.           *)
Closed(S) == \A x \in S : waitGraph[x] # None => waitGraph[x] \in S

Reaches(t, g) == \A S \in SUBSET Goroutine : t \in S /\ Closed(S) => g \in S

(* The elements of late are still to be started: they are in the process's *)
(* table, but their mailboxes do not run yet.                               *)
GraphInit ==
  /\ waitGraph = [g \in Goroutine |-> None]
  /\ \E late \in SUBSET Spawning :
       /\ pc = [g \in Goroutine |-> IF g \in late THEN "starting"
                                    ELSE IF g \in Actor THEN "idle"
                                    ELSE "running"]
       /\ accepting = Actor \ late
  /\ target = [g \in Goroutine |-> None]
  /\ hasWaitEdge = {}
  /\ calls = [g \in Goroutine |-> 0]
  /\ mailbox = [a \in Actor |-> << >>]
  /\ handling = [a \in Actor |-> None]
  /\ answered = {}

(* An element is found by its name before its mailbox is started.           *)
(* mailBox.start makes it accept mails; mailBox.loop publishes the          *)
(* goroutine id, which reads zero until then, and runs OnSpawn.             *)
StartMailbox(a) ==
  /\ pc[a] = "starting" /\ a \notin accepting
  /\ accepting' = accepting \cup {a}
  /\ UNCHANGED <<pc, caller, mailbox, handling, answered>>

Spawn(a) ==
  /\ pc[a] = "starting" /\ a \in accepting
  /\ handling' = [handling EXCEPT ![a] = SpawnHook]
  /\ pc' = [pc EXCEPT ![a] = "running"]
  /\ UNCHANGED <<caller, mailbox, answered, accepting>>

\* OnSpawn fails: the loop is over and leaves the queued mails where they are.
SpawnFailed(a) ==
  /\ pc[a] = "running" /\ handling[a] = SpawnHook
  /\ handling' = [handling EXCEPT ![a] = None]
  /\ pc' = [pc EXCEPT ![a] = "halted"]
  /\ accepting' = accepting \ {a}
  /\ UNCHANGED <<caller, mailbox, answered>>

\* The mailbox goroutine takes the next sync mail.
Handle(a) ==
  /\ pc[a] = "idle" /\ a \in accepting /\ mailbox[a] # << >>
  /\ handling' = [handling EXCEPT ![a] = Head(mailbox[a])]
  /\ mailbox' = [mailbox EXCEPT ![a] = Tail(@)]
  /\ pc' = [pc EXCEPT ![a] = "running"]
  /\ UNCHANGED <<caller, answered, accepting>>

\* It takes a mail of another kind: an async message, a callback, a task.
HandleOther(a) ==
  /\ pc[a] = "idle" /\ a \in accepting
  /\ pc' = [pc EXCEPT ![a] = "running"]
  /\ UNCHANGED <<caller, box, answered>>

\* The call is refused with ErrIDFirstSyncCallDeadlock.
CallRefused(g, t) ==
  /\ pc[g] = "running" /\ calls[g] < MaxCalls
  /\ pc[t] # "starting" /\ (g = t \/ Reaches(t, g))
  /\ calls' = [calls EXCEPT ![g] = @ + 1]
  /\ UNCHANGED <<pc, waitGraph, target, hasWaitEdge, box, answered>>

\* Mutant of CallStarts: only the target's own edge is looked at.
CallWalksOneEdge(g, t) ==
  /\ pc[g] = "running" /\ calls[g] < MaxCalls
  /\ pc[t] # "starting" /\ g # t /\ waitGraph[t] # g
  /\ waitGraph' = [waitGraph EXCEPT ![g] = t]
  /\ hasWaitEdge' = hasWaitEdge \cup {g}
  /\ target' = [target EXCEPT ![g] = t]
  /\ calls' = [calls EXCEPT ![g] = @ + 1]
  /\ pc' = [pc EXCEPT ![g] = "pushing"]
  /\ UNCHANGED <<box, answered>>

\* The check passes and, in the same critical section, registers the edge.
CallStarts(g, t) ==
  /\ pc[g] = "running" /\ calls[g] < MaxCalls
  /\ pc[t] # "starting" /\ g # t /\ ~Reaches(t, g)
  /\ waitGraph' = [waitGraph EXCEPT ![g] = t]
  /\ hasWaitEdge' = hasWaitEdge \cup {g}
  /\ target' = [target EXCEPT ![g] = t]
  /\ calls' = [calls EXCEPT ![g] = @ + 1]
  /\ pc' = [pc EXCEPT ![g] = "pushing"]
  /\ UNCHANGED <<box, answered>>

\* The goroutine id of the target reads zero: no check, no edge.
CallUnseen(g, t) ==
  /\ pc[g] = "running" /\ calls[g] < MaxCalls
  /\ pc[t] = "starting"
  /\ target' = [target EXCEPT ![g] = t]
  /\ calls' = [calls EXCEPT ![g] = @ + 1]
  /\ pc' = [pc EXCEPT ![g] = "pushing"]
  /\ UNCHANGED <<waitGraph, hasWaitEdge, box, answered>>

\* Mutant of Push: the edge is taken back before the wait, not after it.
PushAndForget(g) ==
  /\ pc[g] = "pushing" /\ target[g] \in accepting
  /\ mailbox' = [mailbox EXCEPT ![target[g]] = Append(@, Call(g))]
  /\ pc' = [pc EXCEPT ![g] = "waiting"]
  /\ waitGraph' = [waitGraph EXCEPT ![g] = None]
  /\ UNCHANGED <<target, hasWaitEdge, calls, handling, answered, accepting>>

\* The mail is pushed, to the tail or with AppendToHead to the head.
Push(g) ==
  /\ pc[g] = "pushing" /\ target[g] \in accepting
  /\ mailbox' \in {[mailbox EXCEPT ![target[g]] = Append(@, Call(g))],
                   [mailbox EXCEPT ![target[g]] = <<Call(g)>> \o @]}
  /\ pc' = [pc EXCEPT ![g] = "waiting"]
  /\ UNCHANGED <<caller, handling, answered, accepting>>

PushRefused(g) ==
  /\ pc[g] = "pushing" /\ target[g] \notin accepting
  /\ pc' = [pc EXCEPT ![g] = "returning"]
  /\ UNCHANGED <<caller, box, answered>>

(* The handler returns (or panics and is recovered), sendReply fills the   *)
(* channel, and the goroutine goes back to its mailbox; after a stop it is *)
(* over.                                                                   *)
Reply(a) ==
  /\ pc[a] = "running"
  /\ answered' = answered \cup ({handling[a]} \cap Mails)
  /\ handling' = [handling EXCEPT ![a] = None]
  /\ pc' = [pc EXCEPT ![a] = IF a \in accepting THEN "idle" ELSE "halted"]
  /\ UNCHANGED <<caller, mailbox, accepting>>

\* Mutant of Stop: the mails left in the box are dropped without an answer.
StopSilently(a) ==
  /\ pc[a] = "idle" /\ a \in accepting
  /\ accepting' = accepting \ {a}
  /\ mailbox' = [mailbox EXCEPT ![a] = << >>]
  /\ pc' = [pc EXCEPT ![a] = "running"]
  /\ UNCHANGED <<caller, handling, answered>>

(* A kill mail: the mailbox refuses mails, the queued ones are answered    *)
(* with ErrAtomosIsStopping, and OnStopping runs, which may call in turn.  *)
Stop(a) ==
  /\ pc[a] = "idle" /\ a \in accepting
  /\ accepting' = accepting \ {a}
  /\ answered' = answered \cup {mailbox[a][i] : i \in 1 .. Len(mailbox[a])}
  /\ mailbox' = [mailbox EXCEPT ![a] = << >>]
  /\ pc' = [pc EXCEPT ![a] = "running"]
  /\ UNCHANGED <<caller, handling>>

Answered(g) ==
  /\ pc[g] = "waiting" /\ Call(g) \in answered
  /\ pc' = [pc EXCEPT ![g] = "returning"]
  /\ UNCHANGED <<caller, box, answered>>

(* The timer fires: removeMail takes the mail back if it is still queued    *)
(* (ErrAtomosPushTimeoutReject); if not, it is being handled.               *)
TimedOut(g) ==
  LET t == target[g] IN
  /\ pc[g] = "waiting"
  /\ \/ \E i \in 1 .. Len(mailbox[t]) :
          /\ mailbox[t][i] = Call(g)
          /\ mailbox' = [mailbox EXCEPT ![t] = RemoveAt(@, i)]
     \/ /\ \A i \in 1 .. Len(mailbox[t]) : mailbox[t][i] # Call(g)
        /\ mailbox' = mailbox
  /\ pc' = [pc EXCEPT ![g] = "returning"]
  /\ UNCHANGED <<caller, handling, answered, accepting>>

\* removeEdge, on every way out of PushSyncMessage.
Return(g) ==
  /\ pc[g] = "returning"
  /\ waitGraph' = IF g \in hasWaitEdge THEN [waitGraph EXCEPT ![g] = None]
                  ELSE waitGraph
  /\ hasWaitEdge' = hasWaitEdge \ {g}
  /\ pc' = [pc EXCEPT ![g] = "running"]
  /\ UNCHANGED <<target, calls, box, answered>>

GraphNext ==
  \/ \E a \in Actor : \/ StartMailbox(a) \/ Spawn(a) \/ SpawnFailed(a)
                     \/ Handle(a) \/ HandleOther(a) \/ Reply(a) \/ Stop(a)
  \/ \E g \in Goroutine, t \in Actor :
       CallRefused(g, t) \/ CallStarts(g, t) \/ CallUnseen(g, t)
  \/ \E g \in Goroutine : \/ Push(g) \/ PushRefused(g) \/ Answered(g)
                          \/ TimedOut(g) \/ Return(g)

GraphSpec == GraphInit /\ [][GraphNext]_graphVars

(* Every goroutine that can run does, handlers return, and a queued mail   *)
(* is reached: the mails ahead of it in the queue are finitely many.  The  *)
(* timer and the stop get no fairness: nothing below relies on them.       *)
Fairness ==
  /\ \A a \in Actor :
       /\ WF_graphVars(StartMailbox(a) \/ Spawn(a))
       /\ SF_graphVars(Handle(a)) /\ WF_graphVars(Reply(a))
  /\ \A g \in Goroutine :
       /\ WF_graphVars(Push(g)) /\ WF_graphVars(PushRefused(g))
       /\ WF_graphVars(Answered(g)) /\ WF_graphVars(Return(g))

GraphFairSpec == GraphSpec /\ Fairness
-----------------------------------------------------------------------------
(* The wait graph never has a cycle.  The walk of detectDeadlockAndWait,   *)
(* which holds waitMu and stops only at the caller or at the end of the    *)
(* chain, terminates because of it.                                        *)
Acyclic ==
  \A C \in SUBSET Goroutine : C # {} => \E x \in C : waitGraph[x] \notin C

(* g has no reply to return with: it pushes its mail or waits for waitCh.  *)
Blocked(g) ==
  \/ pc[g] = "pushing"
  \/ pc[g] = "waiting" /\ Call(g) \notin answered

(* No goroutines wait for each other in a ring: in every group there is    *)
(* one that is not blocked on another of the group, unless the ring has a  *)
(* call that PushSyncMessage let pass unchecked because its target had no  *)
(* goroutine id yet.                                                       *)
NoDeadlock ==
  \A C \in SUBSET Goroutine :
    C # {} => \E x \in C : \/ ~(Blocked(x) /\ target[x] \in C)
                           \/ x \notin hasWaitEdge

(* The same without the exception, as detectDeadlockAndWait's comment has  *)
(* it: pushes that would form a cycle cannot all pass the check.           *)
NoDeadlockAtSpawn ==
  \A C \in SUBSET Goroutine :
    C # {} => \E x \in C : ~(Blocked(x) /\ target[x] \in C)

(* Hence, when all actors are up from the start, every call comes back     *)
(* without the help of its timer, whatever the nesting of calls and the    *)
(* stops in between.                                                        *)
EveryCallReturns ==
  accepting = Actor =>
    \A g \in Goroutine : pc[g] = "waiting" ~> pc[g] # "waiting"

\* The calls that are still unanswered lead from t to g.
WouldDeadlock(g, t) ==
  \A S \in SUBSET Goroutine :
    (t \in S /\ \A x \in S : Blocked(x) => target[x] \in S) => g \in S

(* A call is refused only if the target can already reach the caller, so   *)
(* that the push would deadlock (comment in PushSyncMessage).              *)
RefusedOnlyOnDeadlock ==
  [][\A g \in Goroutine, t \in Actor :
       CallRefused(g, t) => g = t \/ WouldDeadlock(g, t)]_graphVars
=============================================================================
