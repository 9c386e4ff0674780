---------------------------- MODULE LocalController ----------------------------
(***************************************************************************)
(* The local controller (pkg/localcontroller/controller.go): an informer's *)
(* event handler puts the nodes that change on a client-go work queue and  *)
(* workers take them off, run syncHandler and register them as watched.    *)
(*                                                                         *)
(* The handler runs in the informer's goroutine and each worker in its     *)
(* own.  The handler looks a node up in watchedNodes without its mutex and *)
(* adds it to the queue in a later step.                                   *)
(***************************************************************************)
EXTENDS Sequences, FiniteSets, Naturals

CONSTANTS
    Nodes,          \* names of cluster nodes
    Workers,        \* the argument of Run
    NoNode,         \* not a node
    MaxChanges,     \* bound: changes made to nodes
    MaxFailures     \* bound: failing calls of syncHandler

ASSUME ControllerAssumption ==
    /\ NoNode \notin Nodes
    /\ MaxChanges \in Nat
    /\ MaxFailures \in Nat

VARIABLES
    present,    \* the nodes the API server has
    changes,    \* changes made so far
    events,     \* notifications the handler has not seen, oldest first
    handling,   \* the node the handler is about to add to the queue
    queue,      \* workqueue: nodes to process, in order
    dirty,      \* workqueue: nodes to process, queued or waiting for Done
    processing, \* workqueue: nodes between Get and Done
    delayed,    \* workqueue: nodes added by AddRateLimited, not yet due
    worker,     \* per worker, its step and its node
    watched,    \* keys of watchedNodes.nodes
    failures,   \* failing calls of syncHandler so far
    syncs,      \* per node, successful calls of syncHandler
    crashed     \* has the runtime detected concurrent map accesses?

apiVars     == <<present, changes>>
queueVars   == <<queue, dirty, processing, delayed>>
workerVars  == <<worker, watched, failures, syncs>>
vars == <<apiVars, events, handling, queueVars, workerVars, crashed>>

Kinds == {"add", "update", "resync", "delete"}
Idle  == [step |-> "idle", node |-> NoNode]

(* The types of the variables; a worker has a node except when idle. *)
TypeOK ==
    /\ present \subseteq Nodes
    /\ changes \in 0..MaxChanges
    /\ events \in Seq([kind : Kinds, node : Nodes])
    /\ handling \in Nodes \cup {NoNode}
    /\ queue \in Seq(Nodes)
    /\ dirty \subseteq Nodes
    /\ processing \subseteq Nodes
    /\ delayed \subseteq Nodes
    /\ worker \in [Workers ->
         [step : {"syncing", "register", "writing", "done"}, node : Nodes] \cup {Idle}]
    /\ watched \subseteq Nodes
    /\ failures \in 0..MaxFailures
    /\ syncs \in [Nodes -> Nat]
    /\ crashed \in BOOLEAN

(* NewController has run, and Run has started its workers. *)
Init ==
    /\ present = {}
    /\ changes = 0
    /\ events = <<>>
    /\ handling = NoNode
    /\ queue = <<>> /\ dirty = {} /\ processing = {} /\ delayed = {}
    /\ worker = [w \in Workers |-> Idle]
    /\ watched = {}
    /\ failures = 0
    /\ syncs = [n \in Nodes |-> 0]
    /\ crashed = FALSE

-------------------------------------------------------------------------------
(* The cluster changes, or the informer lists it again. *)
Change(kind, n) ==
    /\ ~crashed
    /\ changes < MaxChanges
    /\ kind = "add" <=> n \notin present
    /\ changes' = changes + 1
    /\ present' = CASE kind = "add"    -> present \cup {n}
                    [] kind = "delete" -> present \ {n}
                    [] OTHER           -> present
    /\ events' = Append(events, [kind |-> kind, node |-> n])
    /\ UNCHANGED <<handling, queueVars, workerVars, crashed>>

-------------------------------------------------------------------------------
(* The client-go work queue keeps a node that is being processed aside     *)
(* until Done, and never queues a node twice.                              *)
QueueAdd(n) ==
    /\ dirty' = dirty \cup {n}
    /\ queue' = IF n \in dirty \cup processing THEN queue ELSE Append(queue, n)

-------------------------------------------------------------------------------
(* The event handler.                                                      *)

(* A worker holds the mutex of watchedNodes, in registerNode... *)
Locked == \E w \in Workers : worker[w].step = "writing"

(* ... and is in the middle of the map write: a node that is registered    *)
(* already is not written again.                                           *)
MapWritten == \E w \in Workers : worker[w].step = "writing" /\ worker[w].node \notin watched

(* An update that changes nothing is ignored. *)
HandleResync ==
    /\ ~crashed /\ handling = NoNode /\ events # <<>>
    /\ Head(events).kind = "resync"
    /\ events' = Tail(events)
    /\ UNCHANGED <<apiVars, handling, queueVars, workerVars, crashed>>

(* enqueue skips a node that is watched. *)
HandleWatched ==
    /\ ~crashed /\ handling = NoNode /\ events # <<>>
    /\ Head(events).kind # "resync"
    /\ Head(events).node \in watched
    /\ events' = Tail(events)
    /\ UNCHANGED <<apiVars, handling, queueVars, workerVars, crashed>>

(* Mutant: enqueue does not look at watchedNodes. *)
AnyNode(n) == TRUE

IsUnwatched(n) == n \notin watched

(* Otherwise it goes on to add it; the node may be registered meanwhile. *)
HandleUnwatched ==
    /\ ~crashed /\ handling = NoNode /\ events # <<>>
    /\ Head(events).kind # "resync"
    /\ IsUnwatched(Head(events).node)
    /\ handling' = Head(events).node
    /\ events' = Tail(events)
    /\ UNCHANGED <<apiVars, queueVars, workerVars, crashed>>

(* Looking a key up while the map is being written may end the process. *)
HandleCrash ==
    /\ ~crashed /\ handling = NoNode /\ events # <<>>
    /\ Head(events).kind # "resync"
    /\ MapWritten
    /\ crashed' = TRUE
    /\ UNCHANGED <<apiVars, events, handling, queueVars, workerVars>>

(* c.workqueue.Add(key) *)
Enqueue ==
    /\ ~crashed /\ handling # NoNode
    /\ QueueAdd(handling)
    /\ handling' = NoNode
    /\ UNCHANGED <<apiVars, events, processing, delayed, workerVars, crashed>>

-------------------------------------------------------------------------------
(* The workers, processNextQueueItem.                                      *)

At(w, step) == ~crashed /\ worker[w].step = step

(* Mutant: the item is acknowledged at once. *)
Acknowledged(n) == processing

(* A node that is taken is held until Done. *)
Held(n) == processing \cup {n}

Get(w) ==
    /\ ~crashed /\ worker[w] = Idle /\ queue # <<>>
    /\ worker' = [worker EXCEPT ![w] = [step |-> "syncing", node |-> Head(queue)]]
    /\ queue' = Tail(queue)
    /\ processing' = Held(Head(queue))
    /\ dirty' = dirty \ {Head(queue)}
    /\ UNCHANGED <<apiVars, events, handling, delayed, watched, failures, syncs, crashed>>

SyncSucceeds(w) ==
    /\ At(w, "syncing")
    /\ worker' = [worker EXCEPT ![w].step = "register"]
    /\ syncs' = [syncs EXCEPT ![worker[w].node] = @ + 1]
    /\ UNCHANGED <<apiVars, events, handling, queueVars, watched, failures, crashed>>

(* Mutant: a failed node is not retried. *)
Forgotten(n) == delayed

(* It goes back to the queue after the rate limiter's delay. *)
Retried(n) == delayed \cup {n}

SyncFails(w) ==
    /\ At(w, "syncing")
    /\ failures < MaxFailures
    /\ failures' = failures + 1
    /\ worker' = [worker EXCEPT ![w].step = "done"]
    /\ delayed' = Retried(worker[w].node)
    /\ UNCHANGED <<apiVars, events, handling, queue, dirty, processing, watched, syncs, crashed>>

Due(n) ==
    /\ ~crashed /\ n \in delayed
    /\ delayed' = delayed \ {n}
    /\ QueueAdd(n)
    /\ UNCHANGED <<apiVars, events, handling, processing, workerVars, crashed>>

(* registerNode locks the mutex and writes the map if the node is new. *)
RegisterBegin(w) ==
    /\ At(w, "register")
    /\ ~Locked
    /\ worker' = [worker EXCEPT ![w].step = "writing"]
    /\ UNCHANGED <<apiVars, events, handling, queueVars, watched, failures, syncs, crashed>>

RegisterEnd(w) ==
    /\ At(w, "writing")
    /\ worker' = [worker EXCEPT ![w].step = "done"]
    /\ watched' = watched \cup {worker[w].node}
    /\ UNCHANGED <<apiVars, events, handling, queueVars, failures, syncs, crashed>>

LetGo(w) == Idle

(* The deferred c.workqueue.Done(obj). *)
Done(w) ==
    /\ At(w, "done")
    /\ LET n == worker[w].node IN
         /\ processing' = processing \ {n}
         /\ queue' = IF n \in dirty THEN Append(queue, n) ELSE queue
    /\ worker' = [worker EXCEPT ![w] = LetGo(w)]
    /\ UNCHANGED <<apiVars, events, handling, dirty, delayed, watched, failures, syncs, crashed>>

-------------------------------------------------------------------------------
Handler == HandleResync \/ HandleWatched \/ HandleUnwatched \/ HandleCrash \/ Enqueue
Work(w) == \/ Get(w) \/ SyncSucceeds(w) \/ SyncFails(w)
           \/ RegisterBegin(w) \/ RegisterEnd(w) \/ Done(w)

Next ==
    \/ \E kind \in Kinds, n \in Nodes : Change(kind, n)
    \/ Handler
    \/ \E w \in Workers : Work(w)
    \/ \E n \in Nodes : Due(n)

Spec == Init /\ [][Next]_vars

(* Every goroutine is scheduled, and a rate limiter's delay expires. *)
FairSpec ==
    /\ Spec
    /\ WF_vars(Handler)
    /\ \A w \in Workers : WF_vars(Work(w))
    /\ \A n \in Nodes : WF_vars(Due(n))

-------------------------------------------------------------------------------
(***************************************************************************)
(* Properties.                                                             *)
(***************************************************************************)

(* No node is synced by two workers at once. *)
OneWorkerPerNode ==
    \A v, w \in Workers :
        v # w /\ worker[v] # Idle => worker[v].node # worker[w].node

(* A node that changed is never forgotten before it is watched: it waits   *)
(* in the informer, in the handler or in the work queue, or is being       *)
(* processed or retried.                                                   *)
NodesAccountedFor ==
    \A n \in present \ watched :
        \/ \E i \in DOMAIN events : events[i].node = n /\ events[i].kind # "resync"
        \/ handling = n
        \/ n \in dirty \cup processing \cup delayed

(* enqueue acts on a check made before the node was registered, so that a  *)
(* node may be synced again: once for what the queue holds back until      *)
(* Done, once for what the handler is adding, and once for a retry.        *)
SyncsBounded == \A n \in Nodes : syncs[n] <= IF failures = 0 THEN 3 ELSE 4

(* A node that is added is watched in the end. *)
NodesGetWatched ==
    \A n \in Nodes : n \in present ~> n \in watched \/ crashed

(* The nodes that wait for a worker, wherever they are: in the informer,   *)
(* in the handler, in the work queue or in its rate limiter.               *)
Waiting == {events[i].node : i \in {j \in DOMAIN events : events[j].kind # "resync"}}
           \cup ({handling} \ {NoNode}) \cup dirty \cup delayed

Busy == {worker[w].node : w \in {v \in Workers : worker[v] # Idle}}

(* The handler, the queue and the workers together take up every node that *)
(* changes before it is watched, by one worker at a time, and let go of    *)
(* none that is neither watched nor waiting: they implement NodeWatching.  *)
(* Nothing is promised of a node that is watched: enqueue drops its changes*)
(* and its deletion (controller.go:192), unless it is registered after the *)
(* look-up, although the code is to act on restarts and deletions (62-63,  *)
(* 151-153).                                                               *)
NodesWatching == INSTANCE NodeWatching WITH waiting <- Waiting, busy <- Busy
WatchesNodes  == NodesWatching!Spec

-------------------------------------------------------------------------------
(***************************************************************************)
(* The inductive invariant.                                                *)
(***************************************************************************)

(* The queue lists, once each, the nodes that are dirty and not held. *)
QueueInv ==
    /\ \A i \in DOMAIN queue : queue[i] \in dirty \ processing
    /\ \A n \in dirty \ processing : \E i \in DOMAIN queue : queue[i] = n
    /\ \A i, j \in DOMAIN queue : i # j => queue[i] # queue[j]

(* What is held is what the workers have, each another node; a node that is*)
(* done with is watched, or its sync has failed and it waits.              *)
WorkerInv ==
    /\ OneWorkerPerNode
    /\ processing = Busy
    /\ \A w \in Workers :
         worker[w].step = "done" => worker[w].node \in watched \cup delayed \cup dirty

IsSyncing(n) == \E w \in Workers : worker[w].node = n /\ worker[w].step = "syncing"
IsSynced(n)  == \E w \in Workers : worker[w].node = n /\ worker[w].step \in {"register", "writing"}

One(condition) == IF condition THEN 1 ELSE 0

(* The syncs of a watched node, those that are to come included: a node    *)
(* that is watched is not looked up as unwatched any more.                 *)
SyncsToBe(n) ==
    syncs[n] + One(IsSyncing(n)) + One(n \in dirty) + One(handling = n) + One(n \in delayed)

(* Without a failure there is nothing to retry.  A node is synced once     *)
(* before it is watched.                                                   *)
SyncInv ==
    /\ failures = 0 => delayed = {}
    /\ \A n \in Nodes \ watched : syncs[n] = One(IsSynced(n))
    /\ \A n \in watched : SyncsToBe(n) <= IF failures = 0 THEN 3 ELSE 4

(* The inductive invariant: the work queue holds a node once and keeps it  *)
(* from other workers, each worker's step accounts for the node it has,    *)
(* and the syncs of a node, made and to come, are bounded.                 *)
ControllerInv == TypeOK /\ QueueInv /\ WorkerInv /\ SyncInv
===============================================================================
