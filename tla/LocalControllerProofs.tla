-------------------------- MODULE LocalControllerProofs --------------------------
(***************************************************************************)
(* Proofs about LocalController, for every set of nodes and of workers and *)
(* however often nodes change and syncs fail; in particular that it        *)
(* implements NodeWatching.                                                *)
(***************************************************************************)
EXTENDS LocalController, SequenceTheorems, TLAPS

(* What Append does, index by index. *)
LEMMA Appended ==
    ASSUME NEW S, NEW s \in Seq(S), NEW e \in S
    PROVE  /\ Append(s, e) \in Seq(S)
           /\ Len(s) \in Nat
           /\ DOMAIN s = 1..Len(s)
           /\ DOMAIN Append(s, e) = 1..(Len(s) + 1)
           /\ \A i \in DOMAIN s : Append(s, e)[i] = s[i]
           /\ Append(s, e)[Len(s) + 1] = e
  BY AppendProperties, LenProperties

(* What taking the first element off does. *)
LEMMA HeadTaken ==
    ASSUME NEW S, NEW s \in Seq(S), s # <<>>
    PROVE  /\ Tail(s) \in Seq(S)
           /\ Len(s) \in Nat \ {0}
           /\ DOMAIN s = 1..Len(s)
           /\ DOMAIN Tail(s) = 1..(Len(s) - 1)
           /\ \A i \in DOMAIN Tail(s) : Tail(s)[i] = s[i + 1]
           /\ Head(s) = s[1] /\ Head(s) \in S
  BY HeadTailProperties, LenProperties, EmptySeq

-------------------------------------------------------------------------------
(* A worker that is not idle has a node, and keeps it from step to step. *)
LEMMA WorkerSteps ==
    ASSUME TypeOK, NEW w \in Workers, worker[w].step # "idle",
           NEW s \in {"register", "writing", "done"},
           worker' = [worker EXCEPT ![w].step = s]
    PROVE  /\ worker[w] # Idle /\ worker[w].node \in Nodes
           /\ worker' \in [Workers ->
                [step : {"syncing", "register", "writing", "done"}, node : Nodes] \cup {Idle}]
           /\ worker'[w] # Idle /\ worker'[w].step = s /\ worker'[w].node = worker[w].node
           /\ \A v \in Workers \ {w} : worker'[v] = worker[v]
  <1>1. worker[w] \in [step : {"syncing", "register", "writing", "done"}, node : Nodes]
    BY DEF TypeOK, Idle
  <1>2. worker'[w] = [step |-> s, node |-> worker[w].node]
    BY <1>1 DEF TypeOK
  <1>3. worker'[w] \in [step : {"syncing", "register", "writing", "done"}, node : Nodes]
    BY <1>1, <1>2
  <1> QED
    BY <1>1, <1>2, <1>3 DEF TypeOK, Idle

(* The types are kept by every step. *)
LEMMA TypeInductive ==
    ASSUME TypeOK, [Next]_vars
    PROVE  TypeOK'
  <1> USE ControllerAssumption DEF TypeOK, Idle
  <1>1. ASSUME NEW kind \in Kinds, NEW n \in Nodes, Change(kind, n) PROVE TypeOK'
    <2>1. events' \in Seq([kind : Kinds, node : Nodes])
      BY <1>1, Appended DEF Change
    <2>2. present' \subseteq Nodes
      BY <1>1 DEF Change, Kinds
    <2> QED
      BY <1>1, <2>1, <2>2 DEF Change, queueVars, workerVars
  <1>2. CASE HandleResync
    BY <1>2, HeadTaken DEF HandleResync, apiVars, queueVars, workerVars
  <1>3. CASE HandleWatched
    BY <1>3, HeadTaken DEF HandleWatched, apiVars, queueVars, workerVars
  <1>4. CASE HandleUnwatched
    <2>1. /\ Head(events) \in [kind : Kinds, node : Nodes]
          /\ Tail(events) \in Seq([kind : Kinds, node : Nodes])
      BY <1>4, HeadTaken DEF HandleUnwatched
    <2> QED
      BY <1>4, <2>1 DEF HandleUnwatched, apiVars, queueVars, workerVars
  <1>5. CASE HandleCrash
    BY <1>5 DEF HandleCrash, apiVars, queueVars, workerVars
  <1>6. CASE Enqueue
    <2>1. handling \in Nodes
      BY <1>6 DEF Enqueue
    <2>2. queue' \in Seq(Nodes)
      BY <1>6, <2>1, Appended DEF Enqueue, QueueAdd
    <2> QED
      BY <1>6, <2>1, <2>2 DEF Enqueue, QueueAdd, apiVars, workerVars
  <1>7. ASSUME NEW w \in Workers, Get(w) PROVE TypeOK'
    BY <1>7, HeadTaken DEF Get, Held, apiVars
  <1>8. ASSUME NEW w \in Workers, SyncSucceeds(w) PROVE TypeOK'
    <2>1. worker[w].step # "idle" /\ worker' = [worker EXCEPT ![w].step = "register"]
      BY <1>8 DEF SyncSucceeds, At
    <2>2. worker[w].node \in Nodes /\ worker' \in [Workers ->
                [step : {"syncing", "register", "writing", "done"}, node : Nodes] \cup {Idle}]
      BY <2>1, WorkerSteps
    <2> QED
      BY <1>8, <2>2 DEF SyncSucceeds, apiVars, queueVars
  <1>9. ASSUME NEW w \in Workers, SyncFails(w) PROVE TypeOK'
    <2>1. worker[w].step # "idle" /\ worker' = [worker EXCEPT ![w].step = "done"]
      BY <1>9 DEF SyncFails, At
    <2>2. worker[w].node \in Nodes /\ worker' \in [Workers ->
                [step : {"syncing", "register", "writing", "done"}, node : Nodes] \cup {Idle}]
      BY <2>1, WorkerSteps
    <2> QED
      BY <1>9, <2>2 DEF SyncFails, Retried, apiVars
  <1>10. ASSUME NEW n \in Nodes, Due(n) PROVE TypeOK'
    <2>1. queue' \in Seq(Nodes)
      BY <1>10, Appended DEF Due, QueueAdd
    <2> QED
      BY <1>10, <2>1 DEF Due, QueueAdd, apiVars, workerVars
  <1>11. ASSUME NEW w \in Workers, RegisterBegin(w) PROVE TypeOK'
    <2>1. worker[w].step # "idle" /\ worker' = [worker EXCEPT ![w].step = "writing"]
      BY <1>11 DEF RegisterBegin, At
    <2> QED
      BY <1>11, <2>1, WorkerSteps DEF RegisterBegin, apiVars, queueVars
  <1>12. ASSUME NEW w \in Workers, RegisterEnd(w) PROVE TypeOK'
    <2>1. worker[w].step # "idle" /\ worker' = [worker EXCEPT ![w].step = "done"]
      BY <1>12 DEF RegisterEnd, At
    <2> QED
      BY <1>12, <2>1, WorkerSteps DEF RegisterEnd, apiVars, queueVars
  <1>13. ASSUME NEW w \in Workers, Done(w) PROVE TypeOK'
    <2>1. queue' \in Seq(Nodes)
      BY <1>13, Appended DEF Done, At
    <2> QED
      BY <1>13, <2>1 DEF Done, At, LetGo, apiVars
  <1>14. CASE UNCHANGED vars
    BY <1>14 DEF vars, apiVars, queueVars, workerVars
  <1> QED
    BY <1>1, <1>2, <1>3, <1>4, <1>5, <1>6, <1>7, <1>8, <1>9, <1>10, <1>11, <1>12, <1>13, <1>14
    DEF Next, Handler, Work

-------------------------------------------------------------------------------
(* The queue. *)

LEMMA AddedToQueue ==
    ASSUME TypeOK, QueueInv, NEW n \in Nodes, QueueAdd(n), UNCHANGED processing
    PROVE  QueueInv'
  <1>1. CASE n \in dirty \cup processing
    BY <1>1 DEF QueueInv, QueueAdd
  <1>2. CASE n \notin dirty \cup processing
    <2>1. queue' = Append(queue, n) /\ dirty' = dirty \cup {n}
      BY <1>2 DEF QueueAdd
    <2>2. /\ Len(queue) \in Nat
          /\ DOMAIN queue = 1..Len(queue)
          /\ DOMAIN queue' = 1..(Len(queue) + 1)
          /\ \A i \in DOMAIN queue : queue'[i] = queue[i]
          /\ queue'[Len(queue) + 1] = n
      BY <2>1, Appended DEF TypeOK
    <2>3. \A i \in DOMAIN queue' : i \in DOMAIN queue \/ i = Len(queue) + 1
      BY <2>2
    <2>4. Len(queue) + 1 \in DOMAIN queue' /\ DOMAIN queue \subseteq DOMAIN queue'
      BY <2>2
    <2> QED
      BY <1>2, <2>1, <2>2, <2>3, <2>4 DEF QueueInv
  <1> QED
    BY <1>1, <1>2

(* The queue lists what is dirty and not held, once each. *)
LEMMA QueueInductive ==
    ASSUME TypeOK, QueueInv, WorkerInv, [Next]_vars
    PROVE  QueueInv'
  <1>1. CASE UNCHANGED <<queue, dirty, processing>>
    BY <1>1 DEF QueueInv
  <1>2. CASE Enqueue
    BY <1>2, AddedToQueue DEF Enqueue, TypeOK
  <1>3. ASSUME NEW n \in Nodes, Due(n) PROVE QueueInv'
    BY <1>3, AddedToQueue DEF Due
  <1>4. ASSUME NEW w \in Workers, Get(w) PROVE QueueInv'
    <2>1. /\ queue # <<>> /\ queue' = Tail(queue)
          /\ processing' = processing \cup {Head(queue)}
          /\ dirty' = dirty \ {Head(queue)}
      BY <1>4 DEF Get, Held
    <2>2. /\ Len(queue) \in Nat \ {0}
          /\ DOMAIN queue = 1..Len(queue)
          /\ DOMAIN queue' = 1..(Len(queue) - 1)
          /\ \A i \in DOMAIN queue' : queue'[i] = queue[i + 1]
          /\ Head(queue) = queue[1]
      BY <2>1, HeadTaken DEF TypeOK
    <2>3. \A i \in DOMAIN queue' : i + 1 \in DOMAIN queue /\ i + 1 # 1
      BY <2>2
    <2>4. \A i \in DOMAIN queue : i # 1 => i - 1 \in DOMAIN queue' /\ (i - 1) + 1 = i
      BY <2>2
    <2>5. 1 \in DOMAIN queue
      BY <2>2
    <2>6. \A i \in DOMAIN queue' : queue'[i] \in dirty' \ processing'
      BY <2>1, <2>2, <2>3, <2>5 DEF QueueInv
    <2>7. ASSUME NEW n \in dirty' \ processing'
          PROVE  \E i \in DOMAIN queue' : queue'[i] = n
      <3>1. PICK i \in DOMAIN queue : queue[i] = n
        BY <2>1, <2>7 DEF QueueInv
      <3>2. i # 1
        BY <2>1, <2>2, <2>7, <3>1
      <3> QED
        BY <2>2, <2>4, <3>1, <3>2
    <2>8. ASSUME NEW i \in DOMAIN queue', NEW j \in DOMAIN queue', i # j
          PROVE  queue'[i] # queue'[j]
      <3>1. i + 1 # j + 1
        BY <2>2, <2>8
      <3> QED
        BY <2>2, <2>3, <3>1 DEF QueueInv
    <2> QED
      BY <2>6, <2>7, <2>8 DEF QueueInv
  <1>5. ASSUME NEW w \in Workers, Done(w) PROVE QueueInv'
    <2> DEFINE n == worker[w].node
    <2>1. /\ processing' = processing \ {n} /\ dirty' = dirty
          /\ queue' = IF n \in dirty THEN Append(queue, n) ELSE queue
      BY <1>5 DEF Done
    <2>2. n \in processing /\ n \in Nodes
      BY <1>5 DEF Done, At, WorkerInv, Busy, Idle, TypeOK
    <2>3. CASE n \in dirty
      <3>1. /\ Len(queue) \in Nat
            /\ DOMAIN queue = 1..Len(queue)
            /\ DOMAIN queue' = 1..(Len(queue) + 1)
            /\ \A i \in DOMAIN queue : queue'[i] = queue[i]
            /\ queue'[Len(queue) + 1] = n
        BY <2>1, <2>2, <2>3, Appended DEF TypeOK
      <3>2. \A i \in DOMAIN queue' : i \in DOMAIN queue \/ i = Len(queue) + 1
        BY <3>1
      <3>3. Len(queue) + 1 \in DOMAIN queue' /\ DOMAIN queue \subseteq DOMAIN queue'
        BY <3>1
      <3> QED
        BY <2>1, <2>2, <2>3, <3>1, <3>2, <3>3 DEF QueueInv
    <2>4. CASE n \notin dirty
      BY <2>1, <2>4 DEF QueueInv
    <2> QED
      BY <2>3, <2>4
  <1> QED
    BY <1>1, <1>2, <1>3, <1>4, <1>5
    DEF Next, Handler, Work, vars, Change, HandleResync, HandleWatched, HandleUnwatched,
        HandleCrash, SyncSucceeds, SyncFails, RegisterBegin, RegisterEnd, queueVars

-------------------------------------------------------------------------------
(* The workers. *)

LEMMA WorkerInductive ==
    ASSUME TypeOK, QueueInv, WorkerInv, [Next]_vars
    PROVE  WorkerInv'
  <1> USE DEF WorkerInv, OneWorkerPerNode, Busy
  <1>1. CASE UNCHANGED <<worker, processing>> /\ UNCHANGED watched
             /\ delayed \cup dirty \subseteq delayed' \cup dirty'
    BY <1>1
  <1>2. ASSUME NEW w \in Workers, Get(w) PROVE WorkerInv'
    <2>1. Head(queue) \in dirty \ processing /\ Head(queue) \in Nodes
      <3>1. queue # <<>>
        BY <1>2 DEF Get
      <3>2. 1 \in DOMAIN queue /\ Head(queue) = queue[1]
        BY <3>1, HeadTaken DEF TypeOK
      <3> QED
        BY <3>2 DEF QueueInv, TypeOK
    <2>2. /\ worker'[w] = [step |-> "syncing", node |-> Head(queue)]
          /\ \A v \in Workers \ {w} : worker'[v] = worker[v]
          /\ processing' = processing \cup {Head(queue)}
          /\ dirty' = dirty \ {Head(queue)} /\ UNCHANGED <<watched, delayed>>
          /\ worker[w] = Idle
      BY <1>2 DEF Get, Held, TypeOK
    <2>3. worker'[w] # Idle /\ worker'[w].node = Head(queue)
      BY <2>1, <2>2, ControllerAssumption DEF Idle
    <2>4. \A v \in Workers \ {w} : worker[v] # Idle => worker[v].node # Head(queue)
      BY <2>1
    <2>5. ASSUME NEW u \in Workers, NEW v \in Workers, u # v, worker'[u] # Idle
          PROVE  worker'[u].node # worker'[v].node
      <3>1. CASE u = w
        <4>1. worker[v] # Idle => worker[v].node # Head(queue)
          BY <2>4, <2>5, <3>1
        <4>2. Idle.node # Head(queue)
          BY <2>1, ControllerAssumption DEF Idle
        <4> QED
          BY <2>2, <2>3, <2>5, <3>1, <4>1, <4>2
      <3>2. CASE v = w
        BY <2>2, <2>3, <2>4, <2>5, <3>2
      <3>3. CASE u # w /\ v # w
        BY <2>2, <2>5, <3>3
      <3> QED
        BY <3>1, <3>2, <3>3
    <2>6. processing' = Busy'
      BY <2>2, <2>3
    <2>7. ASSUME NEW v \in Workers, worker'[v].step = "done"
          PROVE  worker'[v].node \in (watched \cup delayed \cup dirty)'
      <3>1. v # w /\ worker'[v] = worker[v]
        BY <2>2, <2>7
      <3>2. worker[v] # Idle
        BY <2>7, <3>1 DEF Idle
      <3> QED
        BY <2>2, <2>4, <2>7, <3>1, <3>2
    <2> QED
      BY <2>5, <2>6, <2>7
  <1>3. ASSUME NEW w \in Workers, NEW s \in {"register", "writing", "done"},
               worker[w].step # "idle", worker' = [worker EXCEPT ![w].step = s],
               watched \cup delayed \cup dirty \subseteq (watched \cup delayed \cup dirty)',
               s = "done" => worker[w].node \in (watched \cup delayed \cup dirty)',
               UNCHANGED processing
        PROVE  WorkerInv'
    <2>1. /\ worker[w] # Idle /\ worker'[w] # Idle
          /\ worker'[w].step = s /\ worker'[w].node = worker[w].node
          /\ \A v \in Workers \ {w} : worker'[v] = worker[v]
      BY <1>3, WorkerSteps
    <2>2. OneWorkerPerNode'
      BY <2>1
    <2>3. processing' = Busy'
      BY <1>3, <2>1
    <2>4. ASSUME NEW v \in Workers, worker'[v].step = "done"
          PROVE  worker'[v].node \in (watched \cup delayed \cup dirty)'
      BY <1>3, <2>1, <2>4
    <2> QED
      BY <2>2, <2>3, <2>4
  <1>4. ASSUME NEW w \in Workers, SyncSucceeds(w) PROVE WorkerInv'
    BY <1>3, <1>4 DEF SyncSucceeds, At, queueVars
  <1>5. ASSUME NEW w \in Workers, SyncFails(w) PROVE WorkerInv'
    BY <1>3, <1>5 DEF SyncFails, At, Retried
  <1>6. ASSUME NEW w \in Workers, RegisterBegin(w) PROVE WorkerInv'
    BY <1>3, <1>6 DEF RegisterBegin, At, queueVars
  <1>7. ASSUME NEW w \in Workers, RegisterEnd(w) PROVE WorkerInv'
    BY <1>3, <1>7 DEF RegisterEnd, At, queueVars
  <1>8. ASSUME NEW w \in Workers, Done(w) PROVE WorkerInv'
    <2>1. /\ worker[w] # Idle /\ worker'[w] = Idle
          /\ \A v \in Workers \ {w} : worker'[v] = worker[v]
          /\ processing' = processing \ {worker[w].node}
          /\ UNCHANGED <<watched, dirty, delayed>>
          /\ worker'[w].step # "done"
      BY <1>8 DEF Done, At, LetGo, Idle, TypeOK
    <2>2. ASSUME NEW u \in Workers, NEW v \in Workers, u # v, worker'[u] # Idle
          PROVE  worker'[u].node # worker'[v].node
      <3>1. u # w /\ worker'[u] = worker[u]
        BY <2>1, <2>2
      <3>2. worker[u].node # Idle.node
        BY <2>2, <3>1, ControllerAssumption DEF TypeOK, Idle
      <3> QED
        BY <2>1, <2>2, <3>1, <3>2
    <2>3. processing' = Busy'
      BY <2>1
    <2>4. ASSUME NEW v \in Workers, worker'[v].step = "done"
          PROVE  worker'[v].node \in (watched \cup delayed \cup dirty)'
      <3>1. v # w /\ worker'[v] = worker[v]
        BY <2>1, <2>4
      <3> QED
        BY <2>1, <2>4, <3>1
    <2> QED
      BY <2>2, <2>3, <2>4
  <1>9. ASSUME NEW n \in Nodes, Due(n) PROVE WorkerInv'
    BY <1>1, <1>9 DEF Due, QueueAdd, workerVars
  <1>10. CASE Enqueue
    BY <1>1, <1>10 DEF Enqueue, QueueAdd, workerVars
  <1> QED
    BY <1>1, <1>2, <1>4, <1>5, <1>6, <1>7, <1>8, <1>9, <1>10
    DEF Next, Handler, Work, vars, Change, HandleResync, HandleWatched, HandleUnwatched,
        HandleCrash, queueVars, workerVars

-------------------------------------------------------------------------------
(* The syncs. *)

LEMMA OneIsNat ==
    ASSUME NEW b \in BOOLEAN
    PROVE  One(b) \in {0, 1} /\ (b => One(b) = 1) /\ (~b => One(b) = 0)
  BY DEF One

(* A worker that has a node is the only one that could be syncing it. *)
LEMMA OwnSync ==
    ASSUME WorkerInv, NEW w \in Workers, worker[w] # Idle
    PROVE  /\ IsSyncing(worker[w].node) <=> worker[w].step = "syncing"
           /\ IsSynced(worker[w].node) <=> worker[w].step \in {"register", "writing"}
  BY DEF WorkerInv, OneWorkerPerNode, IsSyncing, IsSynced

(* The other nodes are none of its business. *)
LEMMA OthersSync ==
    ASSUME NEW w \in Workers, NEW n,
           worker[w].node \in {n, NoNode}, worker'[w].node \in {n, NoNode},
           \A v \in Workers \ {w} : worker'[v] = worker[v]
    PROVE  \A m \in Nodes \ {n} : /\ IsSyncing(m)' <=> IsSyncing(m)
                                  /\ IsSynced(m)' <=> IsSynced(m)
  BY ControllerAssumption DEF IsSyncing, IsSynced

(* What a step does to the syncs of a node, counted with those to come. *)
SyncKept(n) ==
    /\ n \notin watched' =>
         syncs'[n] = One(IsSynced(n))'
    /\ n \in watched' =>
         SyncsToBe(n)' <= IF failures' = 0 THEN 3 ELSE 4

(* A step that leaves everything alone that counts for a node, or moves a  *)
(* sync that is to come from one place to another.                         *)
LEMMA SyncMoved ==
    ASSUME SyncInv, failures' = 0 => failures = 0,
           NEW n \in Nodes, n \in watched' <=> n \in watched,
           n \notin watched => syncs'[n] = One(IsSynced(n))',
           n \in watched => SyncsToBe(n)' <= SyncsToBe(n),
           SyncsToBe(n)' \in Nat, SyncsToBe(n) \in Nat
    PROVE  SyncKept(n)
  <1>1. n \in watched => SyncsToBe(n) <= IF failures = 0 THEN 3 ELSE 4
    BY DEF SyncInv
  <1> QED
    BY <1>1 DEF SyncInv, SyncKept

LEMMA SyncsAreNat ==
    ASSUME TypeOK, TypeOK', NEW n \in Nodes
    PROVE  /\ SyncsToBe(n) \in Nat /\ SyncsToBe(n)' \in Nat
           /\ syncs[n] \in Nat /\ syncs'[n] \in Nat
  <1>1. syncs[n] \in Nat /\ syncs'[n] \in Nat
    BY DEF TypeOK
  <1> QED
    BY <1>1 DEF SyncsToBe, One

LEMMA SyncUntouched ==
    ASSUME TypeOK, TypeOK', SyncInv, NEW n \in Nodes,
           failures' = 0 => failures = 0,
           n \in watched' <=> n \in watched,
           n \in dirty' <=> n \in dirty, n \in delayed' <=> n \in delayed,
           handling' = n => handling = n,
           IsSyncing(n)' <=> IsSyncing(n), IsSynced(n)' <=> IsSynced(n),
           syncs'[n] = syncs[n]
    PROVE  SyncKept(n)
  <1>1. n \notin watched => syncs'[n] = One(IsSynced(n))'
    BY DEF SyncInv, One
  <1>2. SyncsToBe(n)' <= SyncsToBe(n)
    BY SyncsAreNat DEF SyncsToBe, One
  <1> QED
    BY <1>1, <1>2, SyncMoved, SyncsAreNat

LEMMA SyncInductive ==
    ASSUME TypeOK, TypeOK', QueueInv, WorkerInv, WorkerInv', SyncInv, [Next]_vars
    PROVE  SyncInv'
  <1>1. (failures = 0 => delayed = {})'
    <2>1. ASSUME NEW w \in Workers, SyncFails(w) PROVE failures' # 0
      BY <2>1, ControllerAssumption DEF SyncFails, TypeOK
    <2> QED
      BY <2>1 DEF SyncInv, Next, Handler, Work, vars, apiVars, queueVars, workerVars, Change,
             HandleResync, HandleWatched, HandleUnwatched, HandleCrash, Enqueue, QueueAdd, Get,
             SyncSucceeds, Due, RegisterBegin, RegisterEnd, Done
  <1>2. ASSUME NEW n \in Nodes PROVE SyncKept(n)
    <2> USE <1>2
    <2>1. CASE UNCHANGED <<dirty, delayed, workerVars>> /\ (handling' = n => handling = n)
      BY <2>1, SyncUntouched DEF workerVars, IsSyncing, IsSynced
    <2>2. CASE HandleUnwatched
      <3>1. CASE handling' = n
        <4>1. n \notin watched /\ UNCHANGED <<watched, syncs, worker>>
          BY <2>2, <3>1 DEF HandleUnwatched, IsUnwatched, workerVars
        <4> QED
          BY <4>1 DEF SyncInv, SyncKept, One, IsSynced
      <3>2. CASE handling' # n
        BY <2>1, <2>2, <3>2 DEF HandleUnwatched, queueVars
      <3> QED
        BY <3>1, <3>2
    <2>3. CASE Enqueue
      <3>1. dirty' = dirty \cup {handling} /\ handling' = NoNode /\ n # NoNode
            /\ UNCHANGED <<delayed, workerVars>>
        BY <2>3, ControllerAssumption DEF Enqueue, QueueAdd
      <3>2. IsSyncing(n)' <=> IsSyncing(n)
        BY <3>1 DEF workerVars, IsSyncing
      <3>3. SyncsToBe(n)' <= SyncsToBe(n)
        BY <3>1, <3>2, SyncsAreNat DEF SyncsToBe, One, workerVars
      <3>4. n \notin watched => syncs'[n] = One(IsSynced(n))'
        BY <3>1 DEF SyncInv, One, workerVars, IsSynced
      <3> QED
        BY <3>1, <3>3, <3>4, SyncMoved, SyncsAreNat DEF workerVars
    <2>4. ASSUME NEW d \in Nodes, Due(d) PROVE SyncKept(n)
      <3>1. dirty' = dirty \cup {d} /\ delayed' = delayed \ {d} /\ d \in delayed
            /\ UNCHANGED <<handling, workerVars>>
        BY <2>4 DEF Due, QueueAdd
      <3>2. IsSyncing(n)' <=> IsSyncing(n)
        BY <3>1 DEF workerVars, IsSyncing
      <3>3. SyncsToBe(n)' <= SyncsToBe(n)
        BY <3>1, <3>2, SyncsAreNat DEF SyncsToBe, One, workerVars
      <3>4. n \notin watched => syncs'[n] = One(IsSynced(n))'
        BY <3>1 DEF SyncInv, One, workerVars, IsSynced
      <3> QED
        BY <3>1, <3>3, <3>4, SyncMoved, SyncsAreNat DEF workerVars
    <2>5. ASSUME NEW w \in Workers, Get(w) PROVE SyncKept(n)
      <3> DEFINE taken == Head(queue)
      <3>1. /\ worker[w] = Idle /\ worker'[w] = [step |-> "syncing", node |-> taken]
            /\ \A v \in Workers \ {w} : worker'[v] = worker[v]
            /\ dirty' = dirty \ {taken}
            /\ UNCHANGED <<handling, delayed, watched, failures, syncs>>
        <4>1. worker' = [worker EXCEPT ![w] = [step |-> "syncing", node |-> taken]]
              /\ DOMAIN worker = Workers
          BY <2>5 DEF Get, TypeOK
        <4>2. /\ worker[w] = Idle /\ dirty' = dirty \ {taken}
              /\ UNCHANGED <<handling, delayed, watched, failures, syncs>>
          BY <2>5 DEF Get
        <4> HIDE DEF taken
        <4> QED
          BY <4>1, <4>2
      <3>2. taken \in dirty \ processing
        <4>1. queue # <<>>
          BY <2>5 DEF Get
        <4>2. queue \in Seq(Nodes)
          BY DEF TypeOK
        <4>3. 1 \in DOMAIN queue /\ Head(queue) = queue[1]
          BY <4>1, <4>2, HeadTaken
        <4>4. queue[1] \in dirty \ processing
          BY <4>3 DEF QueueInv
        <4> QED
          BY <4>3, <4>4
      <3>3. CASE n # taken
        <4>1. worker[w].node \in {taken, NoNode} /\ worker'[w].node \in {taken, NoNode}
          BY <3>1 DEF Idle
        <4>2. (IsSyncing(n)' <=> IsSyncing(n)) /\ (IsSynced(n)' <=> IsSynced(n))
          BY <3>1, <3>3, <4>1, OthersSync
        <4> QED
          BY <3>1, <3>3, <4>2, SyncUntouched
      <3>4. CASE n = taken
        <4>1. ~IsSyncing(n) /\ ~IsSynced(n)
          BY <3>2, <3>4 DEF WorkerInv, Busy, IsSyncing, IsSynced, Idle
        <4>2. worker'[w] # Idle /\ worker'[w].node = n /\ worker'[w].step = "syncing"
          BY <3>1, <3>4 DEF Idle
        <4>3. ~IsSynced(n)'
          BY <4>2 DEF WorkerInv, OneWorkerPerNode, IsSynced
        <4>4. SyncsToBe(n)' <= SyncsToBe(n)
          BY <3>1, <3>2, <3>4, <4>1, SyncsAreNat DEF SyncsToBe, One
        <4>5. n \notin watched => syncs'[n] = One(IsSynced(n))'
          BY <3>1, <4>1, <4>3 DEF SyncInv, One
        <4> QED
          BY <3>1, <4>4, <4>5, SyncMoved, SyncsAreNat
      <3> QED
        BY <3>3, <3>4
    <2>6. ASSUME NEW w \in Workers, SyncSucceeds(w) PROVE SyncKept(n)
      <3> DEFINE own == worker[w].node
      <3>1. /\ worker[w].step = "syncing" /\ worker' = [worker EXCEPT ![w].step = "register"]
            /\ syncs' = [syncs EXCEPT ![own] = @ + 1]
            /\ UNCHANGED <<handling, dirty, delayed, watched, failures>>
        BY <2>6 DEF SyncSucceeds, At, queueVars
      <3>2. /\ worker[w] # Idle /\ worker'[w] # Idle /\ own \in Nodes
            /\ worker'[w].step = "register" /\ worker'[w].node = own
            /\ \A v \in Workers \ {w} : worker'[v] = worker[v]
        BY <3>1, WorkerSteps
      <3>3. CASE n # own
        <4>1. (IsSyncing(n)' <=> IsSyncing(n)) /\ (IsSynced(n)' <=> IsSynced(n))
          BY <3>2, <3>3, OthersSync
        <4>2. syncs'[n] = syncs[n] /\ (n \in watched' <=> n \in watched)
          BY <3>1, <3>3 DEF TypeOK
        <4> QED
          BY <3>1, <4>1, <4>2, SyncUntouched
      <3>4. CASE n = own
        <4>1. IsSyncing(n) /\ ~IsSynced(n)
          BY <3>1, <3>2, <3>4, OwnSync
        <4>2. ~IsSyncing(n)' /\ IsSynced(n)'
          BY <3>2, <3>4 DEF WorkerInv, OneWorkerPerNode, IsSyncing, IsSynced
        <4>3. syncs'[n] = syncs[n] + 1
          BY <3>1, <3>4 DEF TypeOK
        <4>4. SyncsToBe(n)' <= SyncsToBe(n)
          BY <3>1, <4>1, <4>2, <4>3, SyncsAreNat DEF SyncsToBe, One
        <4>5. n \notin watched => syncs'[n] = One(IsSynced(n))'
          BY <4>1, <4>2, <4>3 DEF SyncInv, One
        <4> QED
          BY <3>1, <4>4, <4>5, SyncMoved, SyncsAreNat
      <3> QED
        BY <3>3, <3>4
    <2>7. ASSUME NEW w \in Workers, SyncFails(w) PROVE SyncKept(n)
      <3> DEFINE own == worker[w].node
      <3>1. /\ worker[w].step = "syncing" /\ worker' = [worker EXCEPT ![w].step = "done"]
            /\ delayed' = delayed \cup {own} /\ failures' = failures + 1
            /\ UNCHANGED <<handling, dirty, watched, syncs>>
        BY <2>7 DEF SyncFails, At, Retried
      <3>2. /\ worker[w] # Idle /\ worker'[w] # Idle /\ own \in Nodes
            /\ worker'[w].step = "done" /\ worker'[w].node = own
            /\ \A v \in Workers \ {w} : worker'[v] = worker[v]
        BY <3>1, WorkerSteps
      <3>3. failures' # 0
        BY <3>1, ControllerAssumption DEF TypeOK
      <3>4. CASE n # own
        <4>1. (IsSyncing(n)' <=> IsSyncing(n)) /\ (IsSynced(n)' <=> IsSynced(n))
          BY <3>2, <3>4, OthersSync
        <4> QED
          BY <3>1, <3>3, <3>4, <4>1, SyncUntouched
      <3>5. CASE n = own
        <4>1. IsSyncing(n) /\ ~IsSynced(n)
          BY <3>1, <3>2, <3>5, OwnSync
        <4>2. ~IsSyncing(n)' /\ ~IsSynced(n)'
          BY <3>2, <3>5 DEF WorkerInv, OneWorkerPerNode, IsSyncing, IsSynced
        <4>3. SyncsToBe(n)' <= SyncsToBe(n)
          BY <3>1, <4>1, <4>2, SyncsAreNat DEF SyncsToBe, One
        <4>4. n \notin watched => syncs'[n] = One(IsSynced(n))'
          BY <3>1, <4>1, <4>2 DEF SyncInv, One
        <4> QED
          BY <3>1, <3>3, <4>3, <4>4, SyncMoved, SyncsAreNat
      <3> QED
        BY <3>4, <3>5
    <2>8. ASSUME NEW w \in Workers, RegisterBegin(w) PROVE SyncKept(n)
      <3> DEFINE own == worker[w].node
      <3>1. /\ worker[w].step = "register" /\ worker' = [worker EXCEPT ![w].step = "writing"]
            /\ UNCHANGED <<handling, dirty, delayed, watched, failures, syncs>>
        BY <2>8 DEF RegisterBegin, At, queueVars
      <3>2. /\ worker[w] # Idle /\ worker'[w] # Idle /\ own \in Nodes
            /\ worker'[w].step = "writing" /\ worker'[w].node = own
            /\ \A v \in Workers \ {w} : worker'[v] = worker[v]
        BY <3>1, WorkerSteps
      <3>3. IsSyncing(n)' <=> IsSyncing(n)
        BY <3>1, <3>2 DEF IsSyncing
      <3>4. IsSynced(n)' <=> IsSynced(n)
        BY <3>1, <3>2 DEF IsSynced
      <3> QED
        BY <3>1, <3>3, <3>4, SyncUntouched
    <2>9. ASSUME NEW w \in Workers, RegisterEnd(w) PROVE SyncKept(n)
      <3> DEFINE own == worker[w].node
      <3>1. /\ worker[w].step = "writing" /\ worker' = [worker EXCEPT ![w].step = "done"]
            /\ watched' = watched \cup {own}
            /\ UNCHANGED <<handling, dirty, delayed, failures, syncs>>
        BY <2>9 DEF RegisterEnd, At, queueVars
      <3>2. /\ worker[w] # Idle /\ worker'[w] # Idle /\ own \in Nodes
            /\ worker'[w].step = "done" /\ worker'[w].node = own
            /\ \A v \in Workers \ {w} : worker'[v] = worker[v]
        BY <3>1, WorkerSteps
      <3>3. CASE n # own
        <4>1. (IsSyncing(n)' <=> IsSyncing(n)) /\ (IsSynced(n)' <=> IsSynced(n))
          BY <3>2, <3>3, OthersSync
        <4>2. syncs'[n] = syncs[n] /\ (n \in watched' <=> n \in watched)
          BY <3>1, <3>3 DEF TypeOK
        <4> QED
          BY <3>1, <4>1, <4>2, SyncUntouched
      <3>4. CASE n = own
        <4>1. ~IsSyncing(n) /\ IsSynced(n)
          BY <3>1, <3>2, <3>4, OwnSync
        <4>2. ~IsSyncing(n)'
          BY <3>2, <3>4 DEF WorkerInv, OneWorkerPerNode, IsSyncing
        <4>3. CASE n \in watched
          <5>1. SyncsToBe(n)' <= SyncsToBe(n)
            BY <3>1, <4>1, <4>2, SyncsAreNat DEF SyncsToBe, One
          <5> QED
            BY <3>1, <4>3, <5>1, SyncMoved, SyncsAreNat
        <4>4. CASE n \notin watched
          <5>1. syncs'[n] = 1
            BY <3>1, <4>1, <4>4 DEF SyncInv, One
          <5>2. SyncsToBe(n)' = 1 + One(n \in dirty) + One(handling = n) + One(n \in delayed)
            BY <3>1, <4>2, <5>1 DEF SyncsToBe, One
          <5>3. failures = 0 => n \notin delayed
            BY DEF SyncInv
          <5> QED
            BY <3>1, <3>4, <5>2, <5>3 DEF SyncKept, One
        <4> QED
          BY <4>3, <4>4
      <3> QED
        BY <3>3, <3>4
    <2>10. ASSUME NEW w \in Workers, Done(w) PROVE SyncKept(n)
      <3> DEFINE own == worker[w].node
      <3>1. /\ worker[w].step = "done" /\ worker'[w] = Idle
            /\ \A v \in Workers \ {w} : worker'[v] = worker[v]
            /\ UNCHANGED <<handling, dirty, delayed, watched, failures, syncs>>
        BY <2>10 DEF Done, At, LetGo, TypeOK
      <3>2. IsSyncing(n)' <=> IsSyncing(n)
        BY <3>1 DEF IsSyncing, Idle
      <3>3. IsSynced(n)' <=> IsSynced(n)
        BY <3>1 DEF IsSynced, Idle
      <3> QED
        BY <3>1, <3>2, <3>3, SyncUntouched
    <2> QED
      BY <2>1, <2>2, <2>3, <2>4, <2>5, <2>6, <2>7, <2>8, <2>9, <2>10
      DEF Next, Handler, Work, vars, Change, HandleResync, HandleWatched, HandleCrash,
          queueVars
  <1>3. watched' \subseteq Nodes
    BY DEF TypeOK
  <1> QED
    BY <1>1, <1>2, <1>3 DEF SyncInv, SyncKept

-------------------------------------------------------------------------------
(* The inductive invariant holds in every reachable state. *)
THEOREM Invariance == Spec => []ControllerInv
  <1>1. Init => ControllerInv
    <2> SUFFICES ASSUME Init PROVE ControllerInv
      OBVIOUS
    <2> USE DEF Init
    <2>1. TypeOK
      <3>1. changes \in 0..MaxChanges /\ failures \in 0..MaxFailures
        BY ControllerAssumption
      <3>2. queue \in Seq(Nodes) /\ events \in Seq([kind : Kinds, node : Nodes])
        BY EmptySeq
      <3> QED
        BY <3>1, <3>2 DEF TypeOK
    <2>2. QueueInv
      BY EmptySeq DEF QueueInv
    <2>3. \A w \in Workers : worker[w] = Idle /\ worker[w].step = "idle"
      BY DEF Idle
    <2>4. WorkerInv
      BY <2>3 DEF WorkerInv, OneWorkerPerNode, Busy
    <2>5. SyncInv
      BY <2>3 DEF SyncInv, IsSynced, One
    <2> QED
      BY <2>1, <2>2, <2>4, <2>5 DEF ControllerInv
  <1>2. ControllerInv /\ [Next]_vars => ControllerInv'
    <2> SUFFICES ASSUME ControllerInv, [Next]_vars PROVE ControllerInv'
      OBVIOUS
    <2>1. TypeOK'
      BY TypeInductive DEF ControllerInv
    <2>2. QueueInv' /\ WorkerInv'
      BY QueueInductive, WorkerInductive DEF ControllerInv
    <2>3. SyncInv'
      BY <2>1, <2>2, SyncInductive DEF ControllerInv
    <2> QED
      BY <2>1, <2>2, <2>3 DEF ControllerInv
  <1> QED
    BY <1>1, <1>2, PTL DEF Spec

(* The variables keep their types. *)
THEOREM TypeCorrect == Spec => []TypeOK
  <1>1. ControllerInv => TypeOK
    BY DEF ControllerInv
  <1> QED
    BY <1>1, Invariance, PTL

(* No two of the goroutines that Run starts sync the same node at once:    *)
(* the work queue keeps a node that is taken until it is done with.        *)
THEOREM OneWorker == Spec => []OneWorkerPerNode
  <1>1. ControllerInv => OneWorkerPerNode
    BY DEF ControllerInv, WorkerInv
  <1> QED
    BY <1>1, Invariance, PTL

(* However often a node changes, enqueue's check of watchedNodes lets it   *)
(* be synced three times at most, four when syncs fail.                    *)
THEOREM FewSyncs == Spec => []SyncsBounded
  <1>1. ControllerInv => SyncsBounded
    <2> SUFFICES ASSUME ControllerInv, NEW n \in Nodes
                 PROVE  syncs[n] <= IF failures = 0 THEN 3 ELSE 4
      BY DEF SyncsBounded
    <2>1. syncs[n] \in Nat
      BY DEF ControllerInv, TypeOK
    <2>2. CASE n \notin watched
      <3>1. syncs[n] = One(IsSynced(n))
        BY <2>2 DEF ControllerInv, SyncInv
      <3> QED
        BY <3>1 DEF One
    <2>3. CASE n \in watched
      <3>1. syncs[n] <= SyncsToBe(n) /\ SyncsToBe(n) \in Nat
        BY <2>1 DEF SyncsToBe, One
      <3>2. SyncsToBe(n) <= IF failures = 0 THEN 3 ELSE 4
        BY <2>3 DEF ControllerInv, SyncInv
      <3> QED
        BY <2>1, <3>1, <3>2
    <2> QED
      BY <2>2, <2>3
  <1> QED
    BY <1>1, Invariance, PTL

-------------------------------------------------------------------------------
(* The nodes that wait, wherever they are. *)

Notified(n) == \E i \in DOMAIN events : events[i].node = n /\ events[i].kind # "resync"

IsWaiting(n) == Notified(n) \/ handling = n \/ n \in dirty \cup delayed

LEMMA ElementsHaveNodes ==
    ASSUME NEW s \in Seq([kind : Kinds, node : Nodes]), NEW i \in DOMAIN s
    PROVE  s[i].node \in Nodes
  <1>1. i \in 1..Len(s)
    BY LenProperties
  <1>2. s[i] \in [kind : Kinds, node : Nodes]
    BY <1>1, ElementOfSeq
  <1> QED
    BY <1>2

LEMMA WaitingNodes ==
    ASSUME TypeOK, TypeOK'
    PROVE  /\ \A n \in Nodes : n \in Waiting <=> IsWaiting(n)
           /\ \A n \in Nodes : n \in Waiting' <=> IsWaiting(n)'
           /\ Waiting \subseteq Nodes /\ Waiting' \subseteq Nodes
  <1>1. \A i \in DOMAIN events : events[i].node \in Nodes
    BY ElementsHaveNodes DEF TypeOK
  <1>2. \A i \in DOMAIN events' : events'[i].node \in Nodes
    BY ElementsHaveNodes DEF TypeOK
  <1>3. \A n \in Nodes : n \in Waiting <=> IsWaiting(n)
    BY ControllerAssumption DEF Waiting, IsWaiting, Notified
  <1>4. \A n \in Nodes : n \in Waiting' <=> IsWaiting(n)'
    BY ControllerAssumption DEF Waiting, IsWaiting, Notified
  <1>5. Waiting \subseteq Nodes
    <2>1. handling \in Nodes \cup {NoNode} /\ dirty \subseteq Nodes /\ delayed \subseteq Nodes
      BY DEF TypeOK
    <2> QED
      BY <1>1, <2>1 DEF Waiting
  <1>6. Waiting' \subseteq Nodes
    <2>1. handling' \in Nodes \cup {NoNode} /\ dirty' \subseteq Nodes /\ delayed' \subseteq Nodes
      BY DEF TypeOK
    <2> QED
      BY <1>2, <2>1 DEF Waiting
  <1> QED
    BY <1>3, <1>4, <1>5, <1>6

(* A change notifies the handler of its node, a resync of none. *)
LEMMA ChangeNotified ==
    ASSUME TypeOK, NEW kind \in Kinds, NEW n \in Nodes,
           events' = Append(events, [kind |-> kind, node |-> n])
    PROVE  \A m : Notified(m)' <=> Notified(m) \/ (m = n /\ kind # "resync")
  <1>1. /\ Len(events) \in Nat
        /\ DOMAIN events = 1..Len(events)
        /\ DOMAIN events' = 1..(Len(events) + 1)
        /\ \A i \in DOMAIN events : events'[i] = events[i]
        /\ events'[Len(events) + 1] = [kind |-> kind, node |-> n]
    BY Appended DEF TypeOK
  <1>2. \A i \in DOMAIN events' : i \in DOMAIN events \/ i = Len(events) + 1
    BY <1>1
  <1>3. Len(events) + 1 \in DOMAIN events' /\ DOMAIN events \subseteq DOMAIN events'
    BY <1>1
  <1> QED
    BY <1>1, <1>2, <1>3 DEF Notified

(* Taking a notification leaves the others. *)
LEMMA NotificationTaken ==
    ASSUME TypeOK, events # <<>>, events' = Tail(events)
    PROVE  /\ Head(events).node \in Nodes
           /\ \A m : Notified(m) <=>
                Notified(m)' \/ (m = Head(events).node /\ Head(events).kind # "resync")
  <1>1. /\ Len(events) \in Nat \ {0}
        /\ DOMAIN events = 1..Len(events)
        /\ DOMAIN events' = 1..(Len(events) - 1)
        /\ \A i \in DOMAIN events' : events'[i] = events[i + 1]
        /\ Head(events) = events[1] /\ Head(events) \in [kind : Kinds, node : Nodes]
    BY HeadTaken DEF TypeOK
  <1>2. \A i \in DOMAIN events' : i + 1 \in DOMAIN events
    BY <1>1
  <1>3. \A i \in DOMAIN events : i = 1 \/ (i - 1 \in DOMAIN events' /\ (i - 1) + 1 = i)
    BY <1>1
  <1>4. 1 \in DOMAIN events
    BY <1>1
  <1> QED
    BY <1>1, <1>2, <1>3, <1>4 DEF Notified

(* The queue and its workers do what NodeWatching promises: every step is  *)
(* one of its steps, or changes nothing that it tells of.                  *)
LEMMA StepRefines ==
    ASSUME TypeOK, TypeOK', QueueInv, WorkerInv, WorkerInv', [Next]_vars
    PROVE  [NodesWatching!Next]_NodesWatching!vars
  <1> DEFINE Stutters == UNCHANGED <<present, Waiting, Busy, watched>>
  <1> USE DEF NodesWatching!vars
  <1>1. Busy = processing /\ Busy' = processing'
    BY DEF WorkerInv
  <1>2. ASSUME \A m \in Nodes : IsWaiting(m)' <=> IsWaiting(m)
        PROVE  UNCHANGED Waiting
    BY <1>2, WaitingNodes
  <1>3. ASSUME NEW n \in Nodes, \A m \in Nodes : IsWaiting(m)' <=> IsWaiting(m) \/ m = n
        PROVE  Waiting' = Waiting \cup {n}
    BY <1>3, WaitingNodes
  <1>4. ASSUME NEW kind \in Kinds, NEW n \in Nodes, Change(kind, n)
        PROVE  Stutters \/ NodesWatching!Change(n)
    <2>1. \A m : Notified(m)' <=> Notified(m) \/ (m = n /\ kind # "resync")
      BY <1>4, ChangeNotified DEF Change
    <2>2. UNCHANGED <<handling, dirty, delayed, watched, Busy>>
      BY <1>1, <1>4 DEF Change, queueVars, workerVars
    <2>3. CASE kind = "resync"
      <3>1. UNCHANGED present
        BY <1>4, <2>3 DEF Change
      <3> QED
        BY <1>2, <2>1, <2>2, <2>3, <3>1 DEF IsWaiting
    <2>4. CASE kind # "resync"
      <3>1. Waiting' = Waiting \cup {n}
        BY <1>3, <2>1, <2>2, <2>4 DEF IsWaiting
      <3>2. present' \in {present \cup {n}, present \ {n}}
        BY <1>4, <2>4 DEF Change, Kinds
      <3> QED
        BY <2>2, <3>1, <3>2 DEF NodesWatching!Change
    <2> QED
      BY <2>3, <2>4
  <1>5. CASE HandleResync
    <2>1. /\ events # <<>> /\ events' = Tail(events) /\ Head(events).kind = "resync"
          /\ UNCHANGED <<present, handling, dirty, delayed, watched, Busy>>
      BY <1>1, <1>5 DEF HandleResync, apiVars, queueVars, workerVars
    <2>2. \A m : Notified(m)' <=> Notified(m)
      BY <2>1, NotificationTaken
    <2> QED
      BY <1>2, <2>1, <2>2 DEF IsWaiting
  <1>6. CASE HandleWatched
    <2> DEFINE n == Head(events).node
    <2>1. /\ events # <<>> /\ events' = Tail(events) /\ n \in watched
          /\ UNCHANGED <<present, handling, dirty, delayed, watched, Busy>>
      BY <1>1, <1>6 DEF HandleWatched, apiVars, queueVars, workerVars
    <2>2. n \in Nodes /\ \A m : Notified(m) => Notified(m)' \/ m = n
      BY <2>1, NotificationTaken
    <2>3. \A m : Notified(m)' => Notified(m)
      BY <2>1, NotificationTaken
    <2>4. CASE n \in Waiting'
      <3>1. Waiting' = Waiting
        BY <2>1, <2>2, <2>3, <2>4, WaitingNodes DEF IsWaiting
      <3> QED
        BY <2>1, <3>1
    <2>5. CASE n \notin Waiting'
      <3>1. Waiting' = Waiting \ {n}
        BY <2>1, <2>2, <2>3, <2>5, WaitingNodes DEF IsWaiting
      <3>2. NodesWatching!Skip(n)
        BY <2>1, <3>1 DEF NodesWatching!Skip
      <3> QED
        BY <2>2, <3>2 DEF NodesWatching!Next
    <2> QED
      BY <2>4, <2>5
  <1>7. CASE HandleUnwatched
    <2> DEFINE n == Head(events).node
    <2>1. /\ events # <<>> /\ events' = Tail(events) /\ Head(events).kind # "resync"
          /\ handling = NoNode /\ handling' = n
          /\ UNCHANGED <<present, dirty, delayed, watched, Busy>>
      BY <1>1, <1>7 DEF HandleUnwatched, apiVars, queueVars, workerVars
    <2>2. \A m : Notified(m) <=> Notified(m)' \/ m = n
      BY <2>1, NotificationTaken
    <2>3. \A m \in Nodes : IsWaiting(m)' <=> IsWaiting(m)
      BY <2>1, <2>2, ControllerAssumption DEF IsWaiting
    <2> QED
      BY <1>2, <2>1, <2>3
  <1>8. CASE HandleCrash
    BY <1>1, <1>2, <1>8 DEF HandleCrash, apiVars, queueVars, workerVars, IsWaiting, Notified
  <1>9. CASE Enqueue
    <2>1. /\ handling' = NoNode /\ dirty' = dirty \cup {handling}
          /\ UNCHANGED <<present, events, delayed, watched, Busy>>
      BY <1>1, <1>9 DEF Enqueue, QueueAdd, apiVars, workerVars
    <2>2. \A m \in Nodes : IsWaiting(m)' <=> IsWaiting(m)
      BY <2>1, ControllerAssumption DEF IsWaiting, Notified
    <2> QED
      BY <1>2, <2>1, <2>2
  <1>10. ASSUME NEW w \in Workers, Get(w)
         PROVE  \E n \in Nodes : NodesWatching!TakeUp(n)
    <2> DEFINE n == Head(queue)
    <2>1. /\ queue # <<>> /\ processing' = processing \cup {n} /\ dirty' = dirty \ {n}
          /\ UNCHANGED <<present, events, handling, delayed, watched>>
      BY <1>10 DEF Get, Held, apiVars
    <2>2. n \in dirty \ processing /\ n \in Nodes
      BY <2>1, HeadTaken DEF QueueInv, TypeOK
    <2>3. n \in Waiting
      BY <2>2, WaitingNodes DEF IsWaiting
    <2>4. \A m \in Nodes : m # n => (IsWaiting(m)' <=> IsWaiting(m))
      BY <2>1 DEF IsWaiting, Notified
    <2>5. Waiting' \in {Waiting, Waiting \ {n}}
      BY <2>3, <2>4, WaitingNodes
    <2> QED
      BY <1>1, <2>1, <2>2, <2>3, <2>5 DEF NodesWatching!TakeUp
  <1>11. ASSUME NEW w \in Workers, SyncSucceeds(w) PROVE Stutters
    BY <1>1, <1>2, <1>11 DEF SyncSucceeds, apiVars, queueVars, IsWaiting, Notified
  <1>12. ASSUME NEW w \in Workers, SyncFails(w)
         PROVE  \E n \in Nodes : NodesWatching!Fail(n)
    <2> DEFINE n == worker[w].node
    <2>1. /\ worker[w].step = "syncing" /\ delayed' = delayed \cup {n}
          /\ UNCHANGED <<present, events, handling, dirty, processing, watched>>
      BY <1>12 DEF SyncFails, At, Retried, apiVars
    <2>2. n \in Busy /\ n \in Nodes
      BY <2>1 DEF Busy, Idle, TypeOK
    <2>3. \A m \in Nodes : IsWaiting(m)' <=> IsWaiting(m) \/ m = n
      BY <2>1 DEF IsWaiting, Notified
    <2>4. Waiting' = Waiting \cup {n}
      BY <1>3, <2>2, <2>3
    <2> QED
      BY <1>1, <2>1, <2>2, <2>4 DEF NodesWatching!Fail
  <1>13. ASSUME NEW n \in Nodes, Due(n) PROVE Stutters
    <2>1. /\ n \in delayed /\ delayed' = delayed \ {n} /\ dirty' = dirty \cup {n}
          /\ UNCHANGED <<present, events, handling, watched, Busy>>
      BY <1>1, <1>13 DEF Due, QueueAdd, apiVars, workerVars
    <2>2. \A m \in Nodes : IsWaiting(m)' <=> IsWaiting(m)
      BY <2>1 DEF IsWaiting, Notified
    <2> QED
      BY <1>2, <2>1, <2>2
  <1>14. ASSUME NEW w \in Workers, RegisterBegin(w) PROVE Stutters
    BY <1>1, <1>2, <1>14 DEF RegisterBegin, apiVars, queueVars, IsWaiting, Notified
  <1>15. ASSUME NEW w \in Workers, RegisterEnd(w)
         PROVE  \E n \in Nodes : NodesWatching!Watch(n)
    <2> DEFINE n == worker[w].node
    <2>1. /\ worker[w].step = "writing" /\ watched' = watched \cup {n}
          /\ UNCHANGED <<present, events, handling, dirty, delayed, processing>>
      BY <1>15 DEF RegisterEnd, At, apiVars, queueVars
    <2>2. n \in Busy /\ n \in Nodes
      BY <2>1 DEF Busy, Idle, TypeOK
    <2>3. UNCHANGED Waiting
      BY <1>2, <2>1 DEF IsWaiting, Notified
    <2> QED
      BY <1>1, <2>1, <2>2, <2>3 DEF NodesWatching!Watch
  <1>16. ASSUME NEW w \in Workers, Done(w)
         PROVE  \E n \in Nodes : NodesWatching!LetGo(n)
    <2> DEFINE n == worker[w].node
    <2>1. /\ worker[w].step = "done" /\ processing' = processing \ {n}
          /\ UNCHANGED <<present, events, handling, dirty, delayed, watched>>
      BY <1>16 DEF Done, At, apiVars
    <2>2. n \in Busy /\ n \in Nodes
      BY <2>1 DEF Busy, Idle, TypeOK
    <2>3. UNCHANGED Waiting
      BY <1>2, <2>1 DEF IsWaiting, Notified
    <2>4. n \in watched \cup Waiting
      BY <2>1, <2>2, WaitingNodes DEF WorkerInv, IsWaiting
    <2> QED
      BY <1>1, <2>1, <2>2, <2>3, <2>4 DEF NodesWatching!LetGo
  <1>17. CASE UNCHANGED vars
    BY <1>1, <1>2, <1>17
    DEF vars, apiVars, queueVars, workerVars, IsWaiting, Notified
  <1> QED
    BY <1>4, <1>5, <1>6, <1>7, <1>8, <1>9, <1>10, <1>11, <1>12, <1>13, <1>14, <1>15, <1>16, <1>17
    DEF Next, Handler, Work, NodesWatching!Next

(* The handler, the work queue and the workers implement NodeWatching. *)
THEOREM Refinement == Spec => WatchesNodes
  <1>1. Init => NodesWatching!Init
    <2> SUFFICES ASSUME Init PROVE NodesWatching!Init
      OBVIOUS
    <2>1. Busy = {}
      BY DEF Init, Busy
    <2>2. Waiting = {}
      BY EmptySeq DEF Init, Waiting
    <2> QED
      BY <2>1, <2>2 DEF Init, NodesWatching!Init
  <1>2. ControllerInv /\ ControllerInv' /\ [Next]_vars => [NodesWatching!Next]_NodesWatching!vars
    BY StepRefines DEF ControllerInv
  <1> QED
    BY <1>1, <1>2, Invariance, PTL DEF Spec, WatchesNodes, NodesWatching!Spec

(* A node that is there and not watched waits, or a worker has it: what    *)
(* NodeWatching promises is kept by each of its steps.                     *)
THEOREM NoNodeForgotten == Spec => []NodesAccountedFor
  <1>1. NodesWatching!Init => NodesWatching!NoneForgotten
    BY DEF NodesWatching!Init, NodesWatching!NoneForgotten
  <1>2. NodesWatching!NoneForgotten /\ [NodesWatching!Next]_NodesWatching!vars
        => NodesWatching!NoneForgotten'
    BY DEF NodesWatching!NoneForgotten, NodesWatching!Next, NodesWatching!vars,
           NodesWatching!Change, NodesWatching!Skip, NodesWatching!TakeUp,
           NodesWatching!Watch, NodesWatching!Fail, NodesWatching!LetGo
  <1>3. WatchesNodes => []NodesWatching!NoneForgotten
    BY <1>1, <1>2, PTL DEF WatchesNodes, NodesWatching!Spec
  <1>4. ControllerInv /\ NodesWatching!NoneForgotten => NodesAccountedFor
    <2> SUFFICES ASSUME ControllerInv, NodesWatching!NoneForgotten,
                        NEW n \in present \ watched
                 PROVE  IsWaiting(n) \/ n \in processing
      BY DEF NodesAccountedFor, IsWaiting, Notified
    <2>1. n \in Waiting \/ n \in processing
      BY DEF NodesWatching!NoneForgotten, ControllerInv, WorkerInv
    <2>2. n \in Nodes
      BY DEF ControllerInv, TypeOK
    <2> QED
      BY <2>1, <2>2, ControllerAssumption DEF Waiting, IsWaiting, Notified
  <1> QED
    BY <1>3, <1>4, Invariance, Refinement, PTL
===============================================================================
