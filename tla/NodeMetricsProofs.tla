--------------------------- MODULE NodeMetricsProofs ---------------------------
(***************************************************************************)
(* Proofs about NodeMetrics, for every set of pods and addons, whichever   *)
(* of the addons have a probe, and whichever requests fail.                *)
(***************************************************************************)
EXTENDS NodeMetrics, FiniteSetTheorems, TLAPS

(* The addons of the pods that are read, and what is counted of them. *)
LEMMA PodsRead ==
    ASSUME TypeOK, NEW a \in AddonsRead
    PROVE  /\ CountPods(a) \in Nat \ {0}
           /\ \A p \in PodsOf(a) : pods[p] \in BOOLEAN /\ p \in DOMAIN pods \cap DOMAIN AddonOf
  <1>1. PodsOf(a) \subseteq Pods /\ PodsOf(a) # {}
    BY NodeMetricsAssumption DEF PodsOf, AddonsRead
  <1>2. IsFiniteSet(PodsOf(a))
    BY <1>1, NodeMetricsAssumption, FS_Subset
  <1>3. Cardinality(PodsOf(a)) \in Nat /\ Cardinality(PodsOf(a)) # 0
    BY <1>1, <1>2, FS_CardinalityType, FS_EmptySet
  <1>4. PICK S \in SUBSET Pods : pods \in [S -> BOOLEAN]
    BY DEF TypeOK, PodList
  <1> QED
    BY <1>3, <1>4 DEF CountPods, PodsOf

(* The types of the points the monitoring API has taken. *)
LEMMA PointsTyped ==
    ASSUME TypeOK, NEW points, Accept(points) \/ Drop,
           DOMAIN points \subseteq Metrics,
           \A s \in DOMAIN points : points[s] \in IF s \in Addons THEN Result ELSE BOOLEAN
    PROVE  /\ DOMAIN latest' \subseteq Metrics
           /\ \A s \in DOMAIN latest' : latest'[s] \in IF s \in Addons THEN Result ELSE BOOLEAN
           /\ written' \subseteq DOMAIN latest'
  <1>1. CASE Drop
    BY <1>1 DEF Drop, TypeOK
  <1>2. CASE Accept(points)
    <2>1. /\ DOMAIN latest' = DOMAIN points \cup DOMAIN latest
          /\ \A s \in DOMAIN latest' :
               latest'[s] = IF s \in DOMAIN points THEN points[s] ELSE latest[s]
          /\ written' = written \cup DOMAIN points
      BY <1>2 DEF Accept, Over
    <2> QED
      BY <2>1 DEF TypeOK
  <1> QED
    BY <1>1, <1>2

LEMMA EmptyTyped == NoPoints \in PodList /\ DOMAIN NoPoints = {}
  BY DEF NoPoints, PodList

(* What is found of an addon when its pod first is probed. *)
ResultOf(a, first) ==
    [available |-> IsAvailable(a, pods[first]), node_available |-> available,
     running |-> pods[first], count |-> CountPods(a)]

(* The types are kept by every step. *)
LEMMA TypeInductive ==
    ASSUME TypeOK, TickInv, [Next]_vars
    PROVE  TypeOK'
  <1> USE NodeMetricsAssumption DEF TypeOK
  <1>1. CASE Change
    <2>1. changes' \in 0..MaxChanges
      BY <1>1 DEF Change
    <2>2. /\ apiNode' \in NodeObject \cup {Absent} /\ apiPods' \in PodList
          /\ warm' \in BOOLEAN /\ healthy' \subseteq Probed /\ ill' \in BOOLEAN
      BY <1>1 DEF Change, Well, WellNode, WellPods
    <2> QED
      BY <1>1, <2>1, <2>2 DEF Change, cacheVars, tickVars
  <1>2. CASE SyncNodes
    BY <1>2 DEF SyncNodes, clusterVars, tickVars
  <1>3. CASE SyncPods
    BY <1>3 DEF SyncPods, clusterVars, tickVars
  <1>4. CASE GetNodes
    BY <1>4 DEF GetNodes, clusterVars, cacheVars
  <1>5. CASE GetPods
    <2>1. pods' \in PodList
      BY <1>5, EmptyTyped DEF GetPods
    <2>2. written' \subseteq DOMAIN latest /\ UNCHANGED latest
      BY <1>5 DEF GetPods
    <2>3. step' \in {"idle", "panic", "condition"}
      BY <1>5 DEF GetPods
    <2> QED
      BY <1>5, <2>1, <2>2, <2>3 DEF GetPods, clusterVars, cacheVars
  <1>6. CASE RecordConditions
    <2>1. available' \in BOOLEAN
      BY <1>6 DEF RecordConditions, TickInv, NodeObject
    <2> QED
      BY <1>6, <2>1 DEF RecordConditions, clusterVars, cacheVars
  <1>7. CASE RecordNode
    <2> DEFINE points == [s \in {"node"} |-> available]
    <2>1. /\ DOMAIN points \subseteq Metrics
          /\ \A s \in DOMAIN points : points[s] \in IF s \in Addons THEN Result ELSE BOOLEAN
      BY DEF Metrics
    <2>2. Accept(points) \/ Drop
      BY <1>7 DEF RecordNode
    <2> HIDE DEF points
    <2>3. /\ DOMAIN latest' \subseteq Metrics
          /\ \A s \in DOMAIN latest' : latest'[s] \in IF s \in Addons THEN Result ELSE BOOLEAN
          /\ written' \subseteq DOMAIN latest'
      BY <2>1, <2>2, PointsTyped
    <2> QED
      BY <1>7, <2>3 DEF RecordNode, clusterVars, cacheVars
  <1>8. ASSUME NEW a \in Addons, ProbeAddon(a) PROVE TypeOK'
    <2>1. PICK first \in PodsOf(a) :
            /\ cpAvailable' = AfterAddon(IsAvailable(a, pods[first]))
            /\ results' = Over([b \in {a} |-> ResultOf(a, first)], results)
      BY <1>8 DEF ProbeAddon, ResultOf
    <2>2. CountPods(a) \in Nat \ {0} /\ pods[first] \in BOOLEAN
      BY <1>8, PodsRead DEF ProbeAddon
    <2>3. ResultOf(a, first) \in Result
      BY <2>2 DEF ResultOf, Result, IsAvailable
    <2>4. DOMAIN results' \subseteq Addons /\ \A b \in DOMAIN results' : results'[b] \in Result
      BY <2>1, <2>3 DEF Over
    <2>5. cpAvailable' \in BOOLEAN
      BY <2>1 DEF AfterAddon
    <2> QED
      BY <1>8, <2>4, <2>5 DEF ProbeAddon, clusterVars, cacheVars
  <1>9. CASE RecordAddons
    <2>1. /\ DOMAIN results \subseteq Metrics
          /\ \A s \in DOMAIN results : results[s] \in IF s \in Addons THEN Result ELSE BOOLEAN
      BY DEF Metrics
    <2>2. /\ DOMAIN latest' \subseteq Metrics
          /\ \A s \in DOMAIN latest' : latest'[s] \in IF s \in Addons THEN Result ELSE BOOLEAN
          /\ written' \subseteq DOMAIN latest'
      BY <1>9, <2>1, PointsTyped DEF RecordAddons
    <2> QED
      BY <1>9, <2>2 DEF RecordAddons, clusterVars, cacheVars
  <1>10. CASE RecordControlPlane
    <2> DEFINE points == [s \in {"cp"} |-> cpAvailable]
    <2>1. /\ DOMAIN points \subseteq Metrics
          /\ \A s \in DOMAIN points : points[s] \in IF s \in Addons THEN Result ELSE BOOLEAN
      BY DEF Metrics
    <2>2. Accept(points) \/ Drop
      BY <1>10 DEF RecordControlPlane
    <2> HIDE DEF points
    <2>3. /\ DOMAIN latest' \subseteq Metrics
          /\ \A s \in DOMAIN latest' : latest'[s] \in IF s \in Addons THEN Result ELSE BOOLEAN
          /\ written' \subseteq DOMAIN latest'
      BY <2>1, <2>2, PointsTyped
    <2> QED
      BY <1>10, <2>3, EmptyTyped DEF RecordControlPlane, clusterVars, cacheVars
  <1>11. CASE UNCHANGED vars
    BY <1>11 DEF vars, clusterVars, cacheVars, tickVars
  <1> QED
    BY <1>1, <1>2, <1>3, <1>4, <1>5, <1>6, <1>7, <1>8, <1>9, <1>10, <1>11
    DEF Next, Caches, Tick

-------------------------------------------------------------------------------
(* The points of a tick. *)
LEMMA TickInductive ==
    ASSUME TypeOK, TickInv, [Next]_vars
    PROVE  TickInv'
  <1> USE NodeMetricsAssumption DEF TickInv
  <1>1. CASE UNCHANGED <<step, nodes, available, cpAvailable, results, latest, written>>
    BY <1>1
  <1>2. CASE GetNodes
    BY <1>2 DEF GetNodes
  <1>3. CASE GetPods
    <2>1. step' = "condition" => nodes' \in NodeObject \ {Unsynced} /\ written' = {}
      BY <1>3 DEF GetPods, TypeOK
    <2>2. /\ step' \in {"idle", "panic", "condition"} /\ step = "read"
          /\ UNCHANGED <<available, results>>
      BY <1>3 DEF GetPods
    <2> QED
      BY <2>1, <2>2
  <1>4. CASE RecordConditions
    BY <1>4 DEF RecordConditions
  <1>5. CASE RecordNode
    <2>1. /\ step = "node" /\ step' = "probe" /\ cpAvailable' = available
          /\ DOMAIN results = {} /\ UNCHANGED <<available, results>>
      BY <1>5 DEF RecordNode
    <2>2. "node" \in written' => latest'["node"] = available
      BY <1>5 DEF RecordNode, Accept, Drop, Over
    <2>3. written' \subseteq {"node"}
      BY <1>5 DEF RecordNode, Accept, Drop
    <2> QED
      BY <2>1, <2>2, <2>3
  <1>6. ASSUME NEW a \in Addons, ProbeAddon(a) PROVE TickInv'
    <2>1. PICK first \in PodsOf(a) :
            /\ cpAvailable' = AfterAddon(IsAvailable(a, pods[first]))
            /\ results' = Over([b \in {a} |-> ResultOf(a, first)], results)
      BY <1>6 DEF ProbeAddon, ResultOf
    <2>2. /\ step = "probe" /\ a \notin DOMAIN results
          /\ UNCHANGED <<step, nodes, available, latest, written>>
      BY <1>6 DEF ProbeAddon
    <2>3. /\ DOMAIN results' = DOMAIN results \cup {a}
          /\ results'[a] = ResultOf(a, first)
          /\ \A b \in DOMAIN results : results'[b] = results[b]
      BY <2>1, <2>2 DEF Over
    <2>4. /\ results'[a].available = IsAvailable(a, pods[first])
          /\ results'[a].node_available = available
      BY <2>3 DEF ResultOf
    <2>5. cpAvailable' <=> available /\ \A b \in DOMAIN results' : results'[b].available
      BY <2>1, <2>2, <2>3, <2>4 DEF AfterAddon
    <2>6. \A b \in DOMAIN results' : results'[b].node_available = available
      BY <2>3, <2>4
    <2> QED
      BY <2>2, <2>5, <2>6
  <1>7. CASE RecordAddons
    <2>1. /\ step = "probe" /\ step' = "cp" /\ UNCHANGED <<available, cpAvailable, results>>
          /\ Accept(results) \/ Drop
      BY <1>7 DEF RecordAddons
    <2>2. "node" \notin DOMAIN results /\ "cp" \notin DOMAIN results
      BY DEF TypeOK
    <2>3. CASE Drop
      BY <2>1, <2>2, <2>3 DEF Drop
    <2>4. CASE Accept(results)
      <3>1. /\ written' = written \cup DOMAIN results
            /\ \A s \in DOMAIN results : latest'[s] = results[s]
            /\ \A s \in DOMAIN latest \ DOMAIN results : latest'[s] = latest[s]
        BY <2>4 DEF Accept, Over
      <3>2. "node" \in written => latest'["node"] = latest["node"]
        BY <2>2, <3>1 DEF TypeOK
      <3> QED
        BY <2>1, <2>2, <3>1, <3>2
    <2> QED
      BY <2>1, <2>3, <2>4
  <1>8. CASE RecordControlPlane
    BY <1>8, EmptyTyped DEF RecordControlPlane
  <1> QED
    BY <1>1, <1>2, <1>3, <1>4, <1>5, <1>6, <1>7, <1>8
    DEF Next, Change, Caches, SyncNodes, SyncPods, Tick, vars, tickVars

(* A list of pods that is read holds pods that are well if its cache does. *)
LEMMA EmptyIsWell == WellPods(NoPoints)
  BY EmptyTyped DEF WellPods

(* A cluster that has been well is well in the caches, the lists read from *)
(* them and what the tick makes of them.                                   *)
LEMMA WellInductive ==
    ASSUME TypeOK, TickInv, WellInv, [Next]_vars
    PROVE  WellInv'
  <1> SUFFICES ASSUME ~ill'
               PROVE  WellInv'
    BY DEF WellInv
  <1>1. ~ill /\ Well'
    <2>1. CASE Change
      BY <2>1 DEF Change
    <2>2. CASE UNCHANGED clusterVars
      BY <2>2 DEF clusterVars, WellInv, Well
    <2> QED
      BY <2>1, <2>2
      DEF Next, Caches, SyncNodes, SyncPods, Tick, GetNodes, GetPods, RecordConditions,
          RecordNode, ProbeAddon, RecordAddons, RecordControlPlane, vars
  <1>2. /\ Well
        /\ nodeCache # Unsynced => WellNode(nodeCache)
        /\ nodes # Unsynced => WellNode(nodes)
        /\ podCache # Unsynced => WellPods(podCache)
        /\ WellPods(pods)
        /\ step \in {"node", "probe", "cp"} => available
        /\ \A a \in DOMAIN results : results[a].available
    BY <1>1 DEF WellInv
  <1>3. /\ nodeCache' # Unsynced => WellNode(nodeCache')
        /\ podCache' # Unsynced => WellPods(podCache')
    <2>1. CASE SyncNodes
      BY <1>2, <2>1 DEF SyncNodes, Well
    <2>2. CASE SyncPods
      BY <1>2, <2>2 DEF SyncPods, Well
    <2> QED
      BY <1>2, <2>1, <2>2
      DEF Next, Caches, Change, Tick, GetNodes, GetPods, RecordConditions, RecordNode,
          ProbeAddon, RecordAddons, RecordControlPlane, vars, cacheVars
  <1>4. (nodes' # Unsynced => WellNode(nodes')) /\ WellPods(pods')
    <2>1. CASE GetNodes
      BY <1>2, <2>1 DEF GetNodes
    <2>2. CASE GetPods
      BY <1>2, <2>2, EmptyIsWell DEF GetPods
    <2>3. CASE RecordConditions \/ RecordControlPlane
      BY <1>2, <2>3, EmptyIsWell DEF RecordConditions, RecordControlPlane
    <2> QED
      BY <1>2, <2>1, <2>2, <2>3
      DEF Next, Caches, SyncNodes, SyncPods, Change, Tick, RecordNode,
          ProbeAddon, RecordAddons, vars, tickVars
  <1>5. step' \in {"node", "probe", "cp"} => available'
    <2>1. CASE RecordConditions
      BY <1>2, <2>1, NodeMetricsAssumption DEF RecordConditions, TickInv, Well, WellNode
    <2>2. CASE GetNodes \/ GetPods \/ RecordControlPlane
      <3>1. step' \notin {"node", "probe", "cp"}
        BY <2>2 DEF GetNodes, GetPods, RecordControlPlane
      <3> QED
        BY <3>1
    <2> QED
      BY <1>2, <2>1, <2>2
      DEF Next, Caches, SyncNodes, SyncPods, Change, Tick, RecordNode, ProbeAddon, RecordAddons,
          vars, tickVars
  <1>6. \A a \in DOMAIN results' : results'[a].available
    <2>1. ASSUME NEW a \in Addons, ProbeAddon(a)
          PROVE  \A b \in DOMAIN results' : results'[b].available
      <3>1. PICK first \in PodsOf(a) :
              results' = Over([b \in {a} |-> ResultOf(a, first)], results)
        BY <2>1 DEF ProbeAddon, ResultOf
      <3>2. first \in DOMAIN pods \cap DOMAIN AddonOf
        BY DEF PodsOf
      <3>3. pods[first] /\ healthy = Probed
        BY <1>2, <3>2 DEF WellPods, Well
      <3>4. ResultOf(a, first).available
        BY <3>3 DEF IsAvailable, ResultOf
      <3> QED
        BY <1>2, <3>1, <3>4 DEF Over
    <2>2. CASE RecordControlPlane
      BY <2>2, EmptyTyped DEF RecordControlPlane
    <2> QED
      BY <1>2, <2>1, <2>2
      DEF Next, Caches, SyncNodes, SyncPods, Change, Tick, GetNodes, GetPods, RecordConditions,
          RecordNode, RecordAddons, vars, tickVars
  <1> QED
    BY <1>1, <1>3, <1>4, <1>5, <1>6 DEF WellInv

(* Nothing that is published of a cluster that has been well is an outage. *)
LEMMA OutageInductive ==
    ASSUME TypeOK, TickInv, WellInv, NoFalseOutage, [Next]_vars
    PROVE  NoFalseOutage'
  <1> USE NodeMetricsAssumption
  <1> DEFINE Fine(s, v) == IF s \in Addons THEN v.available ELSE v
  <1> SUFFICES ASSUME ~ill', NEW s \in DOMAIN latest'
               PROVE  Fine(s, latest'[s])
    BY DEF NoFalseOutage
  <1>1. ~ill
    BY DEF Next, Caches, Change, SyncNodes, SyncPods, Tick, GetNodes, GetPods, RecordConditions,
           RecordNode, ProbeAddon, RecordAddons, RecordControlPlane, vars, clusterVars
  <1>4. \A t \in DOMAIN latest : Fine(t, latest[t])
    BY <1>1 DEF NoFalseOutage
  <1>5. /\ step \in {"node", "probe", "cp"} => available
        /\ \A a \in DOMAIN results : results[a].available
    BY <1>1 DEF WellInv
  <1>6. ASSUME NEW points, Accept(points) \/ Drop, \A t \in DOMAIN points : Fine(t, points[t])
        PROVE  Fine(s, latest'[s])
    BY <1>4, <1>6 DEF Accept, Drop, Over
  <1>7. CASE RecordNode
    <2> DEFINE points == [t \in {"node"} |-> available]
    <2>1. \A t \in DOMAIN points : Fine(t, points[t])
      BY <1>5, <1>7 DEF RecordNode
    <2>2. Accept(points) \/ Drop
      BY <1>7 DEF RecordNode
    <2> QED
      BY <1>6, <2>1, <2>2
  <1>8. CASE RecordAddons
    <2>1. \A t \in DOMAIN results : Fine(t, results[t])
      BY <1>5 DEF TypeOK
    <2> QED
      BY <1>6, <1>8, <2>1 DEF RecordAddons
  <1>9. CASE RecordControlPlane
    <2> DEFINE points == [t \in {"cp"} |-> cpAvailable]
    <2>1. \A t \in DOMAIN points : Fine(t, points[t])
      BY <1>5, <1>9 DEF RecordControlPlane, TickInv
    <2>2. Accept(points) \/ Drop
      BY <1>9 DEF RecordControlPlane
    <2> QED
      BY <1>6, <2>1, <2>2
  <1>10. CASE UNCHANGED latest
    BY <1>4, <1>10
  <1> QED
    BY <1>7, <1>8, <1>9, <1>10
    DEF Next, Caches, Change, SyncNodes, SyncPods, Tick, GetNodes, GetPods, RecordConditions,
        ProbeAddon, vars

-------------------------------------------------------------------------------
(* The inductive invariant holds in every reachable state. *)
THEOREM Invariance == Spec => []MetricsInv
  <1>1. Init => MetricsInv
    <2> SUFFICES ASSUME Init PROVE MetricsInv
      OBVIOUS
    <2>1. TypeOK
      <3>1. changes \in 0..MaxChanges
        BY NodeMetricsAssumption DEF Init
      <3>2. DOMAIN results = {} /\ DOMAIN latest = {}
        BY EmptyTyped DEF Init
      <3>3. ill \in BOOLEAN
        BY DEF Init
      <3> QED
        BY <3>1, <3>2, <3>3, EmptyTyped DEF Init, TypeOK
    <2>2. TickInv /\ WellInv /\ NoFalseOutage
      BY EmptyTyped, EmptyIsWell DEF Init, TickInv, WellInv, NoFalseOutage
    <2> QED
      BY <2>1, <2>2 DEF MetricsInv
  <1>2. MetricsInv /\ [Next]_vars => MetricsInv'
    BY TypeInductive, TickInductive, WellInductive, OutageInductive DEF MetricsInv
  <1> QED
    BY <1>1, <1>2, PTL DEF Spec

(* The variables keep their types; every addon that is reported has a pod. *)
THEOREM TypeCorrect == Spec => []TypeOK
  <1>1. MetricsInv => TypeOK
    BY DEF MetricsInv
  <1> QED
    BY <1>1, Invariance, PTL

(* However old the lists of a tick are when it probes, and whichever of its*)
(* requests fail, the prober never publishes an outage of a node, an addon *)
(* or the control plane that have been well throughout.                    *)
THEOREM NoOutageInvented == Spec => []NoFalseOutage
  <1>1. MetricsInv => NoFalseOutage
    BY DEF MetricsInv
  <1> QED
    BY <1>1, Invariance, PTL

(* When all requests of a tick are accepted, the control plane, added up   *)
(* addon by addon, is published as available exactly when the node and all *)
(* the addons are, and the addons' points say of the node what its own says*)
THEOREM AgreeingPoints == Spec => PointsAgree
  <1> DEFINE Agree ==
        /\ latest'["cp"] <=> latest'["node"]
                             /\ \A a \in DOMAIN results : latest'[a].available
        /\ \A a \in DOMAIN results : latest'[a].node_available = latest'["node"]
  <1>1. MetricsInv /\ [Next]_vars =>
          [RecordControlPlane /\ {"node", "cp"} \cup DOMAIN results \subseteq written'
             => Agree]_vars
    <2> USE NodeMetricsAssumption
    <2> SUFFICES ASSUME TypeOK, TickInv, RecordControlPlane,
                        {"node", "cp"} \cup DOMAIN results \subseteq written'
                 PROVE  Agree
      BY DEF MetricsInv
    <2>1. "cp" \notin written /\ DOMAIN results \subseteq Addons
      BY DEF RecordControlPlane, TickInv, TypeOK
    <2>2. Accept([s \in {"cp"} |-> cpAvailable])
      BY <2>1 DEF RecordControlPlane, Drop
    <2>3. /\ written' = written \cup {"cp"} /\ latest'["cp"] = cpAvailable
          /\ \A s \in DOMAIN latest \ {"cp"} : latest'[s] = latest[s]
      BY <2>2 DEF Accept, Over
    <2>4. {"node"} \cup DOMAIN results \subseteq written /\ written \subseteq DOMAIN latest
      BY <2>1, <2>3 DEF TypeOK
    <2>5. latest'["node"] = available
      BY <2>3, <2>4 DEF RecordControlPlane, TickInv
    <2>6. \A a \in DOMAIN results : latest'[a] = results[a]
      BY <2>1, <2>3, <2>4 DEF RecordControlPlane, TickInv
    <2> QED
      BY <2>3, <2>5, <2>6 DEF RecordControlPlane, TickInv
  <1> QED
    BY <1>1, Invariance, PTL DEF Spec, PointsAgree
===============================================================================
