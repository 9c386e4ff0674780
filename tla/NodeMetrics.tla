------------------------------ MODULE NodeMetrics ------------------------------
(***************************************************************************)
(* The node prober: informer caches filled in the background, and the tick *)
(* that reads them, probes the addons and publishes the node's and the     *)
(* addons' availability (RecordNodeMetrics, nodeWatcher, probe.Run).       *)
(*                                                                         *)
(* The two caches are filled and read independently, an addon's probe runs *)
(* long after they are read, and each of the four requests to the          *)
(* monitoring API may fail: its error is dropped.                          *)
(***************************************************************************)
EXTENDS FiniteSets, Naturals

CONSTANTS
    Pods,       \* names of pods of kube-system on this node
    Addons,     \* addons: name, kind and version
    AddonOf,    \* AddonFromPod: the addon of a pod that has one
    Probed,     \* the addons NodeProbes has a probe for
    Unsynced,   \* what an informer's cache holds before it has synced
    Absent,     \* the API server has no such node
    MaxChanges  \* bound: changes of the cluster

ASSUME NodeMetricsAssumption ==
    /\ IsFiniteSet(Pods)
    /\ {"node", "cp"} \cap Addons = {}
    /\ DOMAIN AddonOf \subseteq Pods
    /\ \A p \in DOMAIN AddonOf : AddonOf[p] \in Addons
    /\ Probed \subseteq Addons
    /\ MaxChanges \in Nat

VARIABLES
    apiNode,    \* the node object, without its age
    apiPods,    \* the pods scheduled on the node: are they ready?
    warm,       \* was the node created at least WarmingPeriod ago?
    healthy,    \* the addons a probe finds healthy
    changes,    \* changes of the cluster so far
    ill,        \* history: has anything not been well at any time so far?
    nodeCache,  \* what GetNodes reads
    podCache,   \* what GetPods reads
    step,       \* where the tick is
    nodes,      \* RecordNodeMetrics's argument nodes
    pods,       \* RecordNodeMetrics's argument pods
    available,  \* nodeAvailable
    cpAvailable,\* is the addons' control plane, as far as they are looked at?
    results,    \* the labels computed so far, per addon
    latest,     \* per metric, the last point the monitoring API accepted
    written     \* metrics written by the last tick

clusterVars == <<apiNode, apiPods, warm, healthy, changes, ill>>
cacheVars   == <<nodeCache, podCache>>
tickVars    == <<step, nodes, pods, available, cpAvailable, results>>
vars == <<clusterVars, cacheVars, tickVars, latest, written>>

NodeObject == [ready : BOOLEAN, schedulable : BOOLEAN]

(* The pods present, and whether each is ready. *)
PodList == UNION {[S -> BOOLEAN] : S \in SUBSET Pods}
Result  == [available : BOOLEAN, node_available : BOOLEAN, running : BOOLEAN,
            count : Nat \ {0}]

Metrics == Addons \cup {"node", "cp"}

(* The types of the variables; an addon that is reported has a pod. *)
TypeOK ==
    /\ apiNode \in NodeObject \cup {Absent}
    /\ apiPods \in PodList
    /\ warm \in BOOLEAN
    /\ healthy \subseteq Probed
    /\ changes \in 0..MaxChanges
    /\ ill \in BOOLEAN
    /\ nodeCache \in NodeObject \cup {Absent, Unsynced}
    /\ podCache \in PodList \cup {Unsynced}
    /\ step \in {"idle", "read", "condition", "node", "probe", "cp", "panic"}
    /\ nodes \in NodeObject \cup {Absent, Unsynced}
    /\ pods \in PodList
    /\ available \in BOOLEAN /\ cpAvailable \in BOOLEAN
    /\ DOMAIN results \subseteq Addons
    /\ \A a \in DOMAIN results : results[a] \in Result
    /\ DOMAIN latest \subseteq Metrics
    /\ \A s \in DOMAIN latest : latest[s] \in IF s \in Addons THEN Result ELSE BOOLEAN
    /\ written \subseteq DOMAIN latest

NoPoints == [s \in {} |-> FALSE]

(* The function f, and g where f is not defined. *)
Over(f, g) == [s \in DOMAIN f \cup DOMAIN g |-> IF s \in DOMAIN f THEN f[s] ELSE g[s]]

(* A node and pods that are well: those of addons are ready. *)
WellNode(node) == node # Absent /\ node.ready /\ node.schedulable
WellPods(list) == \A p \in DOMAIN list \cap DOMAIN AddonOf : list[p]

(* The node is available, and every probe would find its addon healthy.    *)
Well == WellNode(apiNode) /\ warm /\ WellPods(apiPods) /\ healthy = Probed

Init ==
    /\ apiNode \in NodeObject
    /\ apiPods \in PodList
    /\ warm \in BOOLEAN
    /\ healthy \in SUBSET Probed
    /\ changes = 0
    /\ ill = ~Well
    /\ nodeCache = Unsynced
    /\ podCache = Unsynced
    /\ step = "idle" /\ nodes = Unsynced /\ pods = NoPoints
    /\ available = FALSE /\ cpAvailable = FALSE /\ results = NoPoints
    /\ latest = NoPoints
    /\ written = {}

-------------------------------------------------------------------------------
(* The cluster changes: the node's conditions and taints, or its deletion; *)
(* the pods; an addon's health.  The node ages.                            *)
Change ==
    /\ changes < MaxChanges
    /\ changes' = changes + 1
    /\ \/ /\ apiNode' \in NodeObject \cup {Absent}
          /\ UNCHANGED <<apiPods, warm, healthy>>
       \/ /\ apiPods' \in PodList
          /\ UNCHANGED <<apiNode, warm, healthy>>
       \/ /\ healthy' \in SUBSET Probed
          /\ UNCHANGED <<apiNode, apiPods, warm>>
       \/ /\ warm' = TRUE
          /\ UNCHANGED <<apiNode, apiPods, healthy>>
    /\ ill' = (ill \/ ~Well')
    /\ UNCHANGED <<cacheVars, tickVars, latest, written>>

(* An informer lists, or its watch catches up. *)
SyncNodes ==
    /\ nodeCache' = apiNode
    /\ UNCHANGED <<clusterVars, podCache, tickVars, latest, written>>

SyncPods ==
    /\ podCache' = apiPods
    /\ UNCHANGED <<clusterVars, nodeCache, tickVars, latest, written>>

-------------------------------------------------------------------------------
(* s.nw.GetNodes(), and only then s.nw.GetPods(), which returns nil and    *)
(* hence no pods as long as its cache has not synced.                      *)
GetNodes ==
    /\ step = "idle"
    /\ step' = "read"
    /\ nodes' = nodeCache
    /\ UNCHANGED <<clusterVars, cacheVars, pods, available, cpAvailable, results, latest, written>>

(* RecordNodeMetrics returns when nodes is nil; it takes nodes[0], which   *)
(* panics when the cache has synced and holds no node.                     *)
GetPods ==
    /\ step = "read"
    /\ pods' = IF Unsynced \in {nodes, podCache} THEN NoPoints ELSE podCache
    /\ step' = CASE nodes = Unsynced -> "idle"
                 [] nodes = Absent   -> "panic"
                 [] OTHER            -> "condition"
    /\ written' = IF nodes = Unsynced THEN written ELSE {}
    /\ UNCHANGED <<clusterVars, cacheVars, nodes, available, cpAvailable, results, latest>>

(* writeTimeSeries of the given points: accepted, or failed and dropped. *)
Accept(points) ==
    /\ latest' = Over(points, latest)
    /\ written' = written \cup DOMAIN points
Drop == UNCHANGED <<latest, written>>

(* The node is judged; the request of its conditions, which carries        *)
(* nothing of that, is followed in TickRequests.                           *)
RecordConditions ==
    /\ step = "condition"
    /\ step' = "node"
    /\ available' = (nodes.ready /\ nodes.schedulable /\ warm)
    /\ nodes' = Unsynced
    /\ UNCHANGED <<clusterVars, cacheVars, pods, cpAvailable, results, latest, written>>

(* The addons' control plane depends on the node. *)
RecordNode ==
    /\ step = "node"
    /\ step' = "probe"
    /\ Accept([s \in {"node"} |-> available]) \/ Drop
    /\ cpAvailable' = available
    /\ UNCHANGED <<clusterVars, cacheVars, nodes, pods, available, results>>

(* podsByAddon: an addon's pods among those read. *)
PodsOf(a) == {p \in DOMAIN pods \cap DOMAIN AddonOf : AddonOf[p] = a}
AddonsRead == {a \in Addons : PodsOf(a) # {}}

(* Mutant: the result of the probe is not used. *)
AvailableUnprobed(a, running) == running

(* Mutant: only an addon that a probe has found healthy is available. *)
AvailableIfProbed(a, running) == running /\ a \in healthy

(* An addon without a probe is "Unknown", which counts as available; a     *)
(* probe that fails is "Error", which does not.                            *)
IsAvailable(a, running) == running /\ (a \in Probed => a \in healthy)

CountPods(a) == Cardinality(PodsOf(a))

(* Mutant: the control plane is what the addon looked at last is. *)
AfterAddonLast(addonAvailable) == addonAvailable

(* cpAvailable after another addon: one that is not available clears it.   *)
AfterAddon(addonAvailable) == IF addonAvailable THEN cpAvailable ELSE FALSE

(* probe.Run on the first pod of the addon, in the cache's order, which is *)
(* arbitrary, as is that of the addons.                                    *)
ProbeAddon(a) ==
    /\ step = "probe" /\ a \in AddonsRead \ DOMAIN results
    /\ \E first \in PodsOf(a) :
         LET addonAvailable == IsAvailable(a, pods[first])
         IN /\ cpAvailable' = AfterAddon(addonAvailable)
            /\ results' = Over([b \in {a} |-> [available      |-> addonAvailable,
                                              node_available |-> available,
                                              running        |-> pods[first],
                                              count          |-> CountPods(a)]], results)
    /\ UNCHANGED <<clusterVars, cacheVars, step, nodes, pods, available, latest, written>>

RecordAddons ==
    /\ step = "probe" /\ DOMAIN results = AddonsRead
    /\ step' = "cp"
    /\ Accept(results) \/ Drop
    /\ UNCHANGED <<clusterVars, cacheVars, nodes, pods, available, cpAvailable, results>>

RecordControlPlane ==
    /\ step = "cp"
    /\ step' = "idle"
    /\ Accept([s \in {"cp"} |-> cpAvailable]) \/ Drop
    /\ nodes' = Unsynced /\ pods' = NoPoints
    /\ available' = FALSE /\ cpAvailable' = FALSE /\ results' = NoPoints
    /\ UNCHANGED <<clusterVars, cacheVars>>

-------------------------------------------------------------------------------
Caches == SyncNodes \/ SyncPods
Tick == \/ GetNodes \/ GetPods \/ RecordConditions \/ RecordNode
        \/ (\E a \in Addons : ProbeAddon(a)) \/ RecordAddons \/ RecordControlPlane

Next == Change \/ Caches \/ Tick

Spec == Init /\ [][Next]_vars

(* The watches deliver, ticks go on (ScrapingSurvivesHangs of Watchdog),   *)
(* and a request that is made again and again is accepted some time.       *)
FairSpec ==
    /\ Spec
    /\ WF_vars(SyncNodes) /\ WF_vars(SyncPods)
    /\ WF_vars(Tick)
    /\ SF_vars(RecordNode /\ "node" \in written')
    /\ SF_vars(RecordControlPlane /\ "cp" \in written')

-------------------------------------------------------------------------------
(***************************************************************************)
(* Properties.                                                             *)
(***************************************************************************)

(* The points accepted from one tick agree, whichever requests failed and  *)
(* in whatever order the addons were looked at: the control plane, added up*)
(* while they are probed (scheduler.go:158-178), is available exactly when *)
(* the node and every addon of the same tick are, and what the addons'     *)
(* points say of the node is what its own says, although the probes run    *)
(* after the node was judged.                                              *)
PointsAgree ==
    [][RecordControlPlane /\ {"node", "cp"} \cup DOMAIN results \subseteq written' =>
         /\ latest'["cp"] <=> latest'["node"]
                              /\ \A a \in DOMAIN results : latest'[a].available
         /\ \A a \in DOMAIN results : latest'[a].node_available = latest'["node"]]_vars

NodeIsAvailable == WellNode(apiNode) /\ warm

AddonsAreAvailable ==
    \A p \in DOMAIN apiPods \cap DOMAIN AddonOf :
        apiPods[p] /\ (AddonOf[p] \in Probed => AddonOf[p] \in healthy)

(* A cluster that has been well throughout, although pods came and went,   *)
(* is never published as unavailable, by a tick whose node, pods and probes*)
(* are of different moments, from caches that lag or have not synced, and  *)
(* with addons whose health is unknown because they have no probe.         *)
NoFalseOutage ==
    ~ill => \A s \in DOMAIN latest :
              IF s \in Addons THEN latest[s].available ELSE latest[s]

Reported ==
    /\ {"node", "cp"} \subseteq DOMAIN latest
    /\ latest["node"] = NodeIsAvailable
    /\ latest["cp"] = (NodeIsAvailable /\ AddonsAreAvailable)

(* When the cluster stops changing, what is published in the end is its    *)
(* true state, through caches that lag, failing requests and half-written  *)
(* ticks, unless the node is deleted.  It is meant of addons with one pod  *)
(* on the node: of several, the first in the cache speaks for all.         *)
Converges == <>[](Reported \/ apiNode = Absent \/ step = "panic")

(* Not having a node is waited for: "nodes is 0, wait until the next       *)
(* scraping cycle" (scheduler.go:124).                                     *)
NodeWaitedFor == step # "panic"

-------------------------------------------------------------------------------
(***************************************************************************)
(* The inductive invariant.                                                *)
(***************************************************************************)

(* What a tick has written is what it has computed; of the addons it has  *)
(* looked at, none of which is forgotten, the control plane is the sum.    *)
TickInv ==
    /\ step = "condition" => nodes \in NodeObject \ {Unsynced}
    /\ step \in {"condition", "node"} => written = {}
    /\ step = "probe" => written \subseteq {"node"}
    /\ step = "cp" => "cp" \notin written
    /\ step \in {"probe", "cp"} /\ "node" \in written => latest["node"] = available
    /\ step = "cp" => \A a \in DOMAIN results \cap written : latest[a] = results[a]
    /\ step \notin {"probe", "cp"} => DOMAIN results = {}
    /\ step \in {"probe", "cp"} =>
         (cpAvailable <=> available /\ \A a \in DOMAIN results : results[a].available)
    /\ \A a \in DOMAIN results : results[a].node_available = available

(* As long as everything has been well, what a cache or a list read from it*)
(* holds is well, however old it is, and the tick finds it well.           *)
WellInv ==
    ~ill =>
        /\ Well
        /\ nodeCache # Unsynced => WellNode(nodeCache)
        /\ nodes # Unsynced => WellNode(nodes)
        /\ podCache # Unsynced => WellPods(podCache)
        /\ WellPods(pods)
        /\ step \in {"node", "probe", "cp"} => available
        /\ \A a \in DOMAIN results : results[a].available

(* The inductive invariant: what a tick has written is what it has found,  *)
(* and while everything is well it finds nothing that is not.              *)
MetricsInv == TypeOK /\ TickInv /\ WellInv /\ NoFalseOutage
===============================================================================
