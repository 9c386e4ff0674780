----------------------------- MODULE ClusterMetrics -----------------------------
(***************************************************************************)
(* The cluster prober: three informer caches, and the tick that counts the *)
(* nodes by availability, derives the expected number of pods of every     *)
(* addon and probes the cluster's own services (RecordClusterMetrics,      *)
(* clusterWatcher, RecordClusterProbeMetrics).                             *)
(*                                                                         *)
(* Counts are taken by definition here; that the counter's loop computes   *)
(* them is the subject of NodeCounting.                                    *)
(***************************************************************************)
EXTENDS Functions, FiniteSets, Integers

CONSTANTS
    Nodes,          \* names of nodes
    DaemonSets,     \* names of daemon sets of kube-system
    Deployments,    \* names of its deployments
    AddonOf,        \* the addon of each of these
    MaxReplicas,    \* bound: replicas of a deployment
    Services,       \* the services ClusterProbes probes, none if disabled
    Unsynced,       \* what an informer's cache holds before it has synced
    MaxChanges      \* bound: changes of the cluster

(* An addon's kind is part of it, so that no daemon set and deployment     *)
(* share one.                                                              *)
ASSUME ClusterAssumption ==
    /\ DOMAIN AddonOf = DaemonSets \cup Deployments
    /\ \A d \in DaemonSets, e \in Deployments : AddonOf[d] # AddonOf[e]
    /\ IsFiniteSet(Nodes) /\ IsFiniteSet(DaemonSets) /\ IsFiniteSet(Deployments)
    /\ MaxReplicas \in Nat
    /\ MaxChanges \in Nat

VARIABLES
    api,        \* what the API server holds, per resource
    healthy,    \* the services that answer
    changes,    \* changes of the cluster so far
    cache,      \* what the informers hold, per resource
    step,       \* where the tick is
    args,       \* RecordClusterMetrics's arguments
    health,     \* results of the probes run so far
    latest,     \* per series, the last point the monitoring API accepted
    written     \* series written by the last tick

clusterVars == <<api, healthy, changes>>
vars == <<clusterVars, cache, step, args, health, latest, written>>

(* A ready node is unavailable while it is warming or cordoned; one whose  *)
(* Ready condition is False or Unknown is unready; and a node that has just*)
(* joined may not report one at all.                                       *)
NodeStates == {"unreported", "unready", "unavailable", "available"}

(* What nodeAvailability makes of them: without the condition, not ready.  *)
Availabilities == {"unready", "unavailable", "available"}
StatesOf(availability) ==
    IF availability = "unready" THEN {"unreported", "unready"} ELSE {availability}

Partial(S, T) == UNION {[R -> T] : R \in SUBSET S}

(* What the prober looks at: the nodes' states, whether a daemon set is to *)
(* be scheduled at all, the deployments' replicas.                         *)
Objects == [nodes       |-> Partial(Nodes, NodeStates),
            daemonsets  |-> Partial(DaemonSets, BOOLEAN),
            deployments |-> Partial(Deployments, 0..MaxReplicas)]
Resources == DOMAIN Objects

Addons == {AddonOf[d] : d \in DOMAIN AddonOf}
Series == ({"ready"} \X BOOLEAN) \cup ({"node"} \X Availabilities)
          \cup ({"addon"} \X Addons) \cup ({"health"} \X Services)

Steps == {"idle", "daemonsets", "deployments", "condition", "node", "addon", "health"}

(* The types of the variables; published counts are never negative. *)
TypeOK ==
    /\ api \in [nodes : Objects.nodes, daemonsets : Objects.daemonsets,
               deployments : Objects.deployments]
    /\ {cache, args} \subseteq [nodes       : Objects.nodes \cup {Unsynced},
                               daemonsets  : Objects.daemonsets \cup {Unsynced},
                               deployments : Objects.deployments \cup {Unsynced}]
    /\ healthy \subseteq Services
    /\ changes \in 0..MaxChanges
    /\ step \in Steps
    /\ health \in Partial(Services, BOOLEAN)
    /\ DOMAIN latest \subseteq Series
    /\ \A s \in DOMAIN latest : latest[s] \in IF s[1] = "health" THEN BOOLEAN ELSE Nat
    /\ written \subseteq DOMAIN latest

Nothing == [s \in {} |-> 0]

(* f where it is defined, g elsewhere. *)
Over(f, g) == [x \in DOMAIN f \cup DOMAIN g |-> IF x \in DOMAIN f THEN f[x] ELSE g[x]]

NotRead == [nodes |-> Unsynced, daemonsets |-> Unsynced, deployments |-> Unsynced]

Init ==
    /\ api \in [nodes       : [Nodes -> NodeStates],
                daemonsets  : [DaemonSets -> BOOLEAN],
                deployments : [Deployments -> 0..MaxReplicas]]
    /\ healthy \in SUBSET Services
    /\ changes = 0
    /\ cache = NotRead
    /\ step = "idle" /\ args = NotRead /\ health = Nothing
    /\ latest = Nothing /\ written = {}

-------------------------------------------------------------------------------
(* The cluster changes. *)
Change ==
    /\ changes < MaxChanges
    /\ changes' = changes + 1
    /\ \/ /\ \E r \in Resources : \E objects \in Objects[r] : api' = [api EXCEPT ![r] = objects]
          /\ UNCHANGED healthy
       \/ /\ healthy' \in SUBSET Services
          /\ UNCHANGED api
    /\ UNCHANGED <<cache, step, args, health, latest, written>>

(* An informer lists, or its watch catches up. *)
Sync(r) ==
    /\ cache' = [cache EXCEPT ![r] = api[r]]
    /\ UNCHANGED <<clusterVars, step, args, health, latest, written>>

-------------------------------------------------------------------------------
(* A tick reads the three caches one after the other. *)
GetNodes ==
    /\ step = "idle"
    /\ step' = "daemonsets"
    /\ args' = [args EXCEPT !.nodes = cache.nodes]
    /\ written' = {}
    /\ UNCHANGED <<clusterVars, cache, health, latest>>

(* Mutant: what was published is not refreshed. *)
ListedOnce == IF latest = Nothing THEN cache.daemonsets ELSE args.daemonsets

ListedDaemonSets == cache.daemonsets

GetDaemonSets ==
    /\ step = "daemonsets"
    /\ step' = "deployments"
    /\ args' = [args EXCEPT !.daemonsets = ListedDaemonSets]
    /\ UNCHANGED <<clusterVars, cache, health, latest, written>>

(* After RecordClusterMetrics come the cluster probes, if enabled. *)
AfterMetrics == IF Services = {} THEN "idle" ELSE "health"

(* Mutant: one list is enough. *)
AnyListed == \E r \in Resources : args[r] # Unsynced

(* RecordClusterMetrics returns if the node cache has not synced; the      *)
(* other two are not looked at.                                            *)
NodesListed == args.nodes # Unsynced

GetDeployments ==
    /\ step = "deployments"
    /\ step' = IF NodesListed THEN "condition" ELSE AfterMetrics
    /\ args' = [args EXCEPT !.deployments = cache.deployments]
    /\ UNCHANGED <<clusterVars, cache, health, latest, written>>

-------------------------------------------------------------------------------
(* The points computed from the objects listed.  A count of zero makes no  *)
(* point.                                                                  *)

In(o, states) == {n \in DOMAIN o.nodes : o.nodes[n] \in states}

(* Mutant: a node that is not available is not ready. *)
NotReadyStates(b) == IF b THEN {"available"} ELSE {"unready"}

(* conditionStatuses: the nodes that report the Ready condition, by status. *)
ReadyStates(b) == IF b THEN {"unavailable", "available"} ELSE {"unready"}

ConditionPoints(o) ==
    [s \in {<<"ready", b>> : b \in {c \in BOOLEAN : In(o, ReadyStates(c)) # {}}} |->
        Cardinality(In(o, ReadyStates(s[2])))]

(* nodeAvailabilities: all the nodes. *)
NodePoints(o) ==
    [s \in {<<"node", a>> : a \in {b \in Availabilities : In(o, StatesOf(b)) # {}}} |->
        Cardinality(In(o, StatesOf(s[2])))]

(* An unsynced cache is an empty list: what it would hold is missing. *)
Listed(o, r) == IF o[r] = Unsynced THEN Nothing ELSE o[r]
Scheduled(o)  == {d \in DOMAIN Listed(o, "daemonsets") : o.daemonsets[d]}
Replicated(o) == {d \in DOMAIN Listed(o, "deployments") : o.deployments[d] > 0}

(* Mutant: a daemon set of several is counted once. *)
DaemonSetPodsOnce(o, a) == Cardinality(In(o, {"available"}))

(* A pod of every daemon set of the addon on every available node. *)
DaemonSetPods(o, a) ==
    Cardinality(In(o, {"available"})) * Cardinality({d \in Scheduled(o) : AddonOf[d] = a})

DeploymentPods(o, a) ==
    SumFunctionOnSet(o.deployments, {d \in Replicated(o) : AddonOf[d] = a})

AddonPoints(o) ==
    [s \in {<<"addon", AddonOf[d]>> : d \in Scheduled(o) \cup Replicated(o)} |->
        IF \E d \in Scheduled(o) : AddonOf[d] = s[2]
        THEN DaemonSetPods(o, s[2]) ELSE DeploymentPods(o, s[2])]

-------------------------------------------------------------------------------
(* writeTimeSeries of the given points: accepted, or failed and dropped. *)
Record(points) ==
    \/ latest' = Over(points, latest) /\ written' = written \cup DOMAIN points
    \/ UNCHANGED <<latest, written>>

RecordConditions ==
    /\ step = "condition"
    /\ step' = "node"
    /\ Record(ConditionPoints(args))
    /\ UNCHANGED <<clusterVars, cache, args, health>>

RecordAvailabilities ==
    /\ step = "node"
    /\ step' = "addon"
    /\ Record(NodePoints(args))
    /\ UNCHANGED <<clusterVars, cache, args, health>>

RecordAddonCounts ==
    /\ step = "addon"
    /\ step' = AfterMetrics
    /\ Record(AddonPoints(args))
    /\ args' = NotRead
    /\ UNCHANGED <<clusterVars, cache, health>>

(* Each probe asks its service when its turn comes... *)
ProbeService(s) ==
    /\ step = "health" /\ s \in Services \ DOMAIN health
    /\ health' = Over([t \in {s} |-> s \in healthy], health)
    /\ UNCHANGED <<clusterVars, cache, step, args, latest, written>>

(* ... and the results are sent together. *)
RecordHealth ==
    /\ step = "health" /\ DOMAIN health = Services
    /\ step' = "idle"
    /\ Record([s \in {"health"} \X Services |-> health[s[2]]])
    /\ args' = NotRead
    /\ health' = Nothing
    /\ UNCHANGED <<clusterVars, cache>>

Tick == \/ GetNodes \/ GetDaemonSets \/ GetDeployments
        \/ RecordConditions \/ RecordAvailabilities \/ RecordAddonCounts
        \/ (\E s \in Services : ProbeService(s)) \/ RecordHealth

Next == Change \/ (\E r \in Resources : Sync(r)) \/ Tick

Spec == Init /\ [][Next]_vars

(* The watches deliver, ticks go on (ScrapingSurvivesHangs of Watchdog),   *)
(* and each request, made again and again, is accepted some time.          *)
FairSpec ==
    /\ Spec
    /\ \A r \in Resources : WF_vars(Sync(r))
    /\ WF_vars(Tick)
    /\ SF_vars(RecordAvailabilities /\ written' # written)
    /\ SF_vars(RecordAddonCounts /\ written' # written)
    /\ SF_vars(RecordHealth /\ written' # written)

-------------------------------------------------------------------------------
(***************************************************************************)
(* Properties.                                                             *)
(***************************************************************************)

(* The pods expected of an addon, each as a pair. *)
ExpectedPods(a) ==
    {p \in In(args, {"available"}) \X Scheduled(args) : AddonOf[p[2]] = a}
    \cup {p \in Replicated(args) \X (1..MaxReplicas) :
            AddonOf[p[1]] = a /\ p[2] <= args.deployments[p[1]]}

(* What is published as an addon's expected number of pods is the number   *)
(* of pairs of an available node and a scheduled daemon set of the addon,  *)
(* or of replicas, in what the tick has read.                              *)
ExpectedExact ==
    [][RecordAddonCounts => \A a \in Addons : <<"addon", a>> \in written' =>
         latest'[<<"addon", a>>] = Cardinality(ExpectedPods(a))]_vars

Total(kind) == SumFunctionOnSet(latest, {s \in written : s[1] = kind})

(* What the last tick has published of a series, of no node nothing. *)
Published(series) == IF series \in written THEN latest[series] ELSE 0

(* The nodes counted by condition and those counted by availability in one *)
(* tick are the same, unless one of the requests failed: they differ by the*)
(* nodes that do not report whether they are ready (metrics.go:64 and      *)
(* 85-91), and the ready ones of the first are, in the second, those that  *)
(* are available or would be if they were not warming or cordoned.         *)
CountsAgree ==
    step = "addon" /\ Total("ready") > 0 /\ Total("node") > 0 =>
        /\ Total("ready") + Cardinality(In(args, {"unreported"})) = Total("node")
        /\ Published(<<"ready", TRUE>>)
             = Published(<<"node", "unavailable">>) + Published(<<"node", "available">>)

(***************************************************************************)
(* The inductive invariant behind the two.  A tick begins with nothing     *)
(* written; of each kind of series it has written nothing or exactly the   *)
(* points of the objects it has read.                                      *)
(***************************************************************************)
WrittenSoFar ==
    CASE step \in {"daemonsets", "deployments", "condition"} -> written = {}
      [] step = "node"  -> \A s \in written : s[1] = "ready"
      [] step = "addon" -> \A s \in written : s[1] \in {"ready", "node"}
      [] OTHER          -> TRUE

NoneOrAll(points, kind) ==
    LET series == {s \in written : s[1] = kind}
    IN  series # {} => /\ series = DOMAIN points
                       /\ \A s \in series : latest[s] = points[s]

(* The inductive invariant: the node cache has been seen when the nodes    *)
(* are counted, and what is written so far is none or all of each kind.    *)
CountInv ==
    /\ TypeOK
    /\ WrittenSoFar
    /\ step \in {"condition", "node", "addon"} => args.nodes # Unsynced
    /\ step \in {"node", "addon"} => NoneOrAll(ConditionPoints(args), "ready")
    /\ step = "addon" => NoneOrAll(NodePoints(args), "node")

-------------------------------------------------------------------------------
(* What is published is the state of the cluster. *)
Reported ==
    LET truth == Over(Over(NodePoints(api), AddonPoints(api)),
                      [s \in {"health"} \X Services |-> s[2] \in healthy])
    IN \A s \in DOMAIN truth : s \in DOMAIN latest /\ latest[s] = truth[s]

(* When the cluster stops changing, its true counts and the health of its  *)
(* services are published in the end, through caches that lag and sync at  *)
(* different times, probes run while they change and requests that fail.   *)
Converges == <>[]Reported
===============================================================================
