-------------------------- MODULE ClusterMetricsProofs --------------------------
(***************************************************************************)
(* Proofs about ClusterMetrics: sums over series are cardinalities, the    *)
(* types, the inductive invariant, and what follows from it for the counts *)
(* a tick publishes.                                                       *)
(***************************************************************************)
EXTENDS ClusterMetrics, FiniteSetTheorems, TLAPS

-------------------------------------------------------------------------------
(* The sum of f over S is the number of pairs of an x of S and one of      *)
(* 1..f[x], which says what the library's fold computes without induction. *)

Pairs(f, S) == UNION {{x} \X (1..f[x]) : x \in S}

IsSum(f, S, h) ==
    h = [s \in SUBSET S |-> IF s = {} THEN 0
                            ELSE f[CHOOSE x \in s : TRUE] + h[s \ {CHOOSE x \in s : TRUE}]]

(* The sum is a choice of one function among those that satisfy the        *)
(* equation of the fold.                                                   *)
LEMMA SumUnfolded ==
    ASSUME NEW f, NEW S
    PROVE  SumFunctionOnSet(f, S) = (CHOOSE h : IsSum(f, S, h))[S]
BY DEF SumFunctionOnSet, FoldFunctionOnSet, MapThenFoldSet, IsSum

(* No two functions satisfy that equation: at a smallest set on which they *)
(* differ, they agree on what is left without its first element.           *)
LEMMA SumUnique ==
    ASSUME NEW f, NEW S, IsFiniteSet(S), NEW g, NEW h, IsSum(f, S, g), IsSum(f, S, h)
    PROVE  g = h
<1> DEFINE Differ == {s \in SUBSET S : g[s] # h[s]}
<1>1. ASSUME Differ # {}
      PROVE  FALSE
    <2>1. IsWellFoundedOn(StrictSubsetOrdering(S), SUBSET S)
        BY FS_StrictSubsetOrderingWellFounded, FS_FiniteSubsetsOfFinite
    <2>2. PICK s \in Differ : \A t \in Differ : <<t, s>> \notin StrictSubsetOrdering(S)
        <3>1. Differ \subseteq SUBSET S
            OBVIOUS
        <3> HIDE DEF Differ
        <3> QED
            BY <1>1, <2>1, <3>1, WFMin
    <2> DEFINE x == CHOOSE y \in s : TRUE
    <2>3. s # {}
        BY DEF IsSum
    <2>4. x \in s
        BY <2>3
    <2>5. /\ s \ {x} \in SUBSET S
          /\ <<s \ {x}, s>> \in StrictSubsetOrdering(S)
        BY <2>4 DEF StrictSubsetOrdering
    <2>6. g[s \ {x}] = h[s \ {x}]
        BY <2>2, <2>5
    <2>7. g[s] = f[x] + g[s \ {x}] /\ h[s] = f[x] + h[s \ {x}]
        BY <2>3 DEF IsSum
    <2> QED
        BY <2>6, <2>7
<1>2. g = [s \in SUBSET S |-> g[s]] /\ h = [s \in SUBSET S |-> h[s]]
    BY DEF IsSum
<1> QED
    BY <1>1, <1>2

(* The pairs of a finite set are finite. *)
LEMMA PairsFinite ==
    ASSUME NEW f, NEW S, IsFiniteSet(S), \A x \in S : f[x] \in Nat
    PROVE  IsFiniteSet(Pairs(f, S))
<1> DEFINE Of == [x \in S |-> {x} \X (1..f[x])]
           All == {{x} \X (1..f[x]) : x \in S}
<1>1. Of \in Surjection(S, All)
    BY DEF Surjection
<1>2. IsFiniteSet(All)
    <2> HIDE DEF Of, All
    <2> QED
        BY <1>1, FS_Surjection
<1>3. \A T \in All : IsFiniteSet(T)
    <2> SUFFICES ASSUME NEW x \in S
                 PROVE  IsFiniteSet({x} \X (1..f[x]))
        OBVIOUS
    <2>1. IsFiniteSet({x})
        BY FS_Singleton
    <2>2. f[x] \in Int /\ 1 \in Int
        OBVIOUS
    <2>3. IsFiniteSet(1..f[x])
        BY <2>2, FS_Interval
    <2> QED
        BY <2>1, <2>3, FS_Product
<1>4. IsFiniteSet(UNION All)
    <2> HIDE DEF All
    <2> QED
        BY <1>2, <1>3, FS_UNION
<1> QED
    BY <1>4 DEF Pairs

(* An element adds as many pairs as its value. *)
LEMMA OneMore ==
    ASSUME NEW f, NEW S, IsFiniteSet(S), NEW x, x \notin S,
           \A y \in S \cup {x} : f[y] \in Nat
    PROVE  Cardinality(Pairs(f, S \cup {x})) = f[x] + Cardinality(Pairs(f, S))
<1> DEFINE A == {x} \X (1..f[x])
           B == Pairs(f, S)
<1>1. IsFiniteSet(A) /\ Cardinality(A) = f[x]
    <2>1. IsFiniteSet({x}) /\ Cardinality({x}) = 1
        BY FS_Singleton
    <2>2. IsFiniteSet(1..f[x]) /\ Cardinality(1..f[x]) = f[x]
        BY FS_Interval
    <2>3. IsFiniteSet(A) /\ Cardinality(A) = 1 * f[x]
        BY <2>1, <2>2, FS_Product
    <2> QED
        BY <2>3
<1>2. IsFiniteSet(B)
    BY PairsFinite
<1>3. A \cap B = {}
    BY DEF Pairs
<1>4. Pairs(f, S \cup {x}) = A \cup B
    BY DEF Pairs
<1>5. Cardinality(A \cup B) = Cardinality(A) + Cardinality(B) - Cardinality(A \cap B)
    <2> HIDE DEF A, B
    <2> QED
        BY <1>1, <1>2, FS_Union
<1>6. Cardinality(B) \in Nat
    BY <1>2, FS_CardinalityType
<1>7. Cardinality(A \cap B) = 0
    BY <1>3, FS_EmptySet
<1>8. f[x] \in Nat
    OBVIOUS
<1>9. Cardinality(A \cup B) = f[x] + Cardinality(B)
    <2> HIDE DEF A, B
    <2> QED
        BY <1>1, <1>5, <1>6, <1>7, <1>8
<1> QED
    BY <1>4, <1>9

(* The sum of the values of a finite set is the number of its pairs.       *)
LEMMA SumCounts ==
    ASSUME NEW f, NEW S, IsFiniteSet(S), \A x \in S : f[x] \in Nat
    PROVE  SumFunctionOnSet(f, S) = Cardinality(Pairs(f, S))
<1> DEFINE h == [s \in SUBSET S |-> Cardinality(Pairs(f, s))]
           V(s) == IF s = {} THEN 0
                   ELSE f[CHOOSE x \in s : TRUE] + h[s \ {CHOOSE x \in s : TRUE}]
<1>1. ASSUME NEW s \in SUBSET S
      PROVE  h[s] = V(s)
    <2>1. CASE s = {}
        BY <2>1, FS_EmptySet DEF Pairs
    <2>2. CASE s # {}
        <3> DEFINE x == CHOOSE y \in s : TRUE
                   rest == s \ {x}
        <3>1. x \in s
            BY <2>2
        <3>2. rest \in SUBSET S /\ s = rest \cup {x} /\ x \notin rest
            BY <3>1
        <3>3. IsFiniteSet(rest)
            BY <3>2, FS_Subset
        <3>4. \A y \in rest \cup {x} : f[y] \in Nat
            BY <3>2
        <3>5. Cardinality(Pairs(f, rest \cup {x})) = f[x] + Cardinality(Pairs(f, rest))
            <4> HIDE DEF rest, x
            <4> QED
                BY <3>2, <3>3, <3>4, OneMore
        <3>6. h[s] = f[x] + h[rest]
            BY <3>2, <3>5
        <3> QED
            BY <2>2, <3>6
    <2> QED
        BY <2>1, <2>2
<1>2. IsSum(f, S, h)
    BY <1>1 DEF IsSum
<1>3. IsSum(f, S, CHOOSE g : IsSum(f, S, g))
    BY <1>2
<1>4. (CHOOSE g : IsSum(f, S, g)) = h
    <2> HIDE DEF h
    <2> QED
        BY <1>2, <1>3, SumUnique
<1> QED
    BY <1>4, SumUnfolded

-------------------------------------------------------------------------------
(* The points computed from what a tick has read have the right types. *)

(* A partial function is a function on some part of the set. *)
LEMMA PartialFunctions ==
    ASSUME NEW S, NEW T, NEW f
    PROVE  f \in Partial(S, T) <=> DOMAIN f \in SUBSET S /\ f \in [DOMAIN f -> T]
BY DEF Partial

(* What an argument of RecordClusterMetrics holds. *)
Arguments ==
    [nodes       : Objects.nodes \cup {Unsynced},
     daemonsets  : Objects.daemonsets \cup {Unsynced},
     deployments : Objects.deployments \cup {Unsynced}]

(* The nodes in some of the states are finitely many. *)
LEMMA NodesFinite ==
    ASSUME NEW o, o.nodes \in Objects.nodes, NEW states
    PROVE  /\ IsFiniteSet(In(o, states)) /\ Cardinality(In(o, states)) \in Nat
           /\ Cardinality(In(o, states)) = 0 <=> In(o, states) = {}
<1>1. DOMAIN o.nodes \in SUBSET Nodes
    BY PartialFunctions DEF Objects
<1>2. In(o, states) \in SUBSET Nodes
    BY <1>1 DEF In
<1>3. IsFiniteSet(In(o, states))
    BY <1>2, ClusterAssumption, FS_Subset
<1> QED
    BY <1>3, FS_CardinalityType, FS_EmptySet

(* Nodes are counted by readiness, with natural numbers... *)
LEMMA ConditionPointsType ==
    ASSUME NEW o, o.nodes \in Objects.nodes
    PROVE  ConditionPoints(o) \in [DOMAIN ConditionPoints(o) -> Nat]
           /\ DOMAIN ConditionPoints(o) \subseteq {"ready"} \X BOOLEAN
BY NodesFinite DEF ConditionPoints

(* ... and by availability. *)
LEMMA NodePointsType ==
    ASSUME NEW o, o.nodes \in Objects.nodes
    PROVE  NodePoints(o) \in [DOMAIN NodePoints(o) -> Nat]
           /\ DOMAIN NodePoints(o) \subseteq {"node"} \X Availabilities
BY NodesFinite DEF NodePoints

(* The daemon sets and deployments that are counted come from the lists,   *)
(* none from a list that has not synced.                                   *)
LEMMA ListedType ==
    ASSUME NEW o \in Arguments
    PROVE  /\ Scheduled(o) \in SUBSET DaemonSets
           /\ Replicated(o) \in SUBSET Deployments
           /\ \A d \in Replicated(o) : o.deployments[d] \in 1..MaxReplicas
<1>1. ASSUME o.daemonsets # Unsynced
      PROVE  Scheduled(o) \in SUBSET DaemonSets
    <2>1. o.daemonsets \in Partial(DaemonSets, BOOLEAN)
        BY <1>1 DEF Arguments, Objects
    <2> QED
        BY <1>1, <2>1, PartialFunctions DEF Scheduled, Listed
<1>2. ASSUME o.deployments # Unsynced
      PROVE  /\ Replicated(o) \in SUBSET Deployments
             /\ \A d \in Replicated(o) : o.deployments[d] \in 1..MaxReplicas
    <2>1. o.deployments \in Partial(Deployments, 0..MaxReplicas)
        BY <1>2 DEF Arguments, Objects
    <2>2. /\ DOMAIN o.deployments \in SUBSET Deployments
          /\ \A d \in DOMAIN o.deployments : o.deployments[d] \in 0..MaxReplicas
        <3> DEFINE T == 0..MaxReplicas
        <3>1. o.deployments \in Partial(Deployments, T)
            BY <2>1
        <3> HIDE DEF T
        <3>2. /\ DOMAIN o.deployments \in SUBSET Deployments
              /\ \A d \in DOMAIN o.deployments : o.deployments[d] \in T
            BY <3>1, PartialFunctions
        <3> QED
            BY <3>2 DEF T
    <2>3. \A d \in Replicated(o) : d \in DOMAIN o.deployments /\ o.deployments[d] > 0
        BY <1>2 DEF Replicated, Listed
    <2>4. Replicated(o) \in SUBSET Deployments
        BY <2>2, <2>3
    <2>5. ASSUME NEW d \in Replicated(o)
          PROVE  o.deployments[d] \in 1..MaxReplicas
        <3>1. o.deployments[d] \in 0..MaxReplicas /\ o.deployments[d] > 0
            BY <2>2, <2>3
        <3>2. MaxReplicas \in Nat
            BY ClusterAssumption
        <3> QED
            BY <3>1, <3>2
    <2> QED
        BY <2>4, <2>5
<1>3. o.daemonsets = Unsynced => Scheduled(o) = {}
    BY DEF Scheduled, Listed, Nothing
<1>4. o.deployments = Unsynced => Replicated(o) = {}
    BY DEF Replicated, Listed, Nothing
<1> QED
    BY <1>1, <1>2, <1>3, <1>4

(* An addon has finitely many of them. *)
LEMMA AddonsFinite ==
    ASSUME NEW o \in Arguments, NEW a
    PROVE  /\ IsFiniteSet({d \in Scheduled(o) : AddonOf[d] = a})
           /\ IsFiniteSet({d \in Replicated(o) : AddonOf[d] = a})
<1>1. /\ {d \in Scheduled(o) : AddonOf[d] = a} \in SUBSET DaemonSets
      /\ {d \in Replicated(o) : AddonOf[d] = a} \in SUBSET Deployments
    BY ListedType
<1> QED
    BY <1>1, ClusterAssumption, FS_Subset

(* The replicas of an addon's deployments, each as a pair. *)
LEMMA DeploymentPodsCounted ==
    ASSUME NEW o \in Arguments, NEW a
    PROVE  DeploymentPods(o, a)
             = Cardinality(Pairs(o.deployments, {d \in Replicated(o) : AddonOf[d] = a}))
           /\ DeploymentPods(o, a) \in Nat
<1> DEFINE D == {d \in Replicated(o) : AddonOf[d] = a}
<1>1. IsFiniteSet(D)
    BY AddonsFinite
<1>2. \A d \in D : o.deployments[d] \in Nat
    BY ListedType, ClusterAssumption
<1>3. SumFunctionOnSet(o.deployments, D) = Cardinality(Pairs(o.deployments, D))
    BY <1>1, <1>2, SumCounts
<1>4. Cardinality(Pairs(o.deployments, D)) \in Nat
    BY <1>1, <1>2, PairsFinite, FS_CardinalityType
<1> QED
    BY <1>3, <1>4 DEF DeploymentPods

(* The expected pods of an addon are a natural number. *)
LEMMA AddonPointsType ==
    ASSUME NEW o \in Arguments, o.nodes \in Objects.nodes
    PROVE  AddonPoints(o) \in [DOMAIN AddonPoints(o) -> Nat]
           /\ DOMAIN AddonPoints(o) \subseteq {"addon"} \X Addons
<1>1. \A a : DeploymentPods(o, a) \in Nat
    BY DeploymentPodsCounted
<1>2. ASSUME NEW a
      PROVE  DaemonSetPods(o, a) \in Nat
    <2>1. Cardinality({d \in Scheduled(o) : AddonOf[d] = a}) \in Nat
        BY AddonsFinite, FS_CardinalityType
    <2>2. Cardinality(In(o, {"available"})) \in Nat
        BY NodesFinite
    <2> QED
        BY <2>1, <2>2 DEF DaemonSetPods
<1>3. Scheduled(o) \cup Replicated(o) \subseteq DOMAIN AddonOf
    BY ListedType, ClusterAssumption
<1>4. DOMAIN AddonPoints(o) \subseteq {"addon"} \X Addons
    BY <1>3 DEF AddonPoints, Addons
<1> QED
    BY <1>1, <1>2, <1>4 DEF AddonPoints

-------------------------------------------------------------------------------
(* Types. *)

(* Points of the given type, accepted or dropped, leave the published      *)
(* ones of their types.                                                    *)
Publishable(points) ==
    /\ DOMAIN points \subseteq Series
    /\ \A s \in DOMAIN points : points[s] \in IF s[1] = "health" THEN BOOLEAN ELSE Nat

LEMMA RecordType ==
    ASSUME NEW points, Publishable(points), Publishable(latest),
           written \subseteq DOMAIN latest, Record(points)
    PROVE  Publishable(latest') /\ written' \subseteq DOMAIN latest'
<1>1. CASE latest' = Over(points, latest) /\ written' = written \cup DOMAIN points
    BY <1>1 DEF Publishable, Over
<1>2. CASE UNCHANGED <<latest, written>>
    BY <1>2 DEF Publishable
<1> QED
    BY <1>1, <1>2 DEF Record

(* What RecordClusterMetrics computes may be published. *)
LEMMA PointsPublishable ==
    ASSUME args \in Arguments, args.nodes \in Objects.nodes
    PROVE  /\ Publishable(ConditionPoints(args))
           /\ Publishable(NodePoints(args))
           /\ Publishable(AddonPoints(args))
<1>1. \A k \in {"ready", "node", "addon"} : k # "health"
    OBVIOUS
<1>2. Publishable(ConditionPoints(args))
    BY ConditionPointsType DEF Publishable, Series
<1>3. Publishable(NodePoints(args))
    BY NodePointsType DEF Publishable, Series
<1>4. Publishable(AddonPoints(args))
    BY AddonPointsType DEF Publishable, Series
<1> QED
    BY <1>2, <1>3, <1>4

(* Nothing is read or written at first. *)
LEMMA CountsBegin == Init => CountInv
<1> SUFFICES ASSUME Init
             PROVE  CountInv
    OBVIOUS
<1>1. api.nodes \in Objects.nodes /\ api.daemonsets \in Objects.daemonsets
      /\ api.deployments \in Objects.deployments
    BY DEF Init, Objects, Partial
<1>2. api \in [nodes : Objects.nodes, daemonsets : Objects.daemonsets,
               deployments : Objects.deployments]
    BY <1>1 DEF Init
<1>3. {cache, args} \subseteq Arguments
    BY DEF Init, NotRead, Arguments
<1>4. healthy \subseteq Services /\ changes \in 0..MaxChanges /\ step \in Steps
    BY ClusterAssumption DEF Init, Steps
<1>5. health \in Partial(Services, BOOLEAN)
    BY PartialFunctions DEF Init, Nothing
<1>6. DOMAIN latest = {} /\ written = {}
    BY DEF Init, Nothing
<1>7. TypeOK
    BY <1>2, <1>3, <1>4, <1>5, <1>6 DEF TypeOK, Arguments
<1>8. step = "idle" /\ WrittenSoFar
    BY DEF Init, WrittenSoFar
<1> QED
    BY <1>7, <1>8 DEF CountInv

(* The types are preserved, given that the node cache has been seen when   *)
(* points are computed from it.                                            *)
LEMMA TypeInductive ==
    ASSUME TypeOK, step \in {"condition", "node", "addon"} => args.nodes # Unsynced,
           [Next]_vars
    PROVE  TypeOK'
<1> DEFINE Ty == /\ api' \in [nodes : Objects.nodes, daemonsets : Objects.daemonsets,
                              deployments : Objects.deployments]
                 /\ {cache', args'} \subseteq Arguments
                 /\ healthy' \subseteq Services
                 /\ changes' \in 0..MaxChanges
                 /\ step' \in Steps
                 /\ health' \in Partial(Services, BOOLEAN)
                 /\ Publishable(latest') /\ written' \subseteq DOMAIN latest'
<1>0. /\ cache \in Arguments /\ args \in Arguments
      /\ Publishable(latest) /\ written \subseteq DOMAIN latest
    BY DEF TypeOK, Publishable, Arguments
<1> USE <1>0
<1> SUFFICES Ty
    BY DEF TypeOK, Publishable, Arguments, Series, Addons
<1>1. CASE Change
    <2>1. changes' \in 0..MaxChanges
        BY <1>1, ClusterAssumption DEF Change, TypeOK
    <2>2. ASSUME NEW r \in Resources, NEW objects \in Objects[r],
                 api' = [api EXCEPT ![r] = objects]
          PROVE  api' \in [nodes : Objects.nodes, daemonsets : Objects.daemonsets,
                           deployments : Objects.deployments]
        <3>1. r \in {"nodes", "daemonsets", "deployments"}
            BY DEF Resources, Objects
        <3> HIDE DEF Objects
        <3> QED
            BY <2>2, <3>1 DEF TypeOK
    <2>3. /\ api' \in [nodes : Objects.nodes, daemonsets : Objects.daemonsets,
                       deployments : Objects.deployments]
          /\ healthy' \subseteq Services
        BY <1>1, <2>2 DEF Change, TypeOK
    <2>4. UNCHANGED <<cache, step, args, health, latest, written>>
        BY <1>1 DEF Change
    <2> QED
        BY <2>1, <2>3, <2>4 DEF TypeOK
<1>2. ASSUME NEW r \in Resources, Sync(r)
      PROVE  Ty
    <2>1. r \in {"nodes", "daemonsets", "deployments"}
        BY DEF Resources, Objects
    <2>2. cache' = [cache EXCEPT ![r] = api[r]]
        BY <1>2 DEF Sync
    <2>3. cache' \in Arguments
        BY <2>1, <2>2 DEF Arguments, TypeOK
    <2>4. UNCHANGED <<api, healthy, changes, step, args, health, latest, written>>
        BY <1>2 DEF Sync, clusterVars
    <2> QED
        BY <2>3, <2>4 DEF TypeOK
<1>3. CASE GetNodes
    <2>1. args' \in Arguments
        BY <1>3 DEF GetNodes, Arguments
    <2> QED
        BY <1>3, <2>1 DEF GetNodes, TypeOK, Steps, clusterVars
<1>4. CASE GetDaemonSets
    <2>1. args' \in Arguments
        BY <1>4 DEF GetDaemonSets, ListedDaemonSets, Arguments
    <2> QED
        BY <1>4, <2>1 DEF GetDaemonSets, TypeOK, Steps, clusterVars
<1>5. CASE GetDeployments
    <2>1. args' \in Arguments
        BY <1>5 DEF GetDeployments, Arguments
    <2> QED
        BY <1>5, <2>1 DEF GetDeployments, NodesListed, AfterMetrics, TypeOK, Steps, clusterVars
<1>6. ASSUME args.nodes # Unsynced
      PROVE  args.nodes \in Objects.nodes
    BY <1>6 DEF Arguments
<1>7. CASE RecordConditions
    <2>1. Publishable(latest') /\ written' \subseteq DOMAIN latest'
        BY <1>6, <1>7, PointsPublishable, RecordType DEF RecordConditions
    <2> QED
        BY <1>7, <2>1 DEF RecordConditions, TypeOK, Steps, clusterVars
<1>8. CASE RecordAvailabilities
    <2>1. Publishable(latest') /\ written' \subseteq DOMAIN latest'
        BY <1>6, <1>8, PointsPublishable, RecordType DEF RecordAvailabilities
    <2> QED
        BY <1>8, <2>1 DEF RecordAvailabilities, TypeOK, Steps, clusterVars
<1>9. CASE RecordAddonCounts
    <2>1. Publishable(latest') /\ written' \subseteq DOMAIN latest'
        BY <1>6, <1>9, PointsPublishable, RecordType DEF RecordAddonCounts
    <2>2. args' \in Arguments
        BY <1>9 DEF RecordAddonCounts, NotRead, Arguments
    <2> QED
        BY <1>9, <2>1, <2>2 DEF RecordAddonCounts, AfterMetrics, TypeOK, Steps, clusterVars
<1>10. ASSUME NEW s \in Services, ProbeService(s)
       PROVE  Ty
    <2>1. health' = Over([t \in {s} |-> s \in healthy], health)
        BY <1>10 DEF ProbeService
    <2>2. /\ DOMAIN health \in SUBSET Services
          /\ \A t \in DOMAIN health : health[t] \in BOOLEAN
        BY PartialFunctions DEF TypeOK
    <2>3. health' \in Partial(Services, BOOLEAN)
        <3> DEFINE b == s \in healthy
                   D == {s} \cup DOMAIN health
        <3>1. b \in BOOLEAN
            OBVIOUS
        <3>2. health' = [t \in D |-> IF t \in {s} THEN [u \in {s} |-> b][t] ELSE health[t]]
            BY <2>1 DEF Over
        <3> HIDE DEF b
        <3>3. health' \in [D -> BOOLEAN] /\ DOMAIN health' = D
            BY <2>2, <3>1, <3>2
        <3> QED
            BY <2>2, <3>3, PartialFunctions
    <2> QED
        BY <1>10, <2>3 DEF ProbeService, TypeOK, clusterVars
<1>11. CASE RecordHealth
    <2> DEFINE points == [s \in {"health"} \X Services |-> health[s[2]]]
    <2>1. DOMAIN health = Services /\ \A t \in Services : health[t] \in BOOLEAN
        BY <1>11, PartialFunctions DEF RecordHealth, TypeOK
    <2>2. Publishable(points)
        BY <2>1 DEF Publishable, Series
    <2>3. Publishable(latest') /\ written' \subseteq DOMAIN latest'
        BY <1>11, <2>2, RecordType DEF RecordHealth
    <2>4. args' \in Arguments
        BY <1>11 DEF RecordHealth, NotRead, Arguments
    <2>5. health' \in Partial(Services, BOOLEAN)
        BY <1>11, PartialFunctions DEF RecordHealth, Nothing
    <2> QED
        BY <1>11, <2>3, <2>4, <2>5 DEF RecordHealth, TypeOK, Steps, clusterVars
<1>12. CASE UNCHANGED vars
    BY <1>12 DEF vars, clusterVars, TypeOK
<1> QED
    BY <1>1, <1>2, <1>3, <1>4, <1>5, <1>7, <1>8, <1>9, <1>10, <1>11, <1>12 DEF Next, Tick

-------------------------------------------------------------------------------
(* The invariant. *)

(* NoneOrAll of given series and published points. *)
Whole(points, kind, series, published) ==
    LET mine == {s \in series : s[1] = kind}
    IN  mine # {} => mine = DOMAIN points /\ \A s \in mine : published[s] = points[s]

(* It is, before a step and after. *)
LEMMA WholeIsNoneOrAll ==
    ASSUME NEW kind
    PROVE  /\ NoneOrAll(ConditionPoints(args), kind)
                 <=> Whole(ConditionPoints(args), kind, written, latest)
           /\ NoneOrAll(ConditionPoints(args), kind)'
                 <=> Whole(ConditionPoints(args'), kind, written', latest')
           /\ NoneOrAll(NodePoints(args), kind)
                 <=> Whole(NodePoints(args), kind, written, latest)
           /\ NoneOrAll(NodePoints(args), kind)'
                 <=> Whole(NodePoints(args'), kind, written', latest')
BY DEF NoneOrAll, Whole

(* A request writes none or all of its kind, when none was written, and    *)
(* leaves the other kinds as they are.                                     *)
LEMMA RecordWhole ==
    ASSUME NEW points, NEW kind, \A s \in DOMAIN points : s[1] = kind,
           \A s \in written : s[1] # kind, written \subseteq DOMAIN latest, Record(points)
    PROVE  /\ Whole(points, kind, written', latest')
           /\ \A s \in written' : s \in written \/ s[1] = kind
           /\ \A others, other : other # kind /\ Whole(others, other, written, latest)
                                 => Whole(others, other, written', latest')
<1>1. CASE latest' = Over(points, latest) /\ written' = written \cup DOMAIN points
    <2>1. {s \in written' : s[1] = kind} = DOMAIN points
        BY <1>1
    <2>2. \A s \in DOMAIN points : latest'[s] = points[s]
        BY <1>1 DEF Over
    <2>3. ASSUME NEW other, NEW others, other # kind,
                 Whole(others, other, written, latest)
          PROVE  Whole(others, other, written', latest')
        <3>1. {s \in written' : s[1] = other} = {s \in written : s[1] = other}
            BY <1>1, <2>3
        <3>2. \A s \in {t \in written : t[1] = other} : latest'[s] = latest[s]
            BY <1>1, <2>3 DEF Over
        <3> QED
            BY <2>3, <3>1, <3>2 DEF Whole
    <2>4. Whole(points, kind, written', latest')
        BY <2>1, <2>2 DEF Whole
    <2>5. \A s \in written' : s \in written \/ s[1] = kind
        BY <1>1
    <2> QED
        BY <2>3, <2>4, <2>5
<1>2. CASE UNCHANGED <<latest, written>>
    BY <1>2 DEF Whole
<1> QED
    BY <1>1, <1>2 DEF Record

(* Every step preserves the invariant. *)
LEMMA CountInductive == CountInv /\ [Next]_vars => CountInv'
<1> SUFFICES ASSUME CountInv, [Next]_vars
             PROVE  CountInv'
    OBVIOUS
<1>1. TypeOK'
    BY TypeInductive DEF CountInv
<1> DEFINE Rest == /\ WrittenSoFar
                   /\ step \in {"condition", "node", "addon"} => args.nodes # Unsynced
                   /\ step \in {"node", "addon"} => NoneOrAll(ConditionPoints(args), "ready")
                   /\ step = "addon" => NoneOrAll(NodePoints(args), "node")
<1>2. Rest /\ TypeOK
    BY DEF CountInv
<1> SUFFICES Rest'
    BY <1>1 DEF CountInv
<1>3. CASE UNCHANGED <<step, args, latest, written>>
    <2>1. WrittenSoFar'
        BY <1>2, <1>3 DEF WrittenSoFar
    <2>2. step' \in {"node", "addon"} => NoneOrAll(ConditionPoints(args), "ready")'
        BY <1>2, <1>3, WholeIsNoneOrAll
    <2>3. step' = "addon" => NoneOrAll(NodePoints(args), "node")'
        BY <1>2, <1>3, WholeIsNoneOrAll
    <2> QED
        BY <1>2, <1>3, <2>1, <2>2, <2>3
<1>4. Change => UNCHANGED <<step, args, latest, written>>
    BY DEF Change
<1>5. ASSUME NEW r \in Resources, Sync(r)
      PROVE  UNCHANGED <<step, args, latest, written>>
    BY <1>5 DEF Sync
<1>6. CASE GetNodes
    BY <1>6 DEF GetNodes, WrittenSoFar
<1>7. CASE GetDaemonSets
    BY <1>2, <1>7 DEF GetDaemonSets, WrittenSoFar
<1>8. CASE GetDeployments
    <2>1. args'.nodes = args.nodes
        BY <1>2, <1>8 DEF GetDeployments, TypeOK
    <2>2. written' = written /\ written = {}
        BY <1>2, <1>8 DEF GetDeployments, WrittenSoFar
    <2>3. CASE args.nodes = Unsynced
        BY <1>8, <2>3 DEF GetDeployments, NodesListed, AfterMetrics, WrittenSoFar
    <2>4. CASE args.nodes # Unsynced
        BY <1>8, <2>1, <2>2, <2>4 DEF GetDeployments, NodesListed, WrittenSoFar
    <2> QED
        BY <2>3, <2>4
<1>9. CASE RecordConditions
    <2>1. args' = args /\ step' = "node" /\ args.nodes # Unsynced /\ written = {}
        BY <1>2, <1>9 DEF RecordConditions, WrittenSoFar
    <2>2. \A s \in DOMAIN ConditionPoints(args) : s[1] = "ready"
        BY DEF ConditionPoints
    <2>3. Record(ConditionPoints(args)) /\ written \subseteq DOMAIN latest
        BY <1>2, <1>9 DEF RecordConditions, TypeOK
    <2>4. /\ Whole(ConditionPoints(args), "ready", written', latest')
          /\ \A s \in written' : s[1] = "ready"
        BY <2>1, <2>2, <2>3, RecordWhole
    <2>5. NoneOrAll(ConditionPoints(args), "ready")'
        BY <2>1, <2>4, WholeIsNoneOrAll
    <2> QED
        BY <2>1, <2>4, <2>5 DEF WrittenSoFar
<1>10. CASE RecordAvailabilities
    <2>1. /\ args' = args /\ step' = "addon" /\ args.nodes # Unsynced
          /\ \A s \in written : s[1] = "ready"
          /\ NoneOrAll(ConditionPoints(args), "ready")
        BY <1>2, <1>10 DEF RecordAvailabilities, WrittenSoFar
    <2>2. \A s \in DOMAIN NodePoints(args) : s[1] = "node"
        BY DEF NodePoints
    <2>3. Record(NodePoints(args)) /\ written \subseteq DOMAIN latest
        BY <1>2, <1>10 DEF RecordAvailabilities, TypeOK
    <2>4. \A s \in written : s[1] # "node"
        BY <2>1
    <2>5. Whole(ConditionPoints(args), "ready", written, latest)
        BY <2>1, WholeIsNoneOrAll
    <2>6. /\ Whole(NodePoints(args), "node", written', latest')
          /\ \A s \in written' : s \in written \/ s[1] = "node"
          /\ Whole(ConditionPoints(args), "ready", written', latest')
        <3>1. "ready" # "node"
            OBVIOUS
        <3> QED
            BY <2>2, <2>3, <2>4, <2>5, <3>1, RecordWhole
    <2>7. /\ NoneOrAll(ConditionPoints(args), "ready")'
          /\ NoneOrAll(NodePoints(args), "node")'
        BY <2>1, <2>6, WholeIsNoneOrAll
    <2> QED
        BY <2>1, <2>6, <2>7 DEF WrittenSoFar
<1>11. CASE RecordAddonCounts
    BY <1>11 DEF RecordAddonCounts, AfterMetrics, WrittenSoFar
<1>12. ASSUME NEW s \in Services, ProbeService(s)
       PROVE  UNCHANGED <<step, args, latest, written>>
    BY <1>12 DEF ProbeService
<1>13. CASE RecordHealth
    BY <1>13 DEF RecordHealth, WrittenSoFar
<1>14. UNCHANGED vars => UNCHANGED <<step, args, latest, written>>
    BY DEF vars
<1> QED
    BY <1>3, <1>4, <1>5, <1>6, <1>7, <1>8, <1>9, <1>10, <1>11, <1>12, <1>13, <1>14
       DEF Next, Tick

(* A tick's writes are, kind by kind, nothing or exactly the points of the *)
(* one list of nodes it has read (RecordClusterMetrics).                   *)
THEOREM Invariance == Spec => []CountInv
BY CountsBegin, CountInductive, PTL DEF Spec

(* The types of the variables, and that no published count is negative.    *)
THEOREM TypeCorrect == Spec => []TypeOK
<1>1. CountInv => TypeOK
    BY DEF CountInv
<1> QED
    BY <1>1, Invariance, PTL

-------------------------------------------------------------------------------
(* Totals. *)

(* Two values, added up. *)
LEMMA SumOfTwo ==
    ASSUME NEW f, NEW a, NEW b, a # b, f[a] \in Nat, f[b] \in Nat
    PROVE  Cardinality(Pairs(f, {a, b})) = f[a] + f[b]
<1>1. Pairs(f, {}) = {} /\ Cardinality(Pairs(f, {})) = 0
    BY FS_EmptySet DEF Pairs
<1>2. IsFiniteSet({}) /\ IsFiniteSet({a})
    BY FS_EmptySet, FS_Singleton
<1>3. Cardinality(Pairs(f, {} \cup {a})) = f[a] + Cardinality(Pairs(f, {}))
    BY <1>2, OneMore
<1>4. Cardinality(Pairs(f, {a} \cup {b})) = f[b] + Cardinality(Pairs(f, {a}))
    BY <1>2, OneMore
<1>5. {} \cup {a} = {a} /\ {a} \cup {b} = {a, b}
    OBVIOUS
<1>6. Cardinality(Pairs(f, {a})) = f[a] + 0
    BY <1>1, <1>3, <1>5
<1>7. Cardinality(Pairs(f, {a, b})) = f[b] + Cardinality(Pairs(f, {a}))
    BY <1>4, <1>5
<1> QED
    BY <1>6, <1>7

(* Every node is in one of the states. *)
LEMMA NodesByState ==
    ASSUME NEW o, o.nodes \in Objects.nodes
    PROVE  LET count(states) == Cardinality(In(o, states))
           IN  /\ count({"unavailable", "available"})
                    = count({"unavailable"}) + count({"available"})
               /\ count({"unreported", "unready"})
                    = count({"unreported"}) + count({"unready"})
               /\ Cardinality(DOMAIN o.nodes)
                    = count({"unreported", "unready"}) + count({"unavailable", "available"})
<1> DEFINE N == In(o, {"unreported"})
           U == In(o, {"unready"})
           W == In(o, {"unavailable"})
           A == In(o, {"available"})
           V == In(o, {"unreported", "unready"})
           R == In(o, {"unavailable", "available"})
<1>1. \A n \in DOMAIN o.nodes : o.nodes[n] \in NodeStates
    BY PartialFunctions DEF Objects
<1>2. ASSUME NEW S, NEW T
      PROVE  /\ Cardinality(In(o, S)) \in Nat
             /\ S \cap T = {} => Cardinality(In(o, S \cup T))
                                  = Cardinality(In(o, S)) + Cardinality(In(o, T))
    <2>1. /\ IsFiniteSet(In(o, S)) /\ IsFiniteSet(In(o, T))
          /\ Cardinality(In(o, S)) \in Nat /\ Cardinality(In(o, T)) \in Nat
        BY NodesFinite
    <2>2. In(o, S \cup T) = In(o, S) \cup In(o, T)
        BY DEF In
    <2>3. S \cap T = {} => In(o, S) \cap In(o, T) = {}
        BY DEF In
    <2>4. Cardinality({}) = 0
        BY FS_EmptySet
    <2>5. Cardinality(In(o, S) \cup In(o, T))
            = Cardinality(In(o, S)) + Cardinality(In(o, T)) - Cardinality(In(o, S) \cap In(o, T))
        BY <2>1, FS_Union
    <2>6. ASSUME S \cap T = {}
          PROVE  Cardinality(In(o, S \cup T)) = Cardinality(In(o, S)) + Cardinality(In(o, T))
        <3> DEFINE X == In(o, S)
                   Y == In(o, T)
        <3>1. Cardinality(X \cap Y) = 0
            BY <2>3, <2>4, <2>6
        <3>2. /\ Cardinality(X \cup Y) = Cardinality(X) + Cardinality(Y) - Cardinality(X \cap Y)
              /\ Cardinality(X) \in Nat /\ Cardinality(Y) \in Nat
            BY <2>1, <2>5
        <3>3. Cardinality(X \cup Y) = Cardinality(X) + Cardinality(Y)
            <4> HIDE DEF X, Y
            <4> QED
                BY <3>1, <3>2
        <3> QED
            BY <2>2, <3>3
    <2> QED
        BY <2>1, <2>6
<1>3. Cardinality(R) = Cardinality(W) + Cardinality(A)
    <2>1. {"unavailable", "available"} = {"unavailable"} \cup {"available"}
        OBVIOUS
    <2> QED
        BY <1>2, <2>1
<1>4. Cardinality(V) = Cardinality(N) + Cardinality(U)
    <2>1. {"unreported", "unready"} = {"unreported"} \cup {"unready"}
        OBVIOUS
    <2> QED
        BY <1>2, <2>1
<1>5. Cardinality(DOMAIN o.nodes) = Cardinality(V) + Cardinality(R)
    <2>1. DOMAIN o.nodes
            = In(o, {"unreported", "unready"} \cup {"unavailable", "available"})
        BY <1>1 DEF In, NodeStates
    <2> QED
        BY <1>2, <2>1
<1> QED
    BY <1>3, <1>4, <1>5

(* The points by condition add up to the nodes that report the condition.  *)
LEMMA ConditionTotal ==
    ASSUME NEW o, o.nodes \in Objects.nodes
    PROVE  Cardinality(Pairs(ConditionPoints(o), DOMAIN ConditionPoints(o)))
             + Cardinality(In(o, {"unreported"})) = Cardinality(DOMAIN o.nodes)
<1> DEFINE T == <<"ready", TRUE>>
           F == <<"ready", FALSE>>
           f == [s \in {T, F} |-> Cardinality(In(o, ReadyStates(s[2])))]
<1>1. /\ f[T] = Cardinality(In(o, {"unavailable", "available"}))
      /\ f[F] = Cardinality(In(o, {"unready"}))
    BY DEF ReadyStates
<1>2. T # F
    OBVIOUS
<1>3. f[T] \in Nat /\ f[F] \in Nat
    BY <1>1, NodesFinite
<1>4. Cardinality(Pairs(f, {T, F})) = f[T] + f[F]
    <2> HIDE DEF f, T, F
    <2> QED
        BY <1>2, <1>3, SumOfTwo
<1>5. Pairs(ConditionPoints(o), DOMAIN ConditionPoints(o)) = Pairs(f, {T, F})
    <2>1. DOMAIN ConditionPoints(o) \subseteq {T, F}
        BY DEF ConditionPoints
    <2>2. \A s \in DOMAIN ConditionPoints(o) : ConditionPoints(o)[s] = f[s]
        BY <2>1 DEF ConditionPoints
    <2>3. \A s \in {T, F} \ DOMAIN ConditionPoints(o) : f[s] = 0
        <3>1. ASSUME NEW b \in BOOLEAN, <<"ready", b>> \notin DOMAIN ConditionPoints(o)
              PROVE  In(o, ReadyStates(b)) = {}
            BY <3>1 DEF ConditionPoints
        <3>2. Cardinality({}) = 0
            BY FS_EmptySet
        <3>3. ASSUME NEW s \in {T, F}, s \notin DOMAIN ConditionPoints(o)
              PROVE  f[s] = 0
            <4>1. PICK b \in BOOLEAN : s = <<"ready", b>>
                OBVIOUS
            <4>2. f[s] = Cardinality(In(o, ReadyStates(b)))
                BY <4>1
            <4> QED
                BY <3>1, <3>2, <3>3, <4>1, <4>2
        <3> QED
            BY <3>3
    <2> HIDE DEF f, T, F
    <2>4. \A s \in {T, F} \ DOMAIN ConditionPoints(o) : 1..f[s] = {}
        BY <2>3
    <2> QED
        BY <2>1, <2>2, <2>4 DEF Pairs
<1> QED
    BY <1>1, <1>3, <1>4, <1>5, NodesByState, NodesFinite

(* The points by availability add up to the number of nodes. *)
LEMMA NodeTotal ==
    ASSUME NEW o, o.nodes \in Objects.nodes
    PROVE  Cardinality(Pairs(NodePoints(o), DOMAIN NodePoints(o)))
             = Cardinality(DOMAIN o.nodes)
<1> DEFINE U == <<"node", "unready">>
           W == <<"node", "unavailable">>
           A == <<"node", "available">>
           S == {U, W, A}
           f == [s \in S |-> Cardinality(In(o, StatesOf(s[2])))]
<1>1. /\ f[U] = Cardinality(In(o, {"unreported", "unready"}))
      /\ f[W] = Cardinality(In(o, {"unavailable"}))
      /\ f[A] = Cardinality(In(o, {"available"}))
    BY DEF StatesOf
<1>2. U # W /\ A # U /\ A # W
    OBVIOUS
<1>3. f[U] \in Nat /\ f[W] \in Nat /\ f[A] \in Nat
    BY <1>1, NodesFinite
<1>4. Cardinality(Pairs(f, S)) = f[U] + f[W] + f[A]
    <2>1. S = {U, W} \cup {A} /\ {U, W} = {U} \cup {W}
        OBVIOUS
    <2>2. A \notin {U, W} /\ \A s \in {U, W} \cup {A} : f[s] \in Nat
        BY <1>2, <1>3
    <2> HIDE DEF f, U, W, A, S
    <2>3. IsFiniteSet({U, W})
        <3>1. IsFiniteSet({U})
            BY FS_Singleton
        <3> QED
            BY <2>1, <3>1, FS_AddElement
    <2>4. Cardinality(Pairs(f, {U, W})) = f[U] + f[W]
        BY <1>2, <1>3, SumOfTwo
    <2>5. Cardinality(Pairs(f, {U, W} \cup {A})) = f[A] + Cardinality(Pairs(f, {U, W}))
        BY <2>2, <2>3, OneMore
    <2>6. Cardinality(Pairs(f, S)) = f[A] + (f[U] + f[W])
        BY <2>1, <2>4, <2>5
    <2> QED
        BY <1>3, <2>6
<1>5. Pairs(NodePoints(o), DOMAIN NodePoints(o)) = Pairs(f, S)
    <2>2. DOMAIN NodePoints(o) \subseteq S
        BY DEF NodePoints, Availabilities
    <2>3. \A s \in DOMAIN NodePoints(o) : NodePoints(o)[s] = f[s]
        BY <2>2 DEF NodePoints
    <2>4. \A s \in S \ DOMAIN NodePoints(o) : f[s] = 0
        <3>1. ASSUME NEW c \in Availabilities, <<"node", c>> \notin DOMAIN NodePoints(o)
              PROVE  In(o, StatesOf(c)) = {}
            BY <3>1 DEF NodePoints
        <3>2. ASSUME NEW s \in S, s \notin DOMAIN NodePoints(o)
              PROVE  f[s] = 0
            <4>1. PICK c \in Availabilities : s = <<"node", c>>
                BY DEF Availabilities
            <4>2. f[s] = Cardinality(In(o, StatesOf(c)))
                BY <4>1
            <4> QED
                BY <3>1, <3>2, <4>1, <4>2, FS_EmptySet
        <3> QED
            BY <3>2
    <2> HIDE DEF f, U, W, A, S
    <2>5. \A s \in S \ DOMAIN NodePoints(o) : 1..f[s] = {}
        BY <2>4
    <2> QED
        BY <2>2, <2>3, <2>5 DEF Pairs
<1> QED
    BY <1>1, <1>3, <1>4, <1>5, NodesByState, NodesFinite

(* What a tick has written of a kind, if anything, is all of its points. *)
LEMMA WrittenAll ==
    ASSUME NEW points, NEW kind, NoneOrAll(points, kind), Total(kind) > 0
    PROVE  /\ {s \in written : s[1] = kind} = DOMAIN points
           /\ \A s \in DOMAIN points : latest[s] = points[s]
<1>1. ASSUME {s \in written : s[1] = kind} = {}
      PROVE  FALSE
    <2>1. SumFunctionOnSet(latest, {}) = Cardinality(Pairs(latest, {}))
        BY FS_EmptySet, SumCounts
    <2>2. Pairs(latest, {}) = {}
        BY DEF Pairs
    <2>3. Cardinality({}) = 0
        BY FS_EmptySet
    <2>4. Total(kind) = SumFunctionOnSet(latest, {})
        BY <1>1 DEF Total
    <2>5. Total(kind) = 0
        BY <2>1, <2>2, <2>3, <2>4
    <2> QED
        BY <2>5
<1> QED
    BY <1>1 DEF NoneOrAll

(* It adds up to what they do. *)
LEMMA WrittenTotal ==
    ASSUME NEW points, NEW kind, NoneOrAll(points, kind), Total(kind) > 0,
           IsFiniteSet(DOMAIN points), \A s \in DOMAIN points : points[s] \in Nat
    PROVE  Total(kind) = Cardinality(Pairs(points, DOMAIN points))
<1> DEFINE mine == {s \in written : s[1] = kind}
<1>2. mine = DOMAIN points /\ \A s \in DOMAIN points : latest[s] = points[s]
    BY WrittenAll
<1>3. SumFunctionOnSet(latest, mine) = Cardinality(Pairs(latest, mine))
    <2> HIDE DEF mine
    <2> QED
        BY <1>2, SumCounts
<1>4. Pairs(latest, mine) = Pairs(points, DOMAIN points)
    <2> HIDE DEF mine
    <2> QED
        BY <1>2 DEF Pairs
<1> QED
    BY <1>3, <1>4 DEF Total

(* The nodes of a series of either kind, none of a series without a point. *)
LEMMA PublishedNodes ==
    ASSUME NEW a \in Availabilities \ {"unready"}, step = "addon",
           Total("ready") > 0, Total("node") > 0, CountInv
    PROVE  /\ Published(<<"ready", TRUE>>) = Cardinality(In(args, {"unavailable", "available"}))
           /\ Published(<<"node", a>>) = Cardinality(In(args, {a}))
<1> DEFINE R == ConditionPoints(args)
           N == NodePoints(args)
           ready == <<"ready", TRUE>>
           node  == <<"node", a>>
<1>1. /\ {s \in written : s[1] = "ready"} = DOMAIN R
      /\ \A s \in DOMAIN R : latest[s] = R[s]
    BY WrittenAll DEF CountInv
<1>2. /\ {s \in written : s[1] = "node"} = DOMAIN N
      /\ \A s \in DOMAIN N : latest[s] = N[s]
    BY WrittenAll DEF CountInv
<1>3. /\ ready \in DOMAIN R => R[ready] = Cardinality(In(args, {"unavailable", "available"}))
      /\ ready \notin DOMAIN R => In(args, {"unavailable", "available"}) = {}
    BY DEF ConditionPoints, ReadyStates
<1>4. /\ node \in DOMAIN N => N[node] = Cardinality(In(args, {a}))
      /\ node \notin DOMAIN N => In(args, {a}) = {}
    BY DEF NodePoints, StatesOf
<1>5. ready[1] = "ready" /\ node[1] = "node"
    OBVIOUS
<1>6. Cardinality({}) = 0
    BY FS_EmptySet
<1> HIDE DEF R, N, ready, node
<1>7. Published(ready) = Cardinality(In(args, {"unavailable", "available"}))
    BY <1>1, <1>3, <1>5, <1>6 DEF Published
<1>8. Published(node) = Cardinality(In(args, {a}))
    BY <1>2, <1>4, <1>5, <1>6 DEF Published
<1> QED
    BY <1>7, <1>8 DEF ready, node

(* A tick that has published both counts of the nodes has counted the same *)
(* nodes, those apart that do not report whether they are ready, and as    *)
(* many ready ones: the two are made from one list, whatever happens to the*)
(* caches and the cluster meanwhile.                                       *)
THEOREM SameNodesCounted == Spec => []CountsAgree
<1>1. ASSUME CountInv
      PROVE  CountsAgree
    <2> SUFFICES ASSUME step = "addon", Total("ready") > 0, Total("node") > 0
                 PROVE  /\ Total("ready") + Cardinality(In(args, {"unreported"}))
                             = Total("node")
                        /\ Published(<<"ready", TRUE>>)
                             = Published(<<"node", "unavailable">>)
                               + Published(<<"node", "available">>)
        BY DEF CountsAgree
    <2>1. args.nodes \in Objects.nodes
        BY <1>1 DEF CountInv, TypeOK
    <2>2. IsFiniteSet(DOMAIN ConditionPoints(args))
        <3>1. DOMAIN ConditionPoints(args) \in SUBSET ({"ready"} \X BOOLEAN)
            BY <2>1, ConditionPointsType
        <3>2. IsFiniteSet({"ready"}) /\ IsFiniteSet({TRUE})
            BY FS_Singleton
        <3>3. IsFiniteSet(BOOLEAN)
            <4>1. IsFiniteSet({TRUE} \cup {FALSE})
                BY <3>2, FS_AddElement
            <4>2. BOOLEAN = {TRUE} \cup {FALSE}
                OBVIOUS
            <4> QED
                BY <4>1, <4>2
        <3>4. IsFiniteSet({"ready"} \X BOOLEAN)
            BY <3>2, <3>3, FS_Product
        <3> QED
            BY <3>1, <3>4, FS_Subset
    <2>3. IsFiniteSet(DOMAIN NodePoints(args))
        <3>1. DOMAIN NodePoints(args) \in SUBSET ({"node"} \X Availabilities)
            BY <2>1, NodePointsType
        <3>2. /\ IsFiniteSet({"node"}) /\ IsFiniteSet({"unready"})
              /\ Availabilities = ({"unready"} \cup {"unavailable"}) \cup {"available"}
            BY FS_Singleton DEF Availabilities
        <3>3. IsFiniteSet({"unready"} \cup {"unavailable"})
            BY <3>2, FS_AddElement
        <3>4. IsFiniteSet(Availabilities)
            BY <3>2, <3>3, FS_AddElement
        <3>5. IsFiniteSet({"node"} \X Availabilities)
            BY <3>2, <3>4, FS_Product
        <3> QED
            BY <3>1, <3>5, FS_Subset
    <2>4. Total("ready") + Cardinality(In(args, {"unreported"})) = Cardinality(DOMAIN args.nodes)
        <3>1. \A s \in DOMAIN ConditionPoints(args) : ConditionPoints(args)[s] \in Nat
            BY <2>1, ConditionPointsType
        <3>2. NoneOrAll(ConditionPoints(args), "ready")
            BY <1>1 DEF CountInv
        <3>3. Total("ready")
                = Cardinality(Pairs(ConditionPoints(args), DOMAIN ConditionPoints(args)))
            BY <2>2, <3>1, <3>2, WrittenTotal
        <3> QED
            BY <2>1, <3>3, ConditionTotal
    <2>5. Total("node") = Cardinality(DOMAIN args.nodes)
        <3>1. \A s \in DOMAIN NodePoints(args) : NodePoints(args)[s] \in Nat
            BY <2>1, NodePointsType
        <3>2. NoneOrAll(NodePoints(args), "node")
            BY <1>1 DEF CountInv
        <3>3. Total("node") = Cardinality(Pairs(NodePoints(args), DOMAIN NodePoints(args)))
            BY <2>3, <3>1, <3>2, WrittenTotal
        <3> QED
            BY <2>1, <3>3, NodeTotal
    <2>6. /\ Published(<<"ready", TRUE>>) = Cardinality(In(args, {"unavailable", "available"}))
          /\ Published(<<"node", "unavailable">>) = Cardinality(In(args, {"unavailable"}))
          /\ Published(<<"node", "available">>) = Cardinality(In(args, {"available"}))
        <3>1. {"unavailable", "available"} \subseteq Availabilities \ {"unready"}
            BY DEF Availabilities
        <3> QED
            BY <1>1, <3>1, PublishedNodes
    <2>7. Cardinality(In(args, {"unavailable", "available"}))
            = Cardinality(In(args, {"unavailable"})) + Cardinality(In(args, {"available"}))
        BY <2>1, NodesByState
    <2> QED
        BY <2>4, <2>5, <2>6, <2>7
<1> QED
    BY <1>1, Invariance, PTL

-------------------------------------------------------------------------------
(* The expected numbers of pods. *)

(* A pod of each daemon set on each available node: a product of the two. *)
LEMMA DaemonSetPodsCounted ==
    ASSUME NEW o \in Arguments, o.nodes \in Objects.nodes, NEW a
    PROVE  DaemonSetPods(o, a)
             = Cardinality({p \in In(o, {"available"}) \X Scheduled(o) : AddonOf[p[2]] = a})
<1> DEFINE A == In(o, {"available"})
           D == {d \in Scheduled(o) : AddonOf[d] = a}
<1>1. IsFiniteSet(A) /\ IsFiniteSet(D)
    BY NodesFinite, AddonsFinite
<1>2. Cardinality(A \X D) = Cardinality(A) * Cardinality(D)
    <2> HIDE DEF A, D
    <2> QED
        BY <1>1, FS_Product
<1>3. {p \in A \X Scheduled(o) : AddonOf[p[2]] = a} = A \X D
    <2> HIDE DEF A
    <2> QED
        OBVIOUS
<1> QED
    BY <1>2, <1>3 DEF DaemonSetPods

(* The replicas counted one by one. *)
LEMMA ReplicasCounted ==
    ASSUME NEW o \in Arguments, NEW a
    PROVE  DeploymentPods(o, a)
             = Cardinality({p \in Replicated(o) \X (1..MaxReplicas) :
                              AddonOf[p[1]] = a /\ p[2] <= o.deployments[p[1]]})
<1> DEFINE D == {d \in Replicated(o) : AddonOf[d] = a}
           E == {p \in Replicated(o) \X (1..MaxReplicas) :
                   AddonOf[p[1]] = a /\ p[2] <= o.deployments[p[1]]}
<1>1. MaxReplicas \in Nat /\ \A d \in Replicated(o) : o.deployments[d] \in 1..MaxReplicas
    BY ListedType, ClusterAssumption
<1>2. ASSUME NEW d \in Replicated(o), NEW i
      PROVE  i \in 1..o.deployments[d] <=> i \in 1..MaxReplicas /\ i <= o.deployments[d]
    BY <1>1
<1>3. \A p : p \in E <=> \E d \in D : \E i \in 1..o.deployments[d] : p = <<d, i>>
    BY <1>2
<1>4. \A p : p \in Pairs(o.deployments, D)
               <=> \E d \in D : \E i \in 1..o.deployments[d] : p = <<d, i>>
    <2> HIDE DEF D
    <2> QED
        BY DEF Pairs
<1>5. Pairs(o.deployments, D) = E
    <2> HIDE DEF D, E
    <2> QED
        BY <1>3, <1>4
<1>6. DeploymentPods(o, a) = Cardinality(Pairs(o.deployments, D))
    BY DeploymentPodsCounted
<1> HIDE DEF D
<1> QED
    BY <1>5, <1>6

(* What is published of an addon is the number of its pods, counted one by *)
(* one: a daemon set's for each available node and each daemon set of the  *)
(* addon, a deployment's for each replica.                                 *)
THEOREM PodsExact == Spec => ExpectedExact
<1>1. ASSUME CountInv, RecordAddonCounts, NEW a \in Addons, <<"addon", a>> \in written'
      PROVE  latest'[<<"addon", a>>] = Cardinality(ExpectedPods(a))
    <2> DEFINE s == <<"addon", a>>
               P == {p \in In(args, {"available"}) \X Scheduled(args) : AddonOf[p[2]] = a}
               E == {p \in Replicated(args) \X (1..MaxReplicas) :
                       AddonOf[p[1]] = a /\ p[2] <= args.deployments[p[1]]}
    <2>1. /\ args \in Arguments /\ args.nodes \in Objects.nodes
          /\ \A t \in written : t[1] \in {"ready", "node"}
        BY <1>1 DEF CountInv, TypeOK, WrittenSoFar, RecordAddonCounts, Arguments
    <2>2. s \notin written
        BY <2>1
    <2>3. latest' = Over(AddonPoints(args), latest) /\ s \in DOMAIN AddonPoints(args)
        BY <1>1, <2>2 DEF RecordAddonCounts, Record
    <2>4. latest'[s] = AddonPoints(args)[s]
        BY <2>3 DEF Over
    <2>5. \E d \in Scheduled(args) \cup Replicated(args) : AddonOf[d] = a
        BY <2>3 DEF AddonPoints
    <2>6. AddonPoints(args)[s] = IF \E d \in Scheduled(args) : AddonOf[d] = a
                                 THEN DaemonSetPods(args, a) ELSE DeploymentPods(args, a)
        BY <2>3 DEF AddonPoints
    <2>7. \A d \in Scheduled(args), e \in Replicated(args) : AddonOf[d] # AddonOf[e]
        BY <2>1, ListedType, ClusterAssumption
    <2>8. CASE \E d \in Scheduled(args) : AddonOf[d] = a
        <3>1. E = {}
            BY <2>7, <2>8
        <3>2. ExpectedPods(a) = P
            BY <3>1 DEF ExpectedPods
        <3>3. DaemonSetPods(args, a) = Cardinality(P)
            BY <2>1, DaemonSetPodsCounted
        <3> QED
            BY <2>4, <2>6, <2>8, <3>2, <3>3
    <2>9. CASE ~ \E d \in Scheduled(args) : AddonOf[d] = a
        <3>1. P = {}
            BY <2>9
        <3>2. ExpectedPods(a) = E
            BY <3>1 DEF ExpectedPods
        <3>3. DeploymentPods(args, a) = Cardinality(E)
            BY <2>1, ReplicasCounted
        <3> QED
            BY <2>4, <2>6, <2>9, <3>2, <3>3
    <2> QED
        BY <2>8, <2>9
<1>2. CountInv => [RecordAddonCounts => \A a \in Addons : <<"addon", a>> \in written' =>
                       latest'[<<"addon", a>>] = Cardinality(ExpectedPods(a))]_vars
    BY <1>1
<1> QED
    BY <1>2, Invariance, PTL DEF ExpectedExact
===============================================================================
