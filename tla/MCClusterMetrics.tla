---------------------------- MODULE MCClusterMetrics ----------------------------
(* ClusterMetrics with an addon of two daemon sets and one of a deployment. *)
EXTENDS ClusterMetrics, TLC

CONSTANTS d1, d2, e1, a1, a2

TwoAddons == d1 :> a1 @@ d2 :> a1 @@ e1 :> a2
OneOfEach == d1 :> a1 @@ e1 :> a2
===============================================================================
