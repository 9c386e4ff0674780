----------------------------- MODULE MCNodeMetrics -----------------------------
(* NodeMetrics on two addons, of which one is probed. *)
EXTENDS NodeMetrics, TLC

CONSTANTS p1, p2, a1, a2

(* Each addon has a pod. *)
OnePodEach == p1 :> a1 @@ p2 :> a2
===============================================================================
