----------------------------- MODULE MCNodeCounting -----------------------------
(* NodeCounting on six nodes with three maps of labels, of which one is   *)
(* that of the available nodes.                                            *)
EXTENDS NodeCounting, TLC

CONSTANTS n1, n2, n3, n4, n5, n6, l1, l2, l3

SomeLabels == n1 :> l1 @@ n2 :> l1 @@ n3 :> l1 @@ n4 :> l2 @@ n5 :> l3 @@ n6 :> l3
===============================================================================
