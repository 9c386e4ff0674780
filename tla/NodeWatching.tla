------------------------------ MODULE NodeWatching ------------------------------
(***************************************************************************)
(* What the local controller keeps of its promise, without its queue and   *)
(* its workers: a node that is not watched yet is taken up when it changes,*)
(* by one worker at a time, and is let go only when it is watched or waits *)
(* to be taken up again.  It is a promise about new nodes only: once a node*)
(* is watched, its updates and its deletion may pass unnoticed (Skip).     *)
(***************************************************************************)
CONSTANT Nodes

VARIABLES
    present,    \* the nodes there are
    waiting,    \* nodes that have changed since they were taken up
    busy,       \* nodes a worker has taken up
    watched     \* nodes that are watched

vars == <<present, waiting, busy, watched>>

Init == present = {} /\ waiting = {} /\ busy = {} /\ watched = {}

(* A node appears, is updated or disappears. *)
Change(n) ==
    /\ present' \in {present \cup {n}, present \ {n}}
    /\ waiting' = waiting \cup {n}
    /\ UNCHANGED <<busy, watched>>

(* A change of a node that is watched already may be dropped, even when    *)
(* the node has gone; nothing ever makes it unwatched again.               *)
Skip(n) ==
    /\ n \in watched
    /\ waiting' = waiting \ {n}
    /\ UNCHANGED <<present, busy, watched>>

(* It waits on when it has changed more than once. *)
TakeUp(n) ==
    /\ n \in waiting \ busy
    /\ busy' = busy \cup {n}
    /\ waiting' \in {waiting, waiting \ {n}}
    /\ UNCHANGED <<present, watched>>

Watch(n) ==
    /\ n \in busy
    /\ watched' = watched \cup {n}
    /\ UNCHANGED <<present, waiting, busy>>

(* Failing to watch it is no reason to forget it. *)
Fail(n) ==
    /\ n \in busy
    /\ waiting' = waiting \cup {n}
    /\ UNCHANGED <<present, busy, watched>>

LetGo(n) ==
    /\ n \in busy /\ n \in watched \cup waiting
    /\ busy' = busy \ {n}
    /\ UNCHANGED <<present, waiting, watched>>

Next == \E n \in Nodes :
    Change(n) \/ Skip(n) \/ TakeUp(n) \/ Watch(n) \/ Fail(n) \/ LetGo(n)

Spec == Init /\ [][Next]_vars

-------------------------------------------------------------------------------
(* Every node that is there is watched, or is going to be.  Of the nodes   *)
(* that are not there any more it says nothing.                            *)
NoneForgotten == present \ watched \subseteq waiting \cup busy
===============================================================================
