------------------------------- MODULE Publishing -------------------------------
(***************************************************************************)
(* What the prober promises of the points of a series: the monitoring API  *)
(* takes at most one from every tick, and never one of an earlier tick     *)
(* after one of a later.  A point may come late, when its tick has ended,  *)
(* or not at all.                                                          *)
(***************************************************************************)
EXTENDS Naturals, Sequences

VARIABLES
    tick,   \* ticks begun
    points  \* the ticks whose points were taken, in order

Init == tick = 0 /\ points = <<>>

BeginTick == tick' = tick + 1 /\ UNCHANGED points

Publish(t) ==
    /\ \A i \in DOMAIN points : points[i] < t
    /\ points' = Append(points, t)
    /\ UNCHANGED tick

Next == BeginTick \/ \E t \in 1..tick : Publish(t)

Spec == Init /\ [][Next]_<<tick, points>>
===============================================================================
