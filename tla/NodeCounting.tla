------------------------------ MODULE NodeCounting ------------------------------
(***************************************************************************)
(* How the cluster prober counts nodes by their labels: nodeAvailabilities *)
(* (and nodeConditions, whose items are the conditions of the nodes) calls *)
(* Increment on a mapCounter for one item after another, and the counter   *)
(* is a list that is searched for a deeply equal map of labels.            *)
(***************************************************************************)
EXTENDS Sequences, FiniteSets, Integers

CONSTANTS
    Items,      \* the nodes listed, in the arbitrary order of the cache
    Labels,     \* maps of labels
    LabelOf,    \* the labels of an item
    Available   \* the items that are available

ASSUME CountingAssumption ==
    /\ IsFiniteSet(Items)
    /\ LabelOf \in [Items -> Labels]
    /\ Available \subseteq Items

VARIABLES
    counted,        \* the items already counted
    values,         \* mapCounter.values
    availableNodes  \* the available items among them

vars == <<counted, values, availableNodes>>

MapValue == [Key : Labels, Value : Nat]

(* The types of the variables; counts are never negative. *)
TypeOK ==
    /\ counted \subseteq Items
    /\ values \in Seq(MapValue)
    /\ availableNodes \in Nat

Init ==
    /\ counted = {}
    /\ values = <<>>
    /\ availableNodes = 0

(* Mutant: the key found first is incremented, equal or not. *)
IncrementAny(v, m, c) ==
    IF v # <<>> THEN [v EXCEPT ![1].Value = @ + c]
    ELSE Append(v, [Key |-> m, Value |-> c])

(* The list after Increment(m, c): the first equal key's value grows, or a *)
(* new key is appended.                                                    *)
Increment(v, m, c) ==
    IF \E i \in DOMAIN v : v[i].Key = m
    THEN [i \in DOMAIN v |->
            IF v[i].Key = m /\ \A j \in 1..(i - 1) : v[j].Key # m
            THEN [v[i] EXCEPT !.Value = @ + c]
            ELSE v[i]]
    ELSE Append(v, [Key |-> m, Value |-> c])

(* Mutant: the item is counted as available whatever it is. *)
AvailableAny(n) == availableNodes + 1

(* Mutant: an item that is not available is subtracted. *)
AvailableSubtracting(n) ==
    IF n \in Available THEN availableNodes + 1 ELSE availableNodes - 1

AvailableWith(n) == IF n \in Available THEN availableNodes + 1 ELSE availableNodes

(* One turn of the loop over the list. *)
Count(n) ==
    /\ n \in Items \ counted
    /\ counted' = counted \cup {n}
    /\ values' = Increment(values, LabelOf[n], 1)
    /\ availableNodes' = AvailableWith(n)

Next == \E n \in Items : Count(n)

Spec == Init /\ [][Next]_vars

-------------------------------------------------------------------------------
(* The items counted so far that have the labels m. *)
Counted(m) == {n \in counted : LabelOf[n] = m}

(* One API call may not name a time series twice (design-doc.md:235): each *)
(* map of labels has one entry, and its value is the number of items that  *)
(* have these labels, so that no item is lost or counted twice.            *)
CountsExact ==
    /\ \A i, j \in DOMAIN values : values[i].Key = values[j].Key => i = j
    /\ \A i \in DOMAIN values : values[i].Value = Cardinality(Counted(values[i].Key))
    /\ \A n \in counted : \E i \in DOMAIN values : values[i].Key = LabelOf[n]

(* The number of available nodes is what the expected number of addon pods *)
(* is computed from (scheduler.go:63).                                     *)
AvailableExact == availableNodes = Cardinality(counted \cap Available)

(* The inductive invariant of the counting loop. *)
IInv == TypeOK /\ CountsExact /\ AvailableExact
===============================================================================
