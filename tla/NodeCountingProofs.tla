--------------------------- MODULE NodeCountingProofs ---------------------------
(***************************************************************************)
(* Proofs about NodeCounting, for any number of items and labels.          *)
(***************************************************************************)
EXTENDS NodeCounting, FiniteSetTheorems, TLAPS

(* Incrementing a key that is present raises the value of its only entry. *)
LEMMA IncrementPresent ==
    ASSUME NEW v \in Seq(MapValue), NEW m \in Labels, NEW e \in DOMAIN v, v[e].Key = m,
           \A i, j \in DOMAIN v : v[i].Key = v[j].Key => i = j
    PROVE  /\ Increment(v, m, 1) \in Seq(MapValue)
           /\ DOMAIN Increment(v, m, 1) = DOMAIN v
           /\ \A i \in DOMAIN v :
                 /\ Increment(v, m, 1)[i].Key = v[i].Key
                 /\ Increment(v, m, 1)[i].Value = IF i = e THEN v[i].Value + 1 ELSE v[i].Value
  <1>1. \A i \in DOMAIN v : v[i] \in MapValue /\ i \in 1..Len(v)
    OBVIOUS
  <1>2. \A i \in DOMAIN v :
          (v[i].Key = m /\ \A j \in 1..(i - 1) : v[j].Key # m) <=> i = e
    BY <1>1
  <1>3. Increment(v, m, 1) =
          [i \in DOMAIN v |-> IF i = e THEN [v[i] EXCEPT !.Value = @ + 1] ELSE v[i]]
    BY <1>2 DEF Increment
  <1>4. ASSUME NEW i \in DOMAIN v
        PROVE  [v[i] EXCEPT !.Value = @ + 1] \in MapValue
    <2>1. v[i] \in MapValue
      BY <1>1
    <2> QED
      BY <2>1 DEF MapValue
  <1>5. Increment(v, m, 1) \in [1..Len(v) -> MapValue]
    BY <1>1, <1>3, <1>4
  <1>6. Increment(v, m, 1) \in Seq(MapValue)
    BY <1>5
  <1> QED
    BY <1>1, <1>3, <1>6 DEF MapValue

(* The items counted under each map of labels, after one more is counted. *)
LEMMA CountedGrows ==
    ASSUME TypeOK, NEW n \in Items \ counted, counted' = counted \cup {n}
    PROVE  /\ \A m \in Labels : m # LabelOf[n] => Counted(m)' = Counted(m)
           /\ Cardinality(Counted(LabelOf[n])') = Cardinality(Counted(LabelOf[n])) + 1
           /\ Cardinality(counted' \cap Available) =
                IF n \in Available THEN Cardinality(counted \cap Available) + 1
                ELSE Cardinality(counted \cap Available)
  <1> USE CountingAssumption DEF TypeOK, Counted
  <1>1. IsFiniteSet(counted)
    BY FS_Subset
  <1>2. \A m \in Labels : m # LabelOf[n] => Counted(m)' = Counted(m)
    OBVIOUS
  <1>3. Counted(LabelOf[n])' = Counted(LabelOf[n]) \cup {n}
    OBVIOUS
  <1>4. Cardinality(Counted(LabelOf[n])') = Cardinality(Counted(LabelOf[n])) + 1
    <2>1. IsFiniteSet(Counted(LabelOf[n]))
      BY <1>1, FS_Subset
    <2> QED
      BY <1>3, <2>1, FS_AddElement
  <1>5. CASE n \in Available
    <2>1. counted' \cap Available = (counted \cap Available) \cup {n}
      BY <1>5
    <2>2. IsFiniteSet(counted \cap Available)
      BY <1>1, FS_Subset
    <2>3. Cardinality(counted' \cap Available) = Cardinality(counted \cap Available) + 1
      BY <2>1, <2>2, FS_AddElement
    <2> QED
      BY <1>2, <1>4, <1>5, <2>3
  <1>6. CASE n \notin Available
    <2>1. counted' \cap Available = counted \cap Available
      BY <1>6
    <2> QED
      BY <1>2, <1>4, <1>6, <2>1
  <1> QED
    BY <1>5, <1>6

(* The first item of its labels appends an entry of value 1, a further one *)
(* raises the value of the entry that is there.                            *)
LEMMA CountingStep ==
    ASSUME IInv, NEW n \in Items, Count(n)
    PROVE  IInv'
  <1> DEFINE m == LabelOf[n]
  <1> USE CountingAssumption DEF IInv
  <1>1. n \in Items \ counted /\ counted' = counted \cup {n} /\ m \in Labels
        /\ values' = Increment(values, m, 1)
    BY DEF Count
  <1>2. counted' \subseteq Items /\ availableNodes' \in Nat
    BY DEF Count, AvailableWith, TypeOK
  <1>3. AvailableExact'
    BY <1>1, CountedGrows DEF Count, AvailableWith, AvailableExact, TypeOK
  <1>4. \A k \in Labels : Cardinality(Counted(k)) \in Nat
    <2>1. \A k \in Labels : IsFiniteSet(Counted(k))
      BY FS_Subset DEF TypeOK, Counted
    <2> QED
      BY <2>1, FS_CardinalityType
  <1>5. \A i \in DOMAIN values : values[i].Key \in Labels
    <2>1. \A i \in DOMAIN values : values[i] \in MapValue
      BY DEF TypeOK
    <2> QED
      BY <2>1 DEF MapValue
  <1>6. CASE \E e \in DOMAIN values : values[e].Key = m
    <2>1. PICK e \in DOMAIN values : values[e].Key = m
      BY <1>6
    <2>2. /\ values' \in Seq(MapValue)
          /\ DOMAIN values' = DOMAIN values
          /\ \A i \in DOMAIN values :
                /\ values'[i].Key = values[i].Key
                /\ values'[i].Value = IF i = e THEN values[i].Value + 1 ELSE values[i].Value
      BY <1>1, <2>1, IncrementPresent DEF TypeOK, CountsExact
    <2>3. \A i \in DOMAIN values :
            values'[i].Value = Cardinality(Counted(values[i].Key)')
      BY <1>1, <1>4, <1>5, <2>1, <2>2, CountedGrows DEF CountsExact
    <2>4. CountsExact'
      BY <1>1, <2>1, <2>2, <2>3 DEF CountsExact
    <2> QED
      BY <1>2, <1>3, <2>2, <2>4 DEF TypeOK
  <1>7. CASE \A e \in DOMAIN values : values[e].Key # m
    <2>1. values' = Append(values, [Key |-> m, Value |-> 1])
      BY <1>1, <1>7 DEF Increment
    <2>2. values' \in Seq(MapValue)
      <3>1. [Key |-> m, Value |-> 1] \in MapValue
        BY <1>1 DEF MapValue
      <3> QED
        BY <2>1, <3>1 DEF TypeOK
    <2>3. /\ DOMAIN values' = DOMAIN values \cup {Len(values) + 1}
          /\ Len(values) + 1 \notin DOMAIN values
          /\ \A i \in DOMAIN values : values'[i] = values[i]
          /\ values'[Len(values) + 1] = [Key |-> m, Value |-> 1]
      BY <2>1 DEF TypeOK
    <2>4. Counted(m) = {}
      BY <1>7 DEF CountsExact, Counted
    <2>5. Cardinality(Counted(m)') = 1
      BY <1>1, <2>4, CountedGrows, FS_EmptySet
    <2>6. \A i \in DOMAIN values :
            values'[i].Value = Cardinality(Counted(values[i].Key)')
      BY <1>1, <1>5, <1>7, <2>3, CountedGrows DEF CountsExact
    <2>7. CountsExact'
      BY <1>1, <1>7, <2>3, <2>5, <2>6 DEF CountsExact
    <2> QED
      BY <1>2, <1>3, <2>2, <2>7 DEF TypeOK
  <1> QED
    BY <1>6, <1>7

-------------------------------------------------------------------------------
(* The counter is exact throughout. *)
THEOREM Invariance == Spec => []IInv
  <1>1. Init => IInv
    <2> SUFFICES ASSUME Init PROVE IInv
      OBVIOUS
    <2>1. TypeOK
      BY DEF Init, TypeOK
    <2>2. CountsExact
      BY DEF Init, CountsExact
    <2>3. AvailableExact
      BY FS_EmptySet DEF Init, AvailableExact
    <2> QED
      BY <2>1, <2>2, <2>3 DEF IInv
  <1>2. IInv /\ [Next]_vars => IInv'
    <2>1. ASSUME IInv, UNCHANGED vars PROVE IInv'
      BY <2>1 DEF IInv, TypeOK, CountsExact, AvailableExact, Counted, vars
    <2> QED
      BY <2>1, CountingStep DEF Next
  <1> QED
    BY <1>1, <1>2, PTL DEF Spec

(* Every reachable state has the declared types. *)
THEOREM TypeCorrect == Spec => []TypeOK
  <1>1. IInv => TypeOK
    BY DEF IInv
  <1> QED
    BY <1>1, Invariance, PTL

(* No item is lost or counted twice, and no key is listed twice. *)
THEOREM CountsAreExact == Spec => []CountsExact
  <1>1. IInv => CountsExact
    BY DEF IInv
  <1> QED
    BY <1>1, Invariance, PTL

(* The number of available nodes is right. *)
THEOREM AvailableIsExact == Spec => []AvailableExact
  <1>1. IInv => AvailableExact
    BY DEF IInv
  <1> QED
    BY <1>1, Invariance, PTL
===============================================================================
