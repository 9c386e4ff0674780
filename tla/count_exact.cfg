SPECIFICATION Spec
CONSTANTS
    n1 = n1
    n2 = n2
    n3 = n3
    n4 = n4
    n5 = n5
    n6 = n6
    l1 = l1
    l2 = l2
    l3 = l3
    Items = {n1, n2, n3, n4, n5, n6}
    Labels = {l1, l2, l3}
    LabelOf <- SomeLabels
    Available = {n1, n2, n3}
INVARIANT TypeOK
INVARIANT CountsExact
INVARIANT AvailableExact
CHECK_DEADLOCK FALSE
