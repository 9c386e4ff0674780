SPECIFICATION Spec
CONSTANTS
    d1 = d1
    d2 = d2
    e1 = e1
    a1 = a1
    a2 = a2
    Nodes = {n1, n2}
    DaemonSets = {d1, d2}
    Deployments = {e1}
    AddonOf <- TwoAddons
    MaxReplicas = 2
    Services = {}
    Unsynced = Unsynced
    MaxChanges = 0
INVARIANT CountInv
INVARIANT CountsAgree
PROPERTY ExpectedExact
