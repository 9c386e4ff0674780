SPECIFICATION FairSpec
CONSTANTS
    d1 = d1
    d2 = d2
    e1 = e1
    a1 = a1
    a2 = a2
    Nodes = {n1}
    DaemonSets = {d1}
    Deployments = {e1}
    AddonOf <- OneOfEach
    MaxReplicas = 1
    Services = {dns}
    Unsynced = Unsynced
    MaxChanges = 1
PROPERTY Converges
