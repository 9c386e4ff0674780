SPECIFICATION FairSpec
CONSTANTS
    p1 = p1
    p2 = p2
    a1 = a1
    a2 = a2
    Pods = {p1, p2}
    Addons = {a1, a2}
    AddonOf <- OnePodEach
    Probed = {a2}
    Unsynced = Unsynced
    Absent = Absent
    MaxChanges = 1
INVARIANT MetricsInv
INVARIANT NoFalseOutage
PROPERTY PointsAgree
PROPERTY Converges
CHECK_DEADLOCK FALSE
