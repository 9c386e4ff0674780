SPECIFICATION FairSpec
CONSTANTS
    Nodes = {n1, n2}
    Workers = {w1, w2}
    NoNode = NoNode
    MaxChanges = 5
    MaxFailures = 1
INVARIANT ControllerInv
INVARIANT OneWorkerPerNode
INVARIANT NodesAccountedFor
INVARIANT SyncsBounded
PROPERTY NodesGetWatched
PROPERTY WatchesNodes
CHECK_DEADLOCK FALSE
