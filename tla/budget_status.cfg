\* One budget of each kind, among changes of everything its status depends on.
SPECIFICATION LiveSpec
CONSTANTS
    n1 = n1
    n2 = n2
    pod = pod
    pvc = pvc
    nd1 = nd1
    Kinds = {"adb", "ndb"}
    Nodes = {n1, n2}
    Pods = {pod}
    PVCs = {pvc}
    NDs = {nd1}
    Nowhere = Nowhere
    Start <- SmallStart
    Clusters <- SmallClusters
    NodeSelector <- SmallSelector
    Disrupts <- SmallDisrupts
    Affinity <- Reachable
    Types <- SmallTypes
    Defaults = {"maintenance"}
    Limits <- SmallLimits
    MaxChanges = 3
INVARIANTS TypeOK SettledIsUpToDate SettledGaugesReflect
PROPERTIES UserSpecKept StatusCatchesUp
CHECK_DEADLOCK FALSE
