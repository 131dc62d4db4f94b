\* An application that leaves its types to the defaults, and an informer in step.
SPECIFICATION Spec
CONSTANTS
    NDs = {nd1, nd2}
    n1 = n1
    n2 = n2
    n3 = n3
    app = app
    app2 = app2
    ndb = ndb
    Nodes = {n1, n2, n3}
    Specs <- BudgetSpecs
    NodeDisruptionTypes = {}
    Defaults = {"reboot"}
    RejectEmpty = FALSE
    RejectOverlapping = FALSE
    RetryInterval = 1
    ADBs = {app}
    NDBs = {}
    Watched <- DefaultWatched
    MaxDisrupted <- AppMax
    MinUndisrupted <- NoNumber
    Supported <- DefaultSupported
    InitHook <- BudgetHook
    HookEdits = {}
    Replies <- AcceptedOrError
    Faults = FALSE
    ReadLag = 0
    WatchCap = 1
    MaxTime = 1
    MaxCrash = 0
    NoND = NoND
INVARIANT NodesRespected
CHECK_DEADLOCK FALSE
