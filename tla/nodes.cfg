\* Disruptions of one and of two nodes, and a budget of each kind that lets two nodes
\* be disrupted.
SPECIFICATION Spec
CONSTANTS
    NDs = {nd1, nd2}
    n1 = n1
    n2 = n2
    n3 = n3
    app = app
    app2 = app2
    ndb = ndb
    Nodes = {n1, n2, n3}
    Specs <- NodesSpecs
    NodeDisruptionTypes = {}
    Defaults = {"reboot"}
    RejectEmpty = FALSE
    RejectOverlapping = FALSE
    RetryInterval = 1
    ADBs = {app}
    NDBs = {ndb}
    Watched <- NodesWatched
    MaxDisrupted <- NodesMax
    MinUndisrupted <- NodesMin
    Supported <- BudgetSupported
    InitHook <- UnaskedHook
    HookEdits = {}
    Replies <- NoReply
    Faults = FALSE
    ReadLag = 0
    WatchCap = 1
    MaxTime = 1
    MaxCrash = 0
    NoND = NoND
INVARIANT NodesRespected
CHECK_DEADLOCK FALSE
