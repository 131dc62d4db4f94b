\* Two disruptions that compete for a node, an informer up to two events
\* behind, an application that prepares, failing reads and writes, one restart.
SPECIFICATION MSpec
CONSTANTS
    NDs = {nd1, nd2}
    n1 = n1
    n2 = n2
    n3 = n3
    app = app
    app2 = app2
    ndb = ndb
    Nodes = {n1, n2}
    Specs <- LifecycleSpecs
    NodeDisruptionTypes = {}
    Defaults = {"reboot"}
    RejectEmpty = TRUE
    RejectOverlapping = TRUE
    RetryInterval = 1
    ADBs = {app}
    NDBs = {}
    Watched <- LifecycleWatched
    MaxDisrupted <- AppMax
    MinUndisrupted <- NoNumber
    Supported <- AppSupported
    InitHook <- LifecycleHook
    HookEdits = {}
    Replies <- AcceptedOrError
    Faults = TRUE
    ReadLag = 2
    WatchCap = 2
    MaxTime = 2
    MaxCrash = 1
    NoND = NoND
SYMMETRY Interchangeable
INVARIANTS TypeOK NoOverlapGranted SeriesFollow
PROPERTIES FinalIsFinal GateSpec
CHECK_DEADLOCK FALSE
