\* Every prepared application should have been told the disruption is over.
SPECIFICATION Spec
CONSTANTS
    NDs = {nd1, nd2}
    n1 = n1
    n2 = n2
    n3 = n3
    app = app
    app2 = app2
    ndb = ndb
    Nodes = {n1, n2}
    Specs <- HookSpecs
    NodeDisruptionTypes = {}
    Defaults = {"reboot"}
    RejectEmpty = FALSE
    RejectOverlapping = FALSE
    RetryInterval = 1
    ADBs = {app, app2}
    NDBs = {}
    Watched <- HookWatched
    MaxDisrupted <- HookMax
    MinUndisrupted <- NoNumber
    Supported <- HookSupported
    InitHook <- HookInit
    HookEdits = {}
    Replies <- AcceptedOrLost
    Faults = FALSE
    ReadLag = 1
    WatchCap = 1
    MaxTime = 2
    MaxCrash = 0
    NoND = NoND
INVARIANT NothingLeftPrepared
CHECK_DEADLOCK FALSE
