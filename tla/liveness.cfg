\* One disruption, decided by two applications whose hooks users edit, under fairness.
SPECIFICATION LiveSpec
CONSTANTS
    NDs = {nd1}
    n1 = n1
    n2 = n2
    n3 = n3
    app = app
    app2 = app2
    ndb = ndb
    Nodes = {n1, n2}
    Specs <- LiveSpecs
    NodeDisruptionTypes = {"reboot"}
    Defaults = {"reboot"}
    RejectEmpty = FALSE
    RejectOverlapping = FALSE
    RetryInterval = 1
    ADBs = {app, app2}
    NDBs = {}
    Watched <- HookWatched
    MaxDisrupted <- HookMax
    MinUndisrupted <- NoNumber
    Supported <- LiveSupported
    InitHook <- HookInit
    HookEdits <- LiveEdits
    Replies <- AcceptedOrRefused
    Faults = FALSE
    ReadLag = 2
    WatchCap = 2
    MaxTime = 4
    MaxCrash = 1
    NoND = NoND
INVARIANT TypesRespected
PROPERTIES DecidedByDeadline DeletionCompletes
CHECK_DEADLOCK FALSE
