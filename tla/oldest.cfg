\* Two disruptions of the same node, with the order in which they were created.
SPECIFICATION AgedSpec
CONSTANTS
    NDs = {nd1, nd2}
    n1 = n1
    n2 = n2
    n3 = n3
    app = app
    app2 = app2
    ndb = ndb
    Nodes = {n1, n2}
    Specs <- OldestSpecs
    NodeDisruptionTypes = {}
    Defaults = {"reboot"}
    RejectEmpty = TRUE
    RejectOverlapping = TRUE
    RetryInterval = 1
    ADBs = {}
    NDBs = {}
    Watched <- NoBudget
    MaxDisrupted <- NoNumber
    MinUndisrupted <- NoNumber
    Supported <- NoBudget
    InitHook <- NoHook
    HookEdits = {}
    Replies <- NoReply
    Faults = FALSE
    ReadLag = 2
    WatchCap = 2
    MaxTime = 2
    MaxCrash = 0
    NoND = NoND
INVARIANT OldestPreserved
CHECK_DEADLOCK FALSE
