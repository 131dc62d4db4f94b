\* An application without hooks, to which its user gives v2 hooks.
SPECIFICATION Spec
CONSTANTS
    NDs = {nd1}
    n1 = n1
    n2 = n2
    n3 = n3
    app = app
    app2 = app2
    ndb = ndb
    Nodes = {n1, n2}
    Specs <- LiveSpecs
    NodeDisruptionTypes = {}
    Defaults = {"reboot"}
    RejectEmpty = FALSE
    RejectOverlapping = FALSE
    RetryInterval = 1
    ADBs = {app}
    NDBs = {}
    Watched <- DefaultWatched
    MaxDisrupted <- AppMax
    MinUndisrupted <- NoNumber
    Supported <- AppSupported
    InitHook <- UnaskedHook
    HookEdits <- UnaskedEdits
    Replies <- AcceptedOrError
    Faults = FALSE
    ReadLag = 0
    WatchCap = 1
    MaxTime = 2
    MaxCrash = 0
    NoND = NoND
PROPERTY StatusesEarned
CHECK_DEADLOCK FALSE
