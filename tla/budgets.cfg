\* Disruptions that compete for two budgets, failing reads and writes; when the
\* budgets are synchronised the informer has applied every event.
SPECIFICATION Spec
CONSTANTS
    NDs = {nd1, nd2, nd3}
    n1 = n1
    n2 = n2
    n3 = n3
    app = app
    app2 = app2
    ndb = ndb
    Nodes = {n1, n2, n3}
    Specs <- BudgetSpecs
    NodeDisruptionTypes = {}
    Defaults = {"reboot"}
    RejectEmpty = FALSE
    RejectOverlapping = FALSE
    RetryInterval = 1
    ADBs = {app}
    NDBs = {ndb}
    Watched <- BudgetWatched
    MaxDisrupted <- BudgetMax
    MinUndisrupted <- BudgetMin
    Supported <- BudgetSupported
    InitHook <- BudgetHook
    HookEdits = {}
    Replies <- AlwaysAccepts
    Faults = TRUE
    ReadLag = 0
    WatchCap = 1
    MaxTime = 1
    MaxCrash = 0
    NoND = NoND
SYMMETRY Interchangeable
INVARIANT BudgetRespected
CHECK_DEADLOCK FALSE
