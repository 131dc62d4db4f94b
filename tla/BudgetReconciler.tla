--------------------------- MODULE BudgetReconciler ---------------------------
(***************************************************************************)
(* The reconcilers of ApplicationDisruptionBudget (ADB) and                *)
(* NodeDisruptionBudget (NDB): two programs of the same shape that keep    *)
(* the status of one budget equal to what its selectors and the            *)
(* NodeDisruptions of the cluster say, and fill in its default types.      *)
(*                                                                         *)
(* Each kind of object has an informer of its own: its events arrive in    *)
(* order, but nothing orders the events of two kinds.  The worker reads    *)
(* the selected nodes twice in one pass, and everything may change between *)
(* its steps.  An object's resourceVersion is its content; a write that    *)
(* changes nothing is accepted and sends no event.  The disruptions in a   *)
(* status are a set, where the code has a list in the cache's order: one   *)
(* in another order only leads to one more write and one more pass.        *)
(***************************************************************************)
EXTENDS BudgetMath, Resolver, Sequences

CONSTANTS
    Kinds,          \* the kinds of budget checked, of {"adb", "ndb"}
    Nodes, Pods, PVCs, NDs,     \* what the cluster holds
    Nowhere,        \* where a pod that is unscheduled, unselected or gone is
    Start,          \* the pods, claims, nodes and disruptions there are at first
    Clusters,       \* the nodes there may be, with their labels
    NodeSelector,   \* the NDB's nodeSelector
    Disrupts,       \* the nodeSelector of each NodeDisruption
    Affinity,       \* the required node affinity of each claim's volume
    Types,          \* the supportedNodeDisruptionTypes users write, maybe {}
    Defaults,       \* DefaultNodeDisruptionTypes
    Limits,         \* maxDisruptions or maxDisruptedNodes, and minUndisruptedNodes
    MaxChanges      \* bound: what users, the cluster and failures do to the budget

Phases == {"Pending", "Bound", "Lost"}     \* a claim that is gone is like a pending one
States == {"absent", "unknown", "pending", "granted", "rejected"}

ASSUME ClusterAssumption ==
    /\ Kinds \subseteq {"adb", "ndb"} /\ Kinds # {} /\ Nowhere \notin Nodes
    /\ Start \in [pods : [Pods -> Nodes \cup {Nowhere}], pvcs : [PVCs -> Phases],
                 nodes : Clusters, nds : [NDs -> States]]
    /\ IsFiniteSet(Nodes) /\ IsFiniteSet(NDs)
    /\ Clusters # {} /\ \A cluster \in Clusters : DOMAIN cluster \subseteq Nodes
    /\ DOMAIN Disrupts = NDs /\ DOMAIN Affinity = PVCs
    /\ Limits \subseteq [max : Int, min : Int] /\ Limits # {} /\ MaxChanges \in Nat

VARIABLES
    kind,       \* the kind of the budget
    world,      \* what the API server stores, by kind of object
    known,      \* what the informers' caches hold
    events,     \* per informer, what it has not applied yet
    queued,     \* the budget is in the work queue
    retry,      \* the budget is in the rate limiter, after an error
    gauges,     \* the metrics published for the budget's spec and status
    changes,    \* what happened so far around the worker
    \* The worker, between two of its reads and writes:
    pc, seen, watched, status

vars == <<kind, world, known, events, queued, retry, gauges, changes,
          pc, seen, watched, status>>
worker == <<pc, seen, watched, status>>

-----------------------------------------------------------------------------
(* The cluster.                                                            *)

Informers == {"budget", "pods", "pvcs", "nodes", "nds"}
NoStatus == [watched |-> {}, count |-> 0, allowed |-> 0, listed |-> {}]
Absent == [life |-> "absent", types |-> {}, limit |-> CHOOSE l \in Limits : TRUE,
           status |-> NoStatus]

\* The kinds of object each kind of budget looks at (SelectorMatchesObject), and
\* those whose informers SetupWithManager asks for.
AdbMatches == {"pods", "pvcs", "nds"}
NdbMatches == {"nodes", "nds"}
Watches == IF kind = "adb" THEN AdbMatches ELSE NdbMatches

\* The API server stores what changed and tells the informer of that kind.
Store(what, value) ==
    /\ world' = [world EXCEPT ![what] = value]
    /\ events' = IF value = world[what] THEN events
                 ELSE [events EXCEPT ![what] = Append(events[what], value)]

\* Mutant: the write does not carry the version that was read.
WriteUnchecked(old, new) == world["budget"].life = "live" /\ Store("budget", new)

\* A write of the budget, refused when it is not the one that was read.
Write(old, new) == world["budget"] = old /\ Store("budget", new)

-----------------------------------------------------------------------------
(* What a budget's status should say of a snapshot v of the cluster.       *)

\* GetNodesFromNamespacedPodSelector and GetNodesFromNamespacedPVCSelector.
BoundClaims(v) == {c \in PVCs : v.pvcs[c] = "Bound"}
PodNodes(v) == {v.pods[p] : p \in Pods} \ {Nowhere}
PVCNodes(v) == UNION {NodesOfVolume(v.nodes, Affinity[c]) : c \in BoundClaims(v)}

\* A claim is lost, or its volume's affinity is beyond the conversion.
CannotSelect(v) ==
    kind = "adb" /\ \/ \E c \in PVCs : v.pvcs[c] = "Lost"
                    \/ \E c \in BoundClaims(v) : CannotConvert(Affinity[c])

GetSelectedNodes(v) ==
    IF kind = "adb" THEN PodNodes(v) \cup PVCNodes(v)
    ELSE GetNodeFromNodeSelector(v.nodes, NodeSelector)

\* The disruptions a reconciler has taken in and that hit the selected nodes.
Disruptions(v, selected) ==
    {nd \in NDs : v.nds[nd] \notin {"absent", "unknown"}
                  /\ GetNodeFromNodeSelector(v.nodes, Disrupts[nd]) \cap selected # {}}

StatusOf(v, limit, nodes, selected) ==
    LET found == Disruptions(v, selected)
        count == Cardinality({nd \in found : v.nds[nd] = "granted"})
    IN  [watched |-> nodes, count |-> count,
         allowed |-> IF kind = "adb" THEN AdbAllowed(limit.max, count)
                     ELSE NdbAllowed(limit.max, limit.min, Cardinality(nodes), count),
         listed |-> {<<nd, v.nds[nd]>> : nd \in found}]

-----------------------------------------------------------------------------
(* Reconcile.                                                              *)

\* Mutant: the worker keeps the budget of the request it has finished.
GoIdleHolding == pc' = "idle" /\ seen' = seen /\ watched' = {} /\ status' = NoStatus

NoGauge == [spec |-> {}, status |-> {}]

\* UpdateBudgetStatusMetrics and PruneBudgetStatusMetrics: what was published
\* before is replaced, or removed.
PublishStatus(g, budget) == [g EXCEPT !.status = {budget.status}]
PruneStatus(g) == [g EXCEPT !.status = {}]

\* UpdateADBMetrics and UpdateNDBMetrics.
UpdateMetrics(budget) ==
    gauges' = [PublishStatus(gauges, budget) EXCEPT !.spec = {budget.limit}]

\* PruneADBMetrics and PruneNDBMetrics: the labels given for the gauges of the
\* spec are not theirs, so only those of the status are found.
PruneMetrics == gauges' = PruneStatus(gauges)

GoIdle == pc' = "idle" /\ seen' = Absent /\ watched' = {} /\ status' = NoStatus

\* The rate limiter puts a request that ended in an error back in the queue.
ReturnError == retry' = TRUE /\ GoIdle /\ UNCHANGED <<world, events>>

Step == UNCHANGED <<kind, known, changes>>
Take == pc = "idle" /\ queued /\ queued' = FALSE /\ Step

ReconcileNotFound ==
    /\ Take /\ known["budget"].life # "live" /\ PruneMetrics
    /\ UNCHANGED <<world, events, retry, worker>>

LacksTypes(budget) == budget.types = {} /\ Defaults # {}

\* The budget read has no types: it is given the defaults before anything else.
SetDefaultTypes ==
    /\ Take /\ known["budget"].life = "live" /\ LacksTypes(known["budget"])
    /\ LET new == [known["budget"] EXCEPT !.types = Defaults] IN
       \/ /\ Write(known["budget"], new) /\ UpdateMetrics(new)
          /\ pc' = "select" /\ seen' = new /\ UNCHANGED <<retry, watched, status>>
       \/ world["budget"] # known["budget"] /\ ReturnError /\ UNCHANGED gauges

ReconcileBudget ==
    /\ Take /\ known["budget"].life = "live" /\ ~LacksTypes(known["budget"])
    /\ UpdateMetrics(known["budget"])
    /\ pc' = "select" /\ seen' = known["budget"]
    /\ UNCHANGED <<world, events, retry, watched, status>>

\* Sync's own call of GetSelectedNodes.
SyncSelects ==
    /\ pc = "select" /\ Step /\ UNCHANGED <<queued, gauges>>
    /\ \/ CannotSelect(known) /\ ReturnError
       \/ /\ ~CannotSelect(known) /\ pc' = "resolve" /\ watched' = GetSelectedNodes(known)
          /\ UNCHANGED <<world, events, retry, seen, status>>

\* ResolveDisruption, which selects the nodes once more.
SyncResolves ==
    /\ pc = "resolve" /\ Step /\ UNCHANGED <<queued, gauges>>
    /\ \/ CannotSelect(known) /\ ReturnError
       \/ /\ ~CannotSelect(known) /\ pc' = "write"
          /\ status' = StatusOf(known, seen.limit, watched, GetSelectedNodes(known))
          /\ UNCHANGED <<world, events, retry, seen, watched>>

\* DeepEqual tells the empty list of nodes from the absent one it is stored as.
Differs == status # seen.status \/ status.watched = {}

UpdateStatus ==
    /\ pc = "write" /\ Step /\ UNCHANGED <<queued, gauges>>
    /\ \/ /\ Differs /\ Write(seen, [seen EXCEPT !.status = status])
          /\ GoIdle /\ UNCHANGED retry
       \/ Differs /\ world["budget"] # seen /\ ReturnError
       \/ ~Differs /\ GoIdle /\ UNCHANGED <<world, events, retry>>

-----------------------------------------------------------------------------
(* What happens around the worker.                                         *)

\* The nodes an event is about, and the NDB's selector on their labels before
\* and after it.
Touched(old, new) ==
    {n \in DOMAIN old \cup DOMAIN new :
        n \notin DOMAIN old \/ n \notin DOMAIN new \/ old[n] # new[n]}
\* Mutant: only the labels a node has got are looked at, not those it had.
SelectsTouchedAfter(old, new) ==
    Touched(old, new) \cap GetNodeFromNodeSelector(new, NodeSelector) # {}

SelectsTouched(old, new) ==
    Touched(old, new) \cap (GetNodeFromNodeSelector(old, NodeSelector)
                             \cup GetNodeFromNodeSelector(new, NodeSelector)) # {}

\* Mutant: the handler of a NodeDisruption does not map it to the budgets.
EnqueuesUnmapped(what, new) ==
    \/ what = "budget"
    \/ /\ what \in Watches \ {"nds"} /\ known["budget"].life = "live"
       /\ what = "nodes" => SelectsTouched(known["nodes"], new)

\* Mutant: an update of the status alone does not enqueue the budget.
EnqueuesSpecOnly(what, new) ==
    \/ /\ what = "budget"
       /\ [new EXCEPT !.status = NoStatus] # [known["budget"] EXCEPT !.status = NoStatus]
    \/ /\ what \in Watches /\ known["budget"].life = "live"
       /\ what = "nodes" => SelectsTouched(known["nodes"], new)

\* MapFuncBuilder's function finds the budgets to enqueue in their own cache, and
\* asks each one whether it selects the object.
Enqueues(what, new) ==
    \/ what = "budget"
    \/ /\ what \in Watches /\ known["budget"].life = "live"
       /\ what = "nodes" => SelectsTouched(known["nodes"], new)

\* An informer applies its oldest event, and its handler may enqueue the budget.
Deliver(what) ==
    /\ events[what] # <<>>
    /\ known' = [known EXCEPT ![what] = Head(events[what])]
    /\ events' = [events EXCEPT ![what] = Tail(events[what])]
    /\ queued' = (queued \/ Enqueues(what, Head(events[what])))
    /\ UNCHANGED <<kind, world, retry, gauges, changes, worker>>

RetryFires ==
    /\ retry /\ retry' = FALSE /\ queued' = TRUE
    /\ UNCHANGED <<kind, world, known, events, gauges, changes, worker>>

\* Users create the budget once; what comes after counts as a change.
Change == changes < MaxChanges /\ changes' = changes + 1 /\ UNCHANGED kind
Aside == UNCHANGED <<known, queued, retry, gauges, worker>>
Around == Change /\ Aside

UserCreates(types, limit) ==
    /\ world["budget"] = Absent /\ Aside /\ UNCHANGED <<kind, changes>>
    /\ Store("budget", [life |-> "live", types |-> types, limit |-> limit,
                        status |-> NoStatus])

UserEdits(types, limit) ==
    /\ Around /\ world["budget"].life = "live"
    /\ types # world["budget"].types \/ limit # world["budget"].limit
    /\ Store("budget", [world["budget"] EXCEPT !.types = types, !.limit = limit])

UserDeletes ==
    /\ Around /\ world["budget"].life = "live"
    /\ Store("budget", [Absent EXCEPT !.life = "gone"])

PodMoves(p, to) ==
    /\ Around /\ kind = "adb" /\ to # world["pods"][p]
    /\ Store("pods", [world["pods"] EXCEPT ![p] = to])

PVCMoves(c, phase) ==
    /\ Around /\ kind = "adb" /\ phase # world["pvcs"][c]
    /\ Store("pvcs", [world["pvcs"] EXCEPT ![c] = phase])

\* Nodes are labelled, come and go.
NodesChange(cluster) ==
    Around /\ cluster # world["nodes"] /\ Store("nodes", cluster)

\* The NodeDisruption reconciler and users move a disruption.
DisruptionMoves(nd) ==
    /\ Around
    /\ \E to \in CASE world["nds"][nd] = "absent"  -> {"unknown"}
                   [] world["nds"][nd] = "unknown" -> {"pending", "absent"}
                   [] world["nds"][nd] = "pending" -> {"granted", "rejected", "absent"}
                   [] OTHER -> {"absent"} :
          Store("nds", [world["nds"] EXCEPT ![nd] = to])

\* A read or a write fails: the apiserver is away, a volume is not in the cache.
CallFails ==
    /\ Change /\ ReturnError /\ UNCHANGED <<known, gauges>>
    /\ \/ pc # "idle" /\ UNCHANGED queued
       \/ /\ pc = "idle" /\ queued /\ queued' = FALSE
          /\ known["budget"].life = "live" /\ LacksTypes(known["budget"])

Restart ==
    /\ Change /\ known' = world /\ events' = [what \in Informers |-> <<>>]
    /\ queued' = (world["budget"].life = "live") /\ retry' = FALSE
    /\ gauges' = NoGauge /\ GoIdle /\ UNCHANGED world

-----------------------------------------------------------------------------
Init ==
    /\ kind \in Kinds
    /\ world = [what \in Informers |-> IF what = "budget" THEN Absent ELSE Start[what]]
    /\ known = world /\ events = [what \in Informers |-> <<>>]
    /\ queued = FALSE /\ retry = FALSE /\ gauges = NoGauge /\ changes = 0
    /\ pc = "idle" /\ seen = Absent /\ watched = {} /\ status = NoStatus

Reconcile ==
    \/ ReconcileNotFound \/ SetDefaultTypes \/ ReconcileBudget
    \/ SyncSelects \/ SyncResolves \/ UpdateStatus

Environment ==
    \/ RetryFires \/ UserDeletes \/ CallFails \/ Restart
    \/ \E what \in Informers : Deliver(what)
    \/ \E types \in Types, limit \in Limits :
          UserCreates(types, limit) \/ UserEdits(types, limit)
    \/ \E p \in Pods, to \in Nodes \cup {Nowhere} : PodMoves(p, to)
    \/ \E c \in PVCs, phase \in Phases : PVCMoves(c, phase)
    \/ \E cluster \in Clusters : NodesChange(cluster)
    \/ \E nd \in NDs : DisruptionMoves(nd)

Next == Reconcile \/ Environment

Spec == Init /\ [][Next]_vars

\* Informers deliver, the rate limiter hands errors back, the worker works on.
Fairness ==
    /\ WF_vars(Reconcile) /\ WF_vars(RetryFires)
    /\ \A what \in Informers : WF_vars(Deliver(what))
LiveSpec == Spec /\ Fairness

-----------------------------------------------------------------------------
(* Properties.                                                             *)

StatusType == [watched : SUBSET Nodes, count : 0..Cardinality(NDs), allowed : Int,
               listed : SUBSET (NDs \X States)]
Budgets == [life : {"absent", "live", "gone"}, types : Types \cup {Defaults, {}},
            limit : Limits,
            status : StatusType]

\* Every variable has its type, and the worker holds a budget only while it works.
TypeOK ==
    /\ kind \in Kinds /\ queued \in BOOLEAN /\ retry \in BOOLEAN /\ changes \in 0..MaxChanges
    /\ \A v \in {world, known} :
          /\ v["budget"] \in Budgets /\ v["pods"] \in [Pods -> Nodes \cup {Nowhere}]
          /\ v["pvcs"] \in [PVCs -> Phases] /\ v["nodes"] \in Clusters
          /\ v["nds"] \in [NDs -> States]
    /\ DOMAIN events = Informers
    /\ gauges \in [spec : SUBSET Limits, status : SUBSET StatusType]
    /\ pc \in {"idle", "select", "resolve", "write"}
    /\ seen \in Budgets /\ (pc = "idle" <=> seen.life = "absent")
    /\ watched \subseteq Nodes /\ status \in StatusType

\* No event of a node reaches the reconciler of an ADB: the nodes of its claims
\* and of the disruptions it counts are those of a past reading, or of two.
Readings == IF kind = "adb" THEN Clusters ELSE {world["nodes"]}

\* The nodes a budget is meant to watch: those its pods run on and those its
\* claims' volumes can be reached from, in the scheduler's sense.
NodesToWatch(v) ==
    IF kind = "adb"
    THEN PodNodes(v) \cup UNION {ReachesVolume(v.nodes, Affinity[c]) : c \in BoundClaims(v)}
    ELSE GetNodeFromNodeSelector(v.nodes, NodeSelector)

UpToDate ==
    LET budget == world["budget"]
        With(cluster) == [world EXCEPT !["nodes"] = cluster]
    IN  /\ ~LacksTypes(budget)
        /\ \E first, second \in Readings :
              budget.status = StatusOf(With(second), budget.limit,
                                       NodesToWatch(With(first)), NodesToWatch(With(second)))

Settled == pc = "idle" /\ ~queued /\ ~retry /\ \A what \in Informers : events[what] = <<>>

\* When nothing is left to do, the budget's types are filled in and its status is
\* what the cluster says (UpToDate), whatever order the informers delivered in, whatever
\* changed between the two selections of one pass, failed or was cut off.
SettledIsUpToDate == Settled /\ world["budget"].life = "live" => UpToDate

\* The metrics "reflect" the fields of the budget's spec and status (metrics.go):
\* when nothing is left to do for a budget that exists they are those stored,
\* although a pass publishes the status it read and then writes another one.
SettledGaugesReflect ==
    Settled /\ world["budget"].life = "live" =>
        /\ gauges.spec = {world["budget"].limit}
        /\ gauges.status = {world["budget"].status}

\* The reconciler writes defaults over an empty list of types only, and never
\* over what a user wrote meanwhile.
UserSpecKept ==
    [][changes' = changes /\ world["budget"].life = "live" =>
          /\ world'["budget"].limit = world["budget"].limit
          /\ \/ world'["budget"].types = world["budget"].types
             \/ world["budget"].types = {}]_vars

\* Once the cluster is left alone, the status becomes right and stays so, unless
\* a claim is lost, which keeps the reconciler from looking any further.
StatusCatchesUp ==
    <>[](world["budget"].life # "live" \/ CannotSelect(world) \/ UpToDate)
=============================================================================
