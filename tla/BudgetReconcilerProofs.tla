------------------------ MODULE BudgetReconcilerProofs ------------------------
(***************************************************************************)
(* Theorems about BudgetReconciler for every cluster and every budget.     *)
(*                                                                         *)
(* The argument.  What an informer shows is what is stored once its events *)
(* have been applied (Announced), and an event about something a budget    *)
(* looks at queues the budget.  So what a pass has found holds of the      *)
(* informers until a request is queued: of the nodes it selected, of the   *)
(* status it computed, of the status it left.                              *)
(***************************************************************************)
EXTENDS BudgetReconciler, ResolverProofs, FiniteSetTheorems, SequenceTheorems

-----------------------------------------------------------------------------
(* Types.                                                                  *)

\* What an informer of each kind holds.
ValuesOf(what) ==
    CASE what = "budget" -> Budgets
      [] what = "pods"   -> [Pods -> Nodes \cup {Nowhere}]
      [] what = "pvcs"   -> [PVCs -> Phases]
      [] what = "nodes"  -> Clusters
      [] what = "nds"    -> [NDs -> States]

IsSnapshot(v) ==
    /\ v = [what \in Informers |-> v[what]]
    /\ \A what \in Informers : v[what] \in ValuesOf(what)

EventsType ==
    /\ events = [what \in Informers |-> events[what]]
    /\ \A what \in Informers : events[what] \in Seq(ValuesOf(what))

\* TypeOK, with the types of the events, which become those of the caches.
ClusterType == IsSnapshot(world) /\ IsSnapshot(known) /\ EventsType
AroundType ==
    /\ kind \in Kinds /\ queued \in BOOLEAN /\ retry \in BOOLEAN /\ changes \in 0..MaxChanges
    /\ gauges \in [spec : SUBSET Limits, status : SUBSET StatusType]
WorkerType ==
    /\ pc \in {"idle", "select", "resolve", "write"}
    /\ seen \in Budgets /\ (pc = "idle" <=> seen.life = "absent")
    /\ watched \subseteq Nodes /\ status \in StatusType
TypeInv == ClusterType /\ AroundType /\ WorkerType

LEMMA TypeInvImplies == TypeInv => TypeOK
<1> SUFFICES ASSUME TypeInv PROVE TypeOK
  OBVIOUS
<1>1. ASSUME NEW v, IsSnapshot(v)
      PROVE  /\ v["budget"] \in Budgets /\ v["pods"] \in [Pods -> Nodes \cup {Nowhere}]
             /\ v["pvcs"] \in [PVCs -> Phases] /\ v["nodes"] \in Clusters
             /\ v["nds"] \in [NDs -> States]
  BY <1>1 DEF IsSnapshot, Informers, ValuesOf
<1>2. DOMAIN events = Informers
  BY DEF TypeInv, ClusterType, EventsType
<1> QED BY <1>1, <1>2 DEF TypeInv, ClusterType, AroundType, WorkerType, TypeOK

LEMMA SnapshotParts ==
  ASSUME NEW v, IsSnapshot(v)
  PROVE  /\ v["budget"] \in Budgets /\ v["pods"] \in [Pods -> Nodes \cup {Nowhere}]
         /\ v["pvcs"] \in [PVCs -> Phases] /\ v["nodes"] \in Clusters
         /\ v["nds"] \in [NDs -> States]
  BY DEF IsSnapshot, Informers, ValuesOf

LEMMA CountType == Cardinality(NDs) \in Nat /\ \A S \in SUBSET NDs : Cardinality(S) \in 0..Cardinality(NDs)
<1>1. IsFiniteSet(NDs)
  BY ClusterAssumption
<1>2. Cardinality(NDs) \in Nat
  BY <1>1, FS_CardinalityType
<1>3. ASSUME NEW S \in SUBSET NDs PROVE Cardinality(S) \in 0..Cardinality(NDs)
  <2>1. IsFiniteSet(S) /\ Cardinality(S) <= Cardinality(NDs)
    BY <1>1, FS_Subset
  <2> QED BY <1>2, <2>1, FS_CardinalityType
<1> QED BY <1>2, <1>3

\* The bound on changes, and the gauges of a budget that has none.
LEMMA BoundType == MaxChanges \in Nat /\ 0 \in 0..MaxChanges
<1>1. MaxChanges \in Nat
  BY ClusterAssumption
<1> QED BY <1>1

LEMMA NoGaugeType == NoGauge \in [spec : SUBSET Limits, status : SUBSET StatusType]
  BY DEF NoGauge

LEMMA NoStatusType == NoStatus \in StatusType
  BY CountType DEF NoStatus, StatusType

LEMMA AbsentType == Absent \in Budgets /\ Absent.life = "absent" /\ [Absent EXCEPT !.life = "gone"] \in Budgets
<1>1. (CHOOSE l \in Limits : TRUE) \in Limits
  BY ClusterAssumption
<1> QED BY <1>1, NoStatusType DEF Absent, Budgets

\* The nodes selected are nodes of the cluster.
LEMMA SelectedType ==
  ASSUME NEW v, IsSnapshot(v) PROVE GetSelectedNodes(v) \subseteq Nodes
<1>1. v["pods"] \in [Pods -> Nodes \cup {Nowhere}] /\ v["nodes"] \in Clusters
  BY SnapshotParts
<1>2. DOMAIN v["nodes"] \subseteq Nodes
  BY <1>1, ClusterAssumption
<1>3. \A reqs : GetNodeFromNodeSelector(v["nodes"], reqs) \subseteq Nodes
  BY <1>2 DEF GetNodeFromNodeSelector, Listed
<1>4. v.pods = v["pods"] /\ v.nodes = v["nodes"]
  OBVIOUS
<1> QED BY <1>1, <1>3, <1>4 DEF GetSelectedNodes, PodNodes, PVCNodes, NodesOfVolume

LEMMA StatusOfType ==
  ASSUME NEW v, IsSnapshot(v), NEW limit \in Limits, NEW nodes \in SUBSET Nodes, NEW selected
  PROVE  StatusOf(v, limit, nodes, selected) \in StatusType
<1> DEFINE found == Disruptions(v, selected)
           count == Cardinality({nd \in found : v.nds[nd] = "granted"})
<1>1. v.nds \in [NDs -> States]
  BY SnapshotParts
<1>2. found \subseteq NDs
  BY DEF Disruptions
<1>3. count \in 0..Cardinality(NDs) /\ count \in Int
  BY <1>2, CountType
<1>4. Cardinality(nodes) \in Int
  <2>1. IsFiniteSet(nodes)
    BY ClusterAssumption, FS_Subset
  <2> QED BY <2>1, FS_CardinalityType
<1>5. limit.max \in Int /\ limit.min \in Int
  BY ClusterAssumption
<1>6. AdbAllowed(limit.max, count) \in Int
  BY <1>3, <1>5 DEF AdbAllowed
<1>7. NdbAllowed(limit.max, limit.min, Cardinality(nodes), count) \in Int
  BY <1>3, <1>4, <1>5 DEF NdbAllowed, Smaller
<1>8. {<<nd, v.nds[nd]>> : nd \in found} \subseteq NDs \X States
  BY <1>1, <1>2
<1> QED BY <1>3, <1>6, <1>7, <1>8 DEF StatusOf, StatusType

LEMMA ValuesByKind ==
  /\ ValuesOf("budget") = Budgets /\ ValuesOf("pods") = [Pods -> Nodes \cup {Nowhere}]
  /\ ValuesOf("pvcs") = [PVCs -> Phases] /\ ValuesOf("nodes") = Clusters
  /\ ValuesOf("nds") = [NDs -> States]
  /\ Informers = {"budget", "pods", "pvcs", "nodes", "nds"}
  BY DEF ValuesOf, Informers

\* What Store does, kind by kind.
LEMMA Stored ==
  ASSUME ClusterType, NEW what \in Informers, NEW value, Store(what, value)
  PROVE  /\ DOMAIN world' = Informers /\ DOMAIN events' = Informers
         /\ world'[what] = value
         /\ events'[what] = IF value = world[what] THEN events[what]
                            ELSE Append(events[what], value)
         /\ \A other \in Informers \ {what} :
               world'[other] = world[other] /\ events'[other] = events[other]
  BY DEF ClusterType, IsSnapshot, EventsType, Store

LEMMA StoreType ==
  ASSUME ClusterType, NEW what \in Informers, NEW value \in ValuesOf(what), Store(what, value),
         UNCHANGED known
  PROVE  ClusterType'
<1>1. /\ world' = [world EXCEPT ![what] = value]
      /\ events' = IF value = world[what] THEN events
                   ELSE [events EXCEPT ![what] = Append(events[what], value)]
  BY DEF Store
<1>2. IsSnapshot(world')
  BY <1>1 DEF IsSnapshot, ClusterType
<1>3. Append(events[what], value) \in Seq(ValuesOf(what))
  BY DEF ClusterType, EventsType
<1>4. EventsType'
  BY <1>1, <1>3 DEF EventsType, ClusterType
<1> QED BY <1>2, <1>4 DEF ClusterType, IsSnapshot

\* The next event of an informer.
LEMMA NextEvent ==
  ASSUME ClusterType, NEW what \in Informers, events[what] # <<>>
  PROVE  /\ Len(events[what]) \in Nat /\ Len(events[what]) >= 1
         /\ Head(events[what]) \in ValuesOf(what) /\ Tail(events[what]) \in Seq(ValuesOf(what))
<1>1. events[what] \in Seq(ValuesOf(what))
  BY DEF ClusterType, EventsType
<1> QED BY <1>1

\* What Deliver does, kind by kind.
LEMMA Delivered ==
  ASSUME ClusterType, NEW what \in Informers, Deliver(what)
  PROVE  /\ DOMAIN known' = Informers /\ DOMAIN events' = Informers
         /\ known'[what] = Head(events[what]) /\ events'[what] = Tail(events[what])
         /\ \A other \in Informers \ {what} :
               known'[other] = known[other] /\ events'[other] = events[other]
  BY DEF ClusterType, IsSnapshot, EventsType, Deliver

LEMMA DeliverType ==
  ASSUME ClusterType, NEW what \in Informers, Deliver(what) PROVE ClusterType'
<1>1. Head(events[what]) \in ValuesOf(what) /\ Tail(events[what]) \in Seq(ValuesOf(what))
  BY NextEvent DEF Deliver
<1>2. /\ known' = [known EXCEPT ![what] = Head(events[what])] /\ UNCHANGED world
      /\ events' = [events EXCEPT ![what] = Tail(events[what])]
  BY DEF Deliver
<1>3. IsSnapshot(known') /\ EventsType'
  BY <1>1, <1>2 DEF IsSnapshot, EventsType, ClusterType
<1> QED BY <1>2, <1>3 DEF ClusterType, IsSnapshot

LEMMA GaugesType ==
  ASSUME AroundType, NEW budget \in Budgets
  PROVE  /\ UpdateMetrics(budget) => gauges' \in [spec : SUBSET Limits, status : SUBSET StatusType]
         /\ PruneMetrics => gauges' \in [spec : SUBSET Limits, status : SUBSET StatusType]
<1>1. budget.limit \in Limits /\ budget.status \in StatusType
  BY DEF Budgets
<1> QED BY <1>1 DEF AroundType, UpdateMetrics, PublishStatus, PruneMetrics, PruneStatus

LEMMA ChangeType == ASSUME AroundType, Change PROVE changes' \in 0..MaxChanges
<1>1. changes \in 0..MaxChanges /\ changes < MaxChanges /\ changes' = changes + 1
  BY DEF AroundType, Change
<1> QED BY <1>1, BoundType

LEMMA IdleType == ASSUME GoIdle PROVE WorkerType'
  BY AbsentType, NoStatusType DEF GoIdle, WorkerType

\* The budget with what a pass or a user writes into it.
LEMMA BudgetWrites ==
  ASSUME NEW budget \in Budgets
  PROVE  /\ [budget EXCEPT !.types = Defaults] \in Budgets
         /\ \A new \in StatusType : [budget EXCEPT !.status = new] \in Budgets
         /\ \A types \in Types, limit \in Limits :
               [budget EXCEPT !.types = types, !.limit = limit] \in Budgets
  BY DEF Budgets

LEMMA TypeReconcile == ASSUME TypeInv, Reconcile PROVE TypeInv'
<1>0. /\ IsSnapshot(world) /\ IsSnapshot(known) /\ known["budget"] \in Budgets
      /\ world["budget"] \in Budgets /\ "budget" \in Informers
      /\ ClusterType /\ AroundType /\ WorkerType
  BY SnapshotParts DEF TypeInv, ClusterType, Informers
<1>1. CASE ReconcileNotFound
  <2>1. ClusterType' /\ WorkerType'
    BY <1>0, <1>1 DEF ReconcileNotFound, Take, Step, worker, ClusterType, IsSnapshot, EventsType,
                      WorkerType
  <2>2. AroundType'
    BY <1>0, <1>1, GaugesType DEF ReconcileNotFound, Take, Step, AroundType
  <2> QED BY <2>1, <2>2 DEF TypeInv
<1>2. CASE SetDefaultTypes
  <2> DEFINE new == [known["budget"] EXCEPT !.types = Defaults]
  <2>1. new \in Budgets /\ new.life = "live" /\ new \in ValuesOf("budget")
    BY <1>0, <1>2, BudgetWrites, ValuesByKind DEF SetDefaultTypes, Budgets
  <2>2. CASE /\ Write(known["budget"], new) /\ UpdateMetrics(new)
             /\ pc' = "select" /\ seen' = new /\ UNCHANGED <<retry, watched, status>>
    <3>1. ClusterType'
      BY <1>0, <1>2, <2>1, <2>2, StoreType DEF SetDefaultTypes, Take, Step, Write
    <3>2. AroundType'
      BY <1>0, <1>2, <2>1, <2>2, GaugesType DEF SetDefaultTypes, Take, Step, AroundType
    <3>3. WorkerType'
      BY <1>0, <2>1, <2>2 DEF WorkerType
    <3> QED BY <3>1, <3>2, <3>3 DEF TypeInv
  <2>3. CASE ReturnError /\ UNCHANGED gauges
    <3>1. ClusterType' /\ AroundType'
      BY <1>0, <1>2, <2>3 DEF SetDefaultTypes, Take, Step, ReturnError, ClusterType, IsSnapshot,
                              EventsType, AroundType
    <3> QED BY <2>3, <3>1, IdleType DEF ReturnError, TypeInv
  <2> QED BY <1>2, <2>2, <2>3 DEF SetDefaultTypes
<1>3. CASE ReconcileBudget
  <2>1. ClusterType' /\ WorkerType'
    BY <1>0, <1>3 DEF ReconcileBudget, Take, Step, ClusterType, IsSnapshot, EventsType, WorkerType
  <2>2. AroundType'
    BY <1>0, <1>3, GaugesType DEF ReconcileBudget, Take, Step, AroundType
  <2> QED BY <2>1, <2>2 DEF TypeInv
<1>4. CASE (SyncSelects \/ SyncResolves) /\ ReturnError
  <2>1. ClusterType' /\ AroundType'
    BY <1>0, <1>4 DEF SyncSelects, SyncResolves, Step, ReturnError, ClusterType, IsSnapshot,
                      EventsType, AroundType
  <2> QED BY <1>4, <2>1, IdleType DEF ReturnError, TypeInv
<1>5. CASE SyncSelects /\ ~ReturnError
  <2>1. ClusterType' /\ AroundType'
    BY <1>0, <1>5 DEF SyncSelects, Step, ClusterType, IsSnapshot, EventsType, AroundType
  <2>2. WorkerType'
    BY <1>0, <1>5, SelectedType DEF SyncSelects, WorkerType
  <2> QED BY <2>1, <2>2 DEF TypeInv
<1>6. CASE SyncResolves /\ ~ReturnError
  <2>1. ClusterType' /\ AroundType'
    BY <1>0, <1>6 DEF SyncResolves, Step, ClusterType, IsSnapshot, EventsType, AroundType
  <2>2. seen.limit \in Limits /\ watched \in SUBSET Nodes
    BY <1>0 DEF WorkerType, Budgets
  <2>3. status' \in StatusType
    BY <1>0, <1>6, <2>2, StatusOfType DEF SyncResolves
  <2>4. WorkerType'
    BY <1>0, <1>6, <2>3 DEF SyncResolves, WorkerType
  <2> QED BY <2>1, <2>4 DEF TypeInv
<1>7. CASE UpdateStatus
  <2>1. AroundType' /\ WorkerType'
    BY <1>0, <1>7, IdleType DEF UpdateStatus, Step, ReturnError, AroundType
  <2>2. CASE Write(seen, [seen EXCEPT !.status = status])
    <3>1. [seen EXCEPT !.status = status] \in ValuesOf("budget")
      BY <1>0, BudgetWrites, ValuesByKind DEF WorkerType
    <3> QED BY <1>0, <1>7, <2>1, <2>2, <3>1, StoreType DEF UpdateStatus, Step, Write, TypeInv
  <2>3. CASE UNCHANGED <<world, events>>
    BY <1>0, <1>7, <2>1, <2>3 DEF UpdateStatus, Step, ClusterType, IsSnapshot, EventsType, TypeInv
  <2> QED BY <1>7, <2>2, <2>3 DEF UpdateStatus, ReturnError
<1> QED BY <1>1, <1>2, <1>3, <1>4, <1>5, <1>6, <1>7 DEF Reconcile

LEMMA TypeEnvironment == ASSUME TypeInv, Environment PROVE TypeInv'
<1>0. /\ IsSnapshot(world) /\ IsSnapshot(known) /\ ClusterType /\ AroundType /\ WorkerType
      /\ world["budget"] \in Budgets /\ world["pods"] \in [Pods -> Nodes \cup {Nowhere}]
      /\ world["pvcs"] \in [PVCs -> Phases] /\ world["nds"] \in [NDs -> States]
  BY SnapshotParts DEF TypeInv, ClusterType
<1>1. CASE RetryFires
  BY <1>0, <1>1 DEF RetryFires, worker, TypeInv, ClusterType, IsSnapshot, EventsType, AroundType,
                    WorkerType
<1>2. ASSUME NEW what \in Informers, Deliver(what) PROVE TypeInv'
  <2>1. AroundType' /\ WorkerType'
    BY <1>0, <1>2 DEF Deliver, worker, AroundType, WorkerType
  <2> QED BY <1>0, <1>2, <2>1, DeliverType DEF TypeInv
<1>3. CASE CallFails
  <2>1. ClusterType' /\ GoIdle /\ gauges' = gauges
    BY <1>0, <1>3 DEF CallFails, Change, ReturnError, ClusterType, IsSnapshot, EventsType
  <2>2. kind' \in Kinds /\ queued' \in BOOLEAN /\ retry' \in BOOLEAN
    BY <1>0, <1>3 DEF CallFails, Change, ReturnError, AroundType
  <2>3. changes' \in 0..MaxChanges
    BY <1>0, <1>3, ChangeType DEF CallFails
  <2> QED BY <1>0, <2>1, <2>2, <2>3, IdleType DEF AroundType, TypeInv
<1>4. CASE Restart
  <2>1. known' = world /\ world' = world /\ events' = [what \in Informers |-> <<>>]
    BY <1>4 DEF Restart
  <2>2. \A what \in Informers : <<>> \in Seq(ValuesOf(what))
    OBVIOUS
  <2>3. ClusterType'
    BY <1>0, <2>1, <2>2 DEF ClusterType, IsSnapshot, EventsType
  <2>4. AroundType'
    <3>1. kind' \in Kinds /\ queued' \in BOOLEAN /\ retry' \in BOOLEAN /\ gauges' = NoGauge
      BY <1>0, <1>4 DEF Restart, Change, AroundType
    <3> QED BY <1>0, <1>4, <3>1, ChangeType, NoGaugeType DEF Restart, AroundType
  <2> QED BY <1>4, <2>3, <2>4, IdleType DEF Restart, TypeInv
<1>5. ASSUME NEW what \in Informers, NEW value \in ValuesOf(what), Store(what, value),
             Aside, kind' = kind, changes' \in {changes, changes + 1}, changes' <= MaxChanges
      PROVE  TypeInv'
  <2>1. AroundType' /\ WorkerType'
    BY <1>0, <1>5, ClusterAssumption DEF Aside, worker, AroundType, WorkerType
  <2> QED BY <1>0, <1>5, <2>1, StoreType DEF Aside, TypeInv
<1>6. ASSUME Around PROVE /\ Aside /\ kind' = kind /\ changes' \in {changes, changes + 1}
                          /\ changes' <= MaxChanges
  BY <1>0, <1>6, ClusterAssumption DEF Around, Change, AroundType
<1>7. ASSUME NEW types \in Types, NEW limit \in Limits, UserCreates(types, limit) PROVE TypeInv'
  <2> DEFINE new == [life |-> "live", types |-> types, limit |-> limit, status |-> NoStatus]
  <2>1. new \in ValuesOf("budget") /\ "budget" \in Informers
    BY NoStatusType, ValuesByKind DEF Budgets
  <2>2. Store("budget", new) /\ Aside /\ kind' = kind /\ changes' = changes /\ changes <= MaxChanges
    BY <1>0, <1>7, ClusterAssumption DEF UserCreates, AroundType
  <2> QED BY <1>5, <2>1, <2>2
<1>8. ASSUME NEW types \in Types, NEW limit \in Limits, UserEdits(types, limit) PROVE TypeInv'
  <2> DEFINE new == [world["budget"] EXCEPT !.types = types, !.limit = limit]
  <2>1. new \in ValuesOf("budget") /\ "budget" \in Informers
    BY <1>0, BudgetWrites, ValuesByKind
  <2>2. Store("budget", new) /\ Around
    BY <1>8 DEF UserEdits
  <2> QED BY <1>5, <1>6, <2>1, <2>2
<1>9. CASE UserDeletes
  <2>1. [Absent EXCEPT !.life = "gone"] \in ValuesOf("budget") /\ "budget" \in Informers
    BY AbsentType, ValuesByKind
  <2> QED BY <1>5, <1>6, <1>9, <2>1 DEF UserDeletes
<1>10. ASSUME NEW p \in Pods, NEW to \in Nodes \cup {Nowhere}, PodMoves(p, to) PROVE TypeInv'
  <2>1. [world["pods"] EXCEPT ![p] = to] \in ValuesOf("pods") /\ "pods" \in Informers
    BY <1>0, ValuesByKind
  <2> QED BY <1>5, <1>6, <1>10, <2>1 DEF PodMoves
<1>11. ASSUME NEW c \in PVCs, NEW phase \in Phases, PVCMoves(c, phase) PROVE TypeInv'
  <2>1. [world["pvcs"] EXCEPT ![c] = phase] \in ValuesOf("pvcs") /\ "pvcs" \in Informers
    BY <1>0, ValuesByKind
  <2> QED BY <1>5, <1>6, <1>11, <2>1 DEF PVCMoves
<1>12. ASSUME NEW cluster \in Clusters, NodesChange(cluster) PROVE TypeInv'
  <2>1. cluster \in ValuesOf("nodes") /\ "nodes" \in Informers
    BY ValuesByKind
  <2> QED BY <1>5, <1>6, <1>12, <2>1 DEF NodesChange
<1>13. ASSUME NEW nd \in NDs, DisruptionMoves(nd) PROVE TypeInv'
  <2>1. PICK to \in States : Store("nds", [world["nds"] EXCEPT ![nd] = to])
    <3>1. {"unknown"} \subseteq States /\ {"pending", "absent"} \subseteq States
          /\ {"granted", "rejected", "absent"} \subseteq States /\ {"absent"} \subseteq States
      BY DEF States
    <3> QED BY <1>13, <3>1 DEF DisruptionMoves
  <2>2. [world["nds"] EXCEPT ![nd] = to] \in ValuesOf("nds") /\ "nds" \in Informers
    BY <1>0, ValuesByKind
  <2> QED BY <1>5, <1>6, <1>13, <2>1, <2>2 DEF DisruptionMoves
<1> QED BY <1>1, <1>2, <1>3, <1>4, <1>7, <1>8, <1>9, <1>10, <1>11, <1>12, <1>13 DEF Environment

LEMMA TypeInit == Init => TypeInv
<1> SUFFICES ASSUME Init PROVE TypeInv
  OBVIOUS
<1>1. IsSnapshot(world)
  BY AbsentType, ClusterAssumption DEF Init, IsSnapshot, ValuesOf, Informers
<1>2. \A what \in Informers : <<>> \in Seq(ValuesOf(what))
  OBVIOUS
<1>3. ClusterType
  BY <1>1, <1>2 DEF Init, ClusterType, EventsType
<1>4. AroundType
  BY BoundType, NoGaugeType DEF Init, AroundType
<1>5. WorkerType
  BY AbsentType, NoStatusType DEF Init, WorkerType
<1> QED BY <1>3, <1>4, <1>5 DEF TypeInv

LEMMA TypeNext == TypeInv /\ [Next]_vars => TypeInv'
<1>1. TypeInv /\ Next => TypeInv'
  BY TypeReconcile, TypeEnvironment DEF Next
<1>2. TypeInv /\ UNCHANGED vars => TypeInv'
  BY DEF vars, TypeInv, ClusterType, IsSnapshot, EventsType, AroundType, WorkerType
<1> QED BY <1>1, <1>2

\* Every variable keeps its type: what a pass computes is a status that the budget
\* can hold, and the worker holds a budget only while it works.
THEOREM BudgetTypeCorrect == Spec => []TypeOK
<1>1. Spec => []TypeInv
  BY TypeInit, TypeNext, PTL DEF Spec
<1> QED BY <1>1, TypeInvImplies, PTL

-----------------------------------------------------------------------------
(* The steps, for invariants that do not look at why something happens.    *)

\* Something changes around the worker: only the creation of a budget is not counted.
Happens(what, value) ==
    /\ Store(what, value) /\ Aside /\ kind' = kind
    /\ changes' # changes \/ (what = "budget" /\ world["budget"].life = "absent")

LEMMA EnvironmentSteps ==
  ASSUME TypeInv, Environment
  PROVE  \/ RetryFires \/ CallFails \/ Restart
         \/ \E what \in Informers : Deliver(what)
         \/ \E what \in Informers : \E value : Happens(what, value)
<1>0. Informers = {"budget", "pods", "pvcs", "nodes", "nds"} /\ Absent.life = "absent"
  BY AbsentType DEF Informers
<1>1. ASSUME Around PROVE Aside /\ kind' = kind /\ changes' # changes
  BY <1>1, BoundType DEF TypeInv, AroundType, Around, Change
<1>2. ASSUME NEW what \in Informers, NEW value, Around, Store(what, value)
      PROVE  Happens(what, value)
  BY <1>1, <1>2 DEF Happens
<1>3. ASSUME NEW types \in Types, NEW limit \in Limits,
             UserCreates(types, limit) \/ UserEdits(types, limit)
      PROVE  \E value : Happens("budget", value)
  <2> DEFINE created == [life |-> "live", types |-> types, limit |-> limit, status |-> NoStatus]
             edited == [world["budget"] EXCEPT !.types = types, !.limit = limit]
  <2>1. UserCreates(types, limit) => Happens("budget", created)
    BY <1>0 DEF UserCreates, Happens
  <2>2. UserEdits(types, limit) => Happens("budget", edited)
    BY <1>0, <1>2 DEF UserEdits
  <2> QED BY <1>3, <2>1, <2>2
<1>4. UserDeletes => Happens("budget", [Absent EXCEPT !.life = "gone"])
  BY <1>0, <1>2 DEF UserDeletes
<1>5. ASSUME NEW p \in Pods, NEW to \in Nodes \cup {Nowhere}, PodMoves(p, to)
      PROVE  Happens("pods", [world["pods"] EXCEPT ![p] = to])
  BY <1>0, <1>2, <1>5 DEF PodMoves
<1>6. ASSUME NEW c \in PVCs, NEW phase \in Phases, PVCMoves(c, phase)
      PROVE  Happens("pvcs", [world["pvcs"] EXCEPT ![c] = phase])
  BY <1>0, <1>2, <1>6 DEF PVCMoves
<1>7. ASSUME NEW cluster \in Clusters, NodesChange(cluster) PROVE Happens("nodes", cluster)
  BY <1>0, <1>2, <1>7 DEF NodesChange
<1>8. ASSUME NEW nd \in NDs, DisruptionMoves(nd) PROVE \E value : Happens("nds", value)
  <2>1. PICK to : Store("nds", [world["nds"] EXCEPT ![nd] = to])
    BY <1>8 DEF DisruptionMoves
  <2>2. Around
    BY <1>8 DEF DisruptionMoves
  <2>3. Happens("nds", [world["nds"] EXCEPT ![nd] = to])
    BY <1>0, <1>2, <2>1, <2>2
  <2> QED BY <2>3
<1>9. UserDeletes => \E value : Happens("budget", value)
  BY <1>4
<1>10. ASSUME NEW p \in Pods, NEW to \in Nodes \cup {Nowhere}, PodMoves(p, to)
       PROVE  \E value : Happens("pods", value)
  BY <1>5, <1>10
<1>11. ASSUME NEW c \in PVCs, NEW phase \in Phases, PVCMoves(c, phase)
       PROVE  \E value : Happens("pvcs", value)
  BY <1>6, <1>11
<1>12. ASSUME NEW cluster \in Clusters, NodesChange(cluster)
       PROVE  \E value : Happens("nodes", value)
  BY <1>7, <1>12
<1> QED BY <1>0, <1>3, <1>8, <1>9, <1>10, <1>11, <1>12 DEF Environment

\* What a step of the worker does to the API server: nothing, or one write of the
\* budget it read, as it still is.
LEMMA ReconcileSteps ==
  ASSUME Reconcile
  PROVE  /\ UNCHANGED <<kind, known, changes>>
         /\ \/ UNCHANGED <<world, events>>
            \/ /\ SetDefaultTypes
               /\ Write(known["budget"], [known["budget"] EXCEPT !.types = Defaults])
            \/ UpdateStatus /\ Write(seen, [seen EXCEPT !.status = status])
  BY DEF Reconcile, ReconcileNotFound, SetDefaultTypes, ReconcileBudget, SyncSelects, SyncResolves,
         UpdateStatus, Take, Step, ReturnError

-----------------------------------------------------------------------------
(* What the user wrote is kept.                                            *)

\* A status is written into the budget that was read, and default types into one
\* that has none, and both only into the budget that is stored.
LEMMA StepKeepsSpec ==
  ASSUME TypeInv, Next, changes' = changes, world["budget"].life = "live"
  PROVE  /\ world'["budget"].limit = world["budget"].limit
         /\ world'["budget"].types = world["budget"].types \/ world["budget"].types = {}
<1>0. /\ world["budget"] \in Budgets /\ "budget" \in Informers /\ ClusterType
      /\ changes \in 0..MaxChanges
  BY SnapshotParts DEF TypeInv, ClusterType, AroundType, Informers
<1>1. CASE UNCHANGED world
  BY <1>1
<1>2. CASE Reconcile
  <2>1. CASE /\ SetDefaultTypes
             /\ Write(known["budget"], [known["budget"] EXCEPT !.types = Defaults])
    <3>1. /\ known["budget"] = world["budget"] /\ known["budget"].types = {}
          /\ world'["budget"] = [known["budget"] EXCEPT !.types = Defaults]
      BY <1>0, <2>1, Stored DEF SetDefaultTypes, LacksTypes, Write
    <3> QED BY <1>0, <3>1 DEF Budgets
  <2>2. CASE Write(seen, [seen EXCEPT !.status = status])
    <3>1. seen = world["budget"] /\ world'["budget"] = [seen EXCEPT !.status = status]
      BY <1>0, <2>2, Stored DEF Write
    <3> QED BY <1>0, <3>1 DEF Budgets
  <2> QED BY <1>1, <1>2, <2>1, <2>2, ReconcileSteps
<1>3. ASSUME NEW what \in Informers, NEW value, Happens(what, value)
      PROVE  world'["budget"] = world["budget"]
  <2>1. what # "budget"
    BY <1>3 DEF Happens
  <2> QED BY <1>0, <1>3, <2>1, Stored DEF Happens
<1>4. ~Change
  BY <1>0, BoundType DEF Change
<1>5. CASE Environment
  <2>1. ~CallFails /\ ~Restart
    BY <1>4 DEF CallFails, Restart
  <2>2. (RetryFires => UNCHANGED world) /\ \A what \in Informers : Deliver(what) => UNCHANGED world
    BY DEF RetryFires, Deliver
  <2> QED BY <1>1, <1>3, <1>5, <2>1, <2>2, EnvironmentSteps
<1> QED BY <1>2, <1>5 DEF Next

\* What the user asked for survives every write of the reconciler: it fills in
\* types where there were none, and a budget edited meanwhile refuses the write.
THEOREM UserSpecKeptCorrect == Spec => UserSpecKept
<1>1. TypeInv /\ [Next]_vars
      => [changes' = changes /\ world["budget"].life = "live" =>
            /\ world'["budget"].limit = world["budget"].limit
            /\ \/ world'["budget"].types = world["budget"].types
               \/ world["budget"].types = {}]_vars
  BY StepKeepsSpec
<1> QED BY <1>1, TypeInit, TypeNext, PTL DEF Spec, UserSpecKept

-----------------------------------------------------------------------------
(* What an informer shows.                                                 *)

\* An informer shows what is stored, or the last of its events will.
Announced ==
    \A what \in Informers :
        IF events[what] = <<>> THEN known[what] = world[what]
        ELSE events[what][Len(events[what])] = world[what]

LEMMA StoreAnnounces ==
  ASSUME ClusterType, Announced, NEW what \in Informers, NEW value \in ValuesOf(what),
         Store(what, value), UNCHANGED known
  PROVE  Announced'
<1>1. ASSUME NEW other \in Informers \ {what}
      PROVE  IF events'[other] = <<>> THEN known'[other] = world'[other]
             ELSE events'[other][Len(events'[other])] = world'[other]
  BY Stored DEF Announced
<1>2. IF events'[what] = <<>> THEN known'[what] = world'[what]
      ELSE events'[what][Len(events'[what])] = world'[what]
  <2>1. CASE value = world[what]
    BY <2>1, Stored DEF Announced
  <2>2. CASE value # world[what]
    <3> DEFINE q == Append(events[what], value)
    <3>1. events[what] \in Seq(ValuesOf(what))
      BY DEF ClusterType, EventsType
    <3>2. q # <<>> /\ q[Len(q)] = value
      BY <3>1
    <3>3. events'[what] = q /\ world'[what] = value
      BY <2>2, Stored
    <3> QED BY <3>2, <3>3
  <2> QED BY <2>1, <2>2
<1> QED BY <1>1, <1>2 DEF Announced

LEMMA DeliverAnnounces ==
  ASSUME ClusterType, Announced, NEW what \in Informers, Deliver(what) PROVE Announced'
<1>0. UNCHANGED world
  BY DEF Deliver
<1>1. ASSUME NEW other \in Informers \ {what}
      PROVE  IF events'[other] = <<>> THEN known'[other] = world'[other]
             ELSE events'[other][Len(events'[other])] = world'[other]
  BY <1>0, Delivered DEF Announced
<1>2. IF events'[what] = <<>> THEN known'[what] = world'[what]
      ELSE events'[what][Len(events'[what])] = world'[what]
  <2> DEFINE q == events[what]
  <2>1. q \in Seq(ValuesOf(what)) /\ q # <<>>
    BY DEF ClusterType, EventsType, Deliver
  <2>2. q[Len(q)] = world[what]
    BY <2>1 DEF Announced
  <2>3. IF Tail(q) = <<>> THEN Head(q) = q[Len(q)] ELSE Tail(q)[Len(Tail(q))] = q[Len(q)]
    <3>1. Tail(q) \in Seq(ValuesOf(what)) /\ Len(Tail(q)) = Len(q) - 1 /\ Len(q) \in Nat \ {0}
          /\ \A i \in 1..Len(Tail(q)) : Tail(q)[i] = q[i + 1]
      BY <2>1, HeadTailProperties
    <3>2. Tail(q) = <<>> <=> Len(q) = 1
      <4>1. ASSUME NEW t \in Seq(ValuesOf(what)) PROVE t = <<>> <=> Len(t) = 0
        BY EmptySeq
      <4>2. Len(Tail(q)) = 0 <=> Len(q) = 1
        BY <3>1
      <4> QED BY <3>1, <4>1, <4>2
    <3>3. Head(q) = q[1]
      BY <2>1
    <3>4. Tail(q) # <<>> => Len(Tail(q)) \in 1..Len(Tail(q))
      BY <3>1, <3>2
    <3> QED BY <3>1, <3>2, <3>3, <3>4
  <2>4. known'[what] = Head(q) /\ events'[what] = Tail(q)
    BY Delivered
  <2> QED BY <1>0, <2>2, <2>3, <2>4
<1> QED BY <1>1, <1>2 DEF Announced

LEMMA StepAnnounces == ASSUME TypeInv, Announced, [Next]_vars PROVE Announced'
<1>0. ClusterType /\ "budget" \in Informers /\ IsSnapshot(world) /\ ClusterType'
  BY TypeNext DEF TypeInv, ClusterType, Informers
<1>1. CASE UNCHANGED <<world, known, events>>
  BY <1>1 DEF Announced
<1>2. ASSUME NEW what \in Informers, NEW value, Store(what, value), UNCHANGED known
      PROVE  Announced'
  <2>1. value \in ValuesOf(what)
    BY <1>0, <1>2, Stored DEF ClusterType, IsSnapshot
  <2> QED BY <1>0, <1>2, <2>1, StoreAnnounces
<1>3. CASE Reconcile
  BY <1>0, <1>1, <1>2, <1>3, ReconcileSteps DEF Write
<1>4. CASE Restart
  BY <1>4 DEF Restart, Announced
<1>5. CASE RetryFires \/ CallFails
  BY <1>1, <1>5 DEF RetryFires, CallFails, ReturnError
<1>6. CASE Environment
  BY <1>0, <1>2, <1>4, <1>5, <1>6, EnvironmentSteps, DeliverAnnounces DEF Happens, Aside
<1> QED BY <1>1, <1>3, <1>6 DEF Next, vars

LEMMA InitAnnounces == Init => Announced
  BY DEF Init, Announced

-----------------------------------------------------------------------------
(* The gauges.                                                             *)

Reflects(budget) ==
    IF budget.life = "live"
    THEN gauges.spec = {budget.limit} /\ gauges.status = {budget.status}
    ELSE gauges.status = {}

\* The gauges are those of the budget a pass works on.  While nothing asks for
\* another pass, the informer shows that budget, or is about to show what the pass
\* has made of it; and so it does when the pass is over.
PassOnLive ==
    pc # "idle" => seen.life = "live" /\ ~LacksTypes(seen) /\ Reflects(seen)
PassOnKnown ==
    ~queued /\ pc # "idle" => /\ known["budget"].life = "live"
                              /\ events["budget"] = <<>> => seen = known["budget"]
PassOver ==
    ~queued /\ ~retry /\ pc = "idle" /\ events["budget"] = <<>> =>
        /\ Reflects(known["budget"])
        /\ known["budget"].life = "live" => ~LacksTypes(known["budget"])
PassInv == PassOnLive /\ PassOnKnown /\ PassOver

\* Nothing that happens or is delivered without queueing the budget touches what
\* its informer shows or a pass holds.
LEMMA Unqueued ==
  ASSUME TypeInv, NEW what \in Informers, ~queued',
         Deliver(what) \/ \E value : Happens(what, value)
  PROVE  /\ ~queued /\ UNCHANGED <<retry, gauges, pc, seen, watched, status, kind>>
         /\ known'["budget"] = known["budget"]
         /\ events'["budget"] = <<>> => events["budget"] = <<>>
<1>0. ClusterType /\ "budget" \in Informers
  BY DEF TypeInv, Informers
<1>1. CASE Deliver(what)
  <2>1. what # "budget" /\ ~queued
    BY <1>1 DEF Deliver, Enqueues
  <2> QED BY <1>0, <1>1, <2>1, Delivered DEF Deliver, worker
<1>2. ASSUME NEW value, Happens(what, value)
      PROVE  /\ ~queued /\ UNCHANGED <<retry, gauges, pc, seen, watched, status, kind, known>>
             /\ events'["budget"] = <<>> => events["budget"] = <<>>
  <2>1. ~queued /\ UNCHANGED <<retry, gauges, pc, seen, watched, status, kind, known>>
    BY <1>2 DEF Happens, Aside, worker
  <2>2. CASE what # "budget" \/ value = world[what]
    <3>1. events'["budget"] = events["budget"]
      BY <1>0, <1>2, <2>2, Stored DEF Happens
    <3> QED BY <2>1, <3>1
  <2>3. CASE what = "budget" /\ value # world[what]
    <3>1. events'["budget"] = Append(events["budget"], value)
      BY <1>0, <1>2, <2>3, Stored DEF Happens
    <3>2. events["budget"] \in Seq(ValuesOf("budget"))
      BY <1>0 DEF ClusterType, EventsType
    <3>3. Append(events["budget"], value) # <<>>
      BY <3>2
    <3> QED BY <2>1, <3>1, <3>3
  <2> QED BY <2>2, <2>3
<1> QED BY <1>1, <1>2

LEMMA EnvironmentKeepsPass == ASSUME TypeInv, PassInv, Environment PROVE PassInv'
<1>0. /\ IsSnapshot(world) /\ IsSnapshot(known) /\ ClusterType /\ AroundType /\ WorkerType
      /\ Absent.life = "absent"
  BY AbsentType DEF TypeInv, ClusterType
<1>1. CASE RetryFires
  BY <1>1 DEF RetryFires, worker, PassInv, PassOnLive, PassOnKnown, PassOver, Reflects, LacksTypes
<1>2. CASE CallFails
  BY <1>2 DEF CallFails, ReturnError, GoIdle, PassInv, PassOnLive, PassOnKnown, PassOver
<1>3. CASE Restart
  <2>1. /\ pc' = "idle" /\ gauges' = NoGauge /\ known'["budget"] = world["budget"]
        /\ queued' = (world["budget"].life = "live")
    BY <1>3 DEF Restart, GoIdle
  <2>2. ~queued' => Reflects(known["budget"])' /\ known'["budget"].life # "live"
    BY <2>1 DEF Reflects, NoGauge
  <2> QED BY <2>1, <2>2 DEF PassInv, PassOnLive, PassOnKnown, PassOver
<1>4. ASSUME NEW what \in Informers, Deliver(what) \/ \E value : Happens(what, value)
      PROVE  PassInv'
  <2>1. UNCHANGED <<gauges, pc, seen>>
    BY <1>4 DEF Deliver, Happens, Aside, worker
  <2>2. PassOnLive'
    BY <2>1 DEF PassInv, PassOnLive, Reflects, LacksTypes
  <2>3. (PassOnKnown /\ PassOver)'
    <3> SUFFICES ASSUME ~queued' PROVE (PassOnKnown /\ PassOver)'
      BY DEF PassOnKnown, PassOver
    <3>1. /\ ~queued /\ UNCHANGED <<retry, gauges, pc, seen>> /\ known'["budget"] = known["budget"]
          /\ events'["budget"] = <<>> => events["budget"] = <<>>
      BY <1>4, Unqueued
    <3> QED BY <3>1 DEF PassInv, PassOnKnown, PassOver, Reflects, LacksTypes
  <2> QED BY <2>2, <2>3 DEF PassInv
<1> QED BY <1>1, <1>2, <1>3, <1>4, EnvironmentSteps

LEMMA ReconcileKeepsPass == ASSUME TypeInv, PassInv, Reconcile PROVE PassInv'
<1>0. /\ ClusterType /\ AroundType /\ WorkerType /\ "budget" \in Informers
      /\ known["budget"] \in Budgets /\ seen \in Budgets /\ Absent.life = "absent"
      /\ events["budget"] \in Seq(Budgets)
  BY SnapshotParts, AbsentType, ValuesByKind
     DEF TypeInv, ClusterType, WorkerType, Informers, EventsType
<1>1. CASE ReconcileNotFound
  <2>1. pc' = "idle" /\ known' = known /\ known["budget"].life # "live" /\ gauges'.status = {}
    BY <1>0, <1>1 DEF ReconcileNotFound, Take, Step, PruneMetrics, PruneStatus, AroundType, worker
  <2> QED BY <2>1 DEF PassInv, PassOnLive, PassOnKnown, PassOver, Reflects
<1>2. ASSUME ReturnError PROVE PassInv'
  BY <1>2 DEF ReturnError, GoIdle, PassInv, PassOnLive, PassOnKnown, PassOver
<1>3. ASSUME NEW budget \in Budgets, budget.life = "live", UpdateMetrics(budget)
      PROVE  gauges'.spec = {budget.limit} /\ gauges'.status = {budget.status}
  BY <1>0, <1>3 DEF UpdateMetrics, PublishStatus, AroundType
<1>4. CASE SetDefaultTypes
  <2> DEFINE new == [known["budget"] EXCEPT !.types = Defaults]
  <2>1. /\ known["budget"].life = "live" /\ known["budget"].types = {} /\ Defaults # {}
        /\ known' = known
    BY <1>4 DEF SetDefaultTypes, LacksTypes, Take, Step
  <2>2. new \in Budgets /\ new.life = "live" /\ new.types = Defaults /\ new # known["budget"]
    <3>1. new \in Budgets
      BY <1>0, BudgetWrites
    <3>2. new.life = "live" /\ new.types = Defaults
      BY <1>0, <2>1 DEF Budgets
    <3>3. new.types # known["budget"].types
      BY <2>1, <3>2
    <3> HIDE DEF new
    <3> QED BY <3>1, <3>2, <3>3
  <2>3. CASE /\ Write(known["budget"], new) /\ UpdateMetrics(new)
             /\ pc' = "select" /\ seen' = new
    <3>1. events'["budget"] = Append(events["budget"], new)
      BY <1>0, <2>2, <2>3, Stored DEF Write
    <3>2. events'["budget"] # <<>>
      BY <1>0, <2>2, <3>1
    <3>3. PassOnLive'
      BY <1>3, <2>1, <2>2, <2>3 DEF PassOnLive, Reflects, LacksTypes
    <3>4. (PassOnKnown /\ PassOver)'
      BY <2>1, <2>3, <3>2 DEF PassOnKnown, PassOver
    <3> QED BY <3>3, <3>4 DEF PassInv
  <2> QED BY <1>2, <1>4, <2>3 DEF SetDefaultTypes
<1>5. CASE ReconcileBudget
  <2>1. /\ known["budget"].life = "live" /\ ~LacksTypes(known["budget"]) /\ known' = known
        /\ pc' = "select" /\ seen' = known["budget"] /\ UpdateMetrics(known["budget"])
    BY <1>5 DEF ReconcileBudget, Take, Step
  <2> QED BY <1>0, <1>3, <2>1 DEF PassInv, PassOnLive, PassOnKnown, PassOver, Reflects, LacksTypes
<1>6. ASSUME UNCHANGED <<known, events, queued, retry, gauges, seen>>, pc # "idle", pc' # "idle"
      PROVE  PassInv'
  BY <1>6 DEF PassInv, PassOnLive, PassOnKnown, PassOver, Reflects, LacksTypes
<1>7. CASE SyncSelects
  BY <1>2, <1>6, <1>7 DEF SyncSelects, Step
<1>8. CASE SyncResolves
  BY <1>2, <1>6, <1>8 DEF SyncResolves, Step
<1>9. CASE UpdateStatus /\ ~ReturnError
  <2>1. pc' = "idle" /\ pc # "idle" /\ UNCHANGED <<known, queued, gauges, retry>>
    BY <1>9 DEF UpdateStatus, GoIdle, Step
  <2>2. PassOnLive /\ PassOnKnown
    BY DEF PassInv
  <2>3. events'["budget"] = <<>> => events["budget"] = <<>>
    <3>1. CASE UNCHANGED events
      BY <3>1
    <3>2. CASE Write(seen, [seen EXCEPT !.status = status])
      <4> DEFINE new == [seen EXCEPT !.status = status]
      <4>1. new \in Budgets
        BY <1>0, BudgetWrites DEF WorkerType
      <4>2. events'["budget"] \in {events["budget"], Append(events["budget"], new)}
        BY <1>0, <3>2, Stored DEF Write
      <4>3. Append(events["budget"], new) # <<>>
        BY <1>0, <4>1
      <4> QED BY <4>2, <4>3
    <3> QED BY <1>9, <3>1, <3>2 DEF UpdateStatus
  <2> QED BY <2>1, <2>2, <2>3 DEF PassInv, PassOnLive, PassOnKnown, PassOver, Reflects, LacksTypes
<1> QED BY <1>1, <1>2, <1>4, <1>5, <1>7, <1>8, <1>9 DEF Reconcile

LEMMA InitPass == Init => PassInv
  BY AbsentType DEF Init, NoGauge, PassInv, PassOnLive, PassOnKnown, PassOver, Reflects, Informers

LEMMA StepKeepsPass == ASSUME TypeInv, PassInv, [Next]_vars PROVE PassInv'
<1>1. CASE UNCHANGED vars
  BY <1>1 DEF vars, PassInv, PassOnLive, PassOnKnown, PassOver, Reflects, LacksTypes
<1> QED BY <1>1, EnvironmentKeepsPass, ReconcileKeepsPass DEF Next

LEMMA GaugesFollow == TypeInv /\ Announced /\ PassInv => SettledGaugesReflect
<1> SUFFICES ASSUME TypeInv, Announced, PassInv, Settled, world["budget"].life = "live"
             PROVE  /\ gauges.spec = {world["budget"].limit}
                    /\ gauges.status = {world["budget"].status}
  BY DEF SettledGaugesReflect
<1>1. "budget" \in Informers
  BY DEF Informers
<1>2. known["budget"] = world["budget"]
  BY <1>1 DEF Settled, Announced
<1>3. Reflects(world["budget"])
  BY <1>1, <1>2 DEF Settled, PassInv, PassOver
<1> QED BY <1>3 DEF Reflects

\* When nothing is left to do the metrics of a budget that exists are its spec and
\* the status it stores: a pass publishes what it read, and what it then writes
\* comes back to it as an event.
THEOREM SettledGaugesReflectCorrect == Spec => []SettledGaugesReflect
<1>1. Init => TypeInv /\ Announced /\ PassInv
  BY TypeInit, InitAnnounces, InitPass
<1>2. (TypeInv /\ Announced /\ PassInv) /\ [Next]_vars => (TypeInv /\ Announced /\ PassInv)'
  BY TypeNext, StepAnnounces, StepKeepsPass
<1> QED BY <1>1, <1>2, GaugesFollow, PTL DEF Spec

LEMMA SpecSeriesStep ==
  ASSUME TypeInv, gauges.spec # {}, Next PROVE gauges'.spec # {} \/ Restart
<1>0. gauges \in [spec : SUBSET Limits, status : SUBSET StatusType]
  BY DEF TypeInv, AroundType
<1>1. CASE UNCHANGED gauges
  BY <1>1
<1>2. CASE ReconcileNotFound
  BY <1>0, <1>2 DEF ReconcileNotFound, PruneMetrics, PruneStatus
<1>3. CASE ReconcileBudget \/ SetDefaultTypes
  <2>1. CASE \E budget : UpdateMetrics(budget)
    BY <1>0, <2>1 DEF UpdateMetrics, PublishStatus
  <2> QED BY <1>1, <1>3, <2>1 DEF ReconcileBudget, SetDefaultTypes
<1>4. CASE SyncSelects \/ SyncResolves \/ UpdateStatus
  BY <1>1, <1>4 DEF SyncSelects, SyncResolves, UpdateStatus
<1>5. CASE Environment
  BY <1>1, <1>5 DEF Environment, RetryFires, UserDeletes, CallFails, Deliver, UserCreates, UserEdits,
     PodMoves, PVCMoves, NodesChange, DisruptionMoves, Around, Aside
<1> QED BY <1>2, <1>3, <1>4, <1>5 DEF Next, Reconcile

\* "remove metrics for an ADB that don't exist anymore" (PruneADBMetrics, and so
\* for an NDB) is not what happens to the metrics of the spec: once published they
\* stay, whatever becomes of the budget, until the process restarts.
THEOREM SpecSeriesStay ==
  Spec => [][gauges.spec # {} => gauges'.spec # {} \/ Restart]_vars
<1>1. TypeInv /\ [Next]_vars => [gauges.spec # {} => gauges'.spec # {} \/ Restart]_vars
  BY SpecSeriesStep
<1> QED BY <1>1, TypeInit, TypeNext, PTL DEF Spec

-----------------------------------------------------------------------------
(* The status.                                                             *)

\* The nodes that a pass may see of a snapshot: any, where no event of a node
\* reaches the reconciler.
ReadingsOf(v) == IF kind = "adb" THEN Clusters ELSE {v["nodes"]}
Reading(v, cluster) == [v EXCEPT !["nodes"] = cluster]

\* What a pass that reads v may select, and the status it may come to.
Selections(v) == {GetSelectedNodes(Reading(v, first)) : first \in ReadingsOf(v)}
Answers(v, limit) ==
    {StatusOf(Reading(v, second), limit, GetSelectedNodes(Reading(v, first)),
              GetSelectedNodes(Reading(v, second))) : first, second \in ReadingsOf(v)}

LEMMA ReadingParts ==
  ASSUME NEW v, IsSnapshot(v), NEW cluster \in Clusters
  PROVE  /\ Reading(v, cluster).pods = v.pods /\ Reading(v, cluster).pvcs = v.pvcs
         /\ Reading(v, cluster).nds = v.nds /\ Reading(v, cluster).nodes = cluster
         /\ Reading(v, v["nodes"]) = v /\ v["nodes"] \in Clusters
<1>1. v = [what \in Informers |-> v[what]] /\ v["nodes"] \in Clusters
  BY SnapshotParts DEF IsSnapshot
<1> QED BY <1>1 DEF Reading, Informers

\* What these say of a snapshot depends on the kind of the budget and nothing else.
LEMMA SameKind ==
  ASSUME kind' = kind
  PROVE  /\ \A v : Selections(v)' = Selections(v) /\ (CannotSelect(v)' <=> CannotSelect(v))
         /\ \A v, limit : Answers(v, limit)' = Answers(v, limit)
<1>1. \A v : GetSelectedNodes(v)' = GetSelectedNodes(v) /\ ReadingsOf(v)' = ReadingsOf(v)
  BY DEF GetSelectedNodes, ReadingsOf
<1>2. \A v, limit, nodes, selected :
         StatusOf(v, limit, nodes, selected)' = StatusOf(v, limit, nodes, selected)
  BY DEF StatusOf
<1>3. \A v : Selections(v)' = Selections(v)
  BY <1>1 DEF Selections
<1>4. \A v, limit : Answers(v, limit)' = Answers(v, limit)
  BY <1>1, <1>2 DEF Answers
<1>5. \A v : CannotSelect(v)' <=> CannotSelect(v)
  BY DEF CannotSelect
<1> QED BY <1>3, <1>4, <1>5

\* A pass comes to the answers of what it reads.
LEMMA AnswersRead ==
  ASSUME NEW v, IsSnapshot(v), NEW limit, NEW nodes \in Selections(v)
  PROVE  StatusOf(v, limit, nodes, GetSelectedNodes(v)) \in Answers(v, limit)
<1>1. v["nodes"] \in ReadingsOf(v) /\ Reading(v, v["nodes"]) = v
  BY ReadingParts, SnapshotParts DEF ReadingsOf
<1>2. PICK first \in ReadingsOf(v) : nodes = GetSelectedNodes(Reading(v, first))
  BY DEF Selections
<1> QED BY <1>1, <1>2 DEF Answers

LEMMA SelectionsRead ==
  ASSUME NEW v, IsSnapshot(v) PROVE GetSelectedNodes(v) \in Selections(v)
<1>1. v["nodes"] \in ReadingsOf(v) /\ Reading(v, v["nodes"]) = v
  BY ReadingParts, SnapshotParts DEF ReadingsOf
<1> QED BY <1>1 DEF Selections

\* An ADB's answers are over all the nodes there may be.
LEMMA SameAnswersOfAdb ==
  ASSUME NEW v, IsSnapshot(v), NEW w, IsSnapshot(w), kind = "adb",
         \A what \in Informers \ {"nodes"} : w[what] = v[what]
  PROVE  /\ Selections(w) = Selections(v) /\ (CannotSelect(w) <=> CannotSelect(v))
         /\ \A limit : Answers(w, limit) = Answers(v, limit)
<1>1. ASSUME NEW cluster PROVE Reading(w, cluster) = Reading(v, cluster)
  <2>1. /\ DOMAIN w = Informers /\ DOMAIN v = Informers
        /\ w = [what \in Informers |-> w[what]] /\ v = [what \in Informers |-> v[what]]
    BY DEF IsSnapshot
  <2>2. Reading(w, cluster) = [what \in Informers |-> IF what = "nodes" THEN cluster ELSE w[what]]
    BY <2>1 DEF Reading
  <2>3. Reading(v, cluster) = [what \in Informers |-> IF what = "nodes" THEN cluster ELSE v[what]]
    BY <2>1 DEF Reading
  <2> QED BY <2>2, <2>3
<1>2. w.pvcs = v.pvcs
  BY DEF Informers
<1> QED BY <1>1, <1>2 DEF Selections, Answers, ReadingsOf, CannotSelect, BoundClaims

\* Labels that the NDB's selector saw neither before nor after change no selection.
LEMMA Untouched ==
  ASSUME NEW old, NEW new, ~SelectsTouched(old, new)
  PROVE  /\ GetNodeFromNodeSelector(new, NodeSelector) = GetNodeFromNodeSelector(old, NodeSelector)
         /\ \A reqs : GetNodeFromNodeSelector(new, reqs) \cap GetNodeFromNodeSelector(old, NodeSelector)
                      = GetNodeFromNodeSelector(old, reqs) \cap GetNodeFromNodeSelector(old, NodeSelector)
<1> DEFINE before == GetNodeFromNodeSelector(old, NodeSelector)
           after == GetNodeFromNodeSelector(new, NodeSelector)
<1>1. before \subseteq DOMAIN old /\ after \subseteq DOMAIN new
  BY DEF GetNodeFromNodeSelector, Listed
<1>2. \A n \in before \cup after : n \in DOMAIN old /\ n \in DOMAIN new /\ old[n] = new[n]
  BY <1>1 DEF SelectsTouched, Touched
<1>3. \A reqs : \A n \in before \cup after :
         n \in GetNodeFromNodeSelector(new, reqs) <=> n \in GetNodeFromNodeSelector(old, reqs)
  BY <1>2 DEF GetNodeFromNodeSelector, Listed
<1>4. after = before
  BY <1>3
<1> QED BY <1>3, <1>4

LEMMA SameAnswersOfNdb ==
  ASSUME NEW v, IsSnapshot(v), NEW w, IsSnapshot(w), kind # "adb", w["nds"] = v["nds"],
         w["nodes"] = v["nodes"] \/ ~SelectsTouched(v["nodes"], w["nodes"])
  PROVE  /\ Selections(w) = Selections(v) /\ (CannotSelect(w) <=> CannotSelect(v))
         /\ \A limit : Answers(w, limit) = Answers(v, limit)
<1>1. /\ Reading(v, v["nodes"]) = v /\ Reading(w, w["nodes"]) = w
      /\ ReadingsOf(v) = {v["nodes"]} /\ ReadingsOf(w) = {w["nodes"]}
  BY ReadingParts, SnapshotParts DEF ReadingsOf
<1>2. GetSelectedNodes(w) = GetSelectedNodes(v)
  BY Untouched DEF GetSelectedNodes
<1>3. Disruptions(w, GetSelectedNodes(w)) = Disruptions(v, GetSelectedNodes(v))
  <2>1. \A reqs : GetNodeFromNodeSelector(w.nodes, reqs) \cap GetSelectedNodes(v)
                  = GetNodeFromNodeSelector(v.nodes, reqs) \cap GetSelectedNodes(v)
    BY Untouched DEF GetSelectedNodes
  <2> QED BY <1>2, <2>1 DEF Disruptions
<1>4. \A limit, nodes : StatusOf(w, limit, nodes, GetSelectedNodes(w))
                        = StatusOf(v, limit, nodes, GetSelectedNodes(v))
  BY <1>3 DEF StatusOf
<1>5. Selections(v) = {GetSelectedNodes(v)} /\ Selections(w) = {GetSelectedNodes(w)}
  BY <1>1 DEF Selections
<1>6. ASSUME NEW limit
      PROVE  /\ Answers(v, limit) = {StatusOf(v, limit, GetSelectedNodes(v), GetSelectedNodes(v))}
             /\ Answers(w, limit) = {StatusOf(w, limit, GetSelectedNodes(w), GetSelectedNodes(w))}
  BY <1>1 DEF Answers
<1> QED BY <1>2, <1>4, <1>5, <1>6 DEF CannotSelect

\* While nothing asks for another pass, what a pass has found is what its informers
\* say: the nodes it selected, the status it computed, the status it left.
SelectedNow ==
    ~queued /\ pc \in {"resolve", "write"} => ~CannotSelect(known) /\ watched \in Selections(known)
ComputedNow ==
    ~queued /\ pc = "write" => status \in Answers(known, seen.limit)
LeftNow ==
    ~queued /\ ~retry /\ pc = "idle" /\ events["budget"] = <<>> /\ known["budget"].life = "live" =>
        /\ ~CannotSelect(known)
        /\ known["budget"].status \in Answers(known, known["budget"].limit)
StatusInv == SelectedNow /\ ComputedNow /\ LeftNow

\* An event that does not queue a live budget changes none of its answers.
LEMMA UnqueuedAnswers ==
  ASSUME TypeInv, TypeInv', NEW what \in Informers, ~queued', known["budget"].life = "live",
         Deliver(what) \/ \E value : Happens(what, value), NEW w, w = known'
  PROVE  /\ Selections(w) = Selections(known) /\ (CannotSelect(w) <=> CannotSelect(known))
         /\ \A limit : Answers(w, limit) = Answers(known, limit)
<1>0. IsSnapshot(known) /\ IsSnapshot(w) /\ ClusterType
  BY DEF TypeInv, ClusterType
<1>1. CASE w = known
  BY <1>1
<1>2. CASE Deliver(what)
  <2>1. /\ \A other \in Informers \ {what} : w[other] = known[other]
        /\ w[what] = Head(events[what])
    BY <1>0, <1>2, Delivered
  <2>2. /\ what # "budget"
        /\ what \in Watches => what = "nodes" /\ ~SelectsTouched(known["nodes"], w["nodes"])
    BY <1>2, <2>1 DEF Deliver, Enqueues
  <2>3. CASE kind = "adb"
    <3>1. what = "nodes"
      BY <2>2, <2>3 DEF Watches, AdbMatches, NdbMatches, Informers
    <3> QED BY <1>0, <2>1, <2>3, <3>1, SameAnswersOfAdb
  <2>4. CASE kind # "adb"
    <3>1. what # "nds" /\ (what = "nodes" => ~SelectsTouched(known["nodes"], w["nodes"]))
      BY <2>2, <2>4 DEF Watches, NdbMatches
    <3>2. w["nds"] = known["nds"] /\ (w["nodes"] = known["nodes"]
                                      \/ ~SelectsTouched(known["nodes"], w["nodes"]))
      BY <2>1, <3>1 DEF Informers
    <3> QED BY <1>0, <2>4, <3>2, SameAnswersOfNdb
  <2> QED BY <2>3, <2>4
<1>3. (\E value : Happens(what, value)) => w = known
  BY DEF Happens, Aside
<1> QED BY <1>1, <1>2, <1>3

LEMMA EnvironmentKeepsStatus ==
  ASSUME TypeInv, TypeInv', PassInv, StatusInv, Environment PROVE StatusInv'
<1>1. CASE RetryFires
  BY <1>1 DEF RetryFires, StatusInv, SelectedNow, ComputedNow, LeftNow
<1>2. CASE CallFails
  BY <1>2 DEF CallFails, ReturnError, GoIdle, StatusInv, SelectedNow, ComputedNow, LeftNow
<1>3. CASE Restart
  <2>1. pc' = "idle" /\ known'["budget"] = world["budget"]
        /\ queued' = (world["budget"].life = "live")
    BY <1>3 DEF Restart, GoIdle
  <2> QED BY <2>1 DEF StatusInv, SelectedNow, ComputedNow, LeftNow
<1>4. ASSUME NEW what \in Informers, Deliver(what) \/ \E value : Happens(what, value)
      PROVE  StatusInv'
  <2> SUFFICES ASSUME ~queued' PROVE StatusInv'
    BY DEF StatusInv, SelectedNow, ComputedNow, LeftNow
  <2>1. /\ ~queued /\ UNCHANGED <<retry, pc, seen, watched, status, kind>>
        /\ known'["budget"] = known["budget"]
        /\ events'["budget"] = <<>> => events["budget"] = <<>>
    BY <1>4, Unqueued
  <2>2. CASE known["budget"].life = "live"
    <3>1. PICK w : w = known'
      OBVIOUS
    <3>2. /\ Selections(w) = Selections(known) /\ (CannotSelect(w) <=> CannotSelect(known))
          /\ \A limit : Answers(w, limit) = Answers(known, limit)
      BY <1>4, <2>2, <3>1, UnqueuedAnswers
    <3>3. /\ Selections(known)' = Selections(w) /\ (CannotSelect(known)' <=> CannotSelect(w))
          /\ \A limit : Answers(known, limit)' = Answers(w, limit)
      BY <2>1, <3>1, SameKind
    <3>4. (SelectedNow /\ ComputedNow)'
      BY <2>1, <3>2, <3>3 DEF StatusInv, SelectedNow, ComputedNow
    <3>5. LeftNow'
      BY <2>1, <3>2, <3>3 DEF StatusInv, LeftNow
    <3> QED BY <3>4, <3>5 DEF StatusInv
  <2>3. CASE known["budget"].life # "live"
    BY <2>1, <2>3 DEF PassInv, PassOnKnown, StatusInv, SelectedNow, ComputedNow, LeftNow
  <2> QED BY <2>2, <2>3
<1> QED BY <1>1, <1>2, <1>3, <1>4, EnvironmentSteps

LEMMA ReconcileKeepsStatus ==
  ASSUME TypeInv, PassInv, StatusInv, Reconcile PROVE StatusInv'
<1>0. /\ ClusterType /\ AroundType /\ WorkerType /\ "budget" \in Informers /\ IsSnapshot(known)
      /\ known["budget"] \in Budgets /\ seen \in Budgets /\ events["budget"] \in Seq(Budgets)
  BY SnapshotParts, ValuesByKind DEF TypeInv, ClusterType, WorkerType, Informers, EventsType
<1>1. /\ known' = known /\ kind' = kind
      /\ Selections(known)' = Selections(known) /\ (CannotSelect(known)' <=> CannotSelect(known))
      /\ \A limit : Answers(known, limit)' = Answers(known, limit)
  <2>1. known' = known /\ kind' = kind
    BY ReconcileSteps
  <2>2. PICK w : w = known
    OBVIOUS
  <2>3. /\ Selections(known)' = Selections(w)' /\ (CannotSelect(known)' <=> CannotSelect(w)')
        /\ \A limit : Answers(known, limit)' = Answers(w, limit)'
    BY <2>1, <2>2
  <2> QED BY <2>1, <2>2, <2>3, SameKind
<1>2. CASE ReconcileNotFound
  BY <1>1, <1>2 DEF ReconcileNotFound, worker, StatusInv, SelectedNow, ComputedNow, LeftNow, Take
<1>3. ASSUME pc' = "select" \/ ReturnError PROVE StatusInv'
  BY <1>3 DEF ReturnError, GoIdle, StatusInv, SelectedNow, ComputedNow, LeftNow
<1>4. CASE SetDefaultTypes \/ ReconcileBudget
  BY <1>3, <1>4 DEF SetDefaultTypes, ReconcileBudget
<1>5. CASE SyncSelects
  <2>1. CASE /\ ~CannotSelect(known) /\ pc' = "resolve" /\ watched' = GetSelectedNodes(known)
    BY <1>0, <1>1, <2>1, SelectionsRead DEF StatusInv, SelectedNow, ComputedNow, LeftNow
  <2> QED BY <1>3, <1>5, <2>1 DEF SyncSelects
<1>6. CASE SyncResolves
  <2>1. CASE /\ pc = "resolve" /\ ~CannotSelect(known) /\ pc' = "write" /\ queued' = queued
             /\ status' = StatusOf(known, seen.limit, watched, GetSelectedNodes(known))
             /\ seen' = seen /\ watched' = watched
    <3>1. ~queued => watched \in Selections(known)
      BY <2>1 DEF StatusInv, SelectedNow
    <3>2. ~queued => status' \in Answers(known, seen.limit)
      BY <1>0, <2>1, <3>1, AnswersRead
    <3> QED BY <1>1, <2>1, <3>1, <3>2 DEF StatusInv, SelectedNow, ComputedNow, LeftNow
  <2> QED BY <1>3, <1>6, <2>1 DEF SyncResolves, Step
<1>7. CASE UpdateStatus /\ ~ReturnError
  <2>1. pc = "write" /\ pc' = "idle" /\ queued' = queued
    BY <1>7 DEF UpdateStatus, GoIdle, Step
  <2>2. ~queued /\ events'["budget"] = <<>> => seen = known["budget"] /\ status = seen.status
    <3> SUFFICES ASSUME ~queued, events'["budget"] = <<>>
                 PROVE  seen = known["budget"] /\ status = seen.status
      OBVIOUS
    <3>1. events["budget"] = <<>> => seen = known["budget"]
      BY <2>1 DEF PassInv, PassOnKnown
    <3>2. CASE ~Differs /\ UNCHANGED events
      BY <3>1, <3>2 DEF Differs
    <3>3. CASE Write(seen, [seen EXCEPT !.status = status])
      <4> DEFINE new == [seen EXCEPT !.status = status]
      <4>1. new \in Budgets /\ new.status = status
        BY <1>0 DEF WorkerType, Budgets
      <4>2. /\ world["budget"] = seen
            /\ events'["budget"] = IF new = world["budget"] THEN events["budget"]
                                   ELSE Append(events["budget"], new)
        BY <1>0, <3>3, Stored DEF Write
      <4>3. Append(events["budget"], new) # <<>>
        BY <1>0, <4>1
      <4>4. new = seen /\ events["budget"] = <<>>
        BY <4>2, <4>3
      <4> QED BY <3>1, <4>1, <4>4
    <3> QED BY <1>7, <3>2, <3>3 DEF UpdateStatus
  <2>3. ~queued => ~CannotSelect(known) /\ status \in Answers(known, seen.limit)
    BY <2>1 DEF StatusInv, SelectedNow, ComputedNow
  <2> QED BY <1>1, <2>1, <2>2, <2>3 DEF StatusInv, SelectedNow, ComputedNow, LeftNow
<1> QED BY <1>2, <1>3, <1>4, <1>5, <1>6, <1>7 DEF Reconcile

LEMMA InitStatus == Init => StatusInv
<1>1. Init => pc = "idle" /\ known["budget"].life = "absent"
  BY AbsentType DEF Init, Informers
<1> QED BY <1>1 DEF StatusInv, SelectedNow, ComputedNow, LeftNow

LEMMA StepKeepsStatus == ASSUME TypeInv, TypeInv', PassInv, StatusInv, [Next]_vars PROVE StatusInv'
<1>1. CASE UNCHANGED vars
  <2>1. UNCHANGED <<kind, known, events, queued, retry, pc, seen, watched, status>>
    BY <1>1 DEF vars
  <2>2. PICK w : w = known
    OBVIOUS
  <2>3. /\ Selections(known)' = Selections(w)' /\ (CannotSelect(known)' <=> CannotSelect(w)')
        /\ \A limit : Answers(known, limit)' = Answers(w, limit)'
    BY <2>1, <2>2
  <2>4. /\ Selections(known)' = Selections(known) /\ (CannotSelect(known)' <=> CannotSelect(known))
        /\ \A limit : Answers(known, limit)' = Answers(known, limit)
    BY <2>1, <2>2, <2>3, SameKind
  <2> QED BY <2>1, <2>4 DEF StatusInv, SelectedNow, ComputedNow, LeftNow
<1> QED BY <1>1, EnvironmentKeepsStatus, ReconcileKeepsStatus DEF Next

-----------------------------------------------------------------------------
(* What the status is meant to say.                                        *)

\* Every volume has one alternative at most, as a local volume does.
OneTerm == \A c \in PVCs : \A one, other \in Affinity[c] : one = other

\* Then the nodes found are those meant: alternatives that the conversion joins
\* are the only thing that can be missed.
LEMMA SelectionMeant ==
  ASSUME OneTerm, NEW v, IsSnapshot(v), ~CannotSelect(v), NEW cluster \in Clusters
  PROVE  GetSelectedNodes(Reading(v, cluster)) = NodesToWatch(Reading(v, cluster))
<1> DEFINE w == Reading(v, cluster)
<1>1. BoundClaims(w) = BoundClaims(v)
  BY ReadingParts DEF BoundClaims
<1>2. CASE kind = "adb"
  <2>1. ASSUME NEW c \in BoundClaims(w)
        PROVE  NodesOfVolume(w.nodes, Affinity[c]) = ReachesVolume(w.nodes, Affinity[c])
    <3>1. c \in PVCs /\ ~CannotConvert(Affinity[c])
      BY <1>1, <1>2 DEF CannotSelect, BoundClaims
    <3>2. CASE Affinity[c] = {}
      BY <3>2 DEF NodesOfVolume, ReachesVolume, GetNodeFromNodeSelector, NodeSelectorAsSelector
    <3>3. ASSUME NEW term \in Affinity[c]
          PROVE  NodesOfVolume(w.nodes, Affinity[c]) = ReachesVolume(w.nodes, Affinity[c])
      <4>1. Affinity[c] = {term}
        BY <3>1 DEF OneTerm
      <4> QED BY <3>1, <4>1, OneTermExact
    <3> QED BY <3>2, <3>3
  <2> HIDE DEF w
  <2>2. {NodesOfVolume(w.nodes, Affinity[c]) : c \in BoundClaims(w)}
        = {ReachesVolume(w.nodes, Affinity[c]) : c \in BoundClaims(w)}
    BY <2>1
  <2>3. GetSelectedNodes(w) = NodesToWatch(w)
    BY <1>2, <2>2 DEF GetSelectedNodes, NodesToWatch, PVCNodes
  <2> QED BY <2>3 DEF w
<1>3. CASE kind # "adb"
  BY <1>3 DEF GetSelectedNodes, NodesToWatch
<1> QED BY <1>2, <1>3

LEMMA StatusFollows ==
  ASSUME OneTerm, TypeInv, Announced, PassInv, StatusInv PROVE SettledIsUpToDate
<1> SUFFICES ASSUME Settled, world["budget"].life = "live" PROVE UpToDate
  BY DEF SettledIsUpToDate
<1>1. known["budget"] = world["budget"] /\ known = world
  <2>1. \A what \in Informers : known[what] = world[what]
    BY DEF Settled, Announced
  <2> QED BY <2>1 DEF TypeInv, ClusterType, IsSnapshot, Informers
<1>2. /\ ~CannotSelect(world) /\ IsSnapshot(world) /\ ~LacksTypes(world["budget"])
      /\ world["budget"].status \in Answers(world, world["budget"].limit)
  BY <1>1 DEF Settled, Informers, StatusInv, LeftNow, PassInv, PassOver, TypeInv, ClusterType
<1>3. Readings = ReadingsOf(world) /\ ReadingsOf(world) \subseteq Clusters
  BY <1>2, SnapshotParts DEF Readings, ReadingsOf
<1>4. PICK first, second \in Readings :
         world["budget"].status
         = StatusOf(Reading(world, second), world["budget"].limit,
                    GetSelectedNodes(Reading(world, first)), GetSelectedNodes(Reading(world, second)))
  BY <1>2, <1>3 DEF Answers
<1>5. world["budget"].status
      = StatusOf(Reading(world, second), world["budget"].limit,
                 NodesToWatch(Reading(world, first)), NodesToWatch(Reading(world, second)))
  BY <1>2, <1>3, <1>4, SelectionMeant
<1> QED BY <1>2, <1>5 DEF UpToDate, Reading

\* When nothing is left to do, a budget's types are filled in and its status is
\* what the cluster says, whatever order the informers delivered in, whatever
\* changed between the two selections of one pass, failed or was cut off: if no
\* volume has alternatives, which AlternativesLost shows the conversion to lose.
THEOREM SettledIsUpToDateCorrect == ASSUME OneTerm PROVE Spec => []SettledIsUpToDate
<1>1. Init => TypeInv /\ Announced /\ PassInv /\ StatusInv
  BY TypeInit, InitAnnounces, InitPass, InitStatus
<1>2. (TypeInv /\ Announced /\ PassInv /\ StatusInv) /\ [Next]_vars
      => (TypeInv /\ Announced /\ PassInv /\ StatusInv)'
  BY TypeNext, StepAnnounces, StepKeepsPass, StepKeepsStatus
<1>3. TypeInv /\ Announced /\ PassInv /\ StatusInv => SettledIsUpToDate
  BY StatusFollows
<1> QED BY <1>1, <1>2, <1>3, PTL DEF Spec
=============================================================================
