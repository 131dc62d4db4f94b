----------------------- MODULE NodeDisruptionController -----------------------
(***************************************************************************)
(* The NodeDisruption reconciler (internal/controller/                      *)
(* nodedisruption_controller.go) running against a Kubernetes API server.  *)
(*                                                                         *)
(* The reconciler has one worker.  It reads every object from an informer  *)
(* cache that trails the API server, calls the application managers'       *)
(* hooks, and writes one object back under optimistic concurrency.  Users  *)
(* create and delete NodeDisruptions, managers get their application ready *)
(* and the controller restarts at any moment in between.                   *)
(*                                                                         *)
(* Abstractions: an object's resourceVersion is its content, so a write is *)
(* accepted iff the object read equals the one stored (contents of one     *)
(* NodeDisruption that are equal lead to equal behaviour); the statuses of *)
(* a NodeDisruption are a set; a reason is a word; time is a counter; the  *)
(* nodes a selector matches and the budgets' specs do not change.          *)
(***************************************************************************)
EXTENDS BudgetMath, HookClient, Sequences

CONSTANTS
    NDs,                \* names of NodeDisruptions, each created at most once
    Nodes,              \* the cluster's nodes
    Specs,              \* the specs users may submit
    NodeDisruptionTypes,    \* --node-disruption-types; {} allows every type
    Defaults,           \* --default-node-disruption-types
    RejectEmpty,        \* --reject-empty-node-disruption
    RejectOverlapping,  \* --reject-overlapping-disruption
    RetryInterval,      \* --retry-interval
    ADBs, NDBs,         \* the ApplicationDisruptionBudgets, NodeDisruptionBudgets
    Watched,            \* the nodes each budget watches
    MaxDisrupted,       \* maxDisruptions of an ADB, maxDisruptedNodes of an NDB
    MinUndisrupted,     \* minUndisruptedNodes of an NDB
    Supported,          \* supportedNodeDisruptionTypes users gave each budget, maybe {}
    InitHook,           \* the hook each ADB is created with
    HookEdits,          \* edits <<from, to>> of an ADB's hook that users make
    Replies,            \* what a hook call can come back with
    Faults,             \* whether reads and writes may fail for no reason
    ReadLag,            \* undelivered watch events when the budgets are synchronised
    WatchCap,           \* bound: undelivered watch events a write may leave
    MaxTime,            \* bound: the last tick of the clock
    MaxCrash,           \* bound: restarts of the controller
    NoND                \* not a NodeDisruption: the worker is idle

States == {"unknown", "pending", "granted", "rejected"}
Final  == {"granted", "rejected"}
HookKinds == {"absent", "none", "health", "v2"}    \* absent: the budget is deleted
Refs    == ADBs \cup NDBs \cup NDs
Reasons == {"", "no more", "deadline", "empty", "overlap", "type"} \cup HookReasons
Statuses == [ref : Refs, ok : BOOLEAN, prep : BOOLEAN, why : Reasons]
SpecType == [nodes : SUBSET Nodes, type : STRING, retry : BOOLEAN,
             deadline : Nat, notBefore : Nat]

ASSUME NDAssumption ==
    /\ NoND \notin NDs
    /\ NDs \cap (ADBs \cup NDBs) = {} /\ ADBs \cap NDBs = {}
    /\ Specs \subseteq SpecType /\ Specs # {}
    /\ RejectEmpty \in BOOLEAN /\ RejectOverlapping \in BOOLEAN /\ Faults \in BOOLEAN
    /\ RetryInterval \in Nat \ {0}
    /\ ReadLag \in Nat /\ WatchCap \in Nat /\ MaxTime \in Nat /\ MaxCrash \in Nat
    /\ Replies \subseteq ReplyType
ASSUME BudgetAssumption ==
    /\ Watched \in [ADBs \cup NDBs -> SUBSET Nodes]
    /\ MaxDisrupted \in [ADBs \cup NDBs -> Int]
    /\ MinUndisrupted \in [NDBs -> Int]
    /\ Supported \in [ADBs \cup NDBs -> SUBSET STRING]
    /\ InitHook \in [ADBs -> HookKinds]
    /\ HookEdits \subseteq HookKinds \X HookKinds

\* The process exits at once when a default type is not an allowed one.
ValidConfig == NodeDisruptionTypes # {} => Defaults \subseteq NodeDisruptionTypes
ASSUME ConfigAssumption ==
    Defaults \subseteq STRING /\ NodeDisruptionTypes \subseteq STRING /\ ValidConfig

VARIABLES
    api,        \* the object the API server stores for each NodeDisruption
    cache,      \* the informer's copy of it: what Get and List return
    watch,      \* watch events the API server sent and the informer has not applied
    queue,      \* the reconciler's work queue
    timer,      \* when each NodeDisruption is put back in the queue (NoTimer: never)
    hook,       \* the hook each ADB has; "absent" once the ADB is deleted
    types,      \* the supportedNodeDisruptionTypes in the budget the worker reads
    manager,    \* what each application manager does for a NodeDisruption
    now, crashes,
    \* The worker, between two of its calls to the outside:
    pc,         \* "idle", "hooks" (validating) or "terminate"
    cur,        \* the NodeDisruption it reconciles
    seen,       \* the object it read, and will present when it writes
    todo,       \* the budgets it still has to call, with the hook it read
    out,        \* the statuses it has computed
    again,      \* getRetryDate's result for this attempt
    failed      \* a terminate call of this pass failed

cluster == <<api, cache, watch>>
environment == <<hook, types, manager, now, crashes>>
scratch == <<cur, seen, todo, out, again, failed>>
vars == <<cluster, queue, timer, environment, pc, scratch>>

-----------------------------------------------------------------------------
(* Objects, events and the work queue.                                     *)

NoTimer == -1
Zero == 0           \* the zero metav1.Time

Objects == [life : {"new", "live", "deleting", "gone"}, fin : BOOLEAN,
            state : States, nodes : SUBSET Nodes, st : SUBSET Statuses,
            retryAt : Nat, spec : Specs]

Exists(obj) == obj.life \in {"live", "deleting"}
Blank(spec) == [life |-> "new", fin |-> FALSE, state |-> "unknown", nodes |-> {},
                st |-> {}, retryAt |-> Zero, spec |-> spec]
SomeObject == Blank(CHOOSE spec \in Specs : TRUE)
Removed(obj) == [obj EXCEPT !.life = "gone", !.fin = FALSE, !.st = {}, !.retryAt = Zero]

\* The API server stores an object and tells the watchers.
Store(nd, obj) ==
    /\ Len(watch) < WatchCap
    /\ api' = [api EXCEPT ![nd] = obj]
    /\ watch' = Append(watch, [nd |-> nd, obj |-> obj])
    /\ UNCHANGED cache

Earliest(nd, due) == IF timer[nd] = NoTimer \/ due < timer[nd] THEN due ELSE timer[nd]
RequeueAt(nd, due) == timer' = [timer EXCEPT ![nd] = Earliest(nd, due)]

\* Mutant: the handler swallows the error.
ReturnErrorSwallowed(nd) == UNCHANGED <<cluster, timer>>

\* A handler that returns an error is retried after a delay of its own.
ReturnError(nd) == RequeueAt(nd, now) /\ UNCHANGED cluster

\* r.Update: refused when the object changed or went since it was read.
Update(nd, old, new) ==
    \/ api[nd] = old /\ Store(nd, new) /\ UNCHANGED timer
    \/ (api[nd] # old \/ Faults) /\ ReturnError(nd)

\* Mutant: a status is written whatever was stored since it was read.
UpdateStatusUnchecked(nd, old, new) ==
    IF api[nd].life = "gone" THEN UNCHANGED <<cluster, timer>>
    ELSE Store(nd, new) /\ UNCHANGED timer

\* UpdateStatus, and its caller's treatment of NotFound.
UpdateStatus(nd, old, new) ==
    \/ api[nd] = old /\ Store(nd, new) /\ UNCHANGED timer
    \/ api[nd].life = "gone" /\ UNCHANGED <<cluster, timer>>
    \/ api[nd].life # "gone" /\ (api[nd] # old \/ Faults) /\ ReturnError(nd)

\* Mutant: the worker keeps the request it has finished.
GoIdleHolding ==
    /\ pc' = "idle" /\ cur' = cur /\ seen' = SomeObject
    /\ todo' = {} /\ out' = {} /\ again' = Zero /\ failed' = FALSE

GoIdle ==
    /\ pc' = "idle" /\ cur' = NoND /\ seen' = SomeObject
    /\ todo' = {} /\ out' = {} /\ again' = Zero /\ failed' = FALSE

StayIdle == UNCHANGED <<pc, scratch>>

-----------------------------------------------------------------------------
(* Validation of a NodeDisruption.                                         *)

IsAfterDeadline(spec) == spec.retry /\ spec.deadline # Zero /\ now > spec.deadline

\* Mutant: retries go on after the deadline.
RetryDateForever(spec) == IF spec.retry THEN now + RetryInterval ELSE Zero

RetryDate(spec) ==
    IF spec.retry /\ ~IsAfterDeadline(spec) THEN now + RetryInterval ELSE Zero

Refusal(nd, why) == [ref |-> nd, ok |-> FALSE, prep |-> FALSE, why |-> why]

\* Mutant: only a granted disruption blocks another one.
OverlapsGranted(nd, nodes) ==
    \E other \in NDs \ {nd} :
        /\ Exists(cache[other]) /\ cache[other].state = "granted"
        /\ cache[other].nodes \cap nodes # {}

\* Another disruption of the cache that holds or may still get some of the nodes.
OverlapsAnother(nd, nodes) ==
    \E other \in NDs \ {nd} :
        /\ Exists(cache[other]) /\ cache[other].state \in {"pending", "granted"}
        /\ cache[other].nodes \cap nodes # {}

\* Mutant: the type of the disruption is not looked at.
InternalConstraintsAnyType(nd, obj) ==
    IF IsAfterDeadline(obj.spec) THEN obj.st \cup {Refusal(nd, "deadline")}
    ELSE IF RejectEmpty /\ obj.spec.nodes = {} THEN {Refusal(nd, "empty")}
    ELSE IF RejectOverlapping /\ OverlapsAnother(nd, obj.spec.nodes)
         THEN {Refusal(nd, "overlap")} ELSE {}

\* ValidateWithInternalConstraints: the statuses that refuse nd, {} if none does.
\* The overlap check returns whatever it finds, so the type check after it only
\* runs when the overlap check is off.
InternalConstraints(nd, obj) ==
    LET spec == obj.spec IN
    IF IsAfterDeadline(spec) THEN obj.st \cup {Refusal(nd, "deadline")}
    ELSE IF RejectEmpty /\ spec.nodes = {} THEN {Refusal(nd, "empty")}
    ELSE IF RejectOverlapping
         THEN IF OverlapsAnother(nd, spec.nodes) THEN {Refusal(nd, "overlap")} ELSE {}
    ELSE IF NodeDisruptionTypes # {} /\ spec.type \notin NodeDisruptionTypes
         THEN {Refusal(nd, "type")} ELSE {}

\* ResolveDisruption of a budget: the disruptions of the cache that it counts.
Counted(b) ==
    {nd \in NDs : /\ Exists(cache[nd]) /\ cache[nd].state = "granted"
                  /\ cache[nd].spec.nodes \cap Watched[b] # {}}

IsImpacted(b, nodes) == Watched[b] \cap nodes # {}

TolerateDisruption(b, nodes) ==
    IF b \in ADBs
    THEN AdbTolerates(MaxDisrupted[b], Cardinality(Counted(b)))
    ELSE NdbTolerates(MaxDisrupted[b], MinUndisrupted[b], Cardinality(Watched[b]),
                      Cardinality(Counted(b)), Cardinality(Watched[b] \cap nodes))

\* The budgets GetAllBudgetsInSync lists that have a say on spec.
Concerned(spec) ==
    {b \in ADBs \cup NDBs : /\ b \in ADBs => hook[b] # "absent"
                            /\ spec.type \in types[b]
                            /\ IsImpacted(b, spec.nodes)}

\* The loop stops at the first budget that refuses: ADBs come before NDBs, in
\* the cache's order within each kind.
FirstRefusals(spec) ==
    LET refusing == {b \in Concerned(spec) : ~TolerateDisruption(b, spec.nodes)}
    IN  IF refusing \cap ADBs # {} THEN refusing \cap ADBs ELSE refusing

\* Budgets with nothing to call: an NDB's hooks do nothing, nor does an ADB's
\* health hook without a URL.
Hookless(spec) == {b \in Concerned(spec) : b \in NDBs \/ hook[b] = "none"}
Accepted(b) == [ref |-> b, ok |-> TRUE, prep |-> FALSE, why |-> ""]
Calls(spec) == {<<b, hook[b]>> : b \in Concerned(spec) \ Hookless(spec)}

-----------------------------------------------------------------------------
(* Reconcile, from Get to the first call it makes to the outside.          *)

\* The worker takes nd from the queue.
Take(nd) ==
    /\ pc = "idle" /\ nd \in queue
    /\ queue' = queue \ {nd}
    /\ UNCHANGED environment

ReconcileNotFound(nd) ==
    /\ Take(nd) /\ ~Exists(cache[nd])
    /\ UNCHANGED <<cluster, timer>> /\ StayIdle

\* handleFinalizer of an object that is not being deleted.
AddFinalizer(nd) ==
    /\ Take(nd) /\ cache[nd].life = "live" /\ ~cache[nd].fin
    /\ Update(nd, cache[nd], [cache[nd] EXCEPT !.fin = TRUE])
    /\ StayIdle

\* Reconcile goes past handleFinalizer with this object.
Proceeds(nd) == Take(nd) /\ cache[nd].life = "live" /\ cache[nd].fin

\* Mutant: nothing puts the request back at its retry date.
WaitForRetryDateIdly(nd) ==
    /\ Proceeds(nd) /\ now < cache[nd].retryAt
    /\ UNCHANGED <<cluster, timer>> /\ StayIdle

WaitForRetryDate(nd) ==
    /\ Proceeds(nd) /\ now < cache[nd].retryAt
    /\ RequeueAt(nd, cache[nd].retryAt)
    /\ UNCHANGED cluster /\ StayIdle

\* Mutant: a rejected disruption is given another chance.
EnterPendingAgain(nd) ==
    /\ Proceeds(nd) /\ ~(now < cache[nd].retryAt)
    /\ cache[nd].state \in {"unknown", "rejected"}
    /\ UpdateStatus(nd, cache[nd],
                    [cache[nd] EXCEPT !.state = "pending", !.nodes = cache[nd].spec.nodes])
    /\ StayIdle

\* Sync, then TryTransitionState from Unknown.
EnterPending(nd) ==
    /\ Proceeds(nd) /\ ~(now < cache[nd].retryAt) /\ cache[nd].state = "unknown"
    /\ UpdateStatus(nd, cache[nd],
                    [cache[nd] EXCEPT !.state = "pending", !.nodes = cache[nd].spec.nodes])
    /\ StayIdle

\* A final state: only Sync, which finds the same nodes, so nothing is written.
ReconcileFinal(nd) ==
    /\ Proceeds(nd) /\ ~(now < cache[nd].retryAt) /\ cache[nd].state \in Final
    /\ UNCHANGED <<cluster, timer>> /\ StayIdle

\* Sync or GetAllBudgetsInSync fails (say, one PVC of one budget is lost): the
\* error is dropped and so is the request.
ReconcileError(nd) ==
    /\ Faults
    /\ Proceeds(nd) /\ ~(now < cache[nd].retryAt)
    /\ UNCHANGED <<cluster, timer>> /\ StayIdle

\* tryTransitionToGranted up to the hooks: the retry date, the budgets in sync,
\* the internal constraints, then every concerned budget's tolerance.
TryTransitionToGranted(nd) ==
    /\ Proceeds(nd) /\ ~(now < cache[nd].retryAt) /\ cache[nd].state = "pending"
    /\ Len(watch) <= ReadLag
    /\ pc' = "hooks" /\ cur' = nd /\ seen' = cache[nd] /\ failed' = FALSE
    /\ again' = RetryDate(cache[nd].spec)
    /\ LET spec == cache[nd].spec
           internal == InternalConstraints(nd, cache[nd])
       IN  \/ internal # {} /\ out' = internal /\ todo' = {}
           \/ /\ internal = {} /\ FirstRefusals(spec) # {} /\ todo' = {}
              /\ \E b \in FirstRefusals(spec) : out' = {Refusal(b, "no more")}
           \/ /\ internal = {} /\ FirstRefusals(spec) = {}
              /\ out' = {Accepted(b) : b \in Hookless(spec)}
              /\ todo' = Calls(spec)
    /\ UNCHANGED <<cluster, timer>>

-----------------------------------------------------------------------------
(* The hooks of a validation, one HTTP call at a time, and the outcome.    *)

Answered(b, ok, prep, why) ==
    /\ out' = out \cup {[ref |-> b, ok |-> ok, prep |-> prep, why |-> why]}
    /\ todo' = {call \in todo : call[1] # b}
    /\ UNCHANGED <<cluster, queue, timer, hook, types, now, crashes, pc, cur, seen, again, failed>>

\* Mutant: the references are not compared, and another budget's status is found.
CurrentStatusOfAnother(b) ==
    IF \E s \in seen.st : s.ref # b
    THEN CHOOSE s \in seen.st : s.ref # b
    ELSE [ref |-> b, ok |-> FALSE, prep |-> FALSE, why |-> ""]

\* What the object read says of budget b.
CurrentStatus(b) ==
    IF \E s \in seen.st : s.ref = b
    THEN CHOOSE s \in seen.st : s.ref = b
    ELSE [ref |-> b, ok |-> FALSE, prep |-> FALSE, why |-> ""]

Calling(b, kind) == pc = "hooks" /\ <<b, kind>> \in todo

\* legacyHookCheck
CallHealthHook(b) ==
    /\ Calling(b, "health") /\ UNCHANGED manager
    /\ \E reply \in Replies :
          LET err == HealthError(reply) IN Answered(b, err = "", FALSE, err)

ManagerSets(b, to) == manager' = [manager EXCEPT ![<<cur, b>>] = to]
Prepares(b) ==
    IF manager[<<cur, b>>] = "idle" THEN ManagerSets(b, "preparing") ELSE UNCHANGED manager

\* Mutant: an application that starts preparing counts as ready.
CallPrepareHookIsReady(b) ==
    /\ Calling(b, "v2") /\ ~CurrentStatus(b).ok /\ ~CurrentStatus(b).prep
    /\ \E reply \in Replies :
          LET err == HookError("prepare", reply) IN
          \/ Prepares(b) /\ Answered(b, err = "", err = "", err)
          \/ err # "" /\ UNCHANGED manager /\ Answered(b, FALSE, FALSE, err)

\* v2HookCheck, nothing started yet.  A call that ends in an error may have been
\* obeyed all the same.
CallPrepareHook(b) ==
    /\ Calling(b, "v2") /\ ~CurrentStatus(b).ok /\ ~CurrentStatus(b).prep
    /\ \E reply \in Replies :
          LET err == HookError("prepare", reply) IN
          \/ Prepares(b) /\ Answered(b, FALSE, err = "", err)
          \/ err # "" /\ UNCHANGED manager /\ Answered(b, FALSE, FALSE, err)

\* v2HookCheck, preparation started.  A manager says it is ready once it is.
CallReadyHook(b) ==
    /\ Calling(b, "v2") /\ CurrentStatus(b).prep /\ UNCHANGED manager
    /\ \E reply \in Replies :
          LET err == HookError("ready", reply) IN
          /\ reply.code = 200 => manager[<<cur, b>>] = "ready"
          /\ Answered(b, err = "", TRUE, err)

\* v2HookCheck, neither branch: accepted without a call.
CallNoHook(b) ==
    /\ Calling(b, "v2") /\ CurrentStatus(b).ok /\ ~CurrentStatus(b).prep
    /\ UNCHANGED manager /\ Answered(b, TRUE, TRUE, "")

AnyFailed == \E s \in out : ~s.ok
AnyPreparing == \E s \in out : s.prep
Deferred == seen.spec.notBefore # Zero /\ now < seen.spec.notBefore

\* The tail of tryTransitionToGranted: the state and the next retry date.
NextState ==
    IF AnyFailed
    THEN IF again # Zero \/ (AnyPreparing /\ ~IsAfterDeadline(seen.spec))
         THEN "pending" ELSE "rejected"
    ELSE IF Deferred THEN "pending" ELSE "granted"
NextRetryDate == IF ~AnyFailed /\ Deferred THEN seen.spec.notBefore ELSE again

Decided == [seen EXCEPT !.state = NextState, !.retryAt = NextRetryDate,
                        !.st = out, !.nodes = seen.spec.nodes]

\* Reconcile's comparison and write.  Two statuses may come in another order
\* than the one stored, which makes them differ though the sets are equal.
Decide ==
    /\ pc = "hooks" /\ todo = {}
    /\ \/ (Decided # seen \/ Cardinality(out) > 1) /\ UpdateStatus(cur, seen, Decided)
       \/ Decided = seen /\ UNCHANGED <<cluster, timer>>
    /\ GoIdle /\ UNCHANGED <<queue, environment>>

-----------------------------------------------------------------------------
(* handleFinalizer of an object being deleted.                             *)

BeginTermination(nd) ==
    /\ Take(nd) /\ cache[nd].life = "deleting" /\ cache[nd].fin
    /\ pc' = "terminate" /\ cur' = nd /\ seen' = cache[nd] /\ failed' = FALSE
    /\ todo' = {<<s.ref, "v2">> : s \in {t \in cache[nd].st : t.prep /\ t.ref \in ADBs}}
    /\ out' = {} /\ again' = Zero
    /\ UNCHANGED <<cluster, timer>>

Terminating(b) ==
    /\ pc = "terminate" /\ <<b, "v2">> \in todo
    /\ todo' = todo \ {<<b, "v2">>}
    /\ UNCHANGED <<cluster, queue, timer, hook, types, now, crashes, pc, cur, seen, out, again>>

\* The budget is gone, or has no v2 hooks any more.
SkipTerminate(b) ==
    /\ Terminating(b) /\ hook[b] # "v2"
    /\ UNCHANGED <<manager, failed>>

CallTerminateHook(b) ==
    /\ Terminating(b) /\ hook[b] = "v2"
    /\ \E reply \in Replies : HookError("terminate", reply) = ""
    /\ ManagerSets(b, "idle") /\ UNCHANGED failed

\* The budget cannot be read, or the call ends in an error, be it an answer like
\* 204; the manager may have obeyed all the same.
TerminateHookFails(b) ==
    /\ Terminating(b) /\ failed' = TRUE
    /\ \/ Faults /\ UNCHANGED manager
       \/ /\ hook[b] = "v2"
          /\ \E reply \in Replies : HookError("terminate", reply) # ""
          /\ UNCHANGED manager \/ ManagerSets(b, "idle")

\* Mutant: the finalizer goes even if a manager could not be told.
FinishTerminationAnyway ==
    /\ pc = "terminate" /\ todo = {}
    /\ Update(cur, seen, Removed(seen))
    /\ GoIdle /\ UNCHANGED <<queue, environment>>

\* An error keeps the finalizer; otherwise removing it lets the object go.
FinishTermination ==
    /\ pc = "terminate" /\ todo = {}
    /\ \/ failed /\ ReturnError(cur)
       \/ ~failed /\ Update(cur, seen, Removed(seen))
    /\ GoIdle /\ UNCHANGED <<queue, environment>>

-----------------------------------------------------------------------------
(* What happens around the worker.                                         *)

\* The informer applies the oldest event and its handler enqueues the object.
Deliver ==
    /\ watch # <<>>
    /\ cache' = [cache EXCEPT ![Head(watch).nd] = Head(watch).obj]
    /\ watch' = Tail(watch)
    /\ queue' = queue \cup {Head(watch).nd}
    /\ UNCHANGED <<api, timer, environment, pc, scratch>>

TimerFires(nd) ==
    /\ timer[nd] # NoTimer /\ timer[nd] <= now
    /\ timer' = [timer EXCEPT ![nd] = NoTimer]
    /\ queue' = queue \cup {nd}
    /\ UNCHANGED <<cluster, environment, pc, scratch>>

UserCreates(nd) ==
    /\ api[nd].life = "new"
    /\ Store(nd, [api[nd] EXCEPT !.life = "live"])
    /\ UNCHANGED <<queue, timer, environment, pc, scratch>>

\* With a finalizer the object stays, marked for deletion.
UserDeletes(nd) ==
    /\ api[nd].life = "live"
    /\ Store(nd, IF api[nd].fin THEN [api[nd] EXCEPT !.life = "deleting"]
                                ELSE Removed(api[nd]))
    /\ UNCHANGED <<queue, timer, environment, pc, scratch>>

UserEditsHook(b, to) ==
    /\ <<hook[b], to>> \in HookEdits
    /\ hook' = [hook EXCEPT ![b] = to]
    /\ UNCHANGED <<cluster, queue, timer, types, manager, now, crashes, pc, scratch>>

\* The reconciler of a budget fills in the types it lacks (SetDefaultTypes of
\* BudgetReconciler), and the informer shows it.
DefaultTypesArrive(b) ==
    /\ types[b] = {} /\ Defaults # {}
    /\ types' = [types EXCEPT ![b] = Defaults]
    /\ UNCHANGED <<cluster, queue, timer, hook, manager, now, crashes, pc, scratch>>

\* An application manager has its application ready.
ManagerReady(nd, b) ==
    /\ manager[<<nd, b>>] = "preparing"
    /\ manager' = [manager EXCEPT ![<<nd, b>>] = "ready"]
    /\ UNCHANGED <<cluster, queue, timer, hook, types, now, crashes, pc, scratch>>

\* The controller restarts: it lists and enqueues every object that exists.
Restart ==
    /\ crashes < MaxCrash /\ crashes' = crashes + 1
    /\ cache' = api /\ watch' = <<>>
    /\ queue' = {nd \in NDs : Exists(api[nd])}
    /\ timer' = [nd \in NDs |-> NoTimer]
    /\ GoIdle /\ UNCHANGED <<api, hook, types, manager, now>>

Tick ==
    /\ now < MaxTime /\ now' = now + 1
    /\ UNCHANGED <<cluster, queue, timer, hook, types, manager, crashes, pc, scratch>>

-----------------------------------------------------------------------------
Init ==
    /\ \E specOf \in [NDs -> Specs] : api = [nd \in NDs |-> Blank(specOf[nd])]
    /\ cache = api /\ watch = <<>> /\ queue = {} /\ timer = [nd \in NDs |-> NoTimer]
    /\ hook = InitHook /\ types = Supported /\ manager = [nb \in NDs \X ADBs |-> "idle"]
    /\ now = 0 /\ crashes = 0
    /\ pc = "idle" /\ cur = NoND /\ seen = SomeObject
    /\ todo = {} /\ out = {} /\ again = Zero /\ failed = FALSE

\* One request of the queue, up to the first call to the outside.
Reconcile(nd) ==
    \/ ReconcileNotFound(nd) \/ AddFinalizer(nd) \/ WaitForRetryDate(nd)
    \/ EnterPending(nd) \/ ReconcileFinal(nd) \/ ReconcileError(nd)
    \/ TryTransitionToGranted(nd) \/ BeginTermination(nd)

\* The rest of a request.
Work ==
    \/ Decide \/ FinishTermination
    \/ \E b \in ADBs : \/ CallHealthHook(b) \/ CallPrepareHook(b) \/ CallReadyHook(b)
                       \/ CallNoHook(b) \/ SkipTerminate(b)
                       \/ CallTerminateHook(b) \/ TerminateHookFails(b)

Environment ==
    \/ Deliver \/ Restart \/ Tick
    \/ \E nd \in NDs : \/ TimerFires(nd) \/ UserCreates(nd) \/ UserDeletes(nd)
                       \/ \E b \in ADBs : ManagerReady(nd, b)
    \/ \E b \in ADBs, to \in HookKinds : UserEditsHook(b, to)
    \/ \E b \in ADBs \cup NDBs : DefaultTypesArrive(b)

Next == Work \/ Environment \/ \E nd \in NDs : Reconcile(nd)

Spec == Init /\ [][Next]_vars

\* What the scheduling of the program justifies.  The informer delivers, the
\* clock runs, the delaying queue hands back what is due and hook calls end
\* (they have timeouts).  The work queue is first in first out, so a request is
\* taken as often as it is put there.  Users, restarts and a manager's good
\* will are not assumed; LiveSpec adds that a manager which is told to terminate
\* again and again ends up obeying.
Fairness ==
    /\ WF_vars(Deliver) /\ WF_vars(Tick) /\ WF_vars(Work)
    /\ \A nd \in NDs : WF_vars(TimerFires(nd)) /\ SF_vars(Reconcile(nd))
    /\ \A b \in ADBs : SF_vars(CallTerminateHook(b))
LiveSpec == Spec /\ Fairness

-----------------------------------------------------------------------------
(* Properties.                                                             *)

\* Every variable has its type; between two requests the worker holds nothing.
TypeOK ==
    /\ api \in [NDs -> Objects] /\ cache \in [NDs -> Objects]
    /\ watch \in Seq([nd : NDs, obj : Objects])
    /\ queue \subseteq NDs /\ timer \in [NDs -> Int]
    /\ hook \in [ADBs -> HookKinds] /\ types \in [ADBs \cup NDBs -> SUBSET STRING]
    /\ manager \in [NDs \X ADBs -> {"idle", "preparing", "ready"}]
    /\ now \in 0..MaxTime /\ crashes \in 0..MaxCrash
    /\ pc \in {"idle", "hooks", "terminate"}
    /\ cur \in NDs \cup {NoND} /\ (pc = "idle" <=> cur = NoND)
    /\ seen \in Objects /\ todo \subseteq ADBs \X HookKinds /\ out \subseteq Statuses
    /\ again \in Nat /\ failed \in BOOLEAN

Granted(nd) == Exists(api[nd]) /\ api[nd].state = "granted"

\* With --reject-overlapping-disruption, no node is granted to two disruptions
\* at once, however far the informer trails (ValidateOverlappingDisruption reads
\* the cache, and relies on Pending blocking as much as Granted).
NoOverlapGranted ==
    RejectOverlapping =>
        \A a, b \in NDs : a # b /\ Granted(a) /\ Granted(b) =>
            api[a].spec.nodes \cap api[b].spec.nodes = {}

\* "the state is final" (TryTransitionState): no write, late or repeated, changes
\* the verdict of a disruption.
FinalIsFinal ==
    [][\A nd \in NDs : api[nd].state \in Final => api'[nd].state = api[nd].state]_vars

\* The types a budget is about: "When empty, the controller's default node
\* disruption types are used."
TypesOf(b) == IF Supported[b] = {} THEN Defaults ELSE Supported[b]

\* The granted disruptions a budget has to answer for.
Charged(b) ==
    {nd \in NDs : /\ Granted(nd) /\ api[nd].spec.type \in TypesOf(b)
                  /\ api[nd].spec.nodes \cap Watched[b] # {}}

\* The watched nodes that they take.
Down(b) == Watched[b] \cap UNION {api[nd].spec.nodes : nd \in Charged(b)}

\* What a budget lets be disrupted, by its maximum and by what it has to keep.
Limit(b) ==
    IF b \in ADBs THEN MaxDisrupted[b]
    ELSE Smaller(MaxDisrupted[b], Cardinality(Watched[b]) - MinUndisrupted[b])

\* "A NodeDisruption is allowed if at most "maxDisruptions" nodes selected by
\* selectors are unavailable after the disruption" (of both kinds of budgets, an
\* NDB also keeps minUndisruptedNodes): the nodes taken are within the limit.
NodesRespected ==
    \A b \in ADBs \cup NDBs : Charged(b) # {} => Cardinality(Down(b)) <= Limit(b)

TakesAtMost(b, k) == \A spec \in Specs : Cardinality(Watched[b] \cap spec.nodes) <= k

\* What is true of it in every interleaving of requests, hooks, deletions and
\* failures.  A grant is hidden from a validation only by an event on its way, and
\* is charged as one unit: with events that are all applied and disruptions of one
\* watched node each, this is NodesRespected.
BudgetRespected ==
    \A b \in ADBs \cup NDBs, k \in 1..Cardinality(Nodes) :
        Charged(b) # {} /\ TakesAtMost(b, k) =>
            Cardinality(Down(b)) <= k * (Limit(b) + ReadLag)

\* --node-disruption-types: only these types are granted.
TypesRespected ==
    NodeDisruptionTypes # {} =>
        \A nd \in NDs : Granted(nd) => api[nd].spec.type \in NodeDisruptionTypes

\* A granted disruption never hits an application with v2 hooks that has not
\* prepared and reported ready for this disruption, whatever calls failed, were
\* repeated or were cut off by a restart on the way.
GrantedAppsReady ==
    \A nd \in NDs, b \in ADBs :
        /\ Granted(nd) /\ api[nd].life = "live"
        /\ hook[b] = "v2" /\ api[nd].spec.type \in TypesOf(b)
        /\ IsImpacted(b, api[nd].spec.nodes)
        => manager[<<nd, b>>] = "ready"

\* "Preparing is set to true when the application manager started preparation", "Ok
\* ... when application manager preparation is complete" (DisruptedBudgetStatus): a
\* status that is written says so only of a manager that did, for this disruption,
\* whatever was lost, repeated or accepted by other means before.
StatusesEarned ==
    [][\A nd \in NDs : \A s \in api'[nd].st \ api[nd].st :
          s.prep /\ s.ref \in ADBs =>
              /\ manager[<<nd, s.ref>>] # "idle"
              /\ s.ok => manager[<<nd, s.ref>>] = "ready"]_vars

\* An object goes away only after every manager its status holds as preparing
\* or ready has been told the disruption is over.
TerminatedBeforeGone ==
    [][\A nd \in NDs : api[nd].life = "deleting" /\ api'[nd].life = "gone" =>
          \A s \in api[nd].st : s.prep /\ s.ref \in ADBs /\ hook[s.ref] = "v2" =>
              manager[<<nd, s.ref>>] = "idle"]_vars

Undecided(nd) == Exists(api[nd]) /\ api[nd].state \notin Final

\* A disruption without a verdict, or being deleted, is in the work queue, in a
\* timer, in the worker's hands, or an event about it is on its way.
NeverForgotten ==
    \A nd \in NDs : Undecided(nd) \/ api[nd].life = "deleting" =>
        \/ nd \in queue \/ timer[nd] # NoTimer \/ cur = nd
        \/ \E i \in 1..Len(watch) : watch[i].nd = nd

\* No application is left prepared for a disruption that is gone ("call all
\* terminate hooks for all impacted budgets", handleFinalizer).
NothingLeftPrepared ==
    \A nd \in NDs, b \in ADBs :
        api[nd].life = "gone" /\ hook[b] = "v2" /\ cur # nd => manager[<<nd, b>>] = "idle"

\* A disruption that retries until a deadline gets a verdict.
DecidedByDeadline ==
    \A nd \in NDs : Undecided(nd) /\ api[nd].spec.retry /\ api[nd].spec.deadline # Zero
        ~> ~Undecided(nd)

\* A deletion goes through: the finalizer is removed in the end.
DeletionCompletes == \A nd \in NDs : api[nd].life = "deleting" ~> api[nd].life = "gone"

\* What users see of the reconciler is a gate in front of the nodes.
Phase == [nd \in NDs |-> IF api[nd].life \in {"new", "gone"} THEN api[nd].life
                         ELSE api[nd].state]
Claim == [nd \in NDs |-> api[nd].spec.nodes]
Gate == INSTANCE DisruptionGate
            WITH phase <- Phase, claim <- Claim, Exclusive <- RejectOverlapping
GateSpec == Gate!Spec
=============================================================================
