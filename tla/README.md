# node-disruption-controller: TLA+ models and proofs

The node disruption controller (NDC) grants or rejects requests to disrupt
Kubernetes nodes. A user creates a `NodeDisruption`; the controller checks it
against the other disruptions and against the budgets of applications
(`ApplicationDisruptionBudget`, ADB) and of sets of nodes
(`NodeDisruptionBudget`, NDB), calls the application managers' hooks, and writes
a verdict into the object's status. This directory holds TLA+ models of that
program, the TLC configurations that check them, and TLAPS proofs.

Run a configuration with `tlc -workers 2 -config lifecycle.cfg MCNodeDisruption`,
`lifecycle` alone is run on `MCMetrics`, `oldest` on `MCOldest` and
`budget_status` on `MCBudget`; the proofs are checked with
`tlapm <module>.tla` for each of the modules whose name ends in `Proofs`.
`PROJECT.json` lists the runs, which definition stands for which lines, the
hazards, the findings and the theorems.

## 1. Inventory of the system

| Component | State it keeps | Operations | What makes it correct |
|---|---|---|---|
| NodeDisruption reconciler (`nodedisruption_controller.go`) | finalizer and status of each NodeDisruption: state, disrupted nodes, per-budget statuses, next retry date | `Reconcile`, `handleFinalizer`, `TryTransitionState`, the internal, overlap and budget checks, hook calls, `UpdateStatus`, `terminateAllImpactedBudgets` | verdicts are final; no node is granted twice; budgets and types are respected; applications are ready at the grant; a verdict is reached; deletion ends, after the managers were told |
| ADB and NDB reconcilers (`*budget_controller.go`) | status of each budget: watched nodes, counts, disruptions; default types in its spec | `Reconcile`, `Sync`, `ResolveDisruption`, `UpdateStatus`, `MapFuncBuilder`, `SetupWithManager` | the status follows the cluster; users' edits survive; gauges say what is stored |
| Budget arithmetic | none | `DisruptionsAllowed`, `TolerateDisruption` | the boundaries |
| Resolver (`pkg/resolver`) | none | nodes of pods, claims, node selectors; conversion of a volume's node affinity | nodes found are those the selectors denote |
| Hook client (ADB resolver, `internal/appmgrcli`) | none | health, prepare, ready, terminate: one reader of responses each | a yes is a yes, each refusal is told apart, and is counted for what it is |
| Application managers (external) | what each one prepared | answer hooks | none of ours: they may be slow, fail, or obey without answering |
| Metrics (`metrics.go`, `budget.go`) | gauges and counters in the process | update, prune | they reflect the objects, and go with them |
| Process set-up (`cmd/main.go`) | flags | checks them, starts the three reconcilers | the default types are allowed ones |

**Interactions.** Every reconciler has one worker fed by a deduplicating work
queue. It reads objects from informer caches, which trail the API server; it
writes whole objects, and the API server refuses a write of an object that
changed since it was read. A write comes back as a watch event, which updates
the cache and enqueues the object (and, through map functions, every budget it
may concern). Errors and `RequeueAfter` put a request back after a delay. The
three reconcilers share nothing but the API server and the caches: the
NodeDisruption worker synchronises the budgets itself, in memory.

**What is hard.** Decisions rest on caches that trail; a pass makes several
HTTP calls between its read and its write; calls may be obeyed and their answer
lost; the process restarts at any point and keeps nothing; the retry date, the
deadline and `doNotGrantBefore` are compared at different moments; some errors
are swallowed, so whether a request is ever looked at again depends on an event
that may not come; event order holds within one kind of object only.

## 2. Modules

| Module | What it is |
|---|---|
| `BudgetMath` | arithmetic of both budgets, as operators |
| `Resolver` | label selectors, the conversion of a volume's node affinity, and what the affinity means to the scheduler, as operators |
| `HookClient` | what a reply of a hook turns into: success, the error that becomes a status' reason, the code that is counted |
| `NodeDisruptionController` | the NodeDisruption reconciler, API server, informer, queue, managers; safety and liveness properties |
| `DisruptionGate` | what the controller promises to a user, as a specification of its own |
| `NodeDisruptionMetrics` | `NodeDisruptionController` with the gauges it publishes for each disruption |
| `BudgetReconciler` | the reconciler of a budget, of either kind, with five informers and its gauges |
| `NodeDisruptionProofs` | theorems about `NodeDisruptionController`: types, verdicts, overlaps, the gate; the inductive invariant the next four build on |
| `HookProofs`, `ScheduleProofs` | more about it: the hooks' protocol; requests that are never forgotten |
| `BudgetProofs` | extends `HookProofs`: what budgets let through |
| `MetricsProofs` | theorems about `NodeDisruptionMetrics` |
| `BudgetReconcilerProofs` | theorems about `BudgetReconciler` |
| `ResolverProofs`, `HookClientProofs` | theorems about the operators of `Resolver` and `HookClient` |
| `MCNodeDisruption`, `MCMetrics`, `MCOldest`, `MCBudget` | instances for TLC; `MCOldest` adds the order of creation, which the code never records |

`NodeDisruptionController` extends `BudgetMath` and `HookClient`;
`BudgetReconciler` extends `BudgetMath` and `Resolver`.

### NodeDisruptionController

| Variable | In the program |
|---|---|
| `api[nd]` | the object in the API server: life, finalizer, state, disrupted nodes, statuses, next retry date, spec |
| `cache[nd]`, `watch` | the informer's copy, and the events it has not applied, in order |
| `queue`, `timer` | controller-runtime's work queue and its delayed additions |
| `hook[b]` | the hook of an ADB: none, health, v2, or the ADB is deleted |
| `types[b]` | the supported types in the copy of budget `b` that the worker reads |
| `manager[nd, b]` | what the manager of an application does for a disruption |
| `now`, `crashes` | time and restarts |
| `pc`, `cur`, `seen`, `todo`, `out`, `again`, `failed` | the worker's locals between two calls to the outside |

A pass of `Reconcile` that makes no HTTP call is one action per exit of the
code: `ReconcileNotFound`, `AddFinalizer`, `WaitForRetryDate`, `EnterPending`,
`ReconcileFinal`, `ReconcileError`. A validation is cut at each call:
`TryTransitionToGranted` does all that comes before the first one (retry date,
budgets in sync, internal constraints, tolerance of every concerned budget),
then `CallHealthHook`, `CallPrepareHook`, `CallReadyHook` and `CallNoHook` make
one call each, and `Decide` computes the state and writes the status. A deletion
is `BeginTermination`, one of `SkipTerminate`, `CallTerminateHook` and
`TerminateHookFails` (its call, or the read of its budget, fails) per manager,
and `FinishTermination`. Around the worker:
`Deliver`, `TimerFires`, `UserCreates`, `UserDeletes`, `UserEditsHook`,
`DefaultTypesArrive`, `ManagerReady`, `Restart`, `Tick`.

Each hook call chooses one of `Replies`, and `HookClient` says what the code
makes of it. A call that ends in an error may have been obeyed.
`DefaultTypesArrive` is where the reconciler of a budget meets this one: it
stands for the write of `SetDefaultTypes` (of `BudgetReconciler`) and the event
that shows it to the informer.

Abstractions: a resourceVersion is the object's content (two equal contents lead
to equal behaviour); per-budget statuses are a set, and since two of them may
come in another order than the stored one, a pass may write though the sets are
equal; a reason is a word; a requeue after an error is due at once; one worker,
as the code configures.

### HookClient

The generated readers know 200 and, by endpoint, 424 and 425; every other code is
a Default response, whose body is read first and which is a success when it is
2XX. A success that is not the declared 200 becomes an `APIError`
(`Submit`). The wrappers of the budget turn a 425 into "retry later" and count
the call under 200 unless the error is an `APIError` (`CountedCode`). The
health hook talks HTTP itself and takes any 2XX.

### Resolver

A node's labels are a function, a selector a set of requirements, a volume's
affinity a set of terms with requirements on labels and on fields. `Convertible`
and `CannotConvert` are the conversion's errors (an operator that label
selectors do not have, values where none belong, and any requirement on a field,
whose label syntax the field parser never accepts). `NodesOfVolume` is what
`GetNodesFromNamespacedPVCSelector` lists for one bound claim;
`ReachesVolume` is what the affinity means, with alternatives.

### NodeDisruptionMetrics

`series` is what the process publishes under a disruption's name.
`PublishingReconcile` joins each action that begins a pass with the update or
the pruning that the code makes there: after `handleFinalizer`, of the object
that was read. A restart loses the series.

### BudgetReconciler

`world` is what the API server stores, by kind of object; `known` what the
informers hold, `events` what each has still to apply. `ReconcileNotFound`,
`SetDefaultTypes` and `ReconcileBudget` begin a pass, `SyncSelects` and
`SyncResolves` are the two selections of nodes that one `Sync` makes,
`UpdateStatus` ends it. `gauges` holds the published values of the spec and of
the status. Users create, edit and delete the budget, pods and claims move,
nodes are relabelled, disruptions advance, calls fail, the process restarts.
Nodes are label functions, and an NDB, a volume's affinity and a disruption select
them through `Resolver`. Which pods and claims are selected is data, so a pod
that moves out of the selector and one that is deleted are the same step. An event
of a node enqueues an NDB when its selector matches the labels the node had or has
(`SelectsTouched`).

## 3. Runs

| Run | Question | Properties |
|---|---|---|
| `lifecycle` | two disruptions that may share a node, one application with v2 hooks, informer up to two events behind, failing reads and writes, a restart, and the published series | `TypeOK`, `NoOverlapGranted`, `SeriesFollow`, `FinalIsFinal`, `GateSpec` (refinement) |
| `budgets` | three disruptions of single nodes against an ADB that lets one node be taken and an NDB that has to keep one of two, and failing reads and writes | `BudgetRespected` |
| `hooks` | v2 and health hooks, calls that fail or are obeyed without an answer, a restart | `GrantedAppsReady`, `NeverForgotten`, `StatusesEarned`, `TerminatedBeforeGone` |
| `liveness` | one disruption, of a type that may not be allowed, users that edit hooks, default types that come late, refusals, a restart, under fairness | `TypesRespected`, `DecidedByDeadline`, `DeletionCompletes` |
| `budget_status` | a budget of either kind among changes of everything it depends on | `TypeOK`, `SettledIsUpToDate`, `SettledGaugesReflect`, `UserSpecKept`, `StatusCatchesUp` |

Seven more runs show where the code does not do what its own text says:

| Run | What happens |
|---|---|
| `stale_budget` | Budgets are synchronised from the cache. When the event of a grant is still on its way, a second disruption takes the same last unit. The run has what `budgets` has (one disruption less and nothing that fails) but for `ReadLag`: 1, there 0. |
| `nodes` | A granted disruption is charged one unit, whatever the number of nodes it takes. An ADB never looks at the nodes of a disruption; an NDB asks for as many units as a new disruption has nodes, but charges one once it is granted. Either budget has more than its maximum of nodes disrupted. |
| `unasked` | A budget without hooks accepts a disruption that has to wait, and is then given v2 hooks. The next pass calls nobody, and writes that the manager prepared and is ready. |
| `oldest` | The overlap check compares states, never ages: the older of two disruptions may be the rejected one. |
| `left_prepared` | A manager that prepared, but whose entry never reached the stored status, is not told that the disruption is over. |
| `forgotten` | Without retry, an application that twice gives the same reason leaves no change to write, no event and no requeue: the disruption stays pending. |
| `default_types` | A budget with an empty list of types supports none until its own reconciler has written the defaults into it: two disruptions pass a budget that takes one. |

### Bounds, and why they are enough

- Two or three disruptions: every property relates at most two disruptions,
  the third lets a deleted one make room. Two or three nodes give disjoint,
  overlapping and nested sets.
- `WatchCap` bounds undelivered events (2 lets the worker read an object two
  writes old); `ReadLag` is how far the cache may be behind when the budgets are
  synchronised. `BudgetRespected` speaks of every lag: no budget loses more than
  its limit and one disruption per event that may be on its way. `budgets` checks
  it at `ReadLag` 0, where it says the most of the arithmetic and of the sequence
  of calls (the limit itself); the theorem has every lag.
- `budgets`: the ADB watches two nodes and lets one be taken; the NDB watches two,
  would let both be by its maximum, and has to keep one by its minimum. Each
  refuses disruptions that the other lets through. The disruptions have one node
  each, so that `BudgetRespected` with `k` = 1 is `NodesRespected`, what the API
  types promise; `nodes` has disruptions of several nodes, for which they are not
  the same. The health hook always accepts in it: what hooks refuse is the
  subject of `hooks` and `liveness`.
- `MaxTime`: the deadlines, retry dates and `doNotGrantBefore` of the specs lie
  on both sides of one another within it. `MaxCrash` is at most one restart, which comes at every point of a run.
- `Replies`: an acceptance and one kind of failure per run, since the theorems of
  `HookClientProofs` say that all replies are one or the other; `forgotten` has
  the answer that names a delay.
- Two clusters in `budget_status`: one node changes zone and joins the NDB's pool,
  so that it enters and leaves what the NDB, the volume and the counts select.
- `MaxChanges = 3` in `BudgetReconciler`: a change before, one between the two
  selections of a pass and one after, on top of the budget's creation.
- Symmetry is used in safety runs only, on disruptions that are interchangeable.
- `CHECK_DEADLOCK FALSE`: the system may stop, when everything is decided and
  the clock and the environment have reached their bounds.

### Fairness

`liveness` assumes weak fairness of the informer, the clock, the delayed
additions and the worker's steps (hook calls end, they have timeouts), and strong
fairness of taking a request: the work queue is first in first out, so a request
is taken as often as it is put there. Those are client-go's and
controller-runtime's loops. One assumption is about the outside: a manager that is
told to terminate again and again ends up obeying (strong fairness of
`CallTerminateHook`), without which a finalizer may rightly stay for ever. Nothing
is assumed of users, of restarts or of managers getting ready: a verdict by the
deadline does not rest on them. `budget_status` assumes weak fairness of the
reconciler, of each informer and of the rate limiter.

## 4. Proofs

Every safety property of the passing runs is a theorem, for every value of the
constants: any number of disruptions, nodes, budgets, pods and claims, any lag of
the informers, any number of faults and restarts. They rest on the assumptions
that the modules name (`NDAssumption`, `BudgetAssumption`, `ConfigAssumption`,
which is the check of the flags in `main`, and their like), which TLC evaluates in
the runs, and on nothing else but the hypotheses below. Each hypothesis is a
formula about constants only, holds of the constants of the run that checks the
property, and for most of them a run or a theorem shows what happens without it
(named in brackets).

| Theorem | Property | Hypotheses |
|---|---|---|
| `TypeCorrect`, `BudgetTypeCorrect` | `TypeOK` | |
| `NoOverlapCorrect` | `NoOverlapGranted` | |
| `FinalIsFinalCorrect` | `FinalIsFinal` | |
| `TypesCorrect` | `TypesRespected` | no overlap check (`NeverForTypeCorrect`) |
| `NeverForTypeCorrect` | with the overlap check, no disruption is refused for its type | overlap check |
| `GateCorrect` | `GateSpec`: each step is a step of `DisruptionGate` or a stutter | |
| `StatusesEarnedCorrect` | `StatusesEarned` | `NoHookAppears` (`unasked`) |
| `TerminatedBeforeGoneCorrect` | `TerminatedBeforeGone` | `NoHookAppears` |
| `GrantedAppsReadyCorrect` | `GrantedAppsReady` | `NoHookAppears`, `TypesGiven` (`default_types`) |
| `DeletionNeverForgotten` | its part about deletions | |
| `NeverForgottenCorrect` | `NeverForgotten` | no fault, all retry (`forgotten`) |
| `PublishingRefines` | `MSpec => Spec` | |
| `SeriesFollowCorrect` | `SeriesFollow` | |
| `CountRespectedCorrect` | a budget answers for no more disruptions than its limit and `ReadLag` | `BudgetsKept`, `TypesFilledIn` (`default_types`), `FiniteCluster` |
| `BudgetRespectedCorrect` | `BudgetRespected` | the same |
| `UserSpecKeptCorrect` | `UserSpecKept` | |
| `SettledGaugesReflectCorrect` | `SettledGaugesReflect` | |
| `SpecSeriesStay` | the gauges of a spec stay published until a restart | |
| `SettledIsUpToDateCorrect` | `SettledIsUpToDate` | `OneTerm` (theorem `AlternativesLost`) |

### The NodeDisruption reconciler (`NodeDisruptionProofs`)

One inductive invariant, `IInv`, carries all that is proved of this reconciler:

- `TypeOK`;
- `Forward`: the informer's copy, the events on their way and the stored object
  of one disruption are stages of one history, in that order, and each stage is
  one the code can produce from the one before. Without it a stale read could
  claim anything;
- `InStep`: the informer has what is stored, or the last event about it brings
  that. `Forward` alone would allow an informer that stays behind for ever;
- `Held`: a granted disruption is pending or granted in all the informer has or
  will get. This is what makes a trailing cache harmless to the overlap check: it
  asks about pending disruptions as much as about granted ones, and a disruption
  is pending in the cache before it can be validated;
- `Working`: the object the worker validates was pending, its spec is the one
  stored, and the informer never goes back behind it; the object it terminates is
  still being deleted, or gone;
- `Claimed`: as long as nothing refused it, the disruption under validation shares
  no node with a granted one, so the write that may follow is safe;
- `NoOverlapGranted`.

`NextMoves` reduces the actions to what they do to the cluster: nothing, one event
applied, all objects listed anew, or one write; and `LegalWrite` says what a write
may be: a grant or a set of statuses comes from the answers of one validation of
the object stored, a removal from a termination in which no call failed. The
invariants of the next modules are shown step by step against these.

`TypesCorrect` has the invariant `TypeAllowed`: what the worker validates, and
nothing has refused, has an allowed type. `GateCorrect` maps each kind of move to
a step of the gate.

### Hooks (`HookProofs`)

A manager leaves "ready" only when that disruption is terminated (`ManagerMoves`).

- `StatusesEarnedCorrect` rests on `AllHonest`: what any version of the object that
  can still be read, and the answers of the worker, say of an application is true.
  A status with `Preparing` means a manager that started, and with `Ok` too one
  that is ready, as long as the disruption is not being deleted; a status that is
  `Ok` alone means an application without v2 hooks. The last is where
  `NoHookAppears` is needed (no user gives a budget v2 hooks that it has not):
  `v2HookCheck` calls nobody for such a status and returns `Ok` and `Preparing`.
  `CallsCurrent` and `NoneSkipped` carry this across the calls of a validation.
- `TerminatedBeforeGoneCorrect` rests on `Told`: while no call failed, each v2
  manager in the statuses is still to be called, or idle. It needs `NoHookAppears`
  too: hooks that are taken away before the managers are called, and are back
  before the finalizer goes, were not called.
- `GrantedAppsReadyCorrect` needs `AllHonest`, since what a validation asks of an
  application (to prepare, whether it is ready, nothing) depends on what its perhaps
  old object says of it, and two more.
  `AllAsked`: a validation that nothing has refused has asked, or will ask, each
  application concerned, by the hook it has. `TypesSettled`: the types the worker
  reads are the budget's, which `TypesGiven` grants: no ADB waits for its default
  types.
- `NeverForTypeCorrect` is the other side of `TypesCorrect`: with
  `--reject-overlapping-disruption` no status ever gives the type as its reason, as
  `ValidateWithInternalConstraints` returns from the overlap check before it looks
  at the type (line 471). `main.go:84` calls the list "The list of types allowed for a
  node disruption" and makes no exception for the other flag.

### Requests (`ScheduleProofs`)

`Awaited`: a disruption that is being deleted, or one that retries and has no
verdict, is in the queue, in a timer, in the worker's hands or in an event on its
way. A pass ends without any of these only when it found nothing to do, and it
found so on the informer's object; if that is not the stored one, `InStep` has an
event that is still to come, or `Informed` says that the event came while the
worker was busy and left a request. Deletions need no hypothesis, as their errors
always come back as a requeue. Verdicts do: with a fault, `ReconcileError` drops
the request (the error of a budget that cannot be synchronised), and without retry
a refusal for the same reason as before leaves nothing to write.

### Gauges of a disruption (`MetricsProofs`)

`PublishingRefines` carries the theorems above over to the module with gauges. A
pass adds to what was published before; `NothingStale` says that this is right,
because the informer never goes back, and `PublishedAsRead` that a disruption no
request waits for has been published as the informer has it.

### Budgets (`BudgetProofs`)

A budget is synchronised from an informer that trails by at most `ReadLag` events,
each about one disruption, so of the granted ones it misses no more than that
(`ChargedSeen`). `RoomLeft`: while nothing has refused it, there is room but for
that lag for the disruption under validation in every budget it hits, beside the
others the budget answers for by now (`Others`). It holds when the budgets are
synchronised, and it stays because only the worker grants: `Others` can lose
members meanwhile and gain none. `CountRespected` follows at the write: no more
disruptions than the limit and the lag. Neither the ADB nor the NDB charges a
granted disruption more than one unit, so from disruptions to nodes the bound is
the number of watched nodes that one disruption may take, `k` in
`BudgetRespected` (`NodesTaken`). `ReadLag` and `k` are what the code
gives away: with events that are all applied and disruptions of one watched node
the bound is the limit, and `stale_budget` and `nodes` show that each of the two
can be spent. `BudgetsKept`: no ADB is absent or gets deleted (one that is gone is
not asked, and more may be granted of what it was about). `FiniteCluster` is what
`Cardinality` needs.

### The reconciler of budgets (`BudgetReconcilerProofs`)

`Announced` is `InStep` for each of the five informers.

- `SettledGaugesReflectCorrect` adds `PassInv`: the gauges are those of the budget
  a pass works on; while nothing asks for another pass, that is the informer's
  budget, or the pass's own write is on its way back. It is about budgets that
  exist.
- `SpecSeriesStay` is about those that do not: `PruneADBMetrics` and
  `PruneNDBMetrics` say that they remove the metrics of a budget that does not
  exist any more; those of its spec are pruned by labels `budget_disruption_*`, while
  they are published under `disruption_budget_*` (`metrics.go:127`), so no step but
  a restart removes them.
- `SettledIsUpToDateCorrect` adds `StatusInv`: while nothing asks for another pass,
  the nodes selected, the status computed and the status left are what the
  informers say. Its core is `UnqueuedAnswers`: an event that does not queue the
  budget (`SelectsTouched`, `MapFuncBuilder`) changes none of its answers. That is
  why a pass may read two informers at two moments. `OneTerm`: no volume has two
  alternatives; with them the status lacks nodes, as `AlternativesLost` shows.
- `UserSpecKeptCorrect` is by the type invariant and the condition of each write.

### Pure functions (`ResolverProofs`, `HookClientProofs`)

`ResolverProofs`, for every cluster and every affinity that can be
converted: nodes found for a volume are nodes it can be reached from
(`NodesOfVolumeSound`), all of them when there is one term (`OneTermExact`);
with two terms that name two hosts none is found (`AlternativesLost`), so the
application on such a volume is not protected. A requirement joined by AND only
makes the list shorter (`ListedAntitone`), which is the whole argument.

`HookClientProofs`, for every reply: `HookAccepts` (a v2 hook says yes with
200 alone, so that a manager that answers 204 to terminate keeps the finalizer),
`HealthAccepts` (the health hook takes any 2XX), and `RefusalsCountAs200` (the
status-code counters of the v2 hooks show 200 for every refusal). The lemmas
`ReadResponseResult` and `SubmitResult` say what each stage can return; the type
lemmas among them are what `TypeCorrect` uses for the reasons of statuses.

## 5. What is only model-checked

Liveness under fairness (`DecidedByDeadline`, `DeletionCompletes`,
`StatusCatchesUp`) is out of the prover's reach: it needs `ENABLED`. What it rests
on is proved as far as it is safety: nothing that has work left is forgotten
(`DeletionNeverForgotten`, `NeverForgottenCorrect`), and where everything has come
to rest the status is right (`SettledIsUpToDateCorrect`).

The properties of the seven violation runs are false of their instances, and there
the run is the counterexample. Where section 4 names a run with a hypothesis, that run shows that
the property fails without it; that the other hypotheses are needed is argued in
section 4 and not shown.

## 6. What is not modelled

- Nodes relabelled, or a spec edited, after a grant (`Sync` then rewrites the
  disrupted nodes of a granted disruption); a name used again after deletion; two
  leaders at once; more than one worker.
- Counters: they only grow, and nothing in the program reads them. One fact about
  them is proved (`RefusalsCountAs200`); that the granted and rejected counters
  count a repeated status write twice is a hazard without a property.
- The clock inside a pass that makes no call: `getRetryDate`, the reads of the
  budgets, the listing of the overlap check and `IsAfterDeadline` (lines 290, 294,
  413 and 450) are one instant. In the code the deadline may pass between the first
  and the last, and a pending disruption then has a retry date beside a refusal for
  its deadline, which the pass at that date turns into a verdict.
- Managers that become unready again on their own: those of the model, once ready,
  stay so until they are told to terminate. Whether a grant that waits for its
  `doNotGrantBefore` asks them anew is then no question of the model (it does:
  `v2HookCheck` calls the ready hook for every status that is `Preparing`).
- Replies beyond one acceptance and one failure per run: the 204 that a v2 hook
  takes for an error, and what `Retry-After` may hold, are theorems about every
  reply (`HookClientProofs`) and in no run.
- Several v2 managers of one disruption of which some fail and some succeed: in the
  runs there is one; `TerminatedBeforeGoneCorrect` has any number, and that such a
  deletion ends (`DeletionCompletes`) is checked for one.
- In `BudgetReconciler` an ADB may have any labels of `Clusters` in its status, as no
  event of a node reaches its reconciler; a budget that a lost claim keeps from
  being selected is exempt from `StatusCatchesUp` (`CannotSelect`).
- The two reconcilers as one specification: they meet in the API server, and what
  crosses is modelled on each side (`DefaultTypesArrive`; `DisruptionMoves`).
- Malformed label selectors, which the map functions do not survive
  (`SelectorMatchesObject` drops the error and asks a nil selector).
- What a health or v2 URL that cannot be parsed does beyond failing the call.
- The bodies of HTTP requests and the generated request parameters, deep copies,
  deployment files, logging.

## 7. Plan

Done, in this order: `BudgetMath`, `NodeDisruptionController` with its runs,
`DisruptionGate`, `BudgetReconciler`, the first theorems; then `Resolver`,
`HookClient`, `NodeDisruptionMetrics`, late default types and hook edits in the
reconciler, and the theorems about them; then the proofs of every safety property
that the passing runs check; then the bounds of `BudgetProofs` for every lag of the
informer and every size of disruption. Next:

1. Managers that become unready on their own, and a second v2 manager in `hooks`.
2. Weaker hypotheses: `GrantedAppsReady` and `BudgetRespected` for the budgets that
   have their types, beside others that wait for them; `BudgetsKept` for the budget
   in question only; `TerminatedBeforeGone` for the budgets whose hooks stay.
3. `BudgetMath`: what `TolerateDisruption` and the stored `DisruptionsAllowed` say of
   one another, for all values.
4. Changes of topology after a grant: relabelled nodes and edited selectors, which
   let `Sync` rewrite the nodes of a granted disruption. `NoOverlapGranted` then
   speaks of the nodes at the time of the grant, and its proof changes with it.
