------------------------- MODULE NodeDisruptionProofs -------------------------
(***************************************************************************)
(* Theorems about NodeDisruptionController for every value of its constants. *)
(*                                                                         *)
(* The argument.  All that moves the stored objects is Store, and every    *)
(* write goes forward: unknown, pending, then one verdict (LegalWrite).    *)
(* So the versions of an object that the informer still has to show lie    *)
(* between the one it shows and the one stored (Forward), and once a       *)
(* disruption is granted every version in flight is pending or granted     *)
(* (Held): the grant was written over the pending object the worker had    *)
(* read from this very informer.  Hence the overlap check, which treats    *)
(* pending like granted, sees every granted disruption however late the    *)
(* informer is, and its answer stays good until the worker writes because  *)
(* nobody else grants (Claimed).                                           *)
(***************************************************************************)
EXTENDS NodeDisruptionController, HookClientProofs, TLAPS

-----------------------------------------------------------------------------
(* Types.                                                                  *)

LEMMA BlankType == ASSUME NEW spec \in Specs PROVE Blank(spec) \in Objects
  BY DEF Blank, Objects, States, Zero

LEMMA SomeObjectType == SomeObject \in Objects
<1>1. (CHOOSE spec \in Specs : TRUE) \in Specs
  BY NDAssumption
<1> QED BY <1>1, BlankType DEF SomeObject

\* Store keeps the types of the objects and of the events.
LEMMA StoreType ==
  ASSUME api \in [NDs -> Objects], cache \in [NDs -> Objects],
         watch \in Seq([nd : NDs, obj : Objects]),
         NEW nd \in NDs, NEW new \in Objects, Store(nd, new)
  PROVE  /\ api' \in [NDs -> Objects] /\ cache' \in [NDs -> Objects]
         /\ watch' \in Seq([nd : NDs, obj : Objects])
<1>1. [nd |-> nd, obj |-> new] \in [nd : NDs, obj : Objects]
  OBVIOUS
<1>2. watch' = Append(watch, [nd |-> nd, obj |-> new])
  BY DEF Store
<1>3. watch' \in Seq([nd : NDs, obj : Objects])
  BY <1>1, <1>2
<1> QED BY <1>3 DEF Store

LEMMA RequeueType ==
  ASSUME timer \in [NDs -> Int], NEW nd \in NDs, NEW due \in Int, RequeueAt(nd, due)
  PROVE  timer' \in [NDs -> Int]
  BY DEF RequeueAt, Earliest

\* The parts of TypeOK that one request writes.
ClusterType ==
    /\ api \in [NDs -> Objects] /\ cache \in [NDs -> Objects]
    /\ watch \in Seq([nd : NDs, obj : Objects])
    /\ timer \in [NDs -> Int]

LEMMA UpdateType ==
  ASSUME TypeOK, NEW nd \in NDs, NEW old, NEW new \in Objects,
         Update(nd, old, new) \/ UpdateStatus(nd, old, new)
  PROVE  ClusterType'
<1>1. CASE Store(nd, new) /\ UNCHANGED timer
  BY <1>1, StoreType DEF TypeOK, ClusterType
<1>2. CASE ReturnError(nd)
  BY <1>2, RequeueType DEF TypeOK, ClusterType, ReturnError, cluster
<1>3. CASE UNCHANGED <<cluster, timer>>
  BY <1>3 DEF TypeOK, ClusterType, cluster
<1> QED BY <1>1, <1>2, <1>3 DEF Update, UpdateStatus

LEMMA IdleType ==
  ASSUME GoIdle
  PROVE  /\ pc' = "idle" /\ cur' = NoND /\ seen' \in Objects /\ todo' = {} /\ out' = {}
         /\ again' = 0 /\ failed' = FALSE
  BY SomeObjectType DEF GoIdle, Zero

\* A step that leaves the worker and the environment alone.
LEMMA RestType ==
  ASSUME TypeOK, ClusterType', queue' \subseteq NDs,
         UNCHANGED environment, UNCHANGED <<pc, scratch>>
  PROVE  TypeOK'
  BY DEF TypeOK, ClusterType, environment, scratch

LEMMA IdleStepType ==
  ASSUME TypeOK, ClusterType', queue' \subseteq NDs, UNCHANGED environment, GoIdle
  PROVE  TypeOK'
  BY IdleType DEF TypeOK, ClusterType, environment

LEMMA RetryDateType ==
  ASSUME TypeOK, NEW spec \in Specs PROVE RetryDate(spec) \in Nat
  BY NDAssumption DEF TypeOK, RetryDate, Zero

LEMMA TypeInit == Init => TypeOK
<1> SUFFICES ASSUME Init PROVE TypeOK
  OBVIOUS
<1>1. PICK specOf \in [NDs -> Specs] : api = [nd \in NDs |-> Blank(specOf[nd])]
  BY DEF Init
<1>2. api \in [NDs -> Objects] /\ cache \in [NDs -> Objects]
  BY <1>1, BlankType DEF Init
<1>3. watch \in Seq([nd : NDs, obj : Objects])
  BY DEF Init
<1>4. /\ queue \subseteq NDs /\ timer \in [NDs -> Int] /\ hook \in [ADBs -> HookKinds]
      /\ types \in [ADBs \cup NDBs -> SUBSET STRING]
      /\ manager \in [NDs \X ADBs -> {"idle", "preparing", "ready"}]
  BY BudgetAssumption DEF Init, NoTimer
<1>5. now \in 0..MaxTime /\ crashes \in 0..MaxCrash
  BY NDAssumption DEF Init
<1>6. /\ pc \in {"idle", "hooks", "terminate"}
      /\ cur \in NDs \cup {NoND} /\ (pc = "idle" <=> cur = NoND)
      /\ todo \subseteq ADBs \X HookKinds /\ out \subseteq Statuses
      /\ again \in Nat /\ failed \in BOOLEAN
  BY DEF Init, Zero
<1>7. seen \in Objects
  BY SomeObjectType DEF Init
<1> QED BY <1>2, <1>3, <1>4, <1>5, <1>6, <1>7 DEF TypeOK

\* The part of a request before the first call keeps the types.
LEMMA TypeReconcile ==
  ASSUME TypeOK, NEW nd \in NDs, Reconcile(nd) PROVE TypeOK'
<1> DEFINE old == cache[nd]
<1>0. /\ queue \ {nd} \subseteq NDs /\ old \in Objects /\ old.spec \in Specs
      /\ old.spec \in SpecType /\ nd # NoND
  BY NDAssumption DEF TypeOK, Objects
<1>1. CASE ReconcileNotFound(nd) \/ ReconcileFinal(nd) \/ ReconcileError(nd)
  <2>1. /\ UNCHANGED <<cluster, timer>> /\ UNCHANGED environment
        /\ UNCHANGED <<pc, scratch>> /\ queue' = queue \ {nd}
    BY <1>1 DEF ReconcileNotFound, ReconcileFinal, ReconcileError, Proceeds, Take, StayIdle
  <2>2. ClusterType'
    BY <2>1 DEF TypeOK, ClusterType, cluster
  <2> QED BY <2>1, <2>2, <1>0, RestType
<1>2. CASE AddFinalizer(nd)
  <2>1. [old EXCEPT !.fin = TRUE] \in Objects
    BY <1>0 DEF Objects
  <2>2. ClusterType'
    BY <1>2, <2>1, UpdateType DEF AddFinalizer
  <2> QED BY <1>0, <1>2, <2>2, RestType DEF AddFinalizer, Take, StayIdle
<1>3. CASE WaitForRetryDate(nd)
  <2>1. old.retryAt \in Int
    BY <1>0 DEF Objects
  <2>2. ClusterType'
    BY <1>3, <2>1, RequeueType DEF WaitForRetryDate, TypeOK, ClusterType, cluster
  <2> QED BY <1>0, <1>3, <2>2, RestType DEF WaitForRetryDate, Proceeds, Take, StayIdle
<1>4. CASE EnterPending(nd)
  <2>1. [old EXCEPT !.state = "pending", !.nodes = old.spec.nodes] \in Objects
    BY <1>0 DEF Objects, SpecType, States
  <2>2. ClusterType'
    BY <1>4, <2>1, UpdateType DEF EnterPending
  <2> QED BY <1>0, <1>4, <2>2, RestType DEF EnterPending, Proceeds, Take, StayIdle
<1>5. CASE TryTransitionToGranted(nd)
  <2>1. ClusterType' /\ queue' \subseteq NDs /\ UNCHANGED environment
    BY <1>0, <1>5 DEF TryTransitionToGranted, Proceeds, Take, TypeOK, ClusterType, cluster
  <2>2. again' \in Nat
    BY <1>0, <1>5, RetryDateType DEF TryTransitionToGranted
  <2>3. InternalConstraints(nd, old) \subseteq Statuses
    <3>1. \A why \in {"deadline", "empty", "overlap", "type"} : Refusal(nd, why) \in Statuses
      BY DEF Refusal, Statuses, Refs, Reasons
    <3> QED BY <3>1, <1>0 DEF InternalConstraints, Objects
  <2>4. \A b \in ADBs \cup NDBs : Refusal(b, "no more") \in Statuses /\ Accepted(b) \in Statuses
    BY DEF Refusal, Accepted, Statuses, Refs, Reasons
  <2>5. /\ FirstRefusals(old.spec) \subseteq ADBs \cup NDBs
        /\ Hookless(old.spec) \subseteq ADBs \cup NDBs
        /\ Calls(old.spec) \subseteq ADBs \X HookKinds
    BY DEF FirstRefusals, Hookless, Concerned, Calls, TypeOK
  <2>6. out' \subseteq Statuses /\ todo' \subseteq ADBs \X HookKinds
    BY <1>5, <2>3, <2>4, <2>5 DEF TryTransitionToGranted
  <2>7. pc' = "hooks" /\ cur' = nd /\ seen' = old /\ failed' = FALSE
    BY <1>5 DEF TryTransitionToGranted
  <2> QED BY <1>0, <2>1, <2>2, <2>6, <2>7 DEF TypeOK, ClusterType, environment
<1>6. CASE BeginTermination(nd)
  <2>1. ClusterType' /\ queue' \subseteq NDs /\ UNCHANGED environment
    BY <1>0, <1>6 DEF BeginTermination, Take, TypeOK, ClusterType, cluster
  <2>2. /\ pc' = "terminate" /\ cur' = nd /\ seen' = old /\ failed' = FALSE /\ out' = {}
        /\ again' = 0
        /\ todo' = {<<s.ref, "v2">> : s \in {t \in old.st : t.prep /\ t.ref \in ADBs}}
    BY <1>6 DEF BeginTermination, Zero
  <2>3. todo' \subseteq ADBs \X HookKinds
    BY <2>2 DEF HookKinds
  <2> QED BY <1>0, <2>1, <2>2, <2>3 DEF TypeOK, ClusterType, environment
<1> QED BY <1>1, <1>2, <1>3, <1>4, <1>5, <1>6 DEF Reconcile

LEMMA DecidedType == ASSUME TypeOK PROVE Decided \in Objects
<1>1. seen \in Objects /\ seen.spec \in SpecType
  BY NDAssumption DEF TypeOK, Objects
<1>2. NextState \in States /\ NextRetryDate \in Nat /\ out \subseteq Statuses
  BY <1>1 DEF NextState, States, NextRetryDate, SpecType, TypeOK
<1> QED BY <1>1, <1>2 DEF Decided, Objects, SpecType

\* An answer of a hook keeps the types, whatever the manager did.
LEMMA AnsweredType ==
  ASSUME TypeOK, NEW b \in ADBs, NEW ok \in BOOLEAN, NEW prep \in BOOLEAN,
         NEW why \in Reasons, Answered(b, ok, prep, why),
         manager' \in [NDs \X ADBs -> {"idle", "preparing", "ready"}]
  PROVE  TypeOK'
<1>1. [ref |-> b, ok |-> ok, prep |-> prep, why |-> why] \in Statuses
  BY DEF Statuses, Refs
<1>2. out' \subseteq Statuses /\ todo' \subseteq ADBs \X HookKinds
  BY <1>1 DEF Answered, TypeOK
<1> QED BY <1>2 DEF Answered, TypeOK, cluster

LEMMA ManagerType ==
  ASSUME TypeOK, cur \in NDs, NEW b \in ADBs,
         \/ Prepares(b) \/ UNCHANGED manager \/ ManagerSets(b, "idle")
  PROVE  manager' \in [NDs \X ADBs -> {"idle", "preparing", "ready"}]
<1>1. manager \in [NDs \X ADBs -> {"idle", "preparing", "ready"}] /\ <<cur, b>> \in NDs \X ADBs
  BY DEF TypeOK
<1> QED BY <1>1 DEF Prepares, ManagerSets

LEMMA TypeWork == ASSUME TypeOK, Work PROVE TypeOK'
<1>1. CASE Decide
  <2>0. cur \in NDs
    BY <1>1 DEF Decide, TypeOK
  <2>1. ClusterType'
    <3>1. CASE UpdateStatus(cur, seen, Decided)
      BY <3>1, <2>0, DecidedType, UpdateType
    <3>2. CASE UNCHANGED <<cluster, timer>>
      BY <3>2 DEF TypeOK, ClusterType, cluster
    <3> QED BY <1>1, <3>1, <3>2 DEF Decide
  <2>2. queue' \subseteq NDs /\ UNCHANGED environment /\ GoIdle
    BY <1>1 DEF Decide, TypeOK
  <2> QED BY <2>1, <2>2, IdleStepType
<1>2. CASE FinishTermination
  <2>0. cur \in NDs
    BY <1>2 DEF FinishTermination, TypeOK
  <2>1. ClusterType'
    <3>1. CASE ReturnError(cur)
      BY <3>1, <2>0, RequeueType DEF ReturnError, TypeOK, ClusterType, cluster
    <3>2. CASE Update(cur, seen, Removed(seen))
      <4>1. Removed(seen) \in Objects
        BY DEF TypeOK, Removed, Objects, Zero
      <4> QED BY <3>2, <4>1, <2>0, UpdateType
    <3> QED BY <1>2, <3>1, <3>2 DEF FinishTermination
  <2>2. queue' \subseteq NDs /\ UNCHANGED environment /\ GoIdle
    BY <1>2 DEF FinishTermination, TypeOK
  <2> QED BY <2>1, <2>2, IdleStepType
<1>3. ASSUME NEW b \in ADBs,
             CallHealthHook(b) \/ CallPrepareHook(b) \/ CallReadyHook(b) \/ CallNoHook(b)
      PROVE  TypeOK'
  <2>0. cur \in NDs
    BY <1>3 DEF CallHealthHook, CallPrepareHook, CallReadyHook, CallNoHook, Calling, TypeOK
  <2>1. manager' \in [NDs \X ADBs -> {"idle", "preparing", "ready"}]
    <3>1. Prepares(b) \/ UNCHANGED manager
      BY <1>3 DEF CallHealthHook, CallPrepareHook, CallReadyHook, CallNoHook
    <3> QED BY <2>0, <3>1, ManagerType
  <2>2. \E ok \in BOOLEAN, prep \in BOOLEAN, why \in Reasons : Answered(b, ok, prep, why)
    <3>1. Replies \subseteq ReplyType /\ HookReasons \cup {""} \subseteq Reasons
      BY NDAssumption DEF Reasons
    <3>2. \A reply \in Replies : HealthError(reply) \in Reasons
      BY <3>1, HealthErrorType
    <3>3. /\ \A reply \in Replies : HookError("prepare", reply) \in Reasons
          /\ \A reply \in Replies : HookError("ready", reply) \in Reasons
      <4>1. "prepare" \in Endpoints /\ "ready" \in Endpoints
        BY DEF Endpoints
      <4> QED BY <3>1, <4>1, HookErrorType
    <3>4. CASE CallHealthHook(b)
      BY <3>2, <3>4 DEF CallHealthHook
    <3>5. CASE CallPrepareHook(b)
      BY <3>3, <3>5 DEF CallPrepareHook
    <3>6. CASE CallReadyHook(b)
      BY <3>3, <3>6 DEF CallReadyHook
    <3>7. CASE CallNoHook(b)
      BY <3>1, <3>7 DEF CallNoHook
    <3> QED BY <1>3, <3>4, <3>5, <3>6, <3>7
  <2> QED BY <2>1, <2>2, AnsweredType
<1>4. ASSUME NEW b \in ADBs,
             SkipTerminate(b) \/ CallTerminateHook(b) \/ TerminateHookFails(b)
      PROVE  TypeOK'
  <2>0. cur \in NDs /\ Terminating(b)
    BY <1>4 DEF SkipTerminate, CallTerminateHook, TerminateHookFails, Terminating, TypeOK
  <2>1. manager' \in [NDs \X ADBs -> {"idle", "preparing", "ready"}]
    <3>1. UNCHANGED manager \/ ManagerSets(b, "idle")
      BY <1>4 DEF SkipTerminate, CallTerminateHook, TerminateHookFails
    <3> QED BY <2>0, <3>1, ManagerType
  <2>2. failed' \in BOOLEAN
    BY <1>4 DEF SkipTerminate, CallTerminateHook, TerminateHookFails, TypeOK
  <2>3. todo' \subseteq ADBs \X HookKinds
    BY <2>0 DEF Terminating, TypeOK
  <2> QED BY <2>0, <2>1, <2>2, <2>3 DEF Terminating, TypeOK, cluster
<1> QED BY <1>1, <1>2, <1>3, <1>4 DEF Work

LEMMA TypeEnvironment == ASSUME TypeOK, Environment PROVE TypeOK'
<1>1. CASE Deliver
  <2> DEFINE Events == [nd : NDs, obj : Objects]
  <2>a. watch \in Seq(Events) /\ watch # <<>>
    BY <1>1 DEF Deliver, TypeOK
  <2> HIDE DEF Events
  <2>b. Head(watch) \in Events /\ Tail(watch) \in Seq(Events)
    BY <2>a
  <2>1. Head(watch) \in [nd : NDs, obj : Objects] /\ Tail(watch) \in Seq([nd : NDs, obj : Objects])
    BY <2>b DEF Events
  <2>2. ClusterType' /\ queue' \subseteq NDs
    BY <1>1, <2>1 DEF Deliver, TypeOK, ClusterType
  <2> QED BY <1>1, <2>2, RestType DEF Deliver
<1>2. CASE Restart
  <2>1. ClusterType' /\ queue' \subseteq NDs
    BY <1>2 DEF Restart, TypeOK, ClusterType, NoTimer
  <2>2. crashes' \in 0..MaxCrash /\ UNCHANGED <<hook, types, manager, now>>
    BY <1>2, NDAssumption DEF Restart, TypeOK
  <2> QED BY <1>2, <2>1, <2>2, IdleType DEF Restart, TypeOK, ClusterType
<1>3. CASE Tick
  BY <1>3, NDAssumption DEF Tick, TypeOK, cluster, scratch
<1>4. ASSUME NEW nd \in NDs, TimerFires(nd) PROVE TypeOK'
  <2>1. ClusterType' /\ queue' \subseteq NDs
    BY <1>4 DEF TimerFires, TypeOK, ClusterType, cluster, NoTimer
  <2> QED BY <1>4, <2>1, RestType DEF TimerFires
<1>5. ASSUME NEW nd \in NDs, UserCreates(nd) \/ UserDeletes(nd) PROVE TypeOK'
  <2>1. /\ [api[nd] EXCEPT !.life = "live"] \in Objects
        /\ [api[nd] EXCEPT !.life = "deleting"] \in Objects
        /\ Removed(api[nd]) \in Objects
    BY DEF TypeOK, Objects, Removed, Zero
  <2>2. PICK new \in Objects : Store(nd, new)
    BY <1>5, <2>1 DEF UserCreates, UserDeletes
  <2>3. ClusterType'
    BY <1>5, <2>2, StoreType DEF TypeOK, ClusterType, UserCreates, UserDeletes
  <2> QED BY <1>5, <2>3, RestType DEF UserCreates, UserDeletes, TypeOK
<1>6. ASSUME NEW nd \in NDs, NEW b \in ADBs, ManagerReady(nd, b) PROVE TypeOK'
  <2>1. manager' \in [NDs \X ADBs -> {"idle", "preparing", "ready"}]
    BY <1>6 DEF ManagerReady, TypeOK
  <2> QED BY <1>6, <2>1 DEF ManagerReady, TypeOK, cluster, scratch
<1>7. ASSUME NEW b \in ADBs, NEW to \in HookKinds, UserEditsHook(b, to) PROVE TypeOK'
  BY <1>7 DEF UserEditsHook, TypeOK, cluster, scratch
<1>8. ASSUME NEW b \in ADBs \cup NDBs, DefaultTypesArrive(b) PROVE TypeOK'
  <2>1. types' \in [ADBs \cup NDBs -> SUBSET STRING]
    BY <1>8, ConfigAssumption DEF DefaultTypesArrive, TypeOK
  <2> QED BY <1>8, <2>1 DEF DefaultTypesArrive, TypeOK, cluster, scratch
<1> QED BY <1>1, <1>2, <1>3, <1>4, <1>5, <1>6, <1>7, <1>8 DEF Environment

LEMMA TypeNext == TypeOK /\ [Next]_vars => TypeOK'
<1>1. TypeOK /\ Next => TypeOK'
  BY TypeReconcile, TypeWork, TypeEnvironment DEF Next
<1>2. TypeOK /\ UNCHANGED vars => TypeOK'
  BY DEF TypeOK, vars, cluster, environment, scratch
<1> QED BY <1>1, <1>2

\* Every variable keeps its type, and the worker is busy exactly when it holds a
\* disruption (the loop of Reconcile in nodedisruption_controller.go).
THEOREM TypeCorrect == Spec => []TypeOK
  BY TypeInit, TypeNext, PTL DEF Spec

-----------------------------------------------------------------------------
(* The inductive invariant.                                                *)

\* How far an object is: unknown, pending, decided.
Rank(obj) == IF obj.state = "unknown" THEN 0 ELSE IF obj.state = "pending" THEN 1 ELSE 2

\* A disruption past Unknown was created and carries the nodes of its selector;
\* one that is unknown carries none.
Sound(obj) ==
    /\ obj.state # "unknown" => obj.life # "new" /\ obj.nodes = obj.spec.nodes
    /\ obj.state = "unknown" => obj.nodes = {}

\* Version v of an object can precede version w.
Precedes(v, w) ==
    /\ v.spec = w.spec /\ Rank(v) <= Rank(w)
    /\ v.life = "gone" => w.life = "gone"
    /\ v.life = "deleting" => w.life \in {"deleting", "gone"}

\* The state changes that a write may make.
Verdicts == {<<"unknown", "pending">>, <<"pending", "granted">>, <<"pending", "rejected">>}

\* What a write may do: it goes forward, changes the state of an object that
\* exists and stays, grants only what the worker validated on the object stored,
\* takes its statuses from that validation, and removes an object that is being
\* deleted only when all that had to be called was.
LegalWrite(nd, new) ==
    LET old == api[nd] IN
    /\ Sound(new) /\ Precedes(old, new)
    /\ old.life # "gone" /\ new.life # "new" /\ (old.life = "new" => new.life = "live")
    /\ new.state # old.state =>
          Exists(old) /\ Exists(new) /\ <<old.state, new.state>> \in Verdicts
    /\ new.state = "granted" /\ old.state # "granted" =>
          pc = "hooks" /\ nd = cur /\ old = seen /\ todo = {} /\ ~AnyFailed
    /\ \/ new.st \subseteq old.st
       \/ pc = "hooks" /\ nd = cur /\ old = seen /\ todo = {} /\ new.st = out
    /\ old.life = "deleting" /\ new.life = "gone" =>
          pc = "terminate" /\ nd = cur /\ old = seen /\ todo = {} /\ ~failed

\* The informer and the events lead up to the object stored, in order.
Forward ==
    \A nd \in NDs :
        /\ Sound(api[nd]) /\ Sound(cache[nd]) /\ Precedes(cache[nd], api[nd])
        /\ \A i \in 1..Len(watch) : watch[i].nd = nd =>
              /\ Sound(watch[i].obj)
              /\ Precedes(cache[nd], watch[i].obj) /\ Precedes(watch[i].obj, api[nd])
              /\ \A j \in i..Len(watch) : watch[j].nd = nd =>
                    Precedes(watch[i].obj, watch[j].obj)

\* A granted disruption is pending or granted in all the informer has or will get.
Held ==
    \A nd \in NDs : api[nd].state = "granted" =>
        /\ cache[nd].state \in {"pending", "granted"}
        /\ \A i \in 1..Len(watch) : watch[i].nd = nd =>
              watch[i].obj.state \in {"pending", "granted"}

\* The object a worker validates was pending, and the informer does not go back;
\* the object it terminates was being deleted, and is still or is gone.
Working ==
    /\ pc = "hooks" => /\ seen.life = "live" /\ seen.state = "pending" /\ Sound(seen)
                       /\ seen.spec = api[cur].spec /\ Rank(cache[cur]) >= 1
    /\ pc = "terminate" => seen.life = "deleting" /\ api[cur].life \in {"deleting", "gone"}

\* As long as nothing has refused it, the disruption the worker validates shares
\* no node with a granted one.
Claimed ==
    RejectOverlapping /\ pc = "hooks" /\ (\A s \in out : s.ok) =>
        \A other \in NDs \ {cur} : Granted(other) =>
            api[other].spec.nodes \cap seen.spec.nodes = {}

\* An event about nd is on its way; the i-th event is the last one about nd.
InFlight(nd) == \E i \in 1..Len(watch) : watch[i].nd = nd
Latest(nd, i) == watch[i].nd = nd /\ \A j \in 1..Len(watch) : j > i => watch[j].nd # nd

\* The informer will end up with what is stored: it has it, or the last event
\* brings it.
InStep ==
    \A nd \in NDs :
        /\ ~InFlight(nd) => cache[nd] = api[nd]
        /\ \A i \in 1..Len(watch) : Latest(nd, i) => watch[i].obj = api[nd]

IInv == TypeOK /\ Forward /\ InStep /\ Held /\ Working /\ Claimed /\ NoOverlapGranted

\* The ways the stored objects and the informer move.
Delivered ==
    /\ watch # <<>> /\ UNCHANGED api
    /\ cache' = [cache EXCEPT ![Head(watch).nd] = Head(watch).obj]
    /\ watch' = Tail(watch)
Relisted == UNCHANGED api /\ cache' = api /\ watch' = <<>>
Written == \E nd \in NDs, new \in Objects : Store(nd, new) /\ LegalWrite(nd, new)
ClusterMoves == UNCHANGED cluster \/ Delivered \/ Relisted \/ Written

\* A conditional write is a legal write if it would be over the object it read.
LEMMA ConditionalWrite ==
  ASSUME NEW nd \in NDs, NEW old, NEW new \in Objects,
         Update(nd, old, new) \/ UpdateStatus(nd, old, new),
         api[nd] = old => LegalWrite(nd, new)
  PROVE  UNCHANGED cluster \/ Written
  BY DEF Update, UpdateStatus, ReturnError, Written

LEMMA RequestMoves ==
  ASSUME TypeOK, Forward, NEW nd \in NDs, Reconcile(nd) PROVE ClusterMoves
<1> DEFINE old == cache[nd]
<1>0. /\ old \in Objects /\ old.spec \in Specs /\ old.spec \in SpecType
      /\ Sound(old) /\ Sound(api[nd])
  BY NDAssumption DEF TypeOK, Objects, Forward
<1>1. CASE AddFinalizer(nd)
  <2> DEFINE new == [old EXCEPT !.fin = TRUE]
  <2>1. new \in Objects
    BY <1>0 DEF Objects
  <2>2. /\ new.life = old.life /\ new.state = old.state /\ new.nodes = old.nodes
        /\ new.spec = old.spec /\ new.st = old.st /\ old.life = "live"
    BY <1>0, <1>1 DEF Objects, AddFinalizer
  <2>3. api[nd] = old => LegalWrite(nd, new)
    BY <1>0, <2>2 DEF LegalWrite, Sound, Precedes, Rank, Exists, Verdicts
  <2> QED BY <1>1, <2>1, <2>3, ConditionalWrite DEF AddFinalizer, ClusterMoves
<1>2. CASE EnterPending(nd)
  <2> DEFINE new == [old EXCEPT !.state = "pending", !.nodes = old.spec.nodes]
  <2>1. new \in Objects
    BY <1>0 DEF Objects, SpecType, States
  <2>2. /\ new.life = "live" /\ new.state = "pending" /\ new.nodes = new.spec.nodes
        /\ new.spec = old.spec /\ new.st = old.st /\ old.state = "unknown" /\ old.life = "live"
    BY <1>0, <1>2 DEF Objects, EnterPending, Proceeds
  <2>3. api[nd] = old => LegalWrite(nd, new)
    BY <1>0, <2>2 DEF LegalWrite, Sound, Precedes, Rank, Exists, Verdicts
  <2> QED BY <1>2, <2>1, <2>3, ConditionalWrite DEF EnterPending, ClusterMoves
<1>3. CASE ~AddFinalizer(nd) /\ ~EnterPending(nd)
  <2>1. UNCHANGED cluster
    BY <1>3 DEF Reconcile, ReconcileNotFound, WaitForRetryDate, ReconcileFinal, ReconcileError,
                TryTransitionToGranted, BeginTermination
  <2> QED BY <2>1 DEF ClusterMoves
<1> QED BY <1>1, <1>2, <1>3

LEMMA WorkMoves == ASSUME TypeOK, Forward, Working, Work PROVE ClusterMoves
<1>1. CASE Decide
  <2>0. cur \in NDs /\ pc = "hooks" /\ seen \in Objects /\ seen.spec \in SpecType
    BY <1>1, NDAssumption DEF Decide, TypeOK, Objects
  <2>1. Decided \in Objects
    BY DecidedType
  <2>2. /\ Decided.life = "live" /\ Decided.nodes = seen.spec.nodes /\ Decided.spec = seen.spec
        /\ Decided.state = NextState /\ Decided.st = out /\ todo = {}
        /\ seen.life = "live" /\ seen.state = "pending"
    BY <1>1, <2>0 DEF Decide, Decided, Objects, Working
  <2>3. NextState \in {"pending", "granted", "rejected"} /\ (NextState = "granted" => ~AnyFailed)
    BY DEF NextState
  <2>4. api[cur] = seen => LegalWrite(cur, Decided)
    BY <2>0, <2>2, <2>3 DEF LegalWrite, Sound, Precedes, Rank, Exists, Verdicts
  <2>5. CASE UpdateStatus(cur, seen, Decided)
    BY <2>0, <2>1, <2>4, <2>5, ConditionalWrite DEF ClusterMoves
  <2>6. CASE UNCHANGED <<cluster, timer>>
    BY <2>6 DEF ClusterMoves
  <2> QED BY <1>1, <2>5, <2>6 DEF Decide
<1>2. CASE FinishTermination
  <2>0. cur \in NDs /\ seen \in Objects /\ api[cur] \in Objects
    BY <1>2 DEF FinishTermination, TypeOK
  <2> DEFINE new == Removed(seen)
  <2>1. new \in Objects
    BY <2>0 DEF Removed, Objects, Zero
  <2>2. /\ new.life = "gone" /\ new.state = seen.state /\ new.nodes = seen.nodes
        /\ new.spec = seen.spec /\ new.st = {} /\ seen.life = "deleting"
    BY <1>2, <2>0 DEF Removed, Objects, FinishTermination, Working
  <2>3. ~failed /\ api[cur] = seen => LegalWrite(cur, new)
    BY <1>2, <2>0, <2>2 DEF FinishTermination, LegalWrite, Sound, Precedes, Rank, Forward,
                            Exists, Verdicts
  <2>4. CASE ReturnError(cur)
    BY <2>4 DEF ReturnError, ClusterMoves
  <2>5. CASE ~failed /\ Update(cur, seen, new)
    BY <2>0, <2>1, <2>3, <2>5, ConditionalWrite DEF ClusterMoves
  <2> QED BY <1>2, <2>4, <2>5 DEF FinishTermination
<1>3. CASE ~Decide /\ ~FinishTermination
  <2>1. UNCHANGED cluster
    BY <1>3 DEF Work, CallHealthHook, CallPrepareHook, CallReadyHook, CallNoHook, Answered,
                SkipTerminate, CallTerminateHook, TerminateHookFails, Terminating
  <2> QED BY <2>1 DEF ClusterMoves
<1> QED BY <1>1, <1>2, <1>3

LEMMA EnvironmentMoves == ASSUME TypeOK, Forward, Environment PROVE ClusterMoves
<1>1. CASE Deliver
  BY <1>1 DEF Deliver, Delivered, ClusterMoves
<1>2. CASE Restart
  BY <1>2 DEF Restart, Relisted, ClusterMoves
<1>3. ASSUME NEW nd \in NDs, UserCreates(nd) PROVE ClusterMoves
  <2> DEFINE new == [api[nd] EXCEPT !.life = "live"]
  <2>1. /\ api[nd] \in Objects /\ new \in Objects /\ new.life = "live" /\ new.state = api[nd].state
        /\ new.nodes = api[nd].nodes /\ new.spec = api[nd].spec /\ new.st = api[nd].st
    BY DEF TypeOK, Objects
  <2>2. LegalWrite(nd, new)
    BY <1>3, <2>1 DEF UserCreates, LegalWrite, Sound, Precedes, Rank, Forward
  <2> QED BY <1>3, <2>1, <2>2 DEF UserCreates, Written, ClusterMoves
<1>4. ASSUME NEW nd \in NDs, UserDeletes(nd) PROVE ClusterMoves
  <2> DEFINE marked == [api[nd] EXCEPT !.life = "deleting"]
             new == IF api[nd].fin THEN marked ELSE Removed(api[nd])
  <2>0. api[nd] \in Objects
    BY DEF TypeOK
  <2>a. /\ marked \in Objects /\ marked.life = "deleting" /\ marked.state = api[nd].state
        /\ marked.nodes = api[nd].nodes /\ marked.spec = api[nd].spec
        /\ marked.st = api[nd].st
    BY <2>0 DEF Objects
  <2>b. /\ Removed(api[nd]) \in Objects /\ Removed(api[nd]).life = "gone"
        /\ Removed(api[nd]).state = api[nd].state
        /\ Removed(api[nd]).nodes = api[nd].nodes /\ Removed(api[nd]).spec = api[nd].spec
        /\ Removed(api[nd]).st = {}
    BY <2>0 DEF Objects, Removed, Zero
  <2>1. /\ Store(nd, new) /\ new \in Objects
        /\ new.life \in {"deleting", "gone"} /\ new.state = api[nd].state
        /\ new.nodes = api[nd].nodes /\ new.spec = api[nd].spec /\ new.st \subseteq api[nd].st
    BY <1>4, <2>a, <2>b DEF UserDeletes
  <2>2. LegalWrite(nd, new)
    BY <1>4, <2>1 DEF UserDeletes, LegalWrite, Sound, Precedes, Rank, Forward
  <2> QED BY <2>1, <2>2 DEF Written, ClusterMoves
<1>5. CASE ~Deliver /\ ~Restart /\ \A nd \in NDs : ~UserCreates(nd) /\ ~UserDeletes(nd)
  <2>1. UNCHANGED cluster
    BY <1>5 DEF Environment, Tick, TimerFires, ManagerReady, UserEditsHook, DefaultTypesArrive
  <2> QED BY <2>1 DEF ClusterMoves
<1> QED BY <1>1, <1>2, <1>3, <1>4, <1>5

LEMMA NextMoves == TypeOK /\ Forward /\ Working /\ [Next]_vars => ClusterMoves
  BY RequestMoves, WorkMoves, EnvironmentMoves DEF Next, vars, ClusterMoves

LEMMA PrecedesReflexive == ASSUME NEW v PROVE Precedes(v, v)
  BY DEF Precedes, Rank

LEMMA PrecedesTransitive ==
  ASSUME NEW u, NEW v, NEW w, Precedes(u, v), Precedes(v, w) PROVE Precedes(u, w)
  BY DEF Precedes, Rank

\* The events in flight after Tail and after Append.
LEMMA TailEvents ==
  ASSUME TypeOK, Delivered
  PROVE  /\ Len(watch) \in Nat /\ Len(watch) >= 1 /\ Len(watch') = Len(watch) - 1
         /\ Head(watch) = watch[1]
         /\ \A i \in 1..Len(watch') : i + 1 \in 1..Len(watch) /\ watch'[i] = watch[i + 1]
         /\ watch[1].nd \in NDs /\ watch[1].obj \in Objects
<1> DEFINE Events == [nd : NDs, obj : Objects]
<1>1. watch \in Seq(Events) /\ watch # <<>> /\ watch' = Tail(watch)
  BY DEF TypeOK, Delivered
<1> HIDE DEF Events
<1>2. /\ Len(watch) \in Nat /\ Len(watch) >= 1 /\ Len(watch') = Len(watch) - 1
      /\ Head(watch) = watch[1] /\ watch[1] \in Events
      /\ \A i \in 1..Len(watch') : i + 1 \in 1..Len(watch) /\ watch'[i] = watch[i + 1]
  BY <1>1
<1> QED BY <1>2 DEF Events

LEMMA AppendedEvents ==
  ASSUME TypeOK, NEW nd \in NDs, NEW new \in Objects, Store(nd, new)
  PROVE  /\ Len(watch) \in Nat /\ Len(watch') = Len(watch) + 1
         /\ \A i \in 1..Len(watch) : watch'[i] = watch[i]
         /\ watch'[Len(watch')].nd = nd /\ watch'[Len(watch')].obj = new
<1> DEFINE Events == [nd : NDs, obj : Objects]
           event == [nd |-> nd, obj |-> new]
<1>1. watch \in Seq(Events) /\ event \in Events /\ watch' = Append(watch, event)
  BY DEF TypeOK, Store
<1>2. event.nd = nd /\ event.obj = new
  OBVIOUS
<1> HIDE DEF Events, event
<1>3. /\ Len(watch) \in Nat /\ Len(watch') = Len(watch) + 1
      /\ \A i \in 1..Len(watch) : watch'[i] = watch[i]
      /\ watch'[Len(watch')] = event
  BY <1>1
<1> QED BY <1>2, <1>3

LEMMA ForwardNext == ASSUME TypeOK, Forward, ClusterMoves PROVE Forward'
<1>1. CASE UNCHANGED cluster
  BY <1>1 DEF cluster, Forward
<1>2. CASE Relisted
  <2>1. Len(watch') = 0
    BY <1>2 DEF Relisted
  <2> QED BY <1>2, <2>1, PrecedesReflexive DEF Relisted, Forward, TypeOK
<1>3. CASE Delivered
  <2> DEFINE head == watch[1].nd
  <2>1. SUFFICES ASSUME NEW nd \in NDs
        PROVE  /\ Sound(api[nd]) /\ Sound(cache'[nd]) /\ Precedes(cache'[nd], api[nd])
               /\ \A i \in 1..Len(watch') : watch'[i].nd = nd =>
                     /\ Sound(watch'[i].obj)
                     /\ Precedes(cache'[nd], watch'[i].obj) /\ Precedes(watch'[i].obj, api[nd])
                     /\ \A j \in i..Len(watch') : watch'[j].nd = nd =>
                           Precedes(watch'[i].obj, watch'[j].obj)
    BY <1>3 DEF Forward, Delivered
  <2>2. cache'[nd] = IF nd = head THEN watch[1].obj ELSE cache[nd]
    BY <1>3, TailEvents DEF Delivered, TypeOK
  <2>3. 1 \in 1..Len(watch)
    BY <1>3, TailEvents
  <2>4. Sound(api[nd]) /\ Sound(cache'[nd]) /\ Precedes(cache'[nd], api[nd])
    BY <2>2, <2>3 DEF Forward
  <2>5. ASSUME NEW i \in 1..Len(watch'), watch'[i].nd = nd
        PROVE  /\ Sound(watch'[i].obj)
               /\ Precedes(cache'[nd], watch'[i].obj) /\ Precedes(watch'[i].obj, api[nd])
               /\ \A j \in i..Len(watch') : watch'[j].nd = nd =>
                     Precedes(watch'[i].obj, watch'[j].obj)
    <3>1. i + 1 \in 1..Len(watch) /\ watch'[i] = watch[i + 1] /\ i + 1 \in 1..Len(watch)
      BY <1>3, TailEvents
    <3>2. Sound(watch'[i].obj) /\ Precedes(watch'[i].obj, api[nd])
      BY <2>5, <3>1 DEF Forward
    <3>3. Precedes(cache'[nd], watch'[i].obj)
      <4>1. CASE nd = head
        <5>1. i + 1 \in 1..Len(watch)
          BY <3>1
        <5>2. Precedes(watch[1].obj, watch[i + 1].obj)
          BY <2>3, <2>5, <3>1, <4>1 DEF Forward
        <5> QED BY <2>2, <3>1, <4>1, <5>2
      <4>2. CASE nd # head
        BY <2>2, <2>5, <3>1, <4>2 DEF Forward
      <4> QED BY <4>1, <4>2
    <3>4. ASSUME NEW j \in i..Len(watch'), watch'[j].nd = nd
          PROVE  Precedes(watch'[i].obj, watch'[j].obj)
      <4>1. /\ j \in 1..Len(watch') /\ watch'[j] = watch[j + 1]
            /\ j + 1 \in (i + 1)..Len(watch)
        BY <1>3, TailEvents
      <4> QED BY <2>5, <3>1, <3>4, <4>1 DEF Forward
    <3> QED BY <3>2, <3>3, <3>4
  <2> QED BY <2>4, <2>5
<1>4. CASE Written
  <2>1. PICK nd \in NDs, new \in Objects : Store(nd, new) /\ LegalWrite(nd, new)
    BY <1>4 DEF Written
  <2>2. /\ UNCHANGED cache /\ \A other \in NDs : api'[other] = IF other = nd THEN new ELSE api[other]
    BY <2>1 DEF Store, TypeOK
  <2>3. SUFFICES ASSUME NEW other \in NDs
        PROVE  /\ Sound(api'[other]) /\ Sound(cache[other]) /\ Precedes(cache[other], api'[other])
               /\ \A i \in 1..Len(watch') : watch'[i].nd = other =>
                     /\ Sound(watch'[i].obj)
                     /\ Precedes(cache[other], watch'[i].obj)
                     /\ Precedes(watch'[i].obj, api'[other])
                     /\ \A j \in i..Len(watch') : watch'[j].nd = other =>
                           Precedes(watch'[i].obj, watch'[j].obj)
    BY <2>2 DEF Forward
  <2>4. Sound(new) /\ Precedes(api[nd], new)
    BY <2>1 DEF LegalWrite
  <2>5. Precedes(api[other], api'[other]) /\ Sound(api'[other]) /\ Sound(cache[other])
    BY <2>2, <2>4, PrecedesReflexive DEF Forward
  <2>6. Precedes(cache[other], api'[other])
    BY <2>5, PrecedesTransitive DEF Forward
  <2>7. ASSUME NEW i \in 1..Len(watch), watch[i].nd = other
        PROVE  /\ Sound(watch[i].obj) /\ Precedes(cache[other], watch[i].obj)
               /\ Precedes(watch[i].obj, api'[other])
    BY <2>5, <2>7, PrecedesTransitive DEF Forward
  <2>8. ASSUME NEW i \in 1..Len(watch'), watch'[i].nd = other
        PROVE  /\ Sound(watch'[i].obj) /\ Precedes(cache[other], watch'[i].obj)
               /\ Precedes(watch'[i].obj, api'[other])
               /\ \A j \in i..Len(watch') : watch'[j].nd = other =>
                     Precedes(watch'[i].obj, watch'[j].obj)
    <3>1. CASE i \in 1..Len(watch)
      <4>1. watch'[i] = watch[i]
        BY <2>1, <3>1, AppendedEvents
      <4>2. ASSUME NEW j \in i..Len(watch'), watch'[j].nd = other
            PROVE  Precedes(watch[i].obj, watch'[j].obj)
        <5>1. CASE j \in i..Len(watch)
          <6>1. j \in 1..Len(watch) /\ watch'[j] = watch[j]
            BY <2>1, <5>1, AppendedEvents
          <6> QED BY <2>8, <3>1, <4>1, <4>2, <5>1, <6>1 DEF Forward
        <5>2. CASE j = Len(watch')
          <6>1. other = nd /\ watch'[j].obj = new /\ api'[other] = new
            BY <2>1, <2>2, <4>2, <5>2, AppendedEvents
          <6> QED BY <2>7, <2>8, <3>1, <4>1, <6>1
        <5> QED BY <2>1, <5>1, <5>2, AppendedEvents
      <4> QED BY <2>7, <2>8, <3>1, <4>1, <4>2
    <3>2. CASE i = Len(watch')
      <4>1. other = nd /\ watch'[i].obj = new /\ api'[other] = new
        BY <2>1, <2>2, <2>8, <3>2, AppendedEvents
      <4>2. \A j \in i..Len(watch') : j = i
        BY <2>1, <3>2, AppendedEvents
      <4> QED BY <2>5, <2>6, <4>1, <4>2, PrecedesReflexive
    <3> QED BY <2>1, <3>1, <3>2, AppendedEvents
  <2> QED BY <2>5, <2>6, <2>8
<1> QED BY <1>1, <1>2, <1>3, <1>4 DEF ClusterMoves

LEMMA InStepNext == ASSUME TypeOK, InStep, ClusterMoves PROVE InStep'
<1> SUFFICES ASSUME NEW nd \in NDs
    PROVE  /\ ~InFlight(nd)' => cache'[nd] = api'[nd]
           /\ \A i \in 1..Len(watch') : Latest(nd, i)' => watch'[i].obj = api'[nd]
  BY DEF InStep
<1>1. CASE UNCHANGED cluster
  BY <1>1 DEF cluster, InStep, InFlight, Latest
<1>2. CASE Relisted
  <2>1. Len(watch') = 0
    BY <1>2 DEF Relisted
  <2> QED BY <1>2, <2>1 DEF Relisted
<1>3. CASE Delivered
  <2>1. /\ cache'[nd] = IF nd = watch[1].nd THEN watch[1].obj ELSE cache[nd]
        /\ api'[nd] = api[nd]
    BY <1>3, TailEvents DEF Delivered, TypeOK
  <2>2. ASSUME NEW i \in 1..Len(watch'), Latest(nd, i)' PROVE watch'[i].obj = api'[nd]
    <3>1. i + 1 \in 1..Len(watch) /\ watch'[i] = watch[i + 1]
      BY <1>3, TailEvents
    <3>2. ASSUME NEW j \in 1..Len(watch), j > i + 1 PROVE watch[j].nd # nd
      <4>1. j - 1 \in 1..Len(watch') /\ j - 1 > i /\ (j - 1) + 1 = j
        BY <1>3, <3>1, <3>2, TailEvents
      <4>2. watch'[j - 1] = watch[j]
        BY <1>3, <4>1, TailEvents
      <4> QED BY <2>2, <4>1, <4>2 DEF Latest
    <3>3. Latest(nd, i + 1)
      BY <2>2, <3>1, <3>2 DEF Latest
    <3> QED BY <2>1, <3>1, <3>3 DEF InStep
  <2>3. ASSUME ~InFlight(nd)' PROVE cache'[nd] = api'[nd]
    <3>1. ASSUME NEW j \in 1..Len(watch), j > 1 PROVE watch[j].nd # nd
      <4>1. j - 1 \in 1..Len(watch') /\ (j - 1) + 1 = j
        BY <1>3, <3>1, TailEvents
      <4>2. watch'[j - 1] = watch[j]
        BY <1>3, <4>1, TailEvents
      <4> QED BY <2>3, <4>1, <4>2 DEF InFlight
    <3>2. 1 \in 1..Len(watch)
      BY <1>3, TailEvents
    <3>3. CASE nd = watch[1].nd
      <4>1. Latest(nd, 1)
        BY <3>1, <3>3 DEF Latest
      <4> QED BY <2>1, <3>2, <3>3, <4>1 DEF InStep
    <3>4. CASE nd # watch[1].nd
      <4>1. \A j \in 1..Len(watch) : j = 1 \/ j > 1
        BY <1>3, TailEvents
      <4>2. ~InFlight(nd)
        BY <3>1, <3>4, <4>1 DEF InFlight
      <4> QED BY <2>1, <3>4, <4>2 DEF InStep
    <3> QED BY <3>3, <3>4
  <2> QED BY <2>2, <2>3
<1>4. CASE Written
  <2>1. PICK w \in NDs, new \in Objects : Store(w, new)
    BY <1>4 DEF Written
  <2>2. cache'[nd] = cache[nd] /\ api'[nd] = IF nd = w THEN new ELSE api[nd]
    BY <2>1 DEF Store, TypeOK
  <2>3. /\ Len(watch') \in 1..Len(watch') /\ Len(watch') \notin 1..Len(watch)
        /\ watch'[Len(watch')].nd = w /\ watch'[Len(watch')].obj = new
        /\ \A i \in 1..Len(watch') : i = Len(watch') \/ i \in 1..Len(watch)
        /\ \A i \in 1..Len(watch) : /\ i \in 1..Len(watch') /\ watch'[i] = watch[i]
                                    /\ Len(watch') > i
    BY <2>1, AppendedEvents
  <2>4. CASE nd = w
    <3>1. InFlight(nd)'
      BY <2>3, <2>4 DEF InFlight
    <3>2. ASSUME NEW i \in 1..Len(watch'), Latest(nd, i)' PROVE i = Len(watch')
      BY <2>3, <2>4, <3>2 DEF Latest
    <3> QED BY <2>2, <2>3, <2>4, <3>1, <3>2
  <2>5. CASE nd # w
    <3>1. InFlight(nd) => InFlight(nd)'
      BY <2>3 DEF InFlight
    <3>2. ASSUME NEW i \in 1..Len(watch'), Latest(nd, i)' PROVE watch'[i].obj = api'[nd]
      <4>1. i \in 1..Len(watch)
        BY <2>3, <2>5, <3>2 DEF Latest
      <4>2. Latest(nd, i)
        BY <2>3, <3>2, <4>1 DEF Latest
      <4> QED BY <2>2, <2>3, <2>5, <4>1, <4>2 DEF InStep
    <3> QED BY <2>2, <2>5, <3>1, <3>2 DEF InStep
  <2> QED BY <2>4, <2>5
<1> QED BY <1>1, <1>2, <1>3, <1>4 DEF ClusterMoves

LEMMA RankPending == ASSUME NEW obj, Rank(obj) = 1 PROVE obj.state = "pending"
  BY DEF Rank

LEMMA HeldNext ==
  ASSUME TypeOK, Forward, Held, Working, ClusterMoves PROVE Held'
<1> SUFFICES ASSUME NEW nd \in NDs, api'[nd].state = "granted"
    PROVE  /\ cache'[nd].state \in {"pending", "granted"}
           /\ \A i \in 1..Len(watch') : watch'[i].nd = nd =>
                 watch'[i].obj.state \in {"pending", "granted"}
  BY DEF Held
<1>1. CASE UNCHANGED cluster
  BY <1>1 DEF cluster, Held
<1>2. CASE Relisted
  BY <1>2 DEF Relisted
<1>3. CASE Delivered
  <2>1. 1 \in 1..Len(watch) /\ api[nd].state = "granted"
    BY <1>3, TailEvents DEF Delivered
  <2>2. cache'[nd] = IF nd = watch[1].nd THEN watch[1].obj ELSE cache[nd]
    BY <1>3, TailEvents DEF Delivered, TypeOK
  <2>3. ASSUME NEW i \in 1..Len(watch') PROVE i + 1 \in 1..Len(watch) /\ watch'[i] = watch[i + 1]
    BY <1>3, TailEvents
  <2> QED BY <2>1, <2>2, <2>3 DEF Held
<1>4. CASE Written
  <2>1. PICK w \in NDs, new \in Objects : Store(w, new) /\ LegalWrite(w, new)
    BY <1>4 DEF Written
  <2>2. UNCHANGED cache /\ api'[nd] = IF nd = w THEN new ELSE api[nd]
    BY <2>1 DEF Store, TypeOK
  <2>3. /\ cache[nd].state \in {"pending", "granted"}
        /\ \A i \in 1..Len(watch) : watch[i].nd = nd => watch[i].obj.state \in {"pending", "granted"}
    <3>1. CASE api[nd].state = "granted"
      BY <3>1 DEF Held
    <3>2. CASE api[nd].state # "granted"
      <4>1. nd = cur /\ pc = "hooks" /\ api[nd] = seen
        BY <2>1, <2>2, <3>2 DEF LegalWrite
      <4>2. Rank(api[nd]) = 1 /\ Rank(cache[nd]) >= 1
        BY <4>1 DEF Working, Rank
      <4>3. Rank(cache[nd]) = 1
        BY <4>2 DEF Forward, Precedes, Rank
      <4>4. ASSUME NEW i \in 1..Len(watch), watch[i].nd = nd PROVE Rank(watch[i].obj) = 1
        BY <4>2, <4>3, <4>4 DEF Forward, Precedes, Rank
      <4> QED BY <4>3, <4>4, RankPending
    <3> QED BY <3>1, <3>2
  <2>4. ASSUME NEW i \in 1..Len(watch'), watch'[i].nd = nd
        PROVE  watch'[i].obj.state \in {"pending", "granted"}
    <3>1. CASE i \in 1..Len(watch)
      BY <2>1, <2>3, <2>4, <3>1, AppendedEvents
    <3>2. CASE i = Len(watch')
      <4>1. nd = w /\ watch'[i].obj = new
        BY <2>1, <2>4, <3>2, AppendedEvents
      <4> QED BY <2>2, <4>1
    <3> QED BY <2>1, <3>1, <3>2, AppendedEvents
  <2> QED BY <2>2, <2>3, <2>4
<1> QED BY <1>1, <1>2, <1>3, <1>4 DEF ClusterMoves

\* A worker that validates after a step began to in that step, or goes on with
\* the object it read and all the answers it had.
LEMMA WorkerMoves ==
  ASSUME TypeOK, [Next]_vars, pc' = "hooks"
  PROVE  \/ \E nd \in NDs : TryTransitionToGranted(nd)
         \/ pc = "hooks" /\ cur' = cur /\ seen' = seen /\ out \subseteq out'
<1>1. CASE UNCHANGED vars
  BY <1>1 DEF vars, scratch
<1>2. ASSUME NEW nd \in NDs, Reconcile(nd) PROVE TryTransitionToGranted(nd)
  BY <1>2 DEF Reconcile, ReconcileNotFound, AddFinalizer, WaitForRetryDate, EnterPending,
              ReconcileFinal, ReconcileError, BeginTermination, Proceeds, Take, StayIdle
<1>3. CASE Work
  BY <1>3 DEF Work, Decide, FinishTermination, GoIdle, CallHealthHook, CallPrepareHook,
              CallReadyHook, CallNoHook, Calling, Answered, SkipTerminate, CallTerminateHook,
              TerminateHookFails, Terminating
<1>4. CASE Environment
  BY <1>4 DEF Environment, Deliver, Restart, GoIdle, Tick, TimerFires, UserCreates, UserDeletes,
              UserEditsHook, DefaultTypesArrive, ManagerReady, scratch
<1> QED BY <1>1, <1>2, <1>3, <1>4 DEF Next

\* Likewise for a worker that terminates.
LEMMA TerminatingMoves ==
  ASSUME TypeOK, [Next]_vars, pc' = "terminate"
  PROVE  \/ \E nd \in NDs : BeginTermination(nd)
         \/ pc = "terminate" /\ cur' = cur /\ seen' = seen
<1>1. CASE UNCHANGED vars
  BY <1>1 DEF vars, scratch
<1>2. ASSUME NEW nd \in NDs, Reconcile(nd)
      PROVE  BeginTermination(nd) \/ (pc = "terminate" /\ cur' = cur /\ seen' = seen)
  BY <1>2 DEF Reconcile, ReconcileNotFound, AddFinalizer, WaitForRetryDate, EnterPending,
              ReconcileFinal, ReconcileError, TryTransitionToGranted, Proceeds, Take,
              StayIdle
<1>3. CASE Work
  BY <1>3 DEF Work, Decide, FinishTermination, GoIdle, CallHealthHook, CallPrepareHook,
              CallReadyHook, CallNoHook, Calling, Answered, SkipTerminate, CallTerminateHook,
              TerminateHookFails, Terminating
<1>4. CASE Environment
  BY <1>4 DEF Environment, Deliver, Restart, GoIdle, Tick, TimerFires, UserCreates, UserDeletes,
              UserEditsHook, DefaultTypesArrive, ManagerReady, scratch
<1> QED BY <1>1, <1>2, <1>3, <1>4 DEF Next

\* No step takes the object stored back.
LEMMA StoredMoves ==
  ASSUME TypeOK, ClusterMoves, NEW nd \in NDs PROVE Precedes(api[nd], api'[nd])
<1>1. CASE Written
  BY <1>1, PrecedesReflexive DEF Written, Store, LegalWrite, TypeOK
<1>2. CASE ~Written
  BY <1>2, PrecedesReflexive DEF ClusterMoves, Delivered, Relisted, cluster
<1> QED BY <1>1, <1>2

LEMMA WorkingNext ==
  ASSUME TypeOK, Forward, Working, ClusterMoves, [Next]_vars PROVE Working'
<1>1. ASSUME pc' = "hooks"
      PROVE  /\ seen'.life = "live" /\ seen'.state = "pending" /\ Sound(seen')
             /\ seen'.spec = api'[cur'].spec /\ Rank(cache'[cur']) >= 1
  <2>1. CASE \E nd \in NDs : TryTransitionToGranted(nd)
    <3>1. PICK nd \in NDs : TryTransitionToGranted(nd)
      BY <2>1
    <3>2. /\ cur' = nd /\ seen' = cache[nd] /\ UNCHANGED cluster
          /\ cache[nd].life = "live" /\ cache[nd].state = "pending"
      BY <3>1 DEF TryTransitionToGranted, Proceeds
    <3> QED BY <3>2 DEF Forward, Precedes, Rank, cluster
  <2>2. CASE pc = "hooks" /\ cur' = cur /\ seen' = seen
    <3>0. cur \in NDs
      BY <2>2 DEF TypeOK
    <3>1. api'[cur].spec = api[cur].spec
      BY <3>0, StoredMoves DEF Precedes
    <3>2. Rank(cache'[cur]) >= 1
      <4>1. CASE Delivered
        <5>1. 1 \in 1..Len(watch)
          BY <4>1, TailEvents
        <5>2. cache'[cur] = IF cur = watch[1].nd THEN watch[1].obj ELSE cache[cur]
          BY <3>0, <4>1, TailEvents DEF Delivered, TypeOK
        <5> QED BY <2>2, <3>0, <5>1, <5>2 DEF Forward, Precedes, Rank, Working
      <4>2. CASE Relisted
        BY <2>2, <3>0, <4>2 DEF Relisted, Forward, Precedes, Rank, Working
      <4>3. CASE UNCHANGED cache
        BY <2>2, <4>3 DEF Working
      <4> QED BY <4>1, <4>2, <4>3 DEF ClusterMoves, Written, Store, cluster
    <3> QED BY <2>2, <3>1, <3>2 DEF Working
  <2> QED BY <1>1, <2>1, <2>2, WorkerMoves
<1>2. ASSUME pc' = "terminate"
      PROVE  seen'.life = "deleting" /\ api'[cur'].life \in {"deleting", "gone"}
  <2>1. CASE \E nd \in NDs : BeginTermination(nd)
    <3>1. PICK nd \in NDs : BeginTermination(nd)
      BY <2>1
    <3>2. cur' = nd /\ seen' = cache[nd] /\ cache[nd].life = "deleting" /\ UNCHANGED cluster
      BY <3>1 DEF BeginTermination
    <3> QED BY <3>2 DEF Forward, Precedes, cluster
  <2>2. CASE pc = "terminate" /\ cur' = cur /\ seen' = seen
    <3>1. cur \in NDs
      BY <2>2 DEF TypeOK
    <3> QED BY <2>2, <3>1, StoredMoves DEF Working, Precedes
  <2> QED BY <1>2, <2>1, <2>2, TerminatingMoves
<1> QED BY <1>1, <1>2 DEF Working

\* A disruption that is granted after a step was so before, over the same nodes,
\* or the worker validated it on the object stored.
LEMMA GrantedMoves ==
  ASSUME TypeOK, Forward, ClusterMoves, NEW nd \in NDs, Granted(nd)'
  PROVE  /\ api'[nd].spec = api[nd].spec
         /\ \/ Granted(nd)
            \/ pc = "hooks" /\ nd = cur /\ api[nd] = seen /\ todo = {} /\ ~AnyFailed
<1>1. CASE Written
  <2>1. PICK w \in NDs, new \in Objects : Store(w, new) /\ LegalWrite(w, new)
    BY <1>1 DEF Written
  <2>2. api'[nd] = IF nd = w THEN new ELSE api[nd]
    BY <2>1 DEF Store, TypeOK
  <2>3. CASE nd = w
    BY <2>1, <2>2, <2>3 DEF LegalWrite, Granted, Exists, Precedes, Sound, Forward, TypeOK, Objects
  <2>4. CASE nd # w
    BY <2>2, <2>4 DEF Granted, Exists
  <2> QED BY <2>3, <2>4
<1>2. CASE ~Written
  BY <1>2 DEF ClusterMoves, Delivered, Relisted, cluster, Granted, Exists
<1> QED BY <1>1, <1>2

LEMMA ClaimedNext ==
  ASSUME TypeOK, Forward, Held, Working, Claimed, ClusterMoves, [Next]_vars PROVE Claimed'
<1> SUFFICES ASSUME RejectOverlapping, pc' = "hooks", \A s \in out' : s.ok,
                    NEW other \in NDs \ {cur'}, Granted(other)'
             PROVE  api'[other].spec.nodes \cap seen'.spec.nodes = {}
  BY DEF Claimed
<1>1. CASE \E nd \in NDs : TryTransitionToGranted(nd)
  <2>1. PICK nd \in NDs : TryTransitionToGranted(nd)
    BY <1>1
  <2>2. cur' = nd /\ seen' = cache[nd] /\ UNCHANGED api
    BY <2>1 DEF TryTransitionToGranted, cluster
  <2>3. \A why : ~Refusal(nd, why).ok
    BY DEF Refusal
  <2>4. InternalConstraints(nd, cache[nd]) = {}
    BY <2>1, <2>3 DEF TryTransitionToGranted, InternalConstraints
  <2>5. ~OverlapsAnother(nd, cache[nd].spec.nodes)
    BY <2>4 DEF InternalConstraints
  <2>6. Granted(other)
    BY <2>2 DEF Granted, Exists
  <2>7. /\ Exists(cache[other]) /\ cache[other].state \in {"pending", "granted"}
        /\ cache[other].nodes = api[other].spec.nodes
    BY <2>6 DEF Held, Granted, Exists, Forward, Sound, Precedes, TypeOK, Objects
  <2> QED BY <2>2, <2>5, <2>7 DEF OverlapsAnother
<1>2. CASE pc = "hooks" /\ cur' = cur /\ seen' = seen /\ out \subseteq out'
  <2>1. Granted(other) /\ api'[other].spec = api[other].spec
    BY <1>2, GrantedMoves
  <2>2. \A s \in out : s.ok
    BY <1>2
  <2> QED BY <1>2, <2>1, <2>2 DEF Claimed
<1> QED BY <1>1, <1>2, WorkerMoves

LEMMA NoOverlapNext ==
  ASSUME TypeOK, Forward, Claimed, NoOverlapGranted, ClusterMoves PROVE NoOverlapGranted'
<1> SUFFICES ASSUME RejectOverlapping, NEW a \in NDs, NEW b \in NDs, a # b,
                    Granted(a)', Granted(b)'
             PROVE  api'[a].spec.nodes \cap api'[b].spec.nodes = {}
  BY DEF NoOverlapGranted
<1>1. api'[a].spec = api[a].spec /\ api'[b].spec = api[b].spec
  BY GrantedMoves
<1>2. CASE Granted(a) /\ Granted(b)
  BY <1>1, <1>2 DEF NoOverlapGranted
<1>3. CASE ~Granted(a)
  <2>1. pc = "hooks" /\ a = cur /\ api[a] = seen /\ ~AnyFailed /\ Granted(b)
    BY <1>3, GrantedMoves
  <2> QED BY <1>1, <2>1 DEF Claimed, AnyFailed
<1>4. CASE ~Granted(b)
  <2>1. pc = "hooks" /\ b = cur /\ api[b] = seen /\ ~AnyFailed /\ Granted(a)
    BY <1>4, GrantedMoves
  <2> QED BY <1>1, <2>1 DEF Claimed, AnyFailed
<1> QED BY <1>2, <1>3, <1>4

LEMMA IInvInit == Init => IInv
<1> SUFFICES ASSUME Init PROVE IInv
  OBVIOUS
<1>1. TypeOK
  BY TypeInit
<1>2. PICK specOf \in [NDs -> Specs] : api = [nd \in NDs |-> Blank(specOf[nd])]
  BY DEF Init
<1>3. \A nd \in NDs : /\ api[nd].life = "new" /\ api[nd].state = "unknown"
                      /\ api[nd].nodes = {} /\ cache[nd] = api[nd]
  BY <1>2 DEF Init, Blank
<1>4. Len(watch) = 0 /\ pc = "idle"
  BY DEF Init
<1>5. Forward
  BY <1>3, <1>4, PrecedesReflexive DEF Forward, Sound
<1>6. Held /\ NoOverlapGranted /\ InStep
  BY <1>3, <1>4 DEF Held, NoOverlapGranted, Granted, InStep
<1>7. Working /\ Claimed
  BY <1>4 DEF Working, Claimed
<1> QED BY <1>1, <1>5, <1>6, <1>7 DEF IInv

LEMMA IInvNext == IInv /\ [Next]_vars => IInv'
<1> SUFFICES ASSUME IInv, [Next]_vars PROVE IInv'
  OBVIOUS
<1>1. ClusterMoves
  BY NextMoves DEF IInv
<1>2. TypeOK'
  BY TypeNext DEF IInv
<1>3. Forward' /\ InStep' /\ Held' /\ Working' /\ Claimed' /\ NoOverlapGranted'
  BY <1>1, ForwardNext, InStepNext, HeldNext, WorkingNext, ClaimedNext, NoOverlapNext DEF IInv
<1> QED BY <1>2, <1>3 DEF IInv

LEMMA IInvCorrect == Spec => []IInv
  BY IInvInit, IInvNext, PTL DEF Spec

\* No node is ever granted to two disruptions when overlaps are rejected, however
\* far the informer trails (ValidateOverlappingDisruption).
THEOREM NoOverlapCorrect == Spec => []NoOverlapGranted
<1>1. IInv => NoOverlapGranted
  BY DEF IInv
<1> QED BY <1>1, IInvCorrect, PTL

\* No write changes a verdict (TryTransitionState's "the state is final").
THEOREM FinalIsFinalCorrect == Spec => FinalIsFinal
<1>1. ASSUME TypeOK, ClusterMoves
      PROVE  \A nd \in NDs : api[nd].state \in Final => api'[nd].state = api[nd].state
  <2>1. CASE Written
    <3>1. PICK w \in NDs, new \in Objects : Store(w, new) /\ LegalWrite(w, new)
      BY <2>1 DEF Written
    <3> QED BY <1>1, <3>1 DEF Store, LegalWrite, Verdicts, Final, TypeOK
  <2>2. CASE ~Written
    BY <1>1, <2>2 DEF ClusterMoves, Delivered, Relisted, cluster
  <2> QED BY <2>1, <2>2
<1>2. IInv /\ [Next]_vars =>
          [\A nd \in NDs : api[nd].state \in Final => api'[nd].state = api[nd].state]_vars
  BY <1>1, NextMoves DEF IInv
<1> QED BY <1>2, IInvCorrect, PTL DEF Spec, FinalIsFinal

-----------------------------------------------------------------------------
(* The allowed types, when the overlap check is off.                       *)

\* As long as nothing has refused it, the disruption the worker validates has an
\* allowed type.
TypeAllowed ==
    ~RejectOverlapping /\ NodeDisruptionTypes # {} /\ pc = "hooks" /\ (\A s \in out : s.ok) =>
        seen.spec.type \in NodeDisruptionTypes

TypesKept == TypeAllowed /\ (~RejectOverlapping => TypesRespected)

LEMMA TypeAllowedNext ==
  ASSUME TypeOK, TypeAllowed, [Next]_vars PROVE TypeAllowed'
<1> SUFFICES ASSUME ~RejectOverlapping, NodeDisruptionTypes # {}, pc' = "hooks",
                    \A s \in out' : s.ok
             PROVE  seen'.spec.type \in NodeDisruptionTypes
  BY DEF TypeAllowed
<1>1. CASE \E nd \in NDs : TryTransitionToGranted(nd)
  <2>1. PICK nd \in NDs : TryTransitionToGranted(nd)
    BY <1>1
  <2>2. \A why : ~Refusal(nd, why).ok
    BY DEF Refusal
  <2>3. seen' = cache[nd] /\ InternalConstraints(nd, cache[nd]) = {}
    BY <2>1, <2>2 DEF TryTransitionToGranted, InternalConstraints
  <2> QED BY <2>3 DEF InternalConstraints
<1>2. CASE pc = "hooks" /\ cur' = cur /\ seen' = seen /\ out \subseteq out'
  BY <1>2 DEF TypeAllowed
<1> QED BY <1>1, <1>2, WorkerMoves

LEMMA TypesKeptNext ==
  ASSUME TypeOK, Forward, TypesKept, ClusterMoves, [Next]_vars PROVE TypesKept'
<1>1. TypeAllowed'
  BY TypeAllowedNext DEF TypesKept
<1>2. ASSUME ~RejectOverlapping, NodeDisruptionTypes # {}, NEW nd \in NDs, Granted(nd)'
      PROVE  api'[nd].spec.type \in NodeDisruptionTypes
  <2>1. api'[nd].spec = api[nd].spec
    BY <1>2, GrantedMoves
  <2>2. CASE Granted(nd)
    BY <1>2, <2>1, <2>2 DEF TypesKept, TypesRespected
  <2>3. CASE ~Granted(nd)
    <3>1. pc = "hooks" /\ api[nd] = seen /\ ~AnyFailed
      BY <1>2, <2>3, GrantedMoves
    <3> QED BY <1>2, <2>1, <3>1 DEF TypesKept, TypeAllowed, AnyFailed
  <2> QED BY <2>2, <2>3
<1> QED BY <1>1, <1>2 DEF TypesKept, TypesRespected

\* Without --reject-overlapping-disruption only allowed types are granted
\* (ValidateWithInternalConstraints reaches its last check).
THEOREM TypesCorrect == Spec => [](~RejectOverlapping => TypesRespected)
<1>1. Init => TypesKept
  <2> SUFFICES ASSUME Init PROVE TypesKept
    OBVIOUS
  <2>1. PICK specOf \in [NDs -> Specs] : api = [nd \in NDs |-> Blank(specOf[nd])]
    BY DEF Init
  <2>2. \A nd \in NDs : ~Granted(nd)
    BY <2>1 DEF Granted, Blank
  <2>3. pc = "idle"
    BY DEF Init
  <2> QED BY <2>2, <2>3 DEF TypesKept, TypeAllowed, TypesRespected
<1>2. IInv /\ TypesKept /\ [Next]_vars => TypesKept'
  BY NextMoves, TypesKeptNext DEF IInv
<1>3. TypesKept => (~RejectOverlapping => TypesRespected)
  BY DEF TypesKept
<1> QED BY <1>1, <1>2, <1>3, IInvCorrect, PTL DEF Spec

-----------------------------------------------------------------------------
(* The reconciler implements the gate.                                     *)

LEMMA GateInit == ASSUME Init PROVE Gate!Init
<1>1. PICK specOf \in [NDs -> Specs] : api = [nd \in NDs |-> Blank(specOf[nd])]
  BY DEF Init
<1>2. \A nd \in NDs : api[nd].life = "new" /\ api[nd].spec \in SpecType
  BY <1>1, NDAssumption DEF Blank
<1>3. Phase = [nd \in NDs |-> "new"]
  BY <1>2 DEF Phase
<1>4. Claim \in [NDs -> SUBSET Nodes]
  BY <1>2 DEF Claim, SpecType
<1> QED BY <1>3, <1>4 DEF Gate!Init

\* What a legal write does to the phase of its disruption.
LEMMA GateWrite ==
  ASSUME TypeOK, Forward, Claimed, NEW nd \in NDs, NEW new \in Objects,
         Store(nd, new), LegalWrite(nd, new)
  PROVE  Gate!Next \/ UNCHANGED <<Phase, Claim>>
<1>1. /\ api' = [api EXCEPT ![nd] = new] /\ api \in [NDs -> Objects]
  BY DEF Store, TypeOK
<1> DEFINE old == api[nd]
           from == IF old.life \in {"new", "gone"} THEN old.life ELSE old.state
           to == IF new.life \in {"new", "gone"} THEN new.life ELSE new.state
<1>2. Claim' = Claim
  BY <1>1 DEF LegalWrite, Precedes, Claim
<1>3. Phase[nd] = from /\ Phase' = [Phase EXCEPT ![nd] = to]
  BY <1>1 DEF Phase
<1>4. CASE to = from
  BY <1>2, <1>3, <1>4 DEF Phase
<1>5. CASE new.life = "gone"
  <2>1. old.life \in {"live", "deleting"} /\ from \in States /\ to = "gone"
    BY <1>1, <1>5 DEF LegalWrite, Objects
  <2>2. Gate!Withdraw(nd)
    BY <1>2, <1>3, <2>1 DEF Gate!Withdraw, Gate!Move, Gate!Phases, States
  <2> QED BY <2>2 DEF Gate!Next
<1>6. CASE old.life = "new" /\ new.life # "gone"
  <2>1. from = "new" /\ to = "unknown"
    BY <1>1, <1>6 DEF LegalWrite, Objects, Sound, Forward, Exists
  <2>2. Gate!Submit(nd)
    BY <1>2, <1>3, <2>1 DEF Gate!Submit, Gate!Move
  <2> QED BY <2>2 DEF Gate!Next
<1>7. CASE old.life # "new" /\ new.life # "gone" /\ to # from
  <2>1. from = old.state /\ to = new.state /\ <<from, to>> \in Verdicts
    BY <1>1, <1>7 DEF LegalWrite, Objects
  <2>2. CASE from = "unknown" /\ to = "pending"
    BY <1>2, <1>3, <2>2 DEF Gate!TakeIn, Gate!Move, Gate!Next
  <2>3. CASE from = "pending" /\ to = "rejected"
    BY <1>2, <1>3, <2>3 DEF Gate!Refuse, Gate!Move, Gate!Next
  <2>4. CASE from = "pending" /\ to = "granted"
    <3>1. pc = "hooks" /\ nd = cur /\ old = seen /\ ~AnyFailed
      BY <2>1, <2>4 DEF LegalWrite
    <3>2. ASSUME RejectOverlapping, NEW other \in NDs \ {nd}, Phase[other] = "granted"
          PROVE  Claim[other] \cap Claim[nd] = {}
      <4>1. Granted(other)
        BY <1>1, <3>2 DEF Phase, Granted, Exists, Objects
      <4> QED BY <3>1, <3>2, <4>1 DEF Claimed, AnyFailed, Claim
    <3>3. Gate!Grant(nd)
      BY <1>2, <1>3, <2>4, <3>2 DEF Gate!Grant, Gate!Move
    <3> QED BY <3>3 DEF Gate!Next
  <2> QED BY <2>1, <2>2, <2>3, <2>4 DEF Verdicts
<1> QED BY <1>4, <1>5, <1>6, <1>7

\* Every behaviour of the reconciler is one of the gate: a disruption is taken
\* in, answered once, and the nodes of a grant are its own until it is withdrawn.
THEOREM GateCorrect == Spec => GateSpec
<1>1. Init => Gate!Init
  BY GateInit
<1>2. IInv /\ [Next]_vars => [Gate!Next]_<<Phase, Claim>>
  <2> SUFFICES ASSUME IInv, [Next]_vars PROVE Gate!Next \/ UNCHANGED <<Phase, Claim>>
    OBVIOUS
  <2>1. ClusterMoves
    BY NextMoves DEF IInv
  <2>2. CASE Written
    BY <2>2, GateWrite DEF Written, IInv
  <2>3. CASE ~Written
    <3>1. UNCHANGED api
      BY <2>1, <2>3 DEF ClusterMoves, Delivered, Relisted, cluster
    <3> QED BY <3>1 DEF Phase, Claim
  <2> QED BY <2>2, <2>3
<1> QED BY <1>1, <1>2, IInvCorrect, PTL DEF Spec, GateSpec, Gate!Spec, Gate!vars
=============================================================================
