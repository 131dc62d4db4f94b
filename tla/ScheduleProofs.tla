---------------------------- MODULE ScheduleProofs ----------------------------
(***************************************************************************)
(* Theorems about the scheduling of requests: which disruptions are still  *)
(* going to be looked at.                                                  *)
(*                                                                         *)
(* The argument.  A request that ends leaves its disruption to an event or *)
(* to a timer, except when it finds nothing to do (Forgotten).  It finds   *)
(* so on the object of its informer; if that is not the object stored, an  *)
(* event that will bring another request is on its way (InStep), or came   *)
(* while the worker was busy and left a request in the queue (Informed).   *)
(***************************************************************************)
EXTENDS NodeDisruptionProofs, SequenceTheorems

Scheduled(nd) == nd \in queue \/ timer[nd] # NoTimer \/ cur = nd \/ InFlight(nd)

-----------------------------------------------------------------------------
(* Events, timers and the queue.                                           *)

LEMMA StoreIsInFlight ==
  ASSUME TypeOK, NEW nd \in NDs, NEW new, Store(nd, new)
  PROVE  /\ InFlight(nd)'
         /\ \A other \in NDs : InFlight(other) => InFlight(other)'
         /\ \A other \in NDs \ {nd} : api'[other] = api[other]
<1> DEFINE event == [nd |-> nd, obj |-> new]
<1>1. event.nd = nd /\ watch' = Append(watch, event) /\ Len(watch) \in Nat
  BY DEF Store, TypeOK
<1> HIDE DEF event
<1>2. /\ Len(watch') = Len(watch) + 1 /\ watch'[Len(watch')] = event
      /\ \A i \in 1..Len(watch) : watch'[i] = watch[i]
  <2> DEFINE Events == [nd : NDs, obj : Objects]
             Bigger == Events \cup {event}
  <2>1. watch \in Seq(Events) /\ Events \subseteq Bigger /\ event \in Bigger
    BY DEF TypeOK
  <2> HIDE DEF Events, Bigger
  <2>2. watch \in Seq(Bigger)
    BY <2>1, SeqMonotonic
  <2> QED BY <1>1, <2>1, <2>2, AppendProperties
<1>3. InFlight(nd)' /\ \A other \in NDs : InFlight(other) => InFlight(other)'
  BY <1>1, <1>2 DEF InFlight
<1> QED BY <1>3 DEF Store, TypeOK

LEMMA TimerSchedules ==
  ASSUME TypeOK, NEW nd \in NDs, NEW due \in Nat, RequeueAt(nd, due)
  PROVE  /\ timer'[nd] # NoTimer
         /\ \A other \in NDs \ {nd} : timer'[other] = timer[other]
  BY DEF RequeueAt, Earliest, NoTimer, TypeOK

\* A write brings an event or is retried, unless there is nothing to write to.
LEMMA WriteSchedules ==
  ASSUME TypeOK, NEW nd \in NDs, NEW old, NEW new,
         Update(nd, old, new) \/ UpdateStatus(nd, old, new)
  PROVE  /\ \/ InFlight(nd)' \/ timer'[nd] # NoTimer
            \/ api[nd].life = "gone" /\ UNCHANGED <<cluster, timer>>
         /\ \A other \in NDs : InFlight(other) => InFlight(other)'
         /\ \A other \in NDs \ {nd} :
               timer'[other] = timer[other] /\ api'[other] = api[other]
         /\ api'[nd] # api[nd] => InFlight(nd)'
<1>1. CASE Store(nd, new) /\ UNCHANGED timer
  BY <1>1, StoreIsInFlight
<1>2. CASE ReturnError(nd)
  <2>1. now \in Nat
    BY DEF TypeOK
  <2> QED BY <1>2, <2>1, TimerSchedules DEF ReturnError, cluster, InFlight
<1>3. CASE api[nd].life = "gone" /\ UNCHANGED <<cluster, timer>>
  BY <1>3 DEF cluster, InFlight
<1> QED BY <1>1, <1>2, <1>3 DEF Update, UpdateStatus

-----------------------------------------------------------------------------
(* What a step leaves unscheduled.                                         *)

\* The disruption was scheduled and is not any more.
Dropped(nd) == Scheduled(nd) /\ ~Scheduled(nd)'

LEMMA RequestDrops ==
  ASSUME TypeOK, NEW w \in NDs, Reconcile(w), NEW nd \in NDs, Dropped(nd)
  PROVE  /\ nd = w /\ UNCHANGED <<cluster, pc, cur>> /\ pc = "idle"
         /\ \/ ReconcileNotFound(w) \/ ReconcileFinal(w) \/ ReconcileError(w)
            \/ EnterPending(w) /\ api[w].life = "gone"
<1>0. pc = "idle" /\ cur = NoND /\ queue' = queue \ {w} /\ nd # NoND
  BY NDAssumption DEF Reconcile, ReconcileNotFound, AddFinalizer, WaitForRetryDate,
     EnterPending, ReconcileFinal, ReconcileError, TryTransitionToGranted, BeginTermination,
     Proceeds, Take, TypeOK
<1>1. CASE ReconcileNotFound(w) \/ ReconcileFinal(w) \/ ReconcileError(w)
  <2>1. UNCHANGED <<cluster, timer, pc, cur>>
    BY <1>1 DEF ReconcileNotFound, ReconcileFinal, ReconcileError, Proceeds, Take, StayIdle,
                scratch
  <2>2. nd = w
    BY <1>0, <2>1 DEF Dropped, Scheduled, InFlight, cluster
  <2> QED BY <1>0, <1>1, <2>1, <2>2
<1>2. CASE TryTransitionToGranted(w) \/ BeginTermination(w)
  <2>1. UNCHANGED <<cluster, timer>> /\ cur' = w
    BY <1>2 DEF TryTransitionToGranted, BeginTermination
  <2> QED BY <1>0, <2>1 DEF Dropped, Scheduled, InFlight, cluster
<1>3. CASE WaitForRetryDate(w)
  <2>1. cache[w].retryAt \in Nat
    BY DEF TypeOK, Objects
  <2>2. UNCHANGED cluster /\ timer'[w] # NoTimer
        /\ \A other \in NDs \ {w} : timer'[other] = timer[other]
    BY <1>3, <2>1, TimerSchedules DEF WaitForRetryDate
  <2> QED BY <1>0, <2>2 DEF Dropped, Scheduled, InFlight, cluster
<1>4. CASE AddFinalizer(w) \/ EnterPending(w)
  <2>1. PICK new : Update(w, cache[w], new) \/ UpdateStatus(w, cache[w], new)
    BY <1>4 DEF AddFinalizer, EnterPending
  <2>2. /\ \/ InFlight(w)' \/ timer'[w] # NoTimer
           \/ api[w].life = "gone" /\ UNCHANGED <<cluster, timer>>
        /\ \A other \in NDs : InFlight(other) => InFlight(other)'
        /\ \A other \in NDs \ {w} : timer'[other] = timer[other]
    BY <2>1, WriteSchedules
  <2>3. UNCHANGED <<pc, cur>>
    BY <1>4 DEF AddFinalizer, EnterPending, StayIdle, scratch
  <2>4. nd = w
    BY <1>0, <2>2, <2>3 DEF Dropped, Scheduled
  <2>5. api[w].life = "gone" /\ UNCHANGED <<cluster, timer>>
    BY <2>2, <2>4 DEF Dropped, Scheduled
  <2>6. ~AddFinalizer(w)
    <3>1. SUFFICES ASSUME AddFinalizer(w) PROVE FALSE
      OBVIOUS
    <3>2. /\ cache[w].life = "live" /\ UNCHANGED watch /\ timer' = timer
          /\ Update(w, cache[w], [cache[w] EXCEPT !.fin = TRUE])
      BY <2>5, <3>1 DEF AddFinalizer, cluster
    <3>3. CASE api[w] = cache[w]
      BY <2>5, <3>2, <3>3
    <3>4. CASE ReturnError(w)
      BY <2>4, <3>4, TimerSchedules DEF ReturnError, Dropped, Scheduled, TypeOK
    <3> QED BY <3>2, <3>3, <3>4 DEF Update
  <2> QED BY <1>0, <1>4, <2>3, <2>4, <2>5, <2>6
<1> QED BY <1>1, <1>2, <1>3, <1>4 DEF Reconcile

LEMMA WorkDrops ==
  ASSUME TypeOK, Work, NEW nd \in NDs, Dropped(nd)
  PROVE  /\ pc = "hooks" /\ todo = {} /\ nd = cur /\ UNCHANGED <<cluster, queue>>
         /\ Decided = seen \/ api[nd].life = "gone"
<1>1. CASE Decide
  <2>0. pc = "hooks" /\ todo = {} /\ queue' = queue
    BY <1>1 DEF Decide
  <2>1. PICK w \in NDs : w = cur
    BY <2>0 DEF TypeOK
  <2>2. CASE UpdateStatus(w, seen, Decided)
    <3>1. /\ \/ InFlight(w)' \/ timer'[w] # NoTimer
             \/ api[w].life = "gone" /\ UNCHANGED <<cluster, timer>>
          /\ \A other \in NDs : InFlight(other) => InFlight(other)'
          /\ \A other \in NDs \ {w} : timer'[other] = timer[other]
      BY <2>2, WriteSchedules
    <3>2. nd = w
      BY <2>0, <2>1, <3>1 DEF Dropped, Scheduled
    <3> QED BY <2>0, <2>1, <3>1, <3>2 DEF Dropped, Scheduled
  <2>3. CASE Decided = seen /\ UNCHANGED <<cluster, timer>>
    BY <2>0, <2>3 DEF Dropped, Scheduled, InFlight, cluster
  <2> QED BY <1>1, <2>1, <2>2, <2>3 DEF Decide
<1>2. CASE FinishTermination
  <2>0. queue' = queue /\ now \in Nat /\ pc = "terminate"
    BY <1>2 DEF FinishTermination, TypeOK
  <2>1. PICK w \in NDs : w = cur
    BY <2>0 DEF TypeOK
  <2>2. /\ InFlight(w)' \/ timer'[w] # NoTimer
        /\ \A other \in NDs : InFlight(other) => InFlight(other)'
        /\ \A other \in NDs \ {w} : timer'[other] = timer[other]
    <3>1. CASE ReturnError(w)
      BY <2>0, <3>1, TimerSchedules DEF ReturnError, cluster, InFlight
    <3>2. CASE Store(w, Removed(seen)) /\ UNCHANGED timer
      BY <3>2, StoreIsInFlight
    <3> QED BY <1>2, <2>1, <3>1, <3>2 DEF FinishTermination, Update
  <2> QED BY <2>0, <2>1, <2>2 DEF Dropped, Scheduled
<1>3. CASE ~Decide /\ ~FinishTermination
  <2>1. UNCHANGED <<cluster, queue, timer, cur>>
    BY <1>3 DEF Work, CallHealthHook, CallPrepareHook, CallReadyHook, CallNoHook, Answered,
                SkipTerminate, CallTerminateHook, TerminateHookFails, Terminating
  <2> QED BY <2>1 DEF Dropped, Scheduled, InFlight, cluster
<1> QED BY <1>1, <1>2, <1>3

\* An event that is delivered leaves a request.
LEMMA DeliveryQueues ==
  ASSUME TypeOK, Deliver, NEW nd \in NDs, InFlight(nd) PROVE nd \in queue' \/ InFlight(nd)'
<1>1. PICK i \in 1..Len(watch) : watch[i].nd = nd
  BY DEF InFlight
<1>2. Delivered
  BY DEF Deliver, Delivered
<1>3. CASE i = 1
  BY <1>1, <1>2, <1>3, TailEvents DEF Deliver
<1>4. CASE i # 1
  <2>1. i - 1 \in 1..Len(watch') /\ (i - 1) + 1 = i
    BY <1>2, <1>4, TailEvents
  <2>2. watch'[i - 1] = watch[i]
    BY <1>2, <2>1, TailEvents
  <2> QED BY <1>1, <2>1, <2>2 DEF InFlight
<1> QED BY <1>3, <1>4

LEMMA EnvironmentDrops ==
  ASSUME TypeOK, Environment, NEW nd \in NDs, Dropped(nd)
  PROVE  UNCHANGED api /\ ~Exists(api[nd])
<1>1. CASE Deliver
  BY <1>1, DeliveryQueues DEF Deliver, Dropped, Scheduled, scratch
<1>2. CASE Restart
  BY <1>2 DEF Restart, Dropped, Scheduled
<1>3. ASSUME NEW w \in NDs, TimerFires(w) PROVE FALSE
  BY <1>3 DEF TimerFires, Dropped, Scheduled, InFlight, TypeOK, cluster, scratch
<1>4. ASSUME NEW w \in NDs, UserCreates(w) \/ UserDeletes(w) PROVE FALSE
  <2>1. \E new : Store(w, new)
    BY <1>4 DEF UserCreates, UserDeletes
  <2>2. \A other \in NDs : InFlight(other) => InFlight(other)'
    BY <2>1, StoreIsInFlight
  <2> QED BY <1>4, <2>2 DEF UserCreates, UserDeletes, Dropped, Scheduled, scratch
<1>5. CASE Tick \/ (\E w \in NDs, b \in ADBs : ManagerReady(w, b))
           \/ (\E b \in ADBs, to \in HookKinds : UserEditsHook(b, to))
           \/ (\E b \in ADBs \cup NDBs : DefaultTypesArrive(b))
  <2>1. UNCHANGED <<cluster, queue, timer, cur>>
    BY <1>5 DEF Tick, ManagerReady, UserEditsHook, DefaultTypesArrive, scratch
  <2> QED BY <2>1 DEF Dropped, Scheduled, InFlight, cluster
<1> QED BY <1>1, <1>2, <1>3, <1>4, <1>5 DEF Environment

\* What is stored over an object is announced.
LEMMA ChangeIsInFlight ==
  ASSUME TypeOK, ClusterMoves, NEW nd \in NDs, api'[nd] # api[nd] PROVE InFlight(nd)'
<1>1. CASE Written
  <2>1. PICK w \in NDs, new \in Objects : Store(w, new)
    BY <1>1 DEF Written
  <2> QED BY <2>1, StoreIsInFlight
<1>2. CASE ~Written
  BY <1>2 DEF ClusterMoves, Delivered, Relisted, cluster
<1> QED BY <1>1, <1>2

-----------------------------------------------------------------------------
(* What the worker holds while an object changes under it.                 *)

\* The object the worker read is the one stored, or it will be looked at again.
Informed == pc # "idle" /\ seen # api[cur] => cur \in queue \/ InFlight(cur)

\* A worker that is busy takes nothing from the queue, and what is delivered to it
\* meanwhile stays there.
LEMMA BusyKeepsRequests ==
  ASSUME TypeOK, [Next]_vars, pc # "idle", pc' # "idle", NEW nd \in NDs,
         nd \in queue \/ InFlight(nd)
  PROVE  nd \in queue' \/ InFlight(nd)'
<1>1. CASE UNCHANGED vars
  BY <1>1 DEF vars, cluster, InFlight
<1>2. CASE \E w \in NDs : Reconcile(w)
  BY <1>2 DEF Reconcile, ReconcileNotFound, AddFinalizer, WaitForRetryDate, EnterPending,
              ReconcileFinal, ReconcileError, TryTransitionToGranted, BeginTermination,
              Proceeds, Take
<1>3. CASE Work
  <2>1. UNCHANGED <<cluster, queue>>
    BY <1>3 DEF Work, Decide, FinishTermination, GoIdle, CallHealthHook, CallPrepareHook,
                CallReadyHook, CallNoHook, Answered, SkipTerminate, CallTerminateHook,
                TerminateHookFails, Terminating
  <2> QED BY <2>1 DEF cluster, InFlight
<1>4. CASE Deliver
  BY <1>4, DeliveryQueues DEF Deliver
<1>5. CASE Restart
  BY <1>5 DEF Restart, GoIdle
<1>6. CASE Environment /\ ~Deliver /\ ~Restart
  <2>1. queue \subseteq queue' /\ (UNCHANGED cluster \/ \E w \in NDs : \E new : Store(w, new))
    BY <1>6 DEF Environment, Tick, TimerFires, UserCreates, UserDeletes, ManagerReady,
                UserEditsHook, DefaultTypesArrive
  <2>2. CASE UNCHANGED cluster
    BY <2>1, <2>2 DEF cluster, InFlight
  <2>3. CASE \E w \in NDs : \E new : Store(w, new)
    BY <2>1, <2>3, StoreIsInFlight
  <2> QED BY <2>1, <2>2, <2>3
<1> QED BY <1>1, <1>2, <1>3, <1>4, <1>5, <1>6 DEF Next

LEMMA InformedNext ==
  ASSUME TypeOK, InStep, Informed, ClusterMoves, [Next]_vars PROVE Informed'
<1> SUFFICES ASSUME pc' # "idle", NEW nd \in NDs, nd = cur', seen' # api'[nd]
             PROVE  nd \in queue' \/ InFlight(nd)'
  <2>1. TypeOK'
    BY TypeNext
  <2>2. pc' # "idle" => cur' \in NDs
    BY <2>1 DEF TypeOK
  <2> QED BY <2>2 DEF Informed, InFlight
<1>1. CASE \E w \in NDs : TryTransitionToGranted(w) \/ BeginTermination(w)
  <2>1. seen' = cache[nd] /\ UNCHANGED cluster
    BY <1>1 DEF TryTransitionToGranted, BeginTermination
  <2> QED BY <2>1 DEF InStep, InFlight, cluster
<1>2. CASE pc # "idle" /\ cur' = cur /\ seen' = seen
  <2>1. CASE api'[nd] # api[nd]
    BY <2>1, ChangeIsInFlight
  <2>2. CASE nd \in queue \/ InFlight(nd)
    BY <1>2, <2>2, BusyKeepsRequests
  <2> QED BY <1>2, <2>1, <2>2 DEF Informed, InFlight
<1>3. pc' = "hooks" \/ pc' = "terminate"
  BY TypeNext DEF TypeOK
<1> QED BY <1>1, <1>2, <1>3, WorkerMoves, TerminatingMoves

-----------------------------------------------------------------------------
(* A validation that retries has something to write.                       *)

\* The date of the next attempt is past the one of the last, unless the deadline
\* is over, which is a refusal.
RetryPlanned ==
    pc = "hooks" /\ seen.spec.retry =>
        /\ seen.retryAt <= now
        /\ \/ again > seen.retryAt
           \/ again = Zero /\ IsAfterDeadline(seen.spec) /\ \E s \in out : ~s.ok

LEMMA PlanStays ==
  ASSUME [Next]_vars, pc = "hooks", pc' = "hooks"
  PROVE  again' = again /\ now' \in {now, now + 1}
<1>1. CASE UNCHANGED vars
  BY <1>1 DEF vars, environment, scratch
<1>2. CASE \E nd \in NDs : Reconcile(nd)
  BY <1>2 DEF Reconcile, ReconcileNotFound, AddFinalizer, WaitForRetryDate, EnterPending,
              ReconcileFinal, ReconcileError, TryTransitionToGranted, BeginTermination,
              Proceeds, Take
<1>3. CASE Work
  BY <1>3 DEF Work, Decide, FinishTermination, GoIdle, CallHealthHook, CallPrepareHook,
              CallReadyHook, CallNoHook, Answered, SkipTerminate, CallTerminateHook,
              TerminateHookFails, Terminating
<1>4. CASE Environment
  BY <1>4 DEF Environment, Deliver, Restart, GoIdle, Tick, TimerFires, UserCreates, UserDeletes,
              UserEditsHook, DefaultTypesArrive, ManagerReady, environment, scratch
<1> QED BY <1>1, <1>2, <1>3, <1>4 DEF Next

LEMMA RetryPlannedNext ==
  ASSUME TypeOK, RetryPlanned, [Next]_vars PROVE RetryPlanned'
<1> SUFFICES ASSUME pc' = "hooks", seen'.spec.retry
             PROVE  /\ seen'.retryAt <= now'
                    /\ \/ again' > seen'.retryAt
                       \/ again' = Zero /\ IsAfterDeadline(seen.spec)' /\ \E s \in out' : ~s.ok
  BY DEF RetryPlanned, IsAfterDeadline
<1>1. CASE \E nd \in NDs : TryTransitionToGranted(nd)
  <2>1. PICK nd \in NDs : TryTransitionToGranted(nd)
    BY <1>1
  <2>2. /\ seen' = cache[nd] /\ again' = RetryDate(cache[nd].spec) /\ now' = now
        /\ ~(now < cache[nd].retryAt)
    BY <2>1 DEF TryTransitionToGranted, Proceeds, Take, environment
  <2>3. cache[nd].retryAt \in Nat /\ now \in Nat
    BY DEF TypeOK, Objects
  <2>4. CASE IsAfterDeadline(cache[nd].spec)
    <3>1. Refusal(nd, "deadline") \in InternalConstraints(nd, cache[nd])
      BY <2>4 DEF InternalConstraints
    <3>2. Refusal(nd, "deadline") \in out' /\ Refusal(nd, "deadline").ok = FALSE
      BY <2>1, <3>1 DEF TryTransitionToGranted, Refusal
    <3> QED BY <2>2, <2>3, <2>4, <3>2 DEF RetryDate, IsAfterDeadline
  <2>5. CASE ~IsAfterDeadline(cache[nd].spec)
    BY <2>2, <2>3, <2>5, NDAssumption DEF RetryDate
  <2> QED BY <2>4, <2>5
<1>2. CASE pc = "hooks" /\ seen' = seen /\ out \subseteq out'
  <2>1. seen.retryAt \in Nat /\ now \in Nat /\ seen.spec.deadline \in Nat
    BY NDAssumption DEF TypeOK, Objects, SpecType
  <2> QED BY <1>2, <2>1, PlanStays DEF RetryPlanned, IsAfterDeadline
<1> QED BY <1>1, <1>2, WorkerMoves

LEMMA RetryWrites ==
  ASSUME TypeOK, Working, RetryPlanned, pc = "hooks", seen.spec.retry PROVE Decided # seen
<1>0. /\ seen \in Objects /\ seen.retryAt \in Nat /\ now \in Nat /\ again \in Nat
      /\ seen.state = "pending" /\ seen.spec.notBefore \in Nat
  BY NDAssumption DEF TypeOK, Objects, SpecType, Working
<1>1. Decided.state = NextState /\ Decided.retryAt = NextRetryDate
  BY <1>0 DEF Decided, Objects
<1>2. CASE again > seen.retryAt
  BY <1>0, <1>1, <1>2 DEF NextState, NextRetryDate, Deferred, RetryPlanned
<1>3. CASE again = Zero /\ IsAfterDeadline(seen.spec) /\ AnyFailed
  BY <1>0, <1>1, <1>3 DEF NextState
<1> QED BY <1>2, <1>3 DEF RetryPlanned, AnyFailed

-----------------------------------------------------------------------------
(* Nothing is forgotten.                                                   *)

\* A deletion is never forgotten, nor is, without lost PVCs and the like, a
\* disruption that retries.
Awaited ==
    \A nd \in NDs :
        \/ api[nd].life = "deleting"
        \/ ~Faults /\ Undecided(nd) /\ api[nd].spec.retry
        => Scheduled(nd)

LEMMA AwaitedNext ==
  ASSUME IInv, Informed, RetryPlanned, Awaited, ClusterMoves, [Next]_vars PROVE Awaited'
<1> USE DEF IInv
<1> SUFFICES ASSUME NEW nd \in NDs, ~Scheduled(nd)',
                    \/ api'[nd].life = "deleting"
                    \/ ~Faults /\ Undecided(nd)' /\ api'[nd].spec.retry
             PROVE  FALSE
  BY DEF Awaited
<1>1. api'[nd] = api[nd]
  BY ChangeIsInFlight DEF Scheduled
<1>2. /\ api[nd].life = "deleting" \/ (~Faults /\ Undecided(nd) /\ api[nd].spec.retry)
      /\ Exists(api[nd])
  BY <1>1 DEF Undecided, Exists
<1>3. Dropped(nd)
  BY <1>2 DEF Awaited, Dropped
<1>4. CASE UNCHANGED vars
  BY <1>3, <1>4 DEF vars, cluster, scratch, Dropped, Scheduled, InFlight
<1>5. ASSUME NEW w \in NDs, Reconcile(w) PROVE FALSE
  <2>1. /\ nd = w /\ UNCHANGED cluster
        /\ \/ ReconcileNotFound(w) \/ ReconcileFinal(w) \/ ReconcileError(w)
           \/ EnterPending(w) /\ api[w].life = "gone"
    BY <1>3, <1>5, RequestDrops
  <2>2. ~InFlight(nd)
    BY <2>1 DEF Scheduled, InFlight, cluster
  <2>3. cache[nd] = api[nd]
    BY <2>2 DEF InStep
  <2> QED BY <1>2, <2>1, <2>3 DEF ReconcileNotFound, ReconcileFinal, ReconcileError, Proceeds,
                                  Undecided, Exists
<1>6. CASE Work
  <2>1. /\ pc = "hooks" /\ nd = cur /\ UNCHANGED <<cluster, queue>>
        /\ Decided = seen \/ api[nd].life = "gone"
    BY <1>3, <1>6, WorkDrops
  <2>2. nd \notin queue /\ ~InFlight(nd)
    BY <2>1 DEF Scheduled, InFlight, cluster
  <2>3. seen = api[nd]
    BY <2>1, <2>2 DEF Informed
  <2> QED BY <1>2, <2>1, <2>3, RetryWrites DEF Working, Exists
<1>7. CASE Environment
  BY <1>2, <1>3, <1>7, EnvironmentDrops
<1> QED BY <1>4, <1>5, <1>6, <1>7 DEF Next

LEMMA AwaitedCorrect == Spec => []Awaited
<1>1. Init => Informed /\ RetryPlanned /\ Awaited
  <2> SUFFICES ASSUME Init PROVE Informed /\ RetryPlanned /\ Awaited
    OBVIOUS
  <2>1. PICK specOf \in [NDs -> Specs] : api = [nd \in NDs |-> Blank(specOf[nd])]
    BY DEF Init
  <2>2. \A nd \in NDs : api[nd].life = "new"
    BY <2>1 DEF Blank
  <2> QED BY <2>2 DEF Init, Informed, RetryPlanned, Awaited, Undecided, Exists
<1>2. IInv /\ Informed /\ RetryPlanned /\ Awaited /\ [Next]_vars
          => Informed' /\ RetryPlanned' /\ Awaited'
  BY NextMoves, InformedNext, RetryPlannedNext, AwaitedNext DEF IInv
<1> QED BY <1>1, <1>2, IInvCorrect, PTL DEF Spec

\* A deletion is in the queue, in a timer, in the worker's hands, or an event about
\* it is on its way, even when requests are dropped for an error (the finalizer
\* would stay for ever otherwise).
THEOREM DeletionNeverForgotten ==
  Spec => [](\A nd \in NDs : api[nd].life = "deleting" => Scheduled(nd))
<1>1. Awaited => \A nd \in NDs : api[nd].life = "deleting" => Scheduled(nd)
  BY DEF Awaited
<1> QED BY <1>1, AwaitedCorrect, PTL

\* So is a disruption without a verdict, when all disruptions retry and no error is
\* dropped.  (Without retry one may be forgotten: run forgotten.)
THEOREM NeverForgottenCorrect ==
  ASSUME ~Faults, \A spec \in Specs : spec.retry PROVE Spec => []NeverForgotten
<1>1. TypeOK /\ Awaited => NeverForgotten
  BY DEF TypeOK, Objects, Awaited, NeverForgotten, Scheduled, InFlight
<1> QED BY <1>1, AwaitedCorrect, TypeCorrect, PTL
=============================================================================
