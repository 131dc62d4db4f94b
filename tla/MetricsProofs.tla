---------------------------- MODULE MetricsProofs ----------------------------
(***************************************************************************)
(* Theorems about the gauges of NodeDisruptionMetrics.                     *)
(*                                                                         *)
(* The argument.  A pass adds to what was published before, which is right *)
(* only because the informer's object never goes back: a label or a node   *)
(* that was published still belongs to the object (NothingStale).  And the *)
(* informer's object does not change without a request to look at it, so a *)
(* disruption no request waits for has been published as it is             *)
(* (PublishedAsRead); with no event on its way that is what is stored.     *)
(***************************************************************************)
EXTENDS NodeDisruptionMetrics, NodeDisruptionProofs

\* The reconciler does the same whether its gauges are looked at or not.
LEMMA PublishingSteps == [MNext]_mvars => [Next]_vars
  BY DEF MNext, mvars, PublishingReconcile, Next, Reconcile

\* Publishing gauges takes nothing away and adds no behaviour of the controller
\* (UpdateNodeDisruptionMetrics only reads), so that what is proved of the
\* reconciler holds of the one that publishes too.
THEOREM PublishingRefines == MSpec => Spec
<1>1. MInit => Init
  BY DEF MInit
<1> QED BY <1>1, PublishingSteps, PTL DEF MSpec, Spec

\* What was published of a disruption is true of the object the informer has.
NothingStale ==
    \A nd \in NDs : /\ series[nd].labels # {} => cache[nd].state # "unknown"
                    /\ series[nd].impacted \subseteq cache[nd].nodes

PublishedAsRead ==
    \A nd \in NDs \ queue :
        /\ ~Exists(cache[nd]) => series[nd] = NoSeries
        /\ cache[nd].life = "live" /\ cache[nd].fin =>
              series[nd] = Updated(NoSeries, cache[nd])

SeriesType == series \in [NDs -> [published : BOOLEAN, value : Int, labels : SUBSET States,
                                  impacted : SUBSET Nodes]]

SeriesInv == SeriesType /\ NothingStale /\ PublishedAsRead

LEMMA NoSeriesType == NoSeries \in [published : BOOLEAN, value : Int, labels : SUBSET States,
                                    impacted : SUBSET Nodes]
  BY DEF NoSeries

\* The informer's object goes forward, and only with a request.
LEMMA CacheMoves ==
  ASSUME TypeOK, Forward, Working, [Next]_vars, NEW nd \in NDs
  PROVE  /\ cache[nd].state # "unknown" => cache'[nd].state # "unknown"
         /\ cache[nd].nodes \subseteq cache'[nd].nodes
<1>1. Precedes(cache[nd], cache'[nd]) /\ Sound(cache'[nd])
  <2>1. CASE Written \/ UNCHANGED cluster
    <3>1. UNCHANGED cache
      BY <2>1 DEF Written, Store, cluster
    <3> QED BY <3>1, PrecedesReflexive DEF Forward
  <2>2. CASE Relisted
    BY <2>2 DEF Relisted, Forward
  <2>3. CASE Delivered
    <3>1. /\ 1 \in 1..Len(watch)
          /\ cache'[nd] = IF nd = watch[1].nd THEN watch[1].obj ELSE cache[nd]
      BY <2>3, TailEvents DEF Delivered, TypeOK
    <3> QED BY <3>1, PrecedesReflexive DEF Forward
  <2> QED BY <2>1, <2>2, <2>3, NextMoves DEF ClusterMoves
<1> QED BY <1>1 DEF Precedes, Rank, Sound, Forward

LEMMA CacheQueues ==
  ASSUME TypeOK, [Next]_vars, crashes' = crashes, NEW nd \in NDs
  PROVE  cache'[nd] = cache[nd] \/ nd \in queue'
<1>1. CASE Deliver
  <2>1. Delivered
    BY <1>1 DEF Deliver, Delivered
  <2> QED BY <1>1, <2>1, TailEvents DEF Deliver, TypeOK
<1>2. CASE ~Deliver
  <2>1. ~Restart
    BY DEF Restart, TypeOK
  <2>2. UNCHANGED cache
    <3>1. CASE UNCHANGED vars
      BY <3>1 DEF vars, cluster
    <3>2. CASE \E w \in NDs : Reconcile(w)
      BY <3>2 DEF Reconcile, ReconcileNotFound, AddFinalizer, WaitForRetryDate, EnterPending,
                  ReconcileFinal, ReconcileError, TryTransitionToGranted, BeginTermination,
                  Update, UpdateStatus, Store, ReturnError, cluster
    <3>3. CASE Work
      BY <3>3 DEF Work, Decide, FinishTermination, CallHealthHook, CallPrepareHook, CallReadyHook,
                  CallNoHook, Answered, SkipTerminate, CallTerminateHook, TerminateHookFails,
                  Terminating, Update, UpdateStatus, Store, ReturnError, cluster
    <3>4. CASE Environment
      BY <1>2, <2>1, <3>4 DEF Environment, Tick, TimerFires, UserCreates, UserDeletes,
                              ManagerReady, UserEditsHook, DefaultTypesArrive, Store, cluster
    <3> QED BY <3>1, <3>2, <3>3, <3>4 DEF Next
  <2> QED BY <2>2
<1> QED BY <1>1, <1>2

\* What a request publishes.
LEMMA RequestPublishes ==
  ASSUME TypeOK, Forward, SeriesInv, NEW w \in NDs, PublishingReconcile(w)
  PROVE  /\ SeriesType' /\ cache' = cache /\ queue' = queue \ {w}
         /\ \A nd \in NDs \ {w} : series'[nd] = series[nd]
         /\ \/ series'[w] = series[w] /\ Exists(cache[w])
               /\ ~(cache[w].life = "live" /\ cache[w].fin)
            \/ series'[w] = NoSeries /\ ~Exists(cache[w])
            \/ series'[w] = Updated(NoSeries, cache[w]) /\ Exists(cache[w])
<1>0. /\ series \in [NDs -> [published : BOOLEAN, value : Int, labels : SUBSET States,
                             impacted : SUBSET Nodes]]
      /\ cache[w] \in Objects
  BY DEF SeriesInv, SeriesType, TypeOK
<1>1. queue' = queue \ {w} /\ cache' = cache
  BY DEF PublishingReconcile, ReconcileNotFound, AddFinalizer, WaitForRetryDate, EnterPending,
         ReconcileFinal, ReconcileError, TryTransitionToGranted, BeginTermination, Proceeds,
         Take, Update, UpdateStatus, Store, ReturnError, cluster
<1>2. CASE ReconcileNotFound(w) /\ PruneNodeDisruptionMetrics(w)
  BY <1>0, <1>1, <1>2, NoSeriesType DEF ReconcileNotFound, PruneNodeDisruptionMetrics, SeriesType
<1>3. CASE (AddFinalizer(w) \/ BeginTermination(w)) /\ UNCHANGED series
  BY <1>0, <1>1, <1>3 DEF AddFinalizer, BeginTermination, Exists, SeriesType
<1>4. CASE Proceeds(w) /\ UpdateNodeDisruptionMetrics(w)
  <2>1. /\ Exists(cache[w])
        /\ series' = [series EXCEPT ![w] = Updated(series[w], cache[w])]
    BY <1>4 DEF Proceeds, Exists, UpdateNodeDisruptionMetrics
  <2>2. Updated(series[w], cache[w]) = Updated(NoSeries, cache[w])
    BY DEF Updated, NoSeries, SeriesInv, NothingStale
  <2>3. Updated(NoSeries, cache[w])
            \in [published : BOOLEAN, value : Int, labels : SUBSET States,
                 impacted : SUBSET Nodes]
    BY <1>0 DEF Updated, NoSeries, StateValue, Objects, States
  <2> QED BY <1>0, <1>1, <2>1, <2>2, <2>3 DEF SeriesType
<1> QED BY <1>2, <1>3, <1>4 DEF PublishingReconcile, WaitForRetryDate, EnterPending,
                                ReconcileFinal, ReconcileError, TryTransitionToGranted

LEMMA SeriesNext ==
  ASSUME TypeOK, Forward, Working, SeriesInv, [MNext]_mvars PROVE SeriesInv'
<1>0. [Next]_vars
  BY PublishingSteps
<1>1. CASE \E w \in NDs : PublishingReconcile(w)
  <2>1. PICK w \in NDs : PublishingReconcile(w)
    BY <1>1
  <2>2. /\ SeriesType' /\ cache' = cache /\ queue' = queue \ {w}
        /\ \A nd \in NDs \ {w} : series'[nd] = series[nd]
        /\ \/ series'[w] = series[w] /\ Exists(cache[w])
              /\ ~(cache[w].life = "live" /\ cache[w].fin)
           \/ series'[w] = NoSeries /\ ~Exists(cache[w])
           \/ series'[w] = Updated(NoSeries, cache[w]) /\ Exists(cache[w])
    BY <2>1, RequestPublishes
  <2>3. NothingStale'
    <3>1. /\ NoSeries.labels = {} /\ NoSeries.impacted = {}
          /\ Updated(NoSeries, cache[w]).labels # {} => cache[w].state # "unknown"
          /\ Updated(NoSeries, cache[w]).impacted = cache[w].nodes
      BY DEF NoSeries, Updated
    <3>2. ASSUME NEW nd \in NDs
          PROVE  /\ series'[nd].labels # {} => cache'[nd].state # "unknown"
                 /\ series'[nd].impacted \subseteq cache'[nd].nodes
      <4>1. CASE nd = w
        BY <2>2, <3>1, <4>1 DEF SeriesInv, NothingStale
      <4>2. CASE nd # w
        BY <2>2, <4>2 DEF SeriesInv, NothingStale
      <4> QED BY <4>1, <4>2
    <3> QED BY <3>2 DEF NothingStale
  <2>4. PublishedAsRead'
    BY <2>2 DEF SeriesInv, PublishedAsRead, Exists
  <2> QED BY <2>2, <2>3, <2>4 DEF SeriesInv
<1>2. CASE Environment /\ crashes' # crashes /\ series' = Unpublished
  <2>1. SeriesType' /\ NothingStale'
    BY <1>2, NoSeriesType DEF SeriesType, NothingStale, Unpublished, NoSeries
  <2>2. Restart
    BY <1>2 DEF Environment, Deliver, Tick, TimerFires, UserCreates, UserDeletes, ManagerReady,
                UserEditsHook, DefaultTypesArrive, environment
  <2>3. PublishedAsRead'
    BY <1>2, <2>2 DEF Restart, PublishedAsRead, Unpublished, Exists
  <2> QED BY <2>1, <2>3 DEF SeriesInv
<1>3. CASE UNCHANGED series /\ crashes' = crashes /\ queue \subseteq queue'
  <2>1. SeriesType'
    BY <1>3 DEF SeriesInv, SeriesType
  <2>2. NothingStale'
    <3>1. ASSUME NEW nd \in NDs
          PROVE  /\ series'[nd].labels # {} => cache'[nd].state # "unknown"
                 /\ series'[nd].impacted \subseteq cache'[nd].nodes
      BY <1>0, <1>3, CacheMoves DEF SeriesInv, NothingStale
    <3> QED BY <3>1 DEF NothingStale
  <2>3. PublishedAsRead'
    <3>1. ASSUME NEW nd \in NDs \ queue'
          PROVE  /\ ~Exists(cache'[nd]) => series'[nd] = NoSeries
                 /\ cache'[nd].life = "live" /\ cache'[nd].fin =>
                       series'[nd] = Updated(NoSeries, cache'[nd])
      <4>1. cache'[nd] = cache[nd] /\ nd \notin queue
        BY <1>0, <1>3, CacheQueues
      <4> QED BY <1>3, <4>1 DEF SeriesInv, PublishedAsRead
    <3> QED BY <3>1 DEF PublishedAsRead
  <2> QED BY <2>1, <2>2, <2>3 DEF SeriesInv
<1>4. CASE Work /\ UNCHANGED series
  <2>1. queue' = queue /\ crashes' = crashes
    BY <1>4 DEF Work, Decide, FinishTermination, CallHealthHook, CallPrepareHook, CallReadyHook,
                CallNoHook, Answered, SkipTerminate, CallTerminateHook, TerminateHookFails,
                Terminating, environment
  <2> QED BY <1>3, <1>4, <2>1
<1>5. CASE Environment /\ crashes' = crashes /\ UNCHANGED series
  <2>1. ~Restart
    BY <1>5 DEF Restart, TypeOK
  <2>2. queue \subseteq queue'
    BY <1>5, <2>1 DEF Environment, Deliver, Tick, TimerFires, UserCreates, UserDeletes,
                      ManagerReady, UserEditsHook, DefaultTypesArrive
  <2> QED BY <1>3, <1>5, <2>2
<1>6. CASE UNCHANGED mvars
  BY <1>3, <1>6 DEF mvars, vars, environment
<1> QED BY <1>1, <1>2, <1>4, <1>5, <1>6 DEF MNext

\* Once no request and no event about a disruption is on its way, its series are
\* those of the stored object, whatever a restart lost and although a pass
\* publishes what it reads and adds to what is there (UpdateNodeDisruptionMetrics,
\* PruneNodeDisruptionMetrics); a disruption that is gone has none.
THEOREM SeriesFollowCorrect == MSpec => []SeriesFollow
<1>1. MInit => SeriesInv
  <2> SUFFICES ASSUME MInit PROVE SeriesInv
    OBVIOUS
  <2>1. PICK specOf \in [NDs -> Specs] : api = [nd \in NDs |-> Blank(specOf[nd])]
    BY DEF MInit, Init
  <2>2. \A nd \in NDs : cache[nd].life = "new"
    BY <2>1 DEF MInit, Init, Blank
  <2>3. series = [nd \in NDs |-> NoSeries]
    BY DEF MInit, Unpublished
  <2>4. SeriesType
    BY <2>3, NoSeriesType DEF SeriesType
  <2>5. NothingStale
    BY <2>3 DEF NothingStale, NoSeries
  <2>6. PublishedAsRead
    BY <2>2, <2>3 DEF PublishedAsRead
  <2> QED BY <2>4, <2>5, <2>6 DEF SeriesInv
<1>2. IInv /\ SeriesInv /\ [MNext]_mvars => SeriesInv'
  BY SeriesNext DEF IInv
<1>3. IInv /\ SeriesInv => SeriesFollow
  BY DEF IInv, InStep, InFlight, SeriesInv, PublishedAsRead, SeriesFollow, Quiet
<1> QED BY <1>1, <1>2, <1>3, PublishingRefines, IInvCorrect, PTL DEF MSpec
=============================================================================
