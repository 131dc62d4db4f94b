------------------------- MODULE NodeDisruptionMetrics -------------------------
(***************************************************************************)
(* NodeDisruptionController with the gauges it publishes for each          *)
(* NodeDisruption.  They live in the process: a restart loses them.        *)
(***************************************************************************)
EXTENDS NodeDisruptionController

VARIABLE series     \* the series published under the name of each NodeDisruption

mvars == <<vars, series>>

\* labels: the states whose series of node_disruption_state_label is 1;
\* impacted: the nodes with a series of node_disruption_impacted_node.
NoSeries == [published |-> FALSE, value |-> 0, labels |-> {}, impacted |-> {}]

StateValue == [unknown |-> 0, pending |-> 0, granted |-> 1, rejected |-> -1]

\* Mutant: the label of the state that was published before is not reset.
UpdatedWithoutReset(old, obj) ==
    [published |-> TRUE, value |-> StateValue[obj.state],
     labels |-> IF obj.state = "unknown" THEN old.labels ELSE old.labels \cup {obj.state},
     impacted |-> old.impacted \cup obj.nodes]

\* UpdateNodeDisruptionMetrics: no state has a label for "unknown", and the nodes
\* that were published stay.
Updated(old, obj) ==
    [published |-> TRUE, value |-> StateValue[obj.state],
     labels |-> IF obj.state = "unknown" THEN old.labels ELSE {obj.state},
     impacted |-> old.impacted \cup obj.nodes]

PruneNodeDisruptionMetrics(nd) == series' = [series EXCEPT ![nd] = NoSeries]
UpdateNodeDisruptionMetrics(nd) == series' = [series EXCEPT ![nd] = Updated(@, cache[nd])]

\* Reconcile publishes the object it read as soon as it goes past handleFinalizer.
PublishingReconcile(nd) ==
    \/ ReconcileNotFound(nd) /\ PruneNodeDisruptionMetrics(nd)
    \/ (AddFinalizer(nd) \/ BeginTermination(nd)) /\ UNCHANGED series
    \/ /\ \/ WaitForRetryDate(nd) \/ EnterPending(nd) \/ ReconcileFinal(nd)
          \/ ReconcileError(nd) \/ TryTransitionToGranted(nd)
       /\ UpdateNodeDisruptionMetrics(nd)

Unpublished == [nd \in NDs |-> NoSeries]

MInit == Init /\ series = Unpublished
MNext ==
    \/ Work /\ UNCHANGED series
    \/ Environment /\ series' = IF crashes' = crashes THEN series ELSE Unpublished
    \/ \E nd \in NDs : PublishingReconcile(nd)
MSpec == MInit /\ [][MNext]_mvars

-----------------------------------------------------------------------------
\* No request for nd waits, and no event about it is on its way.
Quiet(nd) == nd \notin queue /\ \A i \in 1..Len(watch) : watch[i].nd # nd

\* "State of node disruption" (metrics.go): a pass publishes the state it reads
\* and then stores another one, before the object gets its finalizer or after it
\* is deleted it publishes none; still, once nothing about a disruption is on its
\* way, its series are those of the stored object, and a disruption that is gone
\* has none.
SeriesFollow ==
    \A nd \in NDs : Quiet(nd) =>
        /\ ~Exists(api[nd]) => series[nd] = NoSeries
        /\ api[nd].life = "live" /\ api[nd].fin => series[nd] = Updated(NoSeries, api[nd])
=============================================================================
