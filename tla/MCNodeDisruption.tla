--------------------------- MODULE MCNodeDisruption ---------------------------
(***************************************************************************)
(* Instances of NodeDisruptionController for TLC.  A .cfg picks one value  *)
(* per constant among the definitions below, which are grouped by run.     *)
(***************************************************************************)
EXTENDS NodeDisruptionController, TLC

CONSTANTS n1, n2, n3, app, app2, ndb

Ask(nodes, type, retry, deadline, notBefore) ==
    [nodes |-> nodes, type |-> type, retry |-> retry,
     deadline |-> deadline, notBefore |-> notBefore]

Interchangeable == Permutations(NDs)

NoBudget == [b \in {} |-> {}]
NoNumber == [b \in {} |-> 0]
NoHook == [b \in {} |-> "none"]
NoEdits == {}

\* What hook calls come back with: accepted, "retry later", errors of the
\* manager, nothing.
Reply(code, retryAfter) == [code |-> code, retryAfter |-> retryAfter, body |-> TRUE]
NoReply == {}
Accepts == Reply(200, "absent")
AlwaysAccepts == {Accepts}
AcceptedOrLost == {Accepts, Reply(NoAnswer, "absent")}
AcceptedOrLater == {Accepts, Reply(425, "soon")}
AcceptedOrError == {Accepts, Reply(503, "absent")}
AcceptedOrRefused == {Accepts, Reply(424, "absent")}

\* lifecycle: disruptions that share n1, one without nodes, one that waits, and an
\* application with v2 hooks that one of them hits.
LifecycleSpecs == {Ask({n1}, "reboot", TRUE, 1, 0), Ask({n1, n2}, "reboot", FALSE, 0, 1),
                   Ask({}, "reboot", FALSE, 0, 0)}
LifecycleWatched == [b \in {app} |-> {n2}]
LifecycleHook == [b \in {app} |-> "v2"]
AppMax == [b \in {app} |-> 1]
AppSupported == [b \in {app} |-> {"reboot"}]

\* budgets: an application on n1, n2 that takes one disruption; an NDB over n2, n3
\* that could lose both nodes but has to keep one.
BudgetSpecs == {Ask({n1}, "reboot", FALSE, 0, 0), Ask({n2}, "reboot", TRUE, 0, 0),
                Ask({n3}, "reboot", FALSE, 0, 0)}
BudgetWatched == [b \in {app, ndb} |-> IF b = app THEN {n1, n2} ELSE {n2, n3}]
BudgetMax == [b \in {app, ndb} |-> IF b = app THEN 1 ELSE 2]
BudgetMin == [b \in {ndb} |-> 1]
BudgetSupported == [b \in {app, ndb} |-> {"reboot"}]
BudgetHook == [b \in {app} |-> "health"]

\* nodes: both kinds over three nodes, disruptions of one and of two nodes.
NodesSpecs == {Ask({n1, n2}, "reboot", FALSE, 0, 0), Ask({n3}, "reboot", FALSE, 0, 0)}
NodesWatched == [b \in {app, ndb} |-> {n1, n2, n3}]
NodesMax == [b \in {app, ndb} |-> 2]
NodesMin == [b \in {ndb} |-> 0]

\* hooks: an application with v2 hooks on n1 and n2, one with a health hook on n1.
HookSpecs == {Ask({n1}, "reboot", TRUE, 1, 1), Ask({n2}, "reboot", TRUE, 0, 0)}
HookWatched == [b \in {app, app2} |-> IF b = app THEN {n1, n2} ELSE {n1}]
HookMax == [b \in {app, app2} |-> 1]
HookSupported == [b \in {app, app2} |-> {"reboot"}]
HookInit == [b \in {app, app2} |-> IF b = app THEN "v2" ELSE "health"]

\* liveness: the budgets of hooks, one disruption that both of them decide,
\* and one of a type that is not allowed.
LiveSpecs == {Ask({n1}, "reboot", TRUE, 1, 0), Ask({n1}, "reboot", TRUE, 2, 1),
              Ask({n1}, "decommission", TRUE, 1, 0)}
\* The second application leaves its types to the defaults.
LiveSupported == [b \in {app, app2} |-> IF b = app THEN {"reboot"} ELSE {}]
LiveEdits == {<<"v2", "none">>, <<"none", "v2">>, <<"none", "absent">>}

\* default_types: an application whose types the defaults give.
DefaultWatched == [b \in {app} |-> {n1, n2}]
DefaultSupported == [b \in {app} |-> {}]

\* unasked: an application without hooks that is given v2 hooks.
UnaskedHook == [b \in {app} |-> "none"]
UnaskedEdits == {<<"none", "v2">>}

\* oldest: disruptions of the same node, without retry.
OldestSpecs == {Ask({n1}, "reboot", FALSE, 0, 0)}
=============================================================================
