------------------------------- MODULE MCBudget -------------------------------
(***************************************************************************)
(* Instances of BudgetReconciler for TLC: two nodes, a pod, a claim and a  *)
(* pending disruption of the second node, which may be given other labels. *)
(***************************************************************************)
EXTENDS BudgetReconciler, TLC

CONSTANTS n1, n2, pod, pvc, nd1

Require(key, op, values) == [key |-> key, op |-> op, values |-> values]
Term(labels) == [labels |-> labels, fields |-> {}]

First == "host" :> "n1" @@ "zone" :> "a" @@ "pool" :> "blue"
Second(zone) == "host" :> "n2" @@ "zone" :> zone
SmallClusters ==
    {n1 :> First @@ n2 :> Second("b"),
     n1 :> First @@ n2 :> (Second("a") @@ "pool" :> "blue")}

SmallSelector == {Require("pool", "Exists", {})}
SmallDisrupts == [nd \in {nd1} |-> {Require("host", "In", {"n2"})}]
\* A volume that can be reached from all zones but b.
Reachable == [c \in {pvc} |-> {Term({Require("zone", "NotIn", {"b"}), Require("zone", "Exists", {})})}]

SmallStart ==
    [pods |-> [p \in {pod} |-> n1], pvcs |-> [c \in {pvc} |-> "Bound"],
     nodes |-> n1 :> First @@ n2 :> Second("b"), nds |-> [nd \in {nd1} |-> "pending"]]
SmallLimits == {[max |-> 1, min |-> 0], [max |-> 2, min |-> 1]}
SmallTypes == {{}, {"reboot"}}
=============================================================================
