------------------------------- MODULE Resolver -------------------------------
(***************************************************************************)
(* How selectors are turned into nodes (pkg/resolver/resolver.go).         *)
(*                                                                         *)
(* A node's labels are a function from keys to values.  A selector of      *)
(* labels is a set of requirements that must all hold; a volume's node     *)
(* affinity is a set of terms, each with requirements on labels and on     *)
(* fields.  Nodes in a cluster are a function from their names to labels.  *)
(***************************************************************************)
EXTENDS FiniteSets

Operators == {"In", "NotIn", "Exists", "DoesNotExist", "Gt", "Lt"}

\* What holds of a node's labels, in Kubernetes.  Gt and Lt compare numbers: no
\* selector of labels has them, and a volume that has them is refused below.
Holds(req, labels) ==
    \/ req.op = "In" /\ req.key \in DOMAIN labels /\ labels[req.key] \in req.values
    \/ req.op = "NotIn" /\ (req.key \in DOMAIN labels => labels[req.key] \notin req.values)
    \/ req.op = "Exists" /\ req.key \in DOMAIN labels
    \/ req.op = "DoesNotExist" /\ req.key \notin DOMAIN labels

\* A list with a selector that is the conjunction of reqs.
Listed(cluster, reqs) ==
    {n \in DOMAIN cluster : \A req \in reqs : Holds(req, cluster[n])}

-----------------------------------------------------------------------------
(* Conversions.                                                            *)

\* NodeLabelSelectorAsRequirement: four operators are known, and NewRequirement
\* wants values exactly where the operator uses them.
Convertible(req) ==
    \/ req.op \in {"In", "NotIn"} /\ req.values # {}
    \/ req.op \in {"Exists", "DoesNotExist"} /\ req.values = {}

\* NodeSelectorAsSelector: the requirements of all the terms, together.
NodeSelectorAsSelector(terms) == UNION {term.labels : term \in terms}

\* It fails on a requirement that cannot be converted.  A requirement on a field
\* is written down as a label's ("k in (v)") and read as a field's ("k=v"), which
\* no requirement is: it always fails.
CannotConvert(terms) ==
    \E term \in terms : term.fields # {} \/ \E req \in term.labels : ~Convertible(req)

\* GetNodeFromNodeSelector: an empty selector selects nothing.
GetNodeFromNodeSelector(cluster, reqs) == IF reqs = {} THEN {} ELSE Listed(cluster, reqs)

\* GetNodesFromNamespacedPVCSelector, for one bound claim: a volume without
\* requirements is ignored.
NodesOfVolume(cluster, terms) == GetNodeFromNodeSelector(cluster, NodeSelectorAsSelector(terms))

-----------------------------------------------------------------------------
(* What a volume's affinity means to the scheduler: its terms are           *)
(* alternatives, and one without requirements matches no node.  A volume   *)
(* that has no affinity at all, and is reached from anywhere, is not meant. *)

IsEmptyTerm(term) == term.labels = {} /\ term.fields = {}

\* Of the fields only metadata.name can be asked about.
HoldsOnFields(req, name) ==
    \/ req.op = "In" /\ name \in req.values
    \/ req.op = "NotIn" /\ name \notin req.values

Satisfies(cluster, n, term) ==
    /\ ~IsEmptyTerm(term)
    /\ \A req \in term.labels : Holds(req, cluster[n])
    /\ \A req \in term.fields : HoldsOnFields(req, n)

ReachesVolume(cluster, terms) ==
    {n \in DOMAIN cluster : \E term \in terms : Satisfies(cluster, n, term)}
=============================================================================
