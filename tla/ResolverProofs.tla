---------------------------- MODULE ResolverProofs ----------------------------
(***************************************************************************)
(* Theorems about the conversion of selectors, for every cluster and every *)
(* volume.  The nodes found for a claim are never nodes its volume cannot  *)
(* be reached from; they are all of them when the affinity has one term.   *)
(***************************************************************************)
EXTENDS Resolver, TLAPS

\* Requirements that hold together hold in part.
LEMMA ListedAntitone ==
    ASSUME NEW cluster, NEW few, NEW many, few \subseteq many
    PROVE  Listed(cluster, many) \subseteq Listed(cluster, few)
  BY DEF Listed

\* With one term the conversion keeps its requirements as they are.
LEMMA OneTermKept ==
    ASSUME NEW term
    PROVE  NodeSelectorAsSelector({term}) = term.labels
  BY DEF NodeSelectorAsSelector

\* A term's requirements on labels are among those of the conversion.
LEMMA TermIncluded ==
    ASSUME NEW terms, NEW term \in terms
    PROVE  term.labels \subseteq NodeSelectorAsSelector(terms)
  BY DEF NodeSelectorAsSelector

\* A conversion without error leaves no requirement on fields.
LEMMA NoFields ==
    ASSUME NEW terms, NEW term \in terms, ~CannotConvert(terms)
    PROVE  term.fields = {}
  BY DEF CannotConvert

\* Every node that GetNodesFromNamespacedPVCSelector finds for a volume is one
\* that the volume's affinity allows: joining the alternatives by AND loses nodes
\* and never adds one.
THEOREM NodesOfVolumeSound ==
    ASSUME NEW cluster, NEW terms, ~CannotConvert(terms)
    PROVE  NodesOfVolume(cluster, terms) \subseteq ReachesVolume(cluster, terms)
<1> DEFINE reqs == NodeSelectorAsSelector(terms)
<1> SUFFICES ASSUME NEW n \in NodesOfVolume(cluster, terms)
             PROVE  n \in ReachesVolume(cluster, terms)
  OBVIOUS
<1>1. reqs # {} /\ n \in Listed(cluster, reqs)
  BY DEF NodesOfVolume, GetNodeFromNodeSelector
<1>2. PICK term \in terms : term.labels # {}
  BY <1>1 DEF NodeSelectorAsSelector
<1>3. n \in Listed(cluster, term.labels)
  BY <1>1, <1>2, TermIncluded, ListedAntitone
<1>4. term.fields = {}
  BY NoFields
<1>5. Satisfies(cluster, n, term)
  BY <1>2, <1>3, <1>4 DEF Satisfies, IsEmptyTerm, Listed
<1> QED BY <1>3, <1>5 DEF ReachesVolume, Listed

\* A volume whose affinity has one term, the usual local volume, is found on
\* exactly the nodes it can be reached from, or its budget fails to synchronise.
THEOREM OneTermExact ==
    ASSUME NEW cluster, NEW term, ~CannotConvert({term})
    PROVE  NodesOfVolume(cluster, {term}) = ReachesVolume(cluster, {term})
<1>1. NodesOfVolume(cluster, {term}) \subseteq ReachesVolume(cluster, {term})
  BY NodesOfVolumeSound
<1>2. ASSUME NEW n \in ReachesVolume(cluster, {term})
      PROVE  n \in NodesOfVolume(cluster, {term})
  <2>1. n \in DOMAIN cluster /\ Satisfies(cluster, n, term)
    BY DEF ReachesVolume
  <2>2. term.fields = {}
    BY NoFields
  <2>3. term.labels # {} /\ n \in Listed(cluster, term.labels)
    BY <2>1, <2>2 DEF Satisfies, IsEmptyTerm, Listed
  <2> QED BY <2>3, OneTermKept DEF NodesOfVolume, GetNodeFromNodeSelector
<1> QED BY <1>1, <1>2

\* With two terms, the "hostname is a or hostname is b" of a volume that two nodes
\* share, the conversion asks for both and finds neither node, without an error.
THEOREM AlternativesLost ==
    ASSUME NEW key, NEW a, NEW b, a # b, NEW m, NEW n, m # n
    PROVE  LET In(v)   == [key |-> key, op |-> "In", values |-> {v}]
               Term(v) == [labels |-> {In(v)}, fields |-> {}]
               terms   == {Term(a), Term(b)}
               hosts   == [x \in {m, n} |-> [k \in {key} |-> IF x = m THEN a ELSE b]]
           IN  /\ ~CannotConvert(terms)
               /\ ReachesVolume(hosts, terms) = {m, n}
               /\ NodesOfVolume(hosts, terms) = {}
<1> DEFINE In(v)   == [key |-> key, op |-> "In", values |-> {v}]
           Term(v) == [labels |-> {In(v)}, fields |-> {}]
           terms   == {Term(a), Term(b)}
           hosts   == [x \in {m, n} |-> [k \in {key} |-> IF x = m THEN a ELSE b]]
<1>1. \A v : Term(v).labels = {In(v)} /\ Term(v).fields = {}
  OBVIOUS
<1>2. \A v : In(v).key = key /\ In(v).op = "In" /\ In(v).values = {v}
  OBVIOUS
<1>3. \A x \in {m, n} : DOMAIN hosts[x] = {key} /\ hosts[x][key] = IF x = m THEN a ELSE b
  OBVIOUS
<1>4. DOMAIN hosts = {m, n}
  OBVIOUS
<1> HIDE DEF In, Term, hosts
<1>5. \A v, x : x \in {m, n} => (Holds(In(v), hosts[x]) <=> v = IF x = m THEN a ELSE b)
  BY <1>2, <1>3 DEF Holds
<1>6. ~CannotConvert(terms)
  <2>1. \A v : Convertible(In(v))
    BY <1>2 DEF Convertible
  <2> QED BY <1>1, <2>1 DEF CannotConvert
<1>7. ReachesVolume(hosts, terms) = {m, n}
  <2>1. \A v, x : x \in {m, n} => (Satisfies(hosts, x, Term(v)) <=> Holds(In(v), hosts[x]))
    BY <1>1 DEF Satisfies, IsEmptyTerm
  <2>2. Satisfies(hosts, m, Term(a)) /\ Satisfies(hosts, n, Term(b))
    BY <1>5, <2>1
  <2> QED BY <1>4, <2>2 DEF ReachesVolume
<1>8. NodesOfVolume(hosts, terms) = {}
  <2>1. NodeSelectorAsSelector(terms) = {In(a), In(b)}
    BY <1>1 DEF NodeSelectorAsSelector
  <2>2. Listed(hosts, {In(a), In(b)}) = {}
    BY <1>4, <1>5 DEF Listed
  <2> QED BY <2>1, <2>2 DEF NodesOfVolume, GetNodeFromNodeSelector
<1> QED BY <1>6, <1>7, <1>8 DEF In, Term, hosts
=============================================================================
