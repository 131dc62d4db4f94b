----------------------------- MODULE BudgetProofs -----------------------------
(***************************************************************************)
(* Theorems about what a budget lets through, for every number of budgets, *)
(* disruptions and nodes.                                                  *)
(*                                                                         *)
(* The argument.  A budget is synchronised from an informer that trails by *)
(* a bounded number of events, each about one disruption, so of those it   *)
(* has to answer for it misses no more than there are events on their way  *)
(* (ChargedSeen).  Only the worker grants, and it grants one disruption at *)
(* a time: until it writes, what a budget answers for can only become      *)
(* less, and the room found is still there (RoomLeft).  So the disruptions *)
(* are counted right but for that lag (CountRespected), and each of them   *)
(* takes a bounded number of the budget's nodes (NodesTaken).              *)
(***************************************************************************)
EXTENDS HookProofs, FunctionTheorems, FiniteSetTheorems

-----------------------------------------------------------------------------
(* What is assumed.                                                        *)

\* The cluster has finitely many disruptions and nodes.
FiniteCluster == IsFiniteSet(NDs) /\ IsFiniteSet(Nodes)

\* No budget is deleted: one that is gone is not asked.
BudgetsKept ==
    /\ \A b \in ADBs : InitHook[b] # "absent"
    /\ \A e \in HookEdits : e[2] # "absent"

\* No budget waits for its default types (what happens otherwise: run default_types).
TypesFilledIn == \A b \in ADBs \cup NDBs : Supported[b] = {} => Defaults = {}

-----------------------------------------------------------------------------
(* Counting.                                                               *)

LEMMA SubsetCounts ==
  ASSUME FiniteCluster, NEW T \in SUBSET NDs, NEW S \in SUBSET T
  PROVE  /\ IsFiniteSet(S) /\ IsFiniteSet(T) /\ Cardinality(S) \in Nat /\ Cardinality(T) \in Nat
         /\ Cardinality(S) <= Cardinality(T)
<1>1. IsFiniteSet(T)
  BY FS_Subset DEF FiniteCluster
<1>2. IsFiniteSet(S) /\ Cardinality(S) <= Cardinality(T)
  BY <1>1, FS_Subset
<1> QED BY <1>1, <1>2, FS_CardinalityType

\* One more disruption.
LEMMA OneMoreCounts ==
  ASSUME FiniteCluster, NEW S \in SUBSET NDs, NEW T \in SUBSET NDs, NEW nd, T \subseteq S \cup {nd}
  PROVE  Cardinality(T) <= Cardinality(S) + 1
<1>1. IsFiniteSet(S) /\ Cardinality(S) \in Nat
  BY SubsetCounts
<1>2. IsFiniteSet(S \cup {nd}) /\ Cardinality(S \cup {nd}) <= Cardinality(S) + 1
  <2>1. CASE nd \in S
    <3>1. S \cup {nd} = S
      BY <2>1
    <3> QED BY <1>1, <3>1
  <2>2. CASE nd \notin S
    <3>1. IsFiniteSet(S \cup {nd}) /\ Cardinality(S \cup {nd}) = Cardinality(S) + 1
      BY <1>1, <2>2, FS_AddElement
    <3> QED BY <1>1, <3>1
  <2> QED BY <2>1, <2>2
<1>3. Cardinality(T) <= Cardinality(S \cup {nd}) /\ Cardinality(S \cup {nd}) \in Nat
      /\ Cardinality(T) \in Nat
  BY <1>2, FS_Subset, FS_CardinalityType
<1> QED BY <1>1, <1>2, <1>3

\* The nodes a budget watches, and those of them that a disruption takes.
LEMMA WatchedCounts ==
  ASSUME FiniteCluster, NEW b \in ADBs \cup NDBs, NEW nodes
  PROVE  /\ IsFiniteSet(Watched[b]) /\ Cardinality(Watched[b]) \in Nat
         /\ IsFiniteSet(Watched[b] \cap nodes) /\ Cardinality(Watched[b] \cap nodes) \in Nat
         /\ IsImpacted(b, nodes) => Cardinality(Watched[b] \cap nodes) >= 1
<1>1. Watched[b] \subseteq Nodes
  BY BudgetAssumption
<1>2. IsFiniteSet(Watched[b]) /\ IsFiniteSet(Watched[b] \cap nodes)
  BY <1>1, FS_Subset DEF FiniteCluster
<1>3. Cardinality(Watched[b]) \in Nat /\ Cardinality(Watched[b] \cap nodes) \in Nat
  BY <1>2, FS_CardinalityType
<1>4. Watched[b] \cap nodes # {} => Cardinality(Watched[b] \cap nodes) # 0
  BY <1>2, FS_EmptySet
<1> QED BY <1>2, <1>3, <1>4 DEF IsImpacted

LEMMA LimitType == ASSUME FiniteCluster, NEW b \in ADBs \cup NDBs PROVE Limit(b) \in Int
<1>1. MaxDisrupted[b] \in Int /\ (b \notin ADBs => MinUndisrupted[b] \in Int)
  BY BudgetAssumption
<1> QED BY <1>1, WatchedCounts DEF Limit, Smaller

\* A budget that tolerates a disruption that hits it lets one more be counted.
LEMMA ToleratedCounts ==
  ASSUME FiniteCluster, NEW b \in ADBs \cup NDBs, NEW nodes, IsImpacted(b, nodes),
         TolerateDisruption(b, nodes), Cardinality(Counted(b)) \in Nat
  PROVE  Cardinality(Counted(b)) + 1 <= Limit(b)
<1>1. MaxDisrupted[b] \in Int /\ (b \notin ADBs => MinUndisrupted[b] \in Int)
  BY BudgetAssumption
<1>2. /\ Cardinality(Watched[b]) \in Nat /\ Cardinality(Watched[b] \cap nodes) \in Nat
      /\ Cardinality(Watched[b] \cap nodes) >= 1
  BY WatchedCounts
<1>3. CASE b \in ADBs
  BY <1>1, <1>3 DEF TolerateDisruption, AdbTolerates, AdbAllowed, Limit
<1>4. CASE b \notin ADBs
  BY <1>1, <1>2, <1>4 DEF TolerateDisruption, NdbTolerates, NdbAllowed, Smaller, Limit
<1> QED BY <1>3, <1>4

\* No more disruptions have an event on its way than there are events.
LEMMA HiddenCounts ==
  ASSUME TypeOK
  PROVE  LET hidden == {nd \in NDs : InFlight(nd)}
         IN  IsFiniteSet(hidden) /\ Cardinality(hidden) <= Len(watch) /\ Len(watch) \in Nat
<1> DEFINE hidden == {nd \in NDs : InFlight(nd)}
           event == [nd \in hidden |-> CHOOSE i \in 1..Len(watch) : watch[i].nd = nd]
<1>1. \A nd \in hidden : event[nd] \in 1..Len(watch) /\ watch[event[nd]].nd = nd
  <2>1. \A nd \in hidden : \E i \in 1..Len(watch) : watch[i].nd = nd
    BY DEF InFlight
  <2>2. \A nd \in hidden : event[nd] = CHOOSE i \in 1..Len(watch) : watch[i].nd = nd
    BY Zenon
  <2> HIDE DEF hidden, event
  <2> QED BY <2>1, <2>2, Zenon
<1>2. event \in [hidden -> 1..Len(watch)]
  BY <1>1, Zenon
<1> HIDE DEF event
<1>3. event \in Injection(hidden, 1..Len(watch))
  <2>1. \A m, n \in hidden : event[m] = event[n] => m = n
    BY <1>1, Zenon
  <2> QED BY <1>2, <2>1 DEF Injection, IsInjective
<1>4. Len(watch) \in Nat
  <2> DEFINE Events == [nd : NDs, obj : Objects]
  <2>1. watch \in Seq(Events)
    BY DEF TypeOK
  <2> HIDE DEF Events
  <2> QED BY <2>1
<1>5. IsFiniteSet(1..Len(watch)) /\ Cardinality(1..Len(watch)) = Len(watch)
  BY <1>4, FS_Interval
<1> HIDE DEF hidden
<1>6. IsFiniteSet(hidden) /\ Cardinality(hidden) <= Len(watch)
  BY <1>3, <1>5, FS_Injection
<1> QED BY <1>4, <1>6 DEF hidden

-----------------------------------------------------------------------------
(* What a budget answers for.                                              *)

\* The types and the presence of the budgets the worker reads stay as given.
BudgetsSettled ==
    /\ \A b \in ADBs \cup NDBs : types[b] = Supported[b]
    /\ \A b \in ADBs : hook[b] # "absent"

LEMMA BudgetsStay ==
  ASSUME TypeOK, BudgetsKept, TypesFilledIn, BudgetsSettled, [Next]_vars PROVE BudgetsSettled'
<1>1. \A b \in ADBs \cup NDBs : types'[b] = Supported[b]
  BY BudgetMoves DEF DefaultTypesArrive, TypesFilledIn, BudgetsSettled, TypeOK
<1>2. ASSUME NEW b \in ADBs, NEW c \in ADBs, NEW to \in HookKinds, UserEditsHook(c, to)
      PROVE  hook'[b] # "absent"
  <2>1. <<hook[c], to>> \in HookEdits /\ hook'[b] = IF b = c THEN to ELSE hook[b]
    BY <1>2 DEF UserEditsHook, TypeOK
  <2>2. to # "absent"
    BY <2>1 DEF BudgetsKept
  <2> QED BY <2>1, <2>2 DEF BudgetsSettled
<1>3. \A b \in ADBs : hook'[b] # "absent"
  BY <1>2, BudgetMoves DEF BudgetsSettled
<1> QED BY <1>1, <1>3 DEF BudgetsSettled

\* While nothing has refused it, there is room for the disruption the worker
\* validates in every budget it hits, beside what the budget answers for by now.
Others(b) == Charged(b) \ {cur}
RoomLeft ==
    pc = "hooks" /\ (\A s \in out : s.ok) =>
        \A b \in ADBs \cup NDBs :
            seen.spec.type \in TypesOf(b) /\ IsImpacted(b, seen.spec.nodes)
            => Cardinality(Others(b)) + 1 <= Limit(b) + ReadLag

\* A budget answers for no more disruptions than its limit, and the events that a
\* validation may have missed.
CountRespected ==
    \A b \in ADBs \cup NDBs :
        Charged(b) # {} => Cardinality(Charged(b)) <= Limit(b) + ReadLag

BudgetInv == BudgetsSettled /\ RoomLeft /\ CountRespected

LEMMA ChargedType == \A b : Charged(b) \in SUBSET NDs /\ Others(b) \in SUBSET NDs
  BY DEF Charged, Others

\* A budget comes to answer for the disruption the worker grants, and no other.
LEMMA ChargedMoves ==
  ASSUME TypeOK, Forward, ClusterMoves, NEW b \in ADBs \cup NDBs, NEW nd \in Charged(b)'
  PROVE  /\ api'[nd].spec = api[nd].spec
         /\ \/ nd \in Charged(b)
            \/ /\ pc = "hooks" /\ nd = cur /\ api[nd] = seen /\ todo = {} /\ ~AnyFailed
               /\ seen.spec.type \in TypesOf(b) /\ IsImpacted(b, seen.spec.nodes)
<1>1. nd \in NDs /\ Granted(nd)' /\ api'[nd].spec.type \in TypesOf(b)
      /\ api'[nd].spec.nodes \cap Watched[b] # {}
  BY DEF Charged, TypesOf
<1> QED BY <1>1, GrantedMoves DEF Charged, IsImpacted

\* What an informer shows of the disruptions a budget answers for: all but those
\* with an event on its way.
LEMMA ChargedSeen ==
  ASSUME FiniteCluster, TypeOK, InStep, Len(watch) <= ReadLag, NEW b \in ADBs \cup NDBs
  PROVE  /\ Cardinality(Counted(b)) \in Nat
         /\ \A S \in SUBSET Charged(b) : /\ Cardinality(S) \in Nat
                                         /\ Cardinality(S) <= Cardinality(Counted(b)) + ReadLag
<1> DEFINE hidden == {nd \in NDs : InFlight(nd)}
<1>1. IsFiniteSet(hidden) /\ Cardinality(hidden) <= Len(watch) /\ Len(watch) \in Nat
  BY HiddenCounts
<1>2. Counted(b) \in SUBSET NDs /\ Charged(b) \in SUBSET NDs
  BY DEF Counted, Charged
<1>3. IsFiniteSet(Counted(b)) /\ Cardinality(Counted(b)) \in Nat
  BY <1>2, SubsetCounts
<1>4. Charged(b) \subseteq Counted(b) \cup hidden
  BY DEF InStep, Charged, Granted, Exists, Counted
<1> HIDE DEF hidden
<1>5. ASSUME NEW S \in SUBSET Charged(b)
      PROVE  Cardinality(S) \in Nat /\ Cardinality(S) <= Cardinality(Counted(b)) + ReadLag
  <2>1. S \in SUBSET (Counted(b) \cup hidden)
    BY <1>4
  <2>2. /\ IsFiniteSet(Counted(b) \cup hidden)
        /\ Cardinality(Counted(b) \cup hidden)
           = Cardinality(Counted(b)) + Cardinality(hidden) - Cardinality(Counted(b) \cap hidden)
    BY <1>1, <1>3, FS_Union
  <2>3. IsFiniteSet(Counted(b) \cap hidden)
    BY <1>3, FS_Intersection
  <2>4. /\ Cardinality(hidden) \in Nat /\ Cardinality(Counted(b) \cap hidden) \in Nat
        /\ Cardinality(Counted(b) \cup hidden) \in Nat
    BY <1>1, <2>2, <2>3, FS_CardinalityType
  <2>5. IsFiniteSet(S) /\ Cardinality(S) <= Cardinality(Counted(b) \cup hidden)
    BY <2>1, <2>2, FS_Subset
  <2>6. Cardinality(S) \in Nat
    BY <2>5, FS_CardinalityType
  <2> QED BY <1>1, <1>3, <2>2, <2>4, <2>5, <2>6, NDAssumption
<1> QED BY <1>3, <1>5

\* A validation that nothing has refused has asked every budget concerned.
LEMMA AllTolerate ==
  ASSUME NEW nd \in NDs, TryTransitionToGranted(nd), \A s \in out' : s.ok,
         NEW b \in Concerned(cache[nd].spec)
  PROVE  TolerateDisruption(b, cache[nd].spec.nodes)
<1>1. FirstRefusals(cache[nd].spec) = {}
  <2> DEFINE internal == InternalConstraints(nd, cache[nd])
  <2>1. \A c, why : Refusal(c, why).ok = FALSE
    BY DEF Refusal
  <2>2. internal # {} => \E why : Refusal(nd, why) \in internal
    BY DEF InternalConstraints
  <2>3. CASE internal # {} /\ out' = internal
    BY <2>1, <2>2, <2>3
  <2>4. CASE \E c : out' = {Refusal(c, "no more")}
    BY <2>1, <2>4
  <2> QED BY <2>3, <2>4 DEF TryTransitionToGranted
<1> QED BY <1>1 DEF FirstRefusals

LEMMA RoomLeftNext ==
  ASSUME FiniteCluster, TypesFilledIn, TypeOK, Forward, InStep, BudgetsSettled, RoomLeft,
         ClusterMoves, [Next]_vars
  PROVE  RoomLeft'
<1> SUFFICES ASSUME pc' = "hooks", \A s \in out' : s.ok, NEW b \in ADBs \cup NDBs,
                    seen'.spec.type \in TypesOf(b), IsImpacted(b, seen'.spec.nodes)
             PROVE  Cardinality(Others(b)') + 1 <= Limit(b) + ReadLag
  BY DEF RoomLeft, TypesOf, IsImpacted, Limit
<1>1. CASE \E nd \in NDs : TryTransitionToGranted(nd)
  <2>1. PICK nd \in NDs : TryTransitionToGranted(nd)
    BY <1>1
  <2>2. seen' = cache[nd] /\ UNCHANGED api /\ Len(watch) <= ReadLag
    BY <2>1, ValidationBegins DEF TryTransitionToGranted
  <2>3. b \in Concerned(cache[nd].spec)
    BY <2>2 DEF BudgetsSettled, TypesFilledIn, TypesOf, Concerned
  <2>4. Others(b)' \in SUBSET Charged(b)
    BY <2>2 DEF Others, Charged, Granted, Exists
  <2>5. /\ Cardinality(Counted(b)) \in Nat /\ Cardinality(Others(b)') \in Nat
        /\ Cardinality(Others(b)') <= Cardinality(Counted(b)) + ReadLag
    BY <2>2, <2>4, ChargedSeen
  <2>6. Cardinality(Counted(b)) + 1 <= Limit(b)
    BY <2>1, <2>2, <2>3, <2>5, AllTolerate, ToleratedCounts
  <2> QED BY <2>5, <2>6, LimitType, NDAssumption
<1>2. CASE pc = "hooks" /\ cur' = cur /\ seen' = seen /\ out \subseteq out'
  <2>1. Cardinality(Others(b)) + 1 <= Limit(b) + ReadLag
    BY <1>2 DEF RoomLeft
  <2>2. Others(b)' \in SUBSET Others(b) /\ Others(b) \in SUBSET NDs
    BY <1>2, ChargedMoves, ChargedType DEF Others
  <2>3. /\ Cardinality(Others(b)') \in Nat /\ Cardinality(Others(b)) \in Nat
        /\ Cardinality(Others(b)') <= Cardinality(Others(b))
    BY <2>2, SubsetCounts
  <2> QED BY <2>1, <2>3, LimitType, NDAssumption
<1> QED BY <1>1, <1>2, WorkerMoves

LEMMA CountRespectedNext ==
  ASSUME FiniteCluster, TypeOK, Forward, RoomLeft, CountRespected, ClusterMoves
  PROVE  CountRespected'
<1> SUFFICES ASSUME NEW b \in ADBs \cup NDBs, Charged(b)' # {}
             PROVE  Cardinality(Charged(b)') <= Limit(b) + ReadLag
  BY DEF CountRespected, Limit
<1>0. Charged(b)' \in SUBSET NDs /\ Charged(b) \in SUBSET NDs
  BY DEF Charged
<1>1. CASE Charged(b)' \subseteq Charged(b)
  <2>1. Cardinality(Charged(b)) <= Limit(b) + ReadLag
    BY <1>1 DEF CountRespected
  <2>2. /\ Cardinality(Charged(b)') \in Nat /\ Cardinality(Charged(b)) \in Nat
        /\ Cardinality(Charged(b)') <= Cardinality(Charged(b))
    BY <1>0, <1>1, SubsetCounts
  <2> QED BY <2>1, <2>2, LimitType, NDAssumption
<1>2. CASE ~(Charged(b)' \subseteq Charged(b))
  <2>1. /\ pc = "hooks" /\ ~AnyFailed
        /\ seen.spec.type \in TypesOf(b) /\ IsImpacted(b, seen.spec.nodes)
    BY <1>2, ChargedMoves
  <2>2. Cardinality(Others(b)) + 1 <= Limit(b) + ReadLag
    BY <2>1 DEF RoomLeft, AnyFailed
  <2>3. Charged(b)' \subseteq Others(b) \cup {cur}
    BY ChargedMoves DEF Others
  <2>4. Others(b) \in SUBSET NDs
    BY ChargedType
  <2>5. /\ Cardinality(Charged(b)') \in Nat /\ Cardinality(Others(b)) \in Nat
        /\ Cardinality(Charged(b)') <= Cardinality(Others(b)) + 1
    BY <1>0, <2>3, <2>4, OneMoreCounts, SubsetCounts
  <2> QED BY <2>2, <2>5, LimitType, NDAssumption
<1> QED BY <1>1, <1>2

LEMMA BudgetInvInit == ASSUME BudgetsKept, Init PROVE BudgetInv
<1>1. PICK specOf \in [NDs -> Specs] : api = [nd \in NDs |-> Blank(specOf[nd])]
  BY DEF Init
<1>2. \A nd \in NDs : ~Granted(nd)
  BY <1>1 DEF Blank, Granted
<1>3. BudgetsSettled /\ pc = "idle"
  BY DEF Init, BudgetsSettled, BudgetsKept
<1> QED BY <1>2, <1>3 DEF BudgetInv, RoomLeft, CountRespected, Charged

\* A budget answers for no more disruptions than its limit (TolerateDisruption
\* counts disruptions, for both kinds of budgets), but for as many as the informer
\* had not shown when the budgets were synchronised: provided no budget is deleted
\* or waits for its default types.
THEOREM CountRespectedCorrect ==
  ASSUME FiniteCluster, BudgetsKept, TypesFilledIn PROVE Spec => []CountRespected
<1>1. Init => BudgetInv
  BY BudgetInvInit
<1>2. IInv /\ BudgetInv /\ [Next]_vars => BudgetInv'
  BY NextMoves, BudgetsStay, RoomLeftNext, CountRespectedNext DEF IInv, BudgetInv
<1>3. BudgetInv => CountRespected
  BY DEF BudgetInv
<1> QED BY <1>1, <1>2, <1>3, IInvCorrect, PTL DEF Spec

-----------------------------------------------------------------------------
(* The nodes taken.                                                        *)

\* The elements of a small set can be numbered.
LEMMA Numbered ==
  ASSUME NEW S, IsFiniteSet(S), NEW k \in Nat, Cardinality(S) <= k
  PROVE  \E rank \in [S -> 1..k] : \A m, n \in S : rank[m] = rank[n] => m = n
<1>1. Cardinality(S) \in Nat /\ ExistsBijection(1..Cardinality(S), S)
  BY FS_CardinalityType
<1>2. PICK f \in Surjection(1..Cardinality(S), S) : TRUE
  BY <1>1 DEF ExistsBijection, Bijection
<1> DEFINE rank == Inverse(f, 1..Cardinality(S), S)
<1>3. rank \in Injection(S, 1..Cardinality(S))
  BY <1>2, Fun_SurjInverse
<1> HIDE DEF rank
<1>4. rank \in [S -> 1..Cardinality(S)] /\ \A m, n \in S : rank[m] = rank[n] => m = n
  BY <1>3 DEF Injection, IsInjective
<1>5. 1..Cardinality(S) \subseteq 1..k
  BY <1>1
<1>6. rank \in [S -> 1..k]
  BY <1>4, <1>5
<1> QED BY <1>4, <1>6

\* Disruptions of at most k watched nodes each take no more than k for each: a node
\* taken is known by a disruption that takes it, and its number among the nodes of
\* that disruption.
LEMMA NodesTaken ==
  ASSUME FiniteCluster, TypeOK, NEW b \in ADBs \cup NDBs, NEW k \in Nat, TakesAtMost(b, k)
  PROVE  /\ Cardinality(Down(b)) \in Nat /\ Cardinality(Charged(b)) \in Nat
         /\ Cardinality(Down(b)) <= Cardinality(Charged(b)) * k
<1> DEFINE Taken(nd) == Watched[b] \cap api[nd].spec.nodes
           Ranks(nd) == {rank \in [Taken(nd) -> 1..k] :
                            \A m, n \in Taken(nd) : rank[m] = rank[n] => m = n}
           ranks == [nd \in Charged(b) |-> CHOOSE rank : rank \in Ranks(nd)]
           taker == [n \in Down(b) |-> CHOOSE nd : nd \in Charged(b) /\ n \in Taken(nd)]
           place == [n \in Down(b) |-> <<taker[n], ranks[taker[n]][n]>>]
<1>1. \A nd \in Charged(b) : ranks[nd] \in Ranks(nd)
  <2>1. ASSUME NEW nd \in Charged(b) PROVE \E rank : rank \in Ranks(nd)
    <3>1. api[nd].spec \in Specs
      BY DEF Charged, TypeOK, Objects
    <3>2. IsFiniteSet(Taken(nd)) /\ Cardinality(Taken(nd)) <= k
      BY <3>1, WatchedCounts DEF TakesAtMost
    <3> HIDE DEF Taken
    <3> QED BY <3>2, Numbered
  <2>2. \A nd \in Charged(b) : ranks[nd] = CHOOSE rank : rank \in Ranks(nd)
    BY Zenon
  <2> HIDE DEF ranks, Ranks
  <2> QED BY <2>1, <2>2, Zenon
<1>2. \A n \in Down(b) : taker[n] \in Charged(b) /\ n \in Taken(taker[n])
  <2>1. \A n \in Down(b) : \E nd : nd \in Charged(b) /\ n \in Taken(nd)
    BY DEF Down
  <2>2. \A n \in Down(b) : taker[n] = CHOOSE nd : nd \in Charged(b) /\ n \in Taken(nd)
    BY Zenon
  <2> HIDE DEF taker, Taken
  <2> QED BY <2>1, <2>2, Zenon
<1> HIDE DEF ranks, taker
<1>3. place \in [Down(b) -> Charged(b) \X (1..k)]
  <2>1. ASSUME NEW n \in Down(b) PROVE <<taker[n], ranks[taker[n]][n]>> \in Charged(b) \X (1..k)
    <3>1. taker[n] \in Charged(b) /\ n \in Taken(taker[n])
      BY <1>2
    <3>2. ranks[taker[n]] \in [Taken(taker[n]) -> 1..k]
      BY <1>1, <3>1
    <3> HIDE DEF Taken
    <3> QED BY <3>1, <3>2
  <2> QED BY <2>1, Zenon
<1>4. ASSUME NEW m \in Down(b), NEW n \in Down(b), place[m] = place[n] PROVE m = n
  <2>1. place[m] = <<taker[m], ranks[taker[m]][m]>> /\ place[n] = <<taker[n], ranks[taker[n]][n]>>
    BY Zenon
  <2>2. taker[m] = taker[n] /\ ranks[taker[m]][m] = ranks[taker[n]][n]
    BY <1>4, <2>1, Zenon
  <2>3. ranks[taker[n]] \in Ranks(taker[n]) /\ m \in Taken(taker[n]) /\ n \in Taken(taker[n])
    BY <1>1, <1>2, <2>2
  <2> QED BY <2>2, <2>3
<1> HIDE DEF place
<1>5. place \in Injection(Down(b), Charged(b) \X (1..k))
  BY <1>3, <1>4 DEF Injection, IsInjective
<1>6. IsFiniteSet(Charged(b)) /\ Cardinality(Charged(b)) \in Nat
  BY SubsetCounts, ChargedType
<1>7. IsFiniteSet(1..k) /\ Cardinality(1..k) = k
  BY FS_Interval
<1>8. /\ IsFiniteSet(Charged(b) \X (1..k))
      /\ Cardinality(Charged(b) \X (1..k)) = Cardinality(Charged(b)) * k
  BY <1>6, <1>7, FS_Product
<1>9. IsFiniteSet(Down(b)) /\ Cardinality(Down(b)) <= Cardinality(Charged(b)) * k
  BY <1>5, <1>8, FS_Injection
<1> QED BY <1>6, <1>9, FS_CardinalityType

LEMMA TimesGrows ==
  ASSUME NEW k \in Nat, NEW m \in Int, NEW n \in Int, m <= n PROVE m * k <= k * n
  OBVIOUS

\* No interleaving of requests, hooks, deletions and failures takes more nodes of a
\* budget than its limit lets through (TolerateDisruption), but for what it cannot
\* see: grants on their way to the informer, and that one disruption, which it
\* counts as one, takes several nodes.  Provided no budget is deleted or waits for
\* its default types.
THEOREM BudgetRespectedCorrect ==
  ASSUME FiniteCluster, BudgetsKept, TypesFilledIn PROVE Spec => []BudgetRespected
<1>1. TypeOK /\ CountRespected => BudgetRespected
  <2> SUFFICES ASSUME TypeOK, CountRespected, NEW b \in ADBs \cup NDBs,
                      NEW k \in 1..Cardinality(Nodes), Charged(b) # {}, TakesAtMost(b, k)
               PROVE  Cardinality(Down(b)) <= k * (Limit(b) + ReadLag)
    BY DEF BudgetRespected
  <2>1. Cardinality(Nodes) \in Nat /\ k \in Nat /\ Limit(b) + ReadLag \in Int
    BY FS_CardinalityType, LimitType, NDAssumption DEF FiniteCluster
  <2>2. /\ Cardinality(Down(b)) \in Nat /\ Cardinality(Charged(b)) \in Nat
        /\ Cardinality(Down(b)) <= Cardinality(Charged(b)) * k
    BY <2>1, NodesTaken
  <2>3. Cardinality(Charged(b)) <= Limit(b) + ReadLag
    BY DEF CountRespected
  <2>4. Cardinality(Charged(b)) * k <= k * (Limit(b) + ReadLag)
    BY <2>1, <2>2, <2>3, TimesGrows
  <2> QED BY <2>1, <2>2, <2>4
<1> QED BY <1>1, TypeCorrect, CountRespectedCorrect, PTL
=============================================================================
