------------------------------ MODULE BudgetMath ------------------------------
(***************************************************************************)
(* The arithmetic of the two disruption budgets, without their state.      *)
(*                                                                         *)
(* A budget is synchronised against the nodes it watches and the number of *)
(* granted disruptions that touch them, and then asked whether it can take *)
(* one more disruption of a given set of nodes.  Go's ints do not overflow *)
(* here (they count nodes and objects) and math.Min over float64 is exact  *)
(* on them, so Int stands for both.                                        *)
(***************************************************************************)
EXTENDS Integers, FiniteSets

\* ApplicationDisruptionBudget: Sync's DisruptionsAllowed.
AdbAllowed(maxDisruptions, count) == maxDisruptions - count

\* ApplicationDisruptionBudget: TolerateDisruption ignores the nodes.
AdbTolerates(maxDisruptions, count) == AdbAllowed(maxDisruptions, count) - 1 >= 0

Smaller(a, b) == IF a <= b THEN a ELSE b

\* Mutant: the minimum of undisrupted nodes is forgotten.
NdbAllowedByMax(maxDisrupted, minUndisrupted, watched, count) == maxDisrupted - count

\* NodeDisruptionBudget: computeNodeDisruptionBudgetDisruptionsAllowed.
NdbAllowed(maxDisrupted, minUndisrupted, watched, count) ==
    Smaller(maxDisrupted - count, (watched - count) - minUndisrupted)

\* NodeDisruptionBudget: TolerateDisruption, given how many watched nodes the
\* disruption would take.
NdbTolerates(maxDisrupted, minUndisrupted, watched, count, taken) ==
    NdbAllowed(maxDisrupted, minUndisrupted, watched, count) - taken >= 0
=============================================================================
