---------------------------- MODULE DisruptionGate ----------------------------
(***************************************************************************)
(* What the controller promises the users of NodeDisruptions: a gate.      *)
(*                                                                         *)
(* A user submits a disruption, which claims some nodes; the gate takes it *)
(* in, and answers it once, with a grant or a refusal; the user withdraws  *)
(* it at any time, before or after the answer, which gives the nodes back. *)
(* An exclusive gate never lets two granted disruptions share a node.      *)
(***************************************************************************)
EXTENDS FiniteSets

CONSTANTS NDs, Nodes, Exclusive

VARIABLES phase,    \* what a user reads of each disruption
          claim     \* the nodes each disruption asks for

vars == <<phase, claim>>

Phases == {"new", "unknown", "pending", "granted", "rejected", "gone"}

Init == phase = [nd \in NDs |-> "new"] /\ claim \in [NDs -> SUBSET Nodes]

Move(nd, from, to) ==
    /\ phase[nd] = from
    /\ phase' = [phase EXCEPT ![nd] = to]
    /\ UNCHANGED claim

Submit(nd) == Move(nd, "new", "unknown")
TakeIn(nd) == Move(nd, "unknown", "pending")
Refuse(nd) == Move(nd, "pending", "rejected")

Grant(nd) ==
    /\ Move(nd, "pending", "granted")
    /\ Exclusive => \A other \in NDs \ {nd} :
                        phase[other] = "granted" => claim[other] \cap claim[nd] = {}

Withdraw(nd) == \E from \in Phases \ {"new", "gone"} : Move(nd, from, "gone")

Next == \E nd \in NDs :
            Submit(nd) \/ TakeIn(nd) \/ Refuse(nd) \/ Grant(nd) \/ Withdraw(nd)

Spec == Init /\ [][Next]_vars
=============================================================================
