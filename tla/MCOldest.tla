------------------------------- MODULE MCOldest -------------------------------
(***************************************************************************)
(* The instances of MCNodeDisruption with a history variable: the order in *)
(* which users created their disruptions.                                  *)
(***************************************************************************)
EXTENDS MCNodeDisruption

VARIABLE created    \* the disruptions, oldest first

AgedInit == Init /\ created = <<>>
AgedNext ==
    /\ Next
    /\ created' = IF \E nd \in NDs : api[nd].life = "new" /\ api'[nd].life = "live"
                  THEN Append(created, CHOOSE nd \in NDs :
                                 api[nd].life = "new" /\ api'[nd].life = "live")
                  ELSE created
AgedSpec == AgedInit /\ [][AgedNext]_<<vars, created>>

\* "Node disruption controller will reject any overlapping node disruption,
\* preserving the oldest one" (cmd/main.go): a disruption refused for overlap
\* shares a node with an older one.
OldestPreserved ==
    \A j \in 1..Len(created) :
        /\ Exists(api[created[j]]) /\ api[created[j]].state = "rejected"
        /\ Refusal(created[j], "overlap") \in api[created[j]].st
        => \E i \in 1..(j - 1) :
              api[created[i]].spec.nodes \cap api[created[j]].spec.nodes # {}
=============================================================================
