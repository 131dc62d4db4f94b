------------------------------- MODULE MCMetrics -------------------------------
(***************************************************************************)
(* The instances of MCNodeDisruption, with the published series.           *)
(***************************************************************************)
EXTENDS MCNodeDisruption, NodeDisruptionMetrics
=============================================================================
