------------------------- MODULE MCMetricsPipeline -------------------------
(* A small instance of MetricsPipeline for TLC. *)
EXTENDS MetricsPipeline
CONSTANTS b1, b2, b3, b4

\* b1 takes two INSERTs, b3 is an empty batch.
MCRowCount == b1 :> 3 @@ b2 :> 2 @@ b3 :> 0 @@ b4 :> 1
=============================================================================
