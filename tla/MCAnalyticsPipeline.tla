------------------------- MODULE MCAnalyticsPipeline -------------------------
(* AnalyticsPipeline on a city of two pipes. *)
EXTENDS AnalyticsPipeline

CONSTANTS w1, w2, a1, a2, a3, p1, p2
=============================================================================
