----------------------------- MODULE MCJobQueue -----------------------------
(* JobQueue on small sets of jobs and workers. *)
EXTENDS JobQueue

CONSTANTS w1, w2, e1, e2, a1
=============================================================================
