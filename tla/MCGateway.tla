------------------------------ MODULE MCGateway ------------------------------
(* Gateway with a few clients and tenants. *)
EXTENDS Gateway

CONSTANTS r1, r2, c1, c2, c3, t1
=============================================================================
