------------------------- MODULE MCIngestIdempotency -------------------------
(* IngestIdempotency with bodies that share slots in opposite orders. *)
EXTENDS IngestIdempotency

CONSTANTS r1, r2, r3, k1, k2, s1, s2, v1, v2

Event(s, v) == [slot |-> s, value |-> v]
Batch(events) == [known |-> TRUE, events |-> events]

(* Two batches that cross, one of them with a repeated and an invalid      *)
(* event, and a batch of an unknown device.                                *)
MCBodies ==
  { Batch(<<Event(s1, v1), Event(s2, v1)>>),
    Batch(<<Event(s2, v2), Event(s1, Invalid), Event(s2, v1), Event(s1, v2)>>),
    [known |-> FALSE, events |-> <<Event(s1, v1)>>] }
=============================================================================
