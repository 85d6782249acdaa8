--------------------------- MODULE MCDatasetImport ---------------------------
(* DatasetImport with three times of one station and one of another. *)
EXTENDS DatasetImport, TLC

CONSTANTS n1, n2, x1, s1, s2, s3, t1, v1, v2, station, gauge

R(s, v) == [slot |-> s, value |-> v]

MCAssetOf == (s1 :> station) @@ (s2 :> station) @@ (s3 :> station) @@ (t1 :> gauge)

(* A window, the same window after NOAA has reordered and revised it, a    *)
(* window of another station, and one without accepted rows.               *)
MCNoaaBatches ==
  { <<R(s1, v1), R(s2, v1), R(s3, v1)>>, <<R(s2, v1), R(s1, v1), R(s3, v2)>>, <<R(t1, v1)>>,
    <<>> }

(* Files that cross the stations, one of them with a repeated observation. *)
MCOtherBatches ==
  { <<R(t1, v1), R(s2, v1), R(s1, v1)>>, <<R(s1, v2), R(s1, v1), R(t1, v2)>>, <<R(s3, v2)>> }
=============================================================================
