---------------------------- MODULE MCAlgorithms -----------------------------
(* Algorithms on all pairs of short reviewed windows, all short series and *)
(* all small batches.                                                      *)
EXTENDS Algorithms

CONSTANTS known, remote, alias, stranger

(* Windows that nest, overlap, touch, leave a gap, or are too short. *)
MCReviews == {<<0, 7>>, <<8, 15>>, <<7, 15>>, <<5, 11>>, <<3, 5>>}

Raw(device, value) == [device |-> device, metric |-> TRUE, ts |-> 1, value |-> value]

MCRawRows ==
  {Raw(known, 3), Raw(alias, 0), Raw(remote, 2), Raw(stranger, 1), Raw(NoDevice, 1),
   Raw(known, -1), Raw(known, NoValue), Raw(remote, Unreadable),
   [Raw(known, 2) EXCEPT !.metric = FALSE], [Raw(alias, NoValue) EXCEPT !.ts = Unreadable]}

MCAssetMap == [d \in {alias} |-> known]
MCCityOf == [a \in {known, remote} |-> IF a = known THEN "here" ELSE "elsewhere"]
=============================================================================
