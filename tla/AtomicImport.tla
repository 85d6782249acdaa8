----------------------------- MODULE AtomicImport -----------------------------
(***************************************************************************)
(* What an import of external telemetry promises: the observations of a    *)
(* batch that were not there before are stored in one step, together with  *)
(* an audit row that counts them.  An import of NOAA observations happens  *)
(* only if what is stored already is what it brings.                       *)
(***************************************************************************)
EXTENDS Naturals, Sequences, FiniteSets

CONSTANTS
  Noaa, Others,               \* imports of the two kinds, each one run of a command
  Slots,                      \* (asset_id, metric, ts): the key of an observation
  NoaaBatches, OtherBatches,  \* sequences of accepted records [slot, value]
  NoRow                       \* a slot without an observation

VARIABLES
  store,  \* store[s]: the observation of s, and the import that brought it
  audit   \* audit[i]: the dataset_import row of i

Imports == Noaa \cup Others

(* The dataset_import row: whether it exists, its status, inserted_rows.   *)
NoAudit == [status |-> "absent", inserted |-> 0]
Validated == [status |-> "validated", inserted |-> 0]
Ingested(n) == [status |-> "ingested", inserted |-> n]

SlotsOf(b) == {b[n].slot : n \in DOMAIN b}

(* The first of several records for one slot is the one that is stored. *)
ValueIn(b, s) ==
  b[CHOOSE n \in DOMAIN b : b[n].slot = s /\ \A k \in 1..(n - 1) : b[k].slot # s].value

New(b) == {s \in SlotsOf(b) : store[s] = NoRow}

(* The same observation, brought by an earlier import from NOAA. *)
SameObservation(row, r) == row # NoRow /\ row.import \in Noaa /\ row.value = r.value

Init ==
  /\ store = [s \in Slots |-> NoRow]
  /\ audit = [i \in Imports |-> NoAudit]

Bring(i, b) ==
  /\ audit[i] = NoAudit
  /\ store' = [s \in Slots |-> IF s \in New(b) THEN [import |-> i, value |-> ValueIn(b, s)]
                               ELSE store[s]]
  /\ audit' = [audit EXCEPT ![i] = Ingested(Cardinality(New(b)))]

ImportNoaa(i, b) ==
  /\ \A n \in DOMAIN b : b[n].slot \notin New(b) => SameObservation(store[b[n].slot], b[n])
  /\ Bring(i, b)

Preview(i) ==
  /\ audit[i] = NoAudit
  /\ audit' = [audit EXCEPT ![i] = Validated]
  /\ UNCHANGED store

Next ==
  \/ \E i \in Noaa, b \in NoaaBatches : ImportNoaa(i, b)
  \/ \E i \in Others : Preview(i) \/ \E b \in OtherBatches : Bring(i, b)

Spec == Init /\ [][Next]_<<store, audit>>
=============================================================================
