--------------------------- MODULE ExternalRecords ---------------------------
(***************************************************************************)
(* The commands ingest_external, ingest_rain_gauge_http and                *)
(* ingest_river_level_http up to their transaction: rows are fetched or    *)
(* parsed, a batch is converted to the unit of its metric as a whole, and  *)
(* every row is accepted or rejected for one reason.  The transaction that *)
(* stores them is in DatasetImport.                                        *)
(***************************************************************************)
EXTENDS Integers, Sequences, FiniteSets

CONSTANTS
  RawRows, MaxRows,  \* rows an upstream or a file can hold: device, metric, ts, value
  AssetMap,          \* external ids that are renamed
  CityOf,            \* the stored assets and their cities
  Cities,            \* the values of --city-id, with NoCity
  Factors,           \* Factors[f]: the factor of --units; 1 for files
  NoCity, NoDevice, Unreadable, NoValue

ASSUME RecordAssumption ==
  /\ \A row \in RawRows :
       /\ row = [device |-> row.device, metric |-> row.metric, ts |-> row.ts, value |-> row.value]
       /\ row.metric \in BOOLEAN
  /\ MaxRows \in Nat
  /\ Factors \subseteq Nat
  /\ NoValue \notin Int

VARIABLES
  order,    \* kind of command, --city-id and factor
  raw,      \* the rows as they were received
  rows,     \* the rows as they are now: conversion replaces values
  stage,
  next,     \* the row that is validated next
  records,  \* the accepted ones
  rejected  \* rejected[reason]

batching == <<order, raw, rows, stage, next, records, rejected>>

Reasons == {"device_id", "asset_id", "city", "metric", "ts", "value"}
Kinds == {"file", "rain", "river"}

BatchInit ==
  /\ order \in {o \in [kind : Kinds, city : Cities, factor : Factors] :
                  o.kind = "file" => o.factor = 1}
  /\ raw = <<>> /\ rows = <<>>
  /\ stage = "fetch"
  /\ next = 1
  /\ records = <<>>
  /\ rejected = [r \in Reasons |-> 0]

(* fetch_*_rows or parse_*: anything else raises, and nothing is stored.   *)
Receive ==
  /\ stage = "fetch"
  /\ raw' \in UNION {[1 .. n -> RawRows] : n \in 0 .. MaxRows}
  /\ rows' = raw'
  /\ stage' = IF order.kind = "file" THEN "validate" ELSE "convert"
  /\ UNCHANGED <<order, next, records, rejected>>

ReceiveFails ==
  /\ stage = "fetch"
  /\ stage' = "failed"
  /\ UNCHANGED <<order, raw, rows, next, records, rejected>>

(* convert_units takes finite readings, rainfall only if it is not         *)
(* negative; a row without a reading is left for validation to reject.     *)
Convertible(value) ==
  \/ value = NoValue
  \/ value \in Int /\ (order.kind = "rain" => value >= 0)

Scaled(row) == IF row.value = NoValue THEN row ELSE [row EXCEPT !.value = @ * order.factor]

(* Mutant of Convert: readings are replaced one by one until one fails. *)
ConvertInPlace ==
  /\ stage = "convert"
  /\ LET bad == {i \in DOMAIN rows : ~Convertible(rows[i].value)} IN
       /\ rows' = [i \in DOMAIN rows |-> IF \A b \in bad : i < b THEN Scaled(rows[i]) ELSE rows[i]]
       /\ stage' = "validate"
  /\ UNCHANGED <<order, raw, next, records, rejected>>

(* The batch is converted as a whole; one reading that cannot be fails it. *)
Convert ==
  /\ stage = "convert"
  /\ IF \A i \in DOMAIN rows : Convertible(rows[i].value)
     THEN rows' = [i \in DOMAIN rows |-> Scaled(rows[i])] /\ stage' = "validate"
     ELSE stage' = "failed" /\ UNCHANGED rows
  /\ UNCHANGED <<order, raw, next, records, rejected>>

-----------------------------------------------------------------------------
(* validate_records *)

AssetOfDevice(device) == IF device \in DOMAIN AssetMap THEN AssetMap[device] ELSE device

(* The first reason against a row, in the order of the code. *)
Rejection(row) ==
  LET asset == AssetOfDevice(row.device) IN
  IF row.device = NoDevice THEN "device_id"
  ELSE IF asset \notin DOMAIN CityOf THEN "asset_id"
  ELSE IF order.city # NoCity /\ CityOf[asset] # order.city THEN "city"
  ELSE IF ~row.metric THEN "metric"
  ELSE IF row.ts = Unreadable THEN "ts"
  ELSE IF row.value \notin Int THEN "value"
  ELSE "none"

Validate ==
  /\ stage = "validate"
  /\ next <= Len(rows)
  /\ LET row == rows[next]
         reason == Rejection(row)
     IN  IF reason = "none"
         THEN /\ records' = Append(records, [asset |-> AssetOfDevice(row.device), ts |-> row.ts,
                                             value |-> row.value, source |-> row.device])
              /\ UNCHANGED rejected
         ELSE /\ rejected' = [rejected EXCEPT ![reason] = @ + 1]
              /\ UNCHANGED records
  /\ next' = next + 1
  /\ UNCHANGED <<order, raw, rows, stage>>

(* The transaction follows: the audit row has these counts. *)
Audit ==
  /\ stage = "validate"
  /\ next > Len(rows)
  /\ stage' = "audited"
  /\ UNCHANGED <<order, raw, rows, next, records, rejected>>

BatchNext == Receive \/ ReceiveFails \/ Convert \/ Validate \/ Audit

-----------------------------------------------------------------------------
RejectedInAll ==
  rejected["device_id"] + rejected["asset_id"] + rejected["city"]
    + rejected["metric"] + rejected["ts"] + rejected["value"]

(* A row can be stored: a known device of the city, a metric, a time and a *)
(* reading; nothing else is asked of it.                                   *)
Acceptable(row) ==
  /\ row.device # NoDevice /\ row.metric /\ row.ts # Unreadable /\ row.value \in Int
  /\ AssetOfDevice(row.device) \in DOMAIN CityOf
  /\ order.city \in {NoCity, CityOf[AssetOfDevice(row.device)]}

(* The acceptable ones of the first i rows. *)
Kept(i) == {k \in 1..i : Acceptable(raw[k])}

(* What is stored of a row, its reading converted once. *)
RecordOf(row) ==
  [asset |-> AssetOfDevice(row.device), ts |-> row.ts,
   value |-> row.value * order.factor, source |-> row.device]

(* The audit of an import accounts for every row that was received: its    *)
(* records are the acceptable rows in their order, each reading converted  *)
(* exactly once, and every other row is counted under one reason.  A       *)
(* command that fails has converted nothing and audits nothing, and a      *)
(* converted batch holds no reading its unit does not allow.               *)
AuditReconciles ==
  /\ stage = "audited" =>
       /\ Len(raw) = Len(records) + RejectedInAll
       /\ Len(records) = Cardinality(Kept(Len(raw)))
       /\ \A i \in Kept(Len(raw)) : records[Cardinality(Kept(i))] = RecordOf(raw[i])
       /\ order.kind = "rain" => \A i \in DOMAIN records : records[i].value >= 0
  /\ stage = "failed" => rows = raw /\ records = <<>>
=============================================================================
