----------------------------- MODULE GhcnhSource -----------------------------
(***************************************************************************)
(* What is made of the annual files of one NOAA station: the batch that is *)
(* imported (adapters/noaa_ghcnh.py) and the description of its quality    *)
(* (analytics/noaa_quality.py).  Both read the same rows on their own.     *)
(* Time is counted in report steps; a file is a sequence of rows           *)
(*   [ts, malformed, flaws, amount]                                        *)
(* where flaws are the reasons against the row that its text gives.        *)
(***************************************************************************)
EXTENDS Integers, Sequences, FiniteSets, FiniteSetsExt

CONSTANTS
  Interval,  \* INTERVAL_MINUTES: a report covers the time just before it
  Day, Year, \* the length of a day, and of a year
  Stale,     \* QualityPolicy.stale_after_minutes
  MaxRows    \* DownloadLimits.max_rows

ASSUME LengthAssumption == {Interval, Day, Year, Stale, MaxRows} \subseteq Nat \ {0}

VARIABLE request  \* the requested window of report times, half-open

Start == request.start
End == request.end
Window == Start..(End - 1)

(* GHCNhRequest.years: the annual files that the window touches. *)
Years == (Start \div Year)..((End - 1) \div Year)

Flaws == {"missing_rainfall", "bad_number", "bad_place", "trace_rainfall",
          "unsupported_measurement_code", "source_quality_flag", "missing_source_metadata"}

(* The rows a file can have; only a row with a flaw has no usable amount. *)
SourceRows ==
  {row \in [ts : Nat, malformed : BOOLEAN, flaws : SUBSET Flaws,
            amount : {"observed_zero", "observed_positive", "none"}] :
     row.flaws = {} => row.amount # "none"}

(* The columns that two rows of one time must agree in. *)
Signature(row) == <<row.flaws, row.amount>>

(* The reasons in the order in which the code looks for them. *)
Checks ==
  <<[reason |-> "missing_rainfall", flaws |-> {"missing_rainfall"}],
    [reason |-> "invalid_numeric_value", flaws |-> {"bad_number", "bad_place"}],
    [reason |-> "trace_rainfall", flaws |-> {"trace_rainfall"}],
    [reason |-> "unsupported_measurement_code", flaws |-> {"unsupported_measurement_code"}],
    [reason |-> "source_quality_flag", flaws |-> {"source_quality_flag"}],
    [reason |-> "missing_source_metadata", flaws |-> {"missing_source_metadata"}]>>

(* The first reason that applies. *)
Reason(flaws) == Checks[Min({n \in DOMAIN Checks : Checks[n].flaws \cap flaws # {}})].reason

Reasons == {Reason(F) : F \in (SUBSET Flaws) \ {{}}}

-----------------------------------------------------------------------------
(* The batch *)

EmptyBatch ==
  [failed |-> FALSE, source_rows |-> 0, outside_window |-> 0, received |-> 0,
   duplicates |-> 0, seen |-> {}, records |-> <<>>, rejected |-> 0,
   reasons |-> [r \in Reasons |-> 0]]

Refuse(batch) == [batch EXCEPT !.failed = TRUE]

Count(reasons, r) == [reasons EXCEPT ![r] = @ + 1]

NormalizeRow(batch, row) ==
  IF row.flaws = {}
  THEN [batch EXCEPT !.records = Append(@, [ts |-> row.ts, amount |-> row.amount])]
  ELSE [batch EXCEPT !.rejected = @ + 1, !.reasons = Count(@, Reason(row.flaws))]

(* Mutant of ReceiveRow: a time is remembered only when its row is accepted. *)
ReceiveRowForgetful(batch, row) ==
  LET known == {s \in batch.seen : s[1] = row.ts} IN
    CASE known = {} ->
           NormalizeRow([batch EXCEPT !.seen =
             IF row.flaws = {} THEN @ \cup {<<row.ts, Signature(row)>>} ELSE @], row)
      [] known = {<<row.ts, Signature(row)>>} -> [batch EXCEPT !.duplicates = @ + 1]
      [] OTHER -> Refuse(batch)

ReceiveRow(batch, row) ==
  LET known == {s \in batch.seen : s[1] = row.ts} IN
    CASE known = {} ->
           NormalizeRow([batch EXCEPT !.seen = @ \cup {<<row.ts, Signature(row)>>}], row)
      [] known = {<<row.ts, Signature(row)>>} -> [batch EXCEPT !.duplicates = @ + 1]
      [] OTHER -> Refuse(batch)

(* iter_source_rows: a row that cannot be read, or belongs to another year. *)
Unreadable(row, year) == row.malformed \/ row.ts \div Year # year

ParseRow(batch, row, year, window) ==
  IF batch.failed \/ Unreadable(row, year) THEN Refuse(batch)
  ELSE IF row.ts \in window
  THEN ReceiveRow([batch EXCEPT !.source_rows = @ + 1, !.received = @ + 1], row)
  ELSE [batch EXCEPT !.source_rows = @ + 1, !.outside_window = @ + 1]

ParseChunk(batch, rows, year, window) ==
  IF Len(rows) > MaxRows THEN Refuse(batch)
  ELSE LET after[n \in 0..Len(rows)] ==
             IF n = 0 THEN batch ELSE ParseRow(after[n - 1], rows[n], year, window)
       IN  after[Len(rows)]

-----------------------------------------------------------------------------
(* The description of the quality; rows are all rows read, wherever they    *)
(* were found.                                                             *)

Selected(rows) == {n \in DOMAIN rows : rows[n].ts \in Window}
Reports(rows) == {rows[n].ts : n \in Selected(rows)}
SignaturesAt(rows, t) == {Signature(rows[n]) : n \in {m \in Selected(rows) : rows[m].ts = t}}

StateAt(rows, t) ==
  IF Cardinality(SignaturesAt(rows, t)) > 1 THEN "conflicting_duplicate"
  ELSE LET s == CHOOSE s \in SignaturesAt(rows, t) : TRUE
       IN  IF s[1] = {} THEN s[2] ELSE Reason(s[1])

Quantitative(rows) ==
  {t \in Reports(rows) : StateAt(rows, t) \in {"observed_zero", "observed_positive"}}

ExactDuplicates(rows) ==
  Cardinality(Selected(rows))
    - Cardinality(UNION {{t} \X SignaturesAt(rows, t) : t \in Reports(rows)})

Conflicting(rows) == {t \in Reports(rows) : StateAt(rows, t) = "conflicting_duplicate"}

(* _row_issues: the flaws that are looked for in every row of their own. *)
Issues(row) ==
  row.flaws \cap {"bad_number", "bad_place", "source_quality_flag", "unsupported_measurement_code"}

(* The k-th of the sorted times. *)
NthTime(times, k) == CHOOSE t \in times : Cardinality({u \in times : u <= t}) = k

Smaller(a, b) == IF a < b THEN a ELSE b
Larger(a, b) == IF a > b THEN a ELSE b

Extend(merged, left, right) ==
  IF merged # <<>> /\ left <= merged[Len(merged)][2]
  THEN [merged EXCEPT ![Len(merged)] = <<@[1], Larger(right, @[2])>>]
  ELSE Append(merged, <<left, right>>)

(* _intervals: the union of the observed intervals, clipped to a window. *)
Support(times, from, to) ==
  LET Cover(merged, t) ==
        LET left == Larger(from, t - Interval)
            right == Smaller(to, t)
        IN  IF left >= right THEN merged ELSE Extend(merged, left, right)
      after[k \in 0..Cardinality(times)] ==
        IF k = 0 THEN <<>> ELSE Cover(after[k - 1], NthTime(times, k))
  IN  after[Cardinality(times)]

Minutes(merged) ==
  LET upto[n \in 0..Len(merged)] ==
        IF n = 0 THEN 0 ELSE upto[n - 1] + merged[n][2] - merged[n][1]
  IN  upto[Len(merged)]

(* The gaps before each merged interval, and after the last one. *)
Gaps(merged, from, to) ==
  LET spans == <<<<from, from>>>> \o merged \o <<<<to, to>>>>
  IN  {<<spans[n][2], spans[n + 1][1]>> : n \in {k \in 1..(Len(spans) - 1) :
                                                   spans[k][2] < spans[k + 1][1]}}

Freshness(times) ==
  IF times = {} THEN "no_observation_in_window"
  ELSE IF End - Max(times) > Stale THEN "stale_at_window_end"
  ELSE "within_threshold_at_window_end"

(* The days of the window; the first and the last can be cut. *)
Days == {<<Larger(Start, d * Day), Smaller(End, (d + 1) * Day)>> :
           d \in (Start \div Day)..((End - 1) \div Day)}
=============================================================================
