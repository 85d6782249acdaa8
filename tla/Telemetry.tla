----------------------------- MODULE Telemetry ------------------------------
(***************************************************************************)
(* The table telemetry_observation of one metric: generators, scenario     *)
(* runs and ingest add rows to it, the QA job marks rows and writes its    *)
(* daily row, a client pages through the raw rows of one asset.  The key   *)
(* of a row is its asset and time, whatever scenario it is of.  Where the  *)
(* licence of the database allows it, telemetry_observation_5m is a copy   *)
(* of the rows by buckets, refreshed from time to time, and old rows are   *)
(* dropped.                                                                *)
(***************************************************************************)
EXTENDS Integers, Sequences, FiniteSets, SequencesExt, FiniteSetsExt

CONSTANTS
  Assets,
  NoScenario,
  Writers,       \* what is inserted: Batches[w] for every writer w
  Batches,       \* scenario, and one set of samples <<asset, time, value>> per commit
  Granularity,   \* of the buckets of the QA job and of the reads
  MaxGapBuckets,
  QaStart, QaEnd,          \* the window of the daily row
  OutlierStart,            \* mark_outliers reads the clock again, with its seconds
  DriftStart, DriftMid, DriftEnd,
  Delta, MinValue, MaxValue, Drift,  \* METRIC_RULES
  QaRuns,        \* bound: runs of the QA job
  Queries,       \* evidence requests: asset, scenario asked for, from, to
  Limit,         \* rows of a page
  Times,         \* where the windows that are read begin and end
  StartOffset, EndOffset, Period,    \* of the policy that refreshes the copy
  Retention, ChunkWidth,             \* of the policy that drops rows
  LastTick,      \* bound: of the clock
  NoRow

ASSUME GranularityAssumption == Granularity \in Nat \ {0}
ASSUME LimitAssumption == Limit \in Nat \ {0}
ASSUME WindowAssumption == {QaStart, QaEnd, MaxGapBuckets} \cup Times \subseteq Int
ASSUME PolicyAssumption ==
  /\ {StartOffset, EndOffset, LastTick} \subseteq Int /\ Period \in Nat
  /\ Granularity + EndOffset + Period <= StartOffset
ASSUME BatchesAssumption ==
  \A w \in Writers :
    /\ Batches[w].commits \in Seq(SUBSET (Assets \X Int \X Int))
    /\ \A n \in DOMAIN Batches[w].commits : IsFiniteSet(Batches[w].commits[n])

VARIABLES
  table,      \* the committed rows: [asset \X time -> value, flag, scenario]
  scenarios,  \* scenario_run, in the order of created_at
  begun,      \* writers that need no scenario_run, or have stored it
  committed,  \* committed[w]: the commits of writer w
  qa, daily,  \* the QA job and its row
  page, pages, \* the evidence client and the pages it received
  licensed,   \* does the licence allow policies and continuous aggregates?
  clock,
  rollup,     \* telemetry_observation_5m: its buckets, and when it was refreshed
  since,      \* history: when the rows were committed
  dropped     \* history: what was dropped, as <<asset, time, value>>

rows == <<table, scenarios, begun, committed, since>>
checks == <<qa, daily>>
client == <<page, pages>>
view == <<licensed, clock, rollup, dropped>>
telemetryVars == <<rows, checks, client, view>>

Row(value, flag, scenario) == [value |-> value, flag |-> flag, scenario |-> scenario]

TelemetryInit(queries, licences, instant) ==
  /\ table = <<>>
  /\ scenarios = <<>>
  /\ begun = {w \in Writers : Batches[w].scenario = NoScenario}
  /\ committed = [w \in Writers |-> 0]
  /\ qa = [pc |-> "idle", runs |-> 0, outliers |-> {}, drifts |-> {}, row |-> NoRow, missing |-> 0]
  /\ daily = [row |-> NoRow, missing |-> 0]
  /\ \E q \in queries : page = [pc |-> "resolve", query |-> q, resolved |-> NoScenario,
                                offset |-> 0, before |-> {}]
  /\ pages = <<>>
  /\ licensed \in licences
  /\ clock = instant
  /\ rollup = [at |-> instant, cells |-> <<>>]
  /\ since = <<>>
  /\ dropped = {}

TimesOf(S) == {k[2] : k \in S}
RowsOf(t, a) == {k \in DOMAIN t : k[1] = a}
BaseKeys(t) == {k \in DOMAIN t : t[k].scenario = NoScenario}

-----------------------------------------------------------------------------
(* The writers *)

(* run_scenario commits the row of scenario_run before any telemetry. *)
StartScenario(w) ==
  /\ w \notin begun
  /\ begun' = begun \cup {w}
  /\ scenarios' = Append(scenarios, Batches[w].scenario)
  /\ UNCHANGED <<table, committed, since, checks, client, view>>

Samples(samples, scenario) ==
  [k \in {<<s[1], s[2]>> : s \in samples} |->
     Row((CHOOSE s \in samples : <<s[1], s[2]>> = k)[3], "ok", scenario)]

(* ON CONFLICT (asset_id, metric, ts) DO NOTHING *)
OnConflict(t, new) ==
  [k \in DOMAIN t \cup DOMAIN new |-> IF k \in DOMAIN t THEN t[k] ELSE new[k]]

(* _upsert_series for the series of a city, and its commit. *)
CommitSeries(w) ==
  /\ w \in begun
  /\ committed[w] < Len(Batches[w].commits)
  /\ LET samples == Batches[w].commits[committed[w] + 1]
     IN  table' = OnConflict(table, Samples(samples, Batches[w].scenario))
  /\ committed' = [committed EXCEPT ![w] = @ + 1]
  /\ since' = [k \in DOMAIN table' |-> IF k \in DOMAIN table THEN since[k] ELSE clock]
  /\ UNCHANGED <<scenarios, begun, checks, client, view>>

-----------------------------------------------------------------------------
(* The QA job: one transaction whose statements see the rows committed     *)
(* between them, and the marks it has made itself.                         *)

Distance(x, y) == IF x < y THEN y - x ELSE x - y

Marked == qa.outliers \cup qa.drifts
FlagOf(k) == IF k \in Marked THEN "suspect" ELSE table[k].flag

(* LAG over the rows of the asset from OutlierStart on. *)
Before(k) == {j \in BaseKeys(table) : j[1] = k[1] /\ OutlierStart <= j[2] /\ j[2] < k[2]}
Previous(k) == CHOOSE j \in Before(k) : \A i \in Before(k) : i[2] <= j[2]

Outlying(k) ==
  \/ Before(k) # {} /\ Distance(table[k].value, table[Previous(k)].value) > Delta
  \/ table[k].value < MinValue \/ table[k].value > MaxValue

mark_outliers ==
  /\ qa.pc = "idle" /\ qa.runs < QaRuns
  /\ qa' = [qa EXCEPT !.pc = "drift", !.runs = @ + 1, !.drifts = {},
              !.outliers = {k \in BaseKeys(table) : /\ k[2] >= OutlierStart /\ Outlying(k)
                                                    /\ table[k].flag = "ok"}]
  /\ UNCHANGED <<rows, daily, client, view>>

Within(a, from, to) ==
  {k \in BaseKeys(table) : k[1] = a /\ from <= k[2] /\ k[2] < to}

Total(S) == FoldSet(LAMBDA k, sum : table[k].value + sum, 0, S)

(* The averages differ by more than Drift, without dividing. *)
Drifts(a) ==
  LET now == Within(a, DriftMid, DriftEnd)
      past == Within(a, DriftStart, DriftMid)
      n == Cardinality(now)
      p == Cardinality(past)
  IN  n > 0 /\ p > 0 /\ Distance(Total(now) * p, Total(past) * n) > Drift * n * p

(* The averages are of base rows; the rows that are marked are of any      *)
(* scenario.                                                               *)
mark_drift ==
  /\ qa.pc = "drift"
  /\ qa' = [qa EXCEPT !.pc = "gaps",
              !.drifts = {k \in DOMAIN table : /\ Drifts(k[1]) /\ FlagOf(k) = "ok"
                                               /\ DriftMid <= k[2] /\ k[2] < DriftEnd}]
  /\ UNCHANGED <<rows, daily, client, view>>

time_bucket(t) == (t \div Granularity) * Granularity

Window(a) == Within(a, QaStart, QaEnd)
Buckets(S) == {<<k[1], time_bucket(k[2])>> : k \in S}
Seen == {a \in Assets : Window(a) # {}}
Span(a) == Max(TimesOf(Window(a))) - Min(TimesOf(Window(a)))

(* Mutant of Present: buckets of different assets are not told apart. *)
PresentOfAll == Cardinality({b[2] : b \in Buckets(UNION {Window(a) : a \in Seen})})

(* The sum over the assets, as the number of what is added up. *)
Expected == Cardinality(UNION {{a} \X (0 .. Span(a) \div Granularity) : a \in Seen})
Present == Cardinality(Buckets(UNION {Window(a) : a \in Seen}))

(* History: the buckets between the first and the last row of an asset     *)
(* that hold none of its rows.                                             *)
Empty(a) ==
  {b \in time_bucket(Min(TimesOf(Window(a)))) .. time_bucket(Max(TimesOf(Window(a)))) :
     /\ b % Granularity = 0
     /\ <<a, b>> \notin Buckets(Window(a))}
Missing == Cardinality(UNION {{a} \X Empty(a) : a \in Seen})

Monus(x, y) == IF x > y THEN x - y ELSE 0

(* The two queries of _qa_gaps; the second sees the marks. *)
QaBuckets ==
  /\ qa.pc = "gaps"
  /\ qa' = [qa EXCEPT !.pc = "suspects", !.missing = Missing,
              !.row = IF Seen = {} THEN NoRow
                      ELSE [assets |-> Cardinality(Seen), expected |-> Expected,
                            present |-> Present, gaps |-> Monus(Expected, Present)]]
  /\ UNCHANGED <<rows, daily, client, view>>

(* The day's row is replaced, and everything is committed. *)
QaCommit ==
  /\ qa.pc = "suspects"
  /\ LET suspects == {k \in UNION {Window(a) : a \in Assets} : FlagOf(k) = "suspect"} IN
     daily' = [missing |-> qa.missing,
               row |-> IF qa.row = NoRow THEN NoRow
                       ELSE [assets |-> qa.row.assets, expected |-> qa.row.expected,
                             present |-> qa.row.present, gaps |-> qa.row.gaps,
                             suspects |-> Cardinality(suspects),
                             outliers |-> Cardinality(qa.outliers),
                             drifts |-> Cardinality(qa.drifts)]]
  /\ table' = [k \in DOMAIN table |-> [table[k] EXCEPT !.flag = FlagOf(k)]]
  /\ qa' = [qa EXCEPT !.pc = "idle", !.outliers = {}, !.drifts = {}, !.row = NoRow, !.missing = 0]
  /\ UNCHANGED <<scenarios, begun, committed, since, client, view>>

-----------------------------------------------------------------------------
(* GET /assets/{id}/observations/evidence, page after page *)

ScenarioIds == Range(scenarios)

resolve_scenario_id(name) ==
  IF name = "latest" THEN IF scenarios = <<>> THEN NoScenario ELSE Last(scenarios)
  ELSE IF name \in ScenarioIds THEN name ELSE NoScenario

Matching(q, scenario) ==
  {k \in RowsOf(table, q.asset) : /\ table[k].scenario = scenario
                                  /\ q.from <= k[2] /\ k[2] < q.to}

(* How many rows come before k, ORDER BY ts. *)
Rank(k, S) == Cardinality({j \in S : j[2] < k[2]})

Slice(S, offset, limit) == {k \in S : Rank(k, S) \in offset .. offset + limit - 1}

(* The first query of a page. *)
Resolve ==
  /\ page.pc = "resolve"
  /\ LET asked == page.query.scenario
         resolved == IF asked = NoScenario THEN NoScenario ELSE resolve_scenario_id(asked)
     IN  page' = [page EXCEPT !.resolved = resolved,
                    !.pc = IF asked # NoScenario /\ resolved = NoScenario THEN "refused" ELSE "read"]
  /\ UNCHANGED <<rows, checks, pages, view>>

(* Mutant of NextOffset: the row that was read ahead is skipped. *)
NextOffsetPastAhead(offset) == offset + Limit + 1

NextOffset(offset) == offset + Limit

(* The second: one row more than the page tells whether there are others. *)
ReadPage ==
  /\ page.pc = "read"
  /\ LET found == Matching(page.query, page.resolved)
         more == \E k \in found : Rank(k, found) >= page.offset + Limit
     IN  /\ pages' = Append(pages, [scenario |-> page.resolved, more |-> more,
                                    rows |-> Slice(found, page.offset, Limit)])
         /\ page' = [page EXCEPT !.pc = IF more THEN "resolve" ELSE "done",
                       !.offset = IF more THEN NextOffset(@) ELSE @,
                       !.before = IF pages = <<>> THEN found ELSE @]
  /\ UNCHANGED <<rows, checks, view>>

-----------------------------------------------------------------------------
(* What the database does by itself, where it is licensed to               *)

(* An aggregate is its bucket and the values it is of; avg, min and max    *)
(* are functions of these.                                                 *)
Reading(k) == <<k[2], table[k].value>>

Aggregate(S) == [b \in {time_bucket(k[2]) : k \in S} |->
                   {Reading(k) : k \in {j \in S : time_bucket(j[2]) = b}}]

(* Mutant of Covered: what has ended since the last refresh.               *)
CoveredOnce(b) == rollup.at - EndOffset < b + Granularity /\ b + Granularity <= clock - EndOffset

(* The whole buckets of the policy's window. *)
Covered(b) == clock - StartOffset <= b /\ b + Granularity <= clock - EndOffset

(* Rows of every scenario are aggregated, those that came late as well; a  *)
(* bucket outside of the window stays as it is.                            *)
Refresh ==
  /\ licensed /\ rollup.at < clock
  /\ LET kept == {c \in DOMAIN rollup.cells : ~Covered(c[2])}
         made == {c \in Buckets(DOMAIN table) : Covered(c[2])}
     IN  rollup' = [at |-> clock,
                    cells |-> [c \in kept \cup made |->
                       IF c \in made THEN Aggregate(RowsOf(table, c[1]))[c[2]] ELSE rollup.cells[c]]]
  /\ UNCHANGED <<rows, checks, client, licensed, clock, dropped>>

(* The job of the policy runs in time. *)
Tick ==
  /\ clock < LastTick
  /\ licensed => clock < rollup.at + Period
  /\ clock' = clock + 1
  /\ UNCHANGED <<rows, checks, client, licensed, rollup, dropped>>

(* Chunks are dropped whole, when all of their rows are too old. *)
Cut == ((clock - Retention) \div ChunkWidth) * ChunkWidth

Retain ==
  /\ licensed
  /\ LET old == {k \in DOMAIN table : k[2] < Cut} IN
       /\ old # {}
       /\ dropped' = dropped \cup {<<k[1], k[2], table[k].value>> : k \in old}
       /\ table' = Restrict(table, DOMAIN table \ old)
       /\ since' = Restrict(since, DOMAIN table \ old)
  /\ UNCHANGED <<scenarios, begun, committed, checks, client, licensed, clock, rollup>>

-----------------------------------------------------------------------------
(* GET /assets/{id}/observations *)

(* What is in the copy, whole buckets at a time and of all scenarios. *)
RollupRead(a, from, to) ==
  [b \in {c[2] : c \in {d \in DOMAIN rollup.cells : d[1] = a /\ from <= d[2] /\ d[2] < to}} |->
     rollup.cells[<<a, b>>]]

RawRead(a, scenario, from, to) ==
  Aggregate(Matching([asset |-> a, from |-> from, to |-> to], scenario))

(* Mutant of LastBucket: the end of the window belongs to it. *)
LastBucketIncluded(to) == time_bucket(to)

LastBucket(to) == time_bucket(to - 1)

GridFits(from, to) ==
  (to - from + Granularity - 1) \div Granularity + 1 <= MaxGapBuckets

Grid(from, to) == {b \in time_bucket(from) .. LastBucket(to) : b % Granularity = 0}

(* The grid, joined with the raw read: {} where there is no row. *)
GapRead(a, scenario, from, to) ==
  LET observed == RawRead(a, scenario, from, to)
  IN  [b \in Grid(from, to) |-> IF b \in DOMAIN observed THEN observed[b] ELSE {}]

Answer(status, buckets) == [status |-> status, buckets |-> buckets]

(* The read of a scenario, or of the rows without one; rolled tells that   *)
(* the granularity is spelled as in _CAGG_GRANULARITY.  Without a licence  *)
(* the table that is read then does not exist.                             *)
get_observations(a, scenario, from, to, gaps, rolled) ==
  IF rolled /\ ~gaps /\ scenario = NoScenario
  THEN IF licensed THEN Answer(200, RollupRead(a, from, to)) ELSE Answer(500, <<>>)
  ELSE IF ~gaps THEN Answer(200, RawRead(a, scenario, from, to))
  ELSE IF GridFits(from, to) THEN Answer(200, GapRead(a, scenario, from, to)) ELSE Answer(400, <<>>)

-----------------------------------------------------------------------------
WriterStep(w) == StartScenario(w) \/ CommitSeries(w)

Write == \E w \in Writers : WriterStep(w)
Check == mark_outliers \/ mark_drift \/ QaBuckets \/ QaCommit
Page == Resolve \/ ReadPage
Maintain == Refresh \/ Tick \/ Retain

-----------------------------------------------------------------------------
(* A client that follows next_offset to the end while rows are added       *)
(* misses no row that was there when it began: it may only see a row       *)
(* twice.  It may miss rows only where old ones are dropped in between.    *)
(* Every page is of the scenario it names, and the pages are all of one    *)
(* scenario unless the client asked for the latest.                        *)
PagesSkipNothing ==
  LET seen == UNION {pages[i].rows : i \in DOMAIN pages}
      same == \A i \in DOMAIN pages : pages[i].scenario = pages[1].scenario
  IN  /\ page.query.scenario # "latest" => same
      /\ dropped = {} =>
           /\ page.pc = "done" /\ same => page.before \subseteq seen
           /\ \A i \in DOMAIN pages : \A k \in pages[i].rows :
                table[k].scenario = pages[i].scenario

AnyScenario == ScenarioIds \cup {NoScenario}

(* The grid of buckets and the raw rows agree, for every scenario and for  *)
(* every window, whichever way the granularity is spelled: without empty   *)
(* apart, the grid gives what the raw read gives, and it has one bucket    *)
(* for every part of the window, at most MaxGapBuckets.                    *)
ReadsAgree ==
  \A a \in Assets, from \in Times, to \in Times, s \in AnyScenario :
    from < to =>
      LET raw == get_observations(a, s, from, to, FALSE, FALSE)
          gap == get_observations(a, s, from, to, TRUE, TRUE)
      IN  gap.status = 200 =>
            /\ {b \in DOMAIN gap.buckets : gap.buckets[b] # {}} = DOMAIN raw.buckets
            /\ \A b \in DOMAIN raw.buckets : gap.buckets[b] = raw.buckets[b]
            /\ DOMAIN gap.buckets = {time_bucket(t) : t \in from .. to - 1}
            /\ Cardinality(DOMAIN gap.buckets) <= MaxGapBuckets

(* The rows of bucket b, of every scenario, and what was dropped of it. *)
Readings(a, b) ==
  {Reading(k) : k \in {j \in RowsOf(table, a) : time_bucket(j[2]) = b}}
    \cup {<<d[2], d[3]>> : d \in {e \in dropped : e[1] = a /\ time_bucket(e[2]) = b}}

(* The copy has had the time to take in row k: one refresh at least came   *)
(* after k was committed and its bucket had ended, and before the bucket   *)
(* was too old for it.                                                     *)
Settled(k) ==
  LET b == time_bucket(k[2]) IN
  /\ since[k] + Period < clock
  /\ b + Granularity + EndOffset + Period <= clock
  /\ since[k] + Period <= b + StartOffset

(* The read of base rows at five minutes is of the copy.  It invents       *)
(* nothing, and holds every row in its bucket no later than one period     *)
(* after the row was committed and its bucket ended EndOffset ago, if the  *)
(* row was not too late itself: rows of scenarios as well, which are thus  *)
(* mixed with the base rows.  It goes on to hold rows that are dropped.    *)
RollupLags ==
  licensed => \A a \in Assets, from \in Times, to \in Times : from < to =>
    LET rolled == get_observations(a, NoScenario, from, to, FALSE, TRUE).buckets IN
    /\ \A b \in DOMAIN rolled : rolled[b] \subseteq Readings(a, b)
    /\ \A k \in RowsOf(table, a) :
         LET b == time_bucket(k[2]) IN
         Settled(k) /\ from <= b /\ b < to => b \in DOMAIN rolled /\ Reading(k) \in rolled[b]

(* The gaps of the daily row are real: as many buckets of the window were  *)
(* without a row of their asset, and at most one more for every asset.     *)
(* It counts every suspect row of the window, so that outliers and drifts  *)
(* exceed the suspects by no more than the marks outside of the window and *)
(* on rows of scenarios.                                                   *)
GapsAreReal ==
  daily.row # NoRow =>
    /\ daily.row.gaps <= daily.missing
    /\ daily.missing <= daily.row.gaps + daily.row.assets
    /\ LET outside == {k \in DOMAIN table : /\ table[k].flag = "suspect"
                         /\ (k \notin BaseKeys(table) \/ k[2] < QaStart \/ k[2] >= QaEnd)}
       IN  daily.row.outliers + daily.row.drifts
             <= daily.row.suspects + Cardinality(outside)
=============================================================================
