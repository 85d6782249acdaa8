# Verification of floodmvp in TLA+

floodmvp is a backend for urban flood monitoring: a FastAPI service over
PostgreSQL, a pool of worker processes that take jobs from a table, a scheduler
that enqueues analytics, batch importers for external telemetry, and analytics
that turn telemetry into events and risk scores, and scripts that prove a deployment works. This directory holds TLA+
specifications of its parts, TLC configurations that check them on small
instances, and proofs checked by TLAPS that hold for every instance.

Paths below are relative to `src/src/floodmvp/`, except `docs/...` and `scripts/...`, which are relative to `src/`.

## 1. Inventory

| Component | State it keeps | Operations | What is hard |
| --- | --- | --- | --- |
| Job queue and workers (`jobs/queue_worker.py`, `storage/repos/jobs.py`, `api/routers/jobs.py`) | `job_queue` rows (status, attempts, lock, error, `scheduled_at`), one open transaction per worker | enqueue, claim (`FOR UPDATE SKIP LOCKED`), handle, success, failure with backoff, cancel, retry | several workers, kills in any statement, connections closed by the server, operator requests during a claim, the attempt limit tested in two places |
| Exports and reports (`api/routers/analytics.py`, `storage/repos/analytics.py`) | `export_job` rows, CSV files on disk | create, run, download, poll | the file is outside the transaction; two rows describe one job |
| Analytics pipeline (`jobs/run_analytics.py`, `jobs/scheduler.py`, `jobs/enqueue_analytics.py`) | `analytics_run`, `asset_status_latest`, event tables | schedule, enqueue, run, publish | commits inside the worker's transaction, overlapping runs of one city, row locks and deadlocks |
| Ingest API (`api/routers/ingest.py`, `storage/repos/ingest.py`) | `telemetry_observation`, `ingest_idempotency` | ingest a batch, replay, conflict, prune | simultaneous retries, timeouts and lost answers, expiry, batches that share observations |
| Evaluation (`analytics/evaluation.py`) | none, a pure function | merge windows, assign events, match, count | asymmetric tolerances, half-open bounds, the claim that a greedy loop is optimal |
| Threshold events (`analytics/threshold_events.py`, used by `rain_events.py` and `overflow_events.py`) | none | split a series into sustained exceedances | gaps, repeated times, the median cadence at the borders |
| API gateway (`api/main.py`) | two LRU caches of token buckets, the open requests | rate limit of client and tenant, body limit, deadline | accounts over irregular intervals, eviction of a bucket, one deadline for upload and endpoint |
| NOAA import and quality (`adapters/noaa_ghcnh.py`, `analytics/noaa_quality.py`, `jobs/ingest_noaa_ghcnh.py`, `jobs/validate_noaa_ghcnh.py`) | files as they arrive, report files | download, parse, preview, import, describe | an upstream that drips, breaks off or contradicts itself; two readers of the same rows; a lost commit acknowledgement |
| External imports (`adapters/external_ingest.py`, `adapters/*_http.py`, `jobs/ingest_*.py`) | a batch in memory | fetch, convert, validate, store | conversion of a batch that fails half way, one reason for each rejected row |
| Transactions of imports (`storage/repos/noaa_ghcnh.py`, `jobs/ingest_external.py`) | `dataset_import`, `telemetry_observation` | persist a batch | repeated and conflicting observations, concurrent writers, all or nothing |
| Authentication (`common/auth.py`) | none | admit or refuse | precedence of token, key and configuration |
| Telemetry reads and QA (`api/routers/telemetry.py`, `storage/repos/telemetry.py`, `jobs/qa_telemetry.py`, `infra/db/migrations/versions/0003_timescale_policies.py`) | `telemetry_observation`, `telemetry_observation_5m`, `scenario_run`, `telemetry_qa_daily` | page, aggregate, refresh, drop, mark, count gaps | rows added between pages and statements, scenarios beside base rows, borders of buckets, a copy that lags and that not every edition of the database has |
| Assets (`api/routers/assets.py`, `storage/repos/assets.py`) | `asset` | traverse upstream and downstream | cycles, missing nodes, a network that grows between two queries |
| Operational scripts (`scripts/smoke_stack.py`, `recovery_drill.py`, `recovery_probe.py`, `noaa_case_study.py`) | a Compose project or a container of their own, result files | build, exercise, break, verify, remove | failures, timeouts and signals anywhere, also during the removal |
| Notes, events, cities, synthetic data, settings, observability, migrations, web client | see `PROJECT.json` | | |

How they interact. The API and the scheduler insert `job_queue` rows; workers
claim them. The only shared state is the database and the directory of exports:
there are no messages between processes, so every interaction is a row lock, a
WHERE clause tested again after a wait, a unique key, an advisory lock, or a
commit that makes rows visible. A worker calls `_handle_export`,
`_handle_report` or `_handle_analytics` inside a savepoint of its transaction.
`_handle_analytics` calls `run_city_analytics`, which commits that transaction.
`get_city_status` combines the latest `analytics_run` with
`asset_status_latest`. The import commands end in one transaction each, which meets those of other imports
and of the API. The QA job and the readers of telemetry see whatever was committed between two of
their statements. The scripts drive all of it from outside and see only exit statuses, files and answers.

What makes each part correct:

* queue: one owner per job; cancel and retry never act under a running handler;
  a settled pair of rows stays settled and agrees; the lock fields and the attempt count tell
  the truth; a completed export has a whole file; every job is settled in the end;
* pipeline: statuses are replaced as a whole; runs that overlap fail rather than
  mix; the reported statuses belong to the reported run;
* ingest: a batch is applied once and completely, whatever is retried; a
  repeated key gets the first answer; two requests never wait for each other for ever;
* imports: a batch is stored as a whole or not at all, its audit row counts what it stored, and a NOAA
  batch never passes over a value that differs;
* gateway: nobody gets more than burst and rate, nobody within them is refused; only idle buckets are
  reset; a request is over at its deadline, wherever it is slow;
* evaluation and detection: no match is lost by greed, by trimming or by grouping; every event
  is counted once; an episode is as long as it can be and bridges no outage;
* NOAA commands: what is parsed came whole from one response in bounded time; import and quality
  report agree on every row; nobody is told of an import that is not stored;
* external batches: every received row is stored, converted once, or counted under one reason;
* reads: paging skips nothing, the raw and the gap-filled read of a series agree and the continuous aggregate lags by no more than
  its policy allows, gaps are real, a traversal is complete, and answers go only to those the configuration admits;
* scripts: success was shown in this run, nobody else's resources are removed, and every script ends.

`PROJECT.json` lists every component and, under `hazards`, every place of the code
that is hard to test, with the properties that cover it.

## 2. Modules

| Module | Models | Built on |
| --- | --- | --- |
| `QueueRows` | the columns of a `job_queue` row and the five functions that write them | |
| `JobQueue` | the queue, its workers, exports, faults | `QueueRows` |
| `JobLifecycle` | abstract: what the API promises about the two rows of a job | `QueueRows` |
| `AnalyticsPipeline` | scheduler and handler of an analytics job, statement by statement | `JobQueue` |
| `AtomicIngest` | abstract: a batch is applied in one step | |
| `IngestIdempotency` | the ingest handler, its locks, retention | refines `AtomicIngest` |
| `AtomicImport` | abstract: an import stores what is new in one step | |
| `DatasetImport` | the transactions of NOAA, file and HTTP imports, and their locks | refines `AtomicImport` |
| `TokenBuckets` | a cache of token buckets: `_TokenBucket`, `_get_bucket` | |
| `Gateway` | the middleware `add_request_id` | two instances of `TokenBuckets` |
| `EventMatching` | the greedy loop `_match` | |
| `EventEvaluation` | `evaluate_events` for one station | `EventMatching` |
| `ThresholdEvents` | `detect_threshold_events` | |
| `ExternalRecords` | rain gauge, river level and file imports up to their transaction | |
| `Algorithms` | the three above, one computation per behaviour | `EventEvaluation`, `ThresholdEvents`, `ExternalRecords` |
| `GhcnhSource` | what is made of the rows of NOAA files: the batch and the quality description | |
| `GhcnhCommands` | one run of the import or the quality command | `GhcnhSource` |
| `Access` | the decisions of `common/auth.py`, as operators | |
| `AssetReads` | the traversal endpoints, query by query | `Access` |
| `Telemetry` | writers of telemetry, the QA job, evidence pages, reads of a series | |
| `ApiReads` | the reads of the API while others write | `Telemetry`, `AssetReads` |
| `DisposableStack` | `run()` of the scripts that build a Compose project | |
| `SmokeStack`, `RecoveryDrill` | their `exercise()`, and the containers it waits for | `DisposableStack` |
| `CaseStudy` | `run()` of the case study, with its container | |
| `Stacks` | one script per behaviour | `SmokeStack`, `RecoveryDrill`, `CaseStudy` |
| `JobQueueProofs` | theorems about the queue, its refinement and the pipeline | `AnalyticsPipeline` |
| `TokenBucketsProofs`, `GatewayProofs`, `IngestIdempotencyProofs`, `AlgorithmsProofs`, `ApiReadsProofs`, `StacksProofs` | theorems | the module each is named for |
| `DatasetImportProofs` | theorems about the transactions of imports and about the NOAA commands | `DatasetImport`, `GhcnhCommands` |
| `MC...` | small sets and symmetries for TLC | the module each is named for |

A definition whose comment says "Mutant of" is a plausible mistake in the code.
No specification uses it: putting it in the place of the definition must
make the property listed next to it in `PROJECT.json` fail.

### JobQueue

`row[j]` and `export[j]` are the committed rows. A worker `w` has a program
counter `pc[w]`, its job and the uncommitted images `txRow[w]`, `txExport[w]`;
`held[j]` is the row lock of the claim. `due` and `ahead` are `scheduled_at`,
reduced to which rows are due and in which order `ORDER BY scheduled_at` returns
them. `artifact[j]` is the CSV file. `published[j]` counts the analytics runs that job has
committed. `lost` holds the workers whose connection the server has closed while
they have not noticed.

| Action | Code |
| --- | --- |
| `Submit` | `create_job` or the scheduler with `enqueue`, one commit |
| `Claim` | `fetch_next_job`: the first due, queued, unlocked row |
| `StartExport`, `OpenFile`, `CloseFile`, `ExportSucceeds` | `_handle_export` and `_handle_report` with `run_export_csv` and `run_report_csv` |
| `PublishRun`, `AnalyticsSucceeds` | `_handle_analytics`: the inner commit, then `mark_job_success` in the next transaction |
| `HandlerRaises` | the savepoint is rolled back, `mark_job_failed`, the error of the pair on the last attempt |
| `Commit` | the commit that ends the iteration of `run_worker` |
| `Cancel`, `Retry` | `cancel_job`, `retry_job` |
| `BackoffElapses` | the delay of `_backoff` has passed |
| `Crash`, `LoseConnection`, `NoticeLostConnection`, `Restart` | faults, and what the process does next |

`ImplementsLifecycle` maps the two rows to `JobLifecycle`: there an attempt
happens in one step, and nothing happens between attempts but requests.

### AnalyticsPipeline

It extends `JobQueue` and splits the handler of an analytics job: `BeginReset` and
`FinishReset` are the DELETE of the city's statuses (what it sees when it
begins, what it finds after waiting), `Score` is the INSERT of one pipe in the order of
a SELECT that has no ORDER BY, `Publish` is the inner commit. `Collide` is the
primary key violation, `BreakDeadlock` the server's answer to a cycle of
waits. `SchedulerDecides` and `SchedulerCommits` are two steps because the
scheduler looks for an unfinished job and inserts later, without a lock.
`EnqueueManually` is `jobs/enqueue_analytics.py`. `started` is the order in which the
transactions that store a run began: `created_at` is `now()`.

### IngestIdempotency

`Receive` takes a request with or without a key. `pc[r]` is then "locking" (the advisory lock of
its key, `holder`), "expiring", "looking" (replay or first use), "checking" (the asset), "inserting" (the
events, one at a time) and "committed", until `Reply`. `store` and `keyRow` are the committed observations and
keys, `mine[r]` the observations of an open transaction: an INSERT that meets another transaction's
uncommitted observation waits for it, and so does the DELETE of an expired key. `Abort` is the timeout of the gateway or any error; `Reply`
may reach the client or be lost, and a client may come again with the same key. `Expire`, `Prune` and `EndPrune` are
the retention of keys (`storage/repos/ingest.py`). Expiry is tested with the `now()` of the begin of
the transaction, even after a wait for the lock: that is `late[r]`. A row does not expire while a request
that began before its expiry is still open: retention is days, and the gateway ends a request after seconds.
`told` and `credit` are history, for the properties.

### DatasetImport

Each import is one run of a command: `pc[i]` goes from "idle" over "locking" (`LockAsset`, NOAA only), "inserting"
(`Insert`, one row of a statement at a time), "referencing" (`Reference` and `EndStatement`: the foreign keys,
checked at the end of the statement), "comparing" (`Compare` or `Differ`, NOAA only) and "finishing" (`Commit`) to
"ended". `draft[i]` holds the uncommitted rows of the transaction, `update` and `share` the two kinds of locks on
assets. `BeginNoaa` and `BeginOther` start a command with its accepted records, `Preview` is a dry run of a file
import. `Fail` is every other way to end: an asset that is not mapped to the station, a timeout of a lock or a
statement, a lost connection. `AtomicImport` has one step for a whole import.

### TokenBuckets and Gateway

`bucket`, `order` and `now` are the fields of `_TokenBucket`, the order of the `OrderedDict` and
`time.monotonic()`. Time is counted in ticks and tokens in the ticks it takes to earn them: `Full` is the burst, `Cost`
one token, so a rate is 1 / `Cost` and the burst need not be a multiple of it. The arithmetic is exact where the code's
is floating point. `Ask` is `_get_bucket(...).allow()`; `log` (the grants of a bucket) and `uses` (who asked) are history.
`Gateway` has `_RATE_LIMITS` and `_TENANT_LIMITS` as the instances `Clients` and `Quotas` with a common clock.

| Action | Code |
| --- | --- |
| `RefuseClient`, `RefuseTenant` | 429: the second one after the client's bucket has paid |
| `RefuseDeclared` | 413 from `Content-Length` alone |
| `Admit` | everything up to the first await of the body |
| `Read`, `RefuseBody`, `Call` | the loop of `_body_exceeds_limit` and its two ends |
| `Answer` | `call_next` returns or raises |
| `Disconnect` | the stream raises before the body is complete |
| `TimeOut` | `asyncio.timeout_at` cancels the request: 504 |

What lies between two awaits is one step, and the event loop is never blocked as long as a tick, so a timer
that is due fires before the next tick. `Tick` says so: this is an assumption about the endpoints (the
synchronous ones run in threads), and `RequestsAreBounded` is about the code under it.

### EventMatching and EventEvaluation

`EventMatching` has the loop of `_match` as four actions: `FalseAlarm`, `Miss`,
`Pair` and `Leftover` for the two `extend` calls; `restP` and `restR` are the lists from the
two indices on. `EventEvaluation` merges the windows (`Merge`), assigns labels
(`PlaceReference`, `Reject`) and detections (`PlacePrediction`) and then runs
the loop for one window after the other (`NextWindow`, `MatchStep`). The variables
of the loop then hold the totals of the report.

### ThresholdEvents, ExternalRecords and Algorithms

`ThresholdEvents` is one step, `Detect`, over all short series: `Deduplicated`, `Gap`, `SamplePeriod` (the median cadence),
`NewEpisode` and `EpisodeId` follow the columns the code adds to its data frame, while `EpisodesAreMaximal` says
what an episode is without them. The sorted frame is a function of time, so that the row above another is the one of the time before. Durations are doubled, because the median of two gaps may be a half.

`ExternalRecords` has `order` (the command and its options), `raw` and `rows` (as received, as they are now), `next`,
`records` and `rejected[reason]`. `Receive` and `ReceiveFails` are fetching or parsing, `Convert` is
`apply_unit_conversion` for the whole batch, `Validate` one turn of the loop of `validate_records`, and `Audit` hands over to
the transaction of `DatasetImport`. The first reason that applies counts (`Rejection`); `Acceptable` says which rows may be stored without
that order.

`Algorithms` chooses one of the three computations for a behaviour; the variables of the others rest.

### GhcnhSource and GhcnhCommands

A file is a sequence of rows; a row has a time, an amount and the `flaws` its text shows. `ParseChunk` is the import's
way to read it, row by row with a set of times seen; `StateAt`, `Quantitative`, `Support` and `Gaps` are the quality
report's, by groups of equal times. Both are translated from their own code, so that `ReadersAgree` can compare them. The rows of all files (`AllRows`) are numbered by
file and place, and loops over rows, times and intervals are recursive functions (`after`), one turn for each argument.

| Action of `GhcnhCommands` | Code |
| --- | --- |
| `BeginYear`, `LoadFixture` | `iter_chunks`, `load_fixture` |
| `StartAttempt`, `Connected`, `Refused`, `Answered`, `ReceivePart`, `EndOfBody`, `Interrupted` | one attempt of `download_chunk` |
| `Retry` | its back-off, `_retry_delay`, the limit of attempts |
| `Parse` | the pinned checksum, the rows, the batch or the description |
| `Persist` | `persist_batch` and its commit: stored, rolled back, or stored with the acknowledgement lost |
| `Describe` | a preview, or the quality report |
| `SaveReport`, `ReplaceReport`, `CannotSave` | `_write_report`, `_write_text` |
| `Finish`, `Kill` | the exit status; SIGKILL |
| `Tick` | time passes during a network operation, up to its timeout |

`Delay` lists the delays of `_retry_delay`, in half seconds. `chunks` keeps, as history, what the server set out to send. `elapsed` and `waited` are clocks of the year and of the
operation; a part of a body is a row.

### Access, AssetReads, Telemetry and ApiReads

`Access` has one operator per function of `common/auth.py`; its value is the HTTP status. `AssetReads` asks it in `Admit` and
then takes one step for each query: `Lookup`, `Endpoint`, `HopPipes`, `HopNodes`. `visited`, `results` and `frontier` are
the code's variables. `Grow` commits assets in between. `Reach` is what a traversal means, by depth and without a set of visited assets.

`Telemetry` has one table. `StartScenario` and `CommitSeries` are the writers (`run_scenario`, `_upsert_series`, ingestion), with
ON CONFLICT DO NOTHING over the key that scenarios share with base rows. `mark_outliers`, `mark_drift`, `QaBuckets` and
`QaCommit` are the statements of the QA job; the last one replaces the day's row. `Resolve` and `ReadPage` are the two
queries of an evidence page, repeated until `next_offset` is missing; the ORDER BY is `Rank`, the number of rows of the same
query that come before a row, and `Slice` are the ranks that OFFSET and LIMIT leave. `get_observations` is the answer of
`GET /assets/{id}/observations` with its status; `RollupRead`, `RawRead` and `GapRead` are the three ways it can read. They have no step of their own:
`ReadsAgree` and `RollupLags` look at their answers in every state.

Migration 0003 asks the database for two policies and a continuous aggregate, and goes on silently where its licence forbids them: `licensed`. Where it
allows them, `rollup` is `telemetry_observation_5m`, with the instant of its last refresh. `Refresh` is one run of the refresh policy: it makes anew the whole buckets of
[now - `StartOffset`, now - `EndOffset`], from the rows of every scenario, since the view does not know scenarios, and leaves all other buckets as they are. `Retain` is
the retention policy: it drops the rows of whole chunks that are older than `Retention`. `Tick` is the clock of both; a refresh is not later than
`Period` after the one before. `since` and `dropped` are history.

`ApiReads` chooses pages, quality, the aggregate or the network for a behaviour. The QA job changes nothing a page depends on (it sets
`quality_flag` only), and neither reads the aggregate, so their interleavings would say nothing more. Rows are dropped while pages are read and while
the aggregate is refreshed; the windows of the QA job end at the present day and are days long, the retention is 30 days, so nothing is dropped in "quality".

### DisposableStack, SmokeStack, RecoveryDrill, CaseStudy and Stacks

`DisposableStack` has what both scripts share: `Preflight` (`require_unused_project`), a sequence of phases, each of which issues its
commands (`Issue`) and then waits for or asserts what they should bring about (`Pass`), `Break` for everything that raises
(a failing command, its timeout, a deadline, an assertion, a signal), and the `finally` clause: `Diagnose`, `Keep`, `Remove`, `RemoveFails`,
`WriteResult`. `Unwind` is a signal inside that clause. `theirs` and `ours` are the Docker resources found and created. `Become` and `Die` are the services themselves.

`SmokeStack` gives the phases their services, waits and effects; `WorkerWorks` and `SchedulerWorks` are the containers, which do
the export and the analytics on their own. `RecoveryDrill` has the two databases, the archive on its way from one to the other, and the
worker that is killed in an open transaction and started again: `WorkerClaims`, `ServerNotices`, `WorkerDrains`. `CaseStudy` has one
container, whose ID the script may never learn (`Create`), an import and its replay, and the artifacts of the study. `Persist` may store any part of a batch, also at the
replay, and reports what it stored: it is the script that must notice an import that is incomplete or a replay that inserts.

## 3. Runs

| Run | Question | Bounds |
| --- | --- | --- |
| `queue_faults` | ownership, rows, files, refinement and the end of every export with kills, cancels, retries, and workers that go on after their connection is gone | 2 workers, 1 export, 1 analytics job, 2 attempts, 1 crash, 2 closed connections |
| `queue_killed_claim` | finding, below | 1 worker, 1 job, 1 crash |
| `queue_polling` | finding, below | 1 worker, 1 export |
| `pipeline_overlap` | statuses under overlapping runs; refinement of `JobQueue`; runs that block each other end | 2 workers, 2 jobs (1 manual), 2 pipes, 2 attempts, 1 crash, 1 closed connection |
| `pipeline_latest` | finding, below | 2 workers, 2 jobs, 2 pipes |
| `gateway_requests` | rates, refusals, eviction, body limit, deadline | 2 requests at a time, 3 clients of 1 tenant, 2 buckets per cache, arrivals at 2 instants |
| `ingest_safety` | atomicity, repetition, the end of every request | 2 requests at a time, any number in sequence, 1 key, 2 slots, 2 values |
| `import_concurrent` | counts, conflicts, locks, the end of every import, refinement | 2 NOAA imports, 1 file import, 4 slots of 2 stations, 2 values, statements of 2 rows |
| `algorithm_calls` | the greedy loop against all matchings, trimming and grouping; episodes; the audit of a batch | up to 2 windows of 5, 2 detections, 2 labels; series of up to 4 samples; batches of up to 3 rows |
| `noaa_commands` | downloads, the two readers, outcomes, the end of a command | 5 commands, 2 annual files, windows across and up to their border, 2 attempts, budget 3, timeout 2, 3 bytes |
| `stacks` | verdicts, foreign resources, the end of every script | every option, 1 service that dies, 2 records |
| `api_reads` | pages, reads, the aggregate, gaps; traversal and access | 2 assets, 4 writers, 2 scenarios, 2 QA runs, pages of 2 rows; 2 writers, 12 ticks and a refresh at least every 2 of them; windows between 5 instants; a network of 10 assets, 16 configurations, 19 callers |

Several properties are conjunctions of named parts, so that one run answers for all of them:

| Property | Parts |
| --- | --- |
| `OwnershipIsExclusive` | `SingleOwner`, `NoWorkOnSettledJob` |
| `CommittedRowsAgree` | `NoStaleLockFields`, `AttemptsMatchErrors`, `PairAgrees` |
| `OutcomesAreFinal` | `AttemptsAreSpent`, `CompletionIsFinal` |
| `BucketsAreExact` | `RatesHold`, `RefusalsAreJustified` |
| `RequestsAreBounded` | `OneDeadline`, the limit of the body |
| `AnswersAreTrue` | `AnswersAgree`, `AcceptedOnce` |
| `AuditsAreTrue` | `InsertedIsExact`, `NoaaIsStored` |
| `MatchingIsExact` | `MatchesAreMaximum`, `EventsCountOnce` |
| `WindowsAreSound` | `WindowsAreTheirUnion`, `CandidatesStayTogether`, `RejectionIsJustified` |
| `ReadersAgree` | `CountsReconcile`, `QualityAgrees`, `SupportIsUnion` |
| `AnswersAreEarned` | `AccessFailsClosed`, `TraversalIsReach` |
| `VerdictIsEarned` | `StackVerdict`, `SmokeVerdict`, `RestoreIsBackup`, `CaseVerdict` |

Why the bounds are enough. Two workers, two requests and two runs are what any race
of these protocols needs: a third can only wait for the same lock. Two attempts give a first
failure that is retried and a last one that is final. Two closed connections let both workers
go on without one. Two pipes allow opposite orders, hence
deadlock. The batches of `ingest_safety` cross, repeat a slot, hold an
invalid event and name an unknown device; requests without a key join those of the one key. In `import_concurrent` a window of three records needs two
statements, a revised window differs in its second one, an import may be empty, and the files cross the
windows and the stations. In `gateway_requests` three clients share two buckets, so one is evicted and comes back; the client's
burst is two requests and half a token is earned between the instants, the tenant's burst is three, so each of the two limits is the one that
refuses; a body arrives in parts that fit one by one and not together. In `algorithm_calls` the windows nest, overlap, touch,
leave a gap or are shorter than the tolerances, and the onsets are the borders of windows and cores
and their neighbours; the gaps between samples lie below, at and above the limit, and rows come in every order and with repeated times; rows
of a batch have each of the reasons and pairs of them. The files of `noaa_commands` repeat a row, contradict it, hide one flaw behind another, lie
outside the window, are unreadable, empty or too long, and the first day of a window is cut; with a budget of three ticks and a timeout of two a
download can be stretched by each of its operations. In `api_reads` the scenarios collide with base rows, late rows fall before and behind the page, two assets share
a bucket, the series crosses every threshold of the QA job, and the network has a cycle, a node that is not an asset and a second city. There the
aggregate's window is seven ticks, three and a half buckets: rows come before their bucket is due, while it is, and after it has left the window, and the clock runs on until
every bucket has left it and old chunks are dropped. `RollupWriters`, the writers of that topic, are one of base rows and one of a scenario that collide.
In `stacks` a project is unused or used by someone else, and any command fails, times out or is interrupted.
Where a theorem exists the bound no longer matters.

The bound `Horizon` of `Gateway` ends the arrivals: a request may be made at any instant up to it, and the clock
runs on until the last request must be over. `MaxCrashes`, `MaxDrops` and `MaxDeaths` count faults of the environment, `QaRuns` the runs of a daily job; `LastTick` ends the clock of the
aggregate; nothing else the programs do is bounded, except that a job is submitted once.

### Findings

* `KilledClaimRollsBack` (run `queue_killed_claim`). `docs/deployment/backup_restore_drills.md:131`
  says that a killed attempt rolls back its claim. `run_city_analytics` commits the
  worker's transaction (`jobs/run_analytics.py:245`): a worker killed between that commit and its own
  leaves a committed `running` row, which nothing claims, retries, cancels or re-enqueues.
* `PollingEnds` (run `queue_polling`). `docs/api.md:100` tells clients to poll an export until
  it is completed or failed. `cancel_job` settles the queue row only; the `export_job` row stays `queued`.
* `StatusesAreLatest` (run `pipeline_latest`). `docs/data-model.md:34` calls `asset_status_latest`
  the latest risk score per asset. Of two overlapping runs the one that began first may be committed last: then
  `get_city_status` shows events of one run beside the statuses of an older one.

Three things the models show that contradict no document, but that a reader of the API should know:

* A read of base rows at the default granularity, `5m`, is of the continuous aggregate (`storage/repos/telemetry.py:90-109`). It holds the rows of scenarios with the base rows (the view has no
  `scenario_id`), keeps rows that retention has dropped, and a row that comes more than `StartOffset` late never enters it. The same read
  spelled `300s`, or with `include_gaps`, is of the base rows. `RollupLags` says how far the two can be apart, `ReadsAgree` which reads agree.
* Where the licence forbids continuous aggregates, migration 0003 (lines 64-66) goes on without the view, and that read fails with status 500: `get_observations` of
  `Telemetry`. The image of `docker-compose.yml` is such an edition (`storage/repos/telemetry.py:123-124`); the smoke test reads at `1m`, the web client at `5m`
  (`web/src/api.ts:78`).
* `docs/runbooks/noaa_ghcnh.md:122` says that errors roll back the entire import. `OutcomeIsTold` claims less: an import whose commit was not acknowledged, or whose report could
  not be written, is told as failed and may be stored.

## 4. Fairness

* `JobQueue`: weak fairness of the next step of each worker, dead or alive, and of the
  backoff delays. The loop of `run_worker` polls for ever, the operator restarts a
  process that ended, and time passes. Nothing obliges an operator to cancel or
  retry. The compose files give the worker no restart policy, so `Restart` is a
  duty of the deployment. Only finitely many faults happen.
* `AnalyticsPipeline`: weak fairness as above, and strong fairness of the statements inside a handler: a
  statement that waits for a row is woken when that transaction ends, before the same worker can
  claim again and block it anew.
* `DatasetImport`: weak fairness of the next statement of every import and of the deadlock detector. A command
  runs once, so a wait for another import lasts until that import ends; `lock_timeout` is not needed for
  `ImportsEnd`. `Begin`, `Preview` and `Fail` are not fair.
* `IngestIdempotency`: strong fairness of each handler, whose statements wait for locks
  in a queue of the server; weak fairness of the deadlock detector and of the end of a pruning
  transaction. `Receive`, `Abort` and expiry are not fair.

* `Gateway`: weak fairness of the clock and of the timer of each request. Clients need not send their bodies and
  endpoints need not answer: every request ends all the same.
* `GhcnhCommands`: weak fairness of the next step of the command. Every network operation has a timeout, after which
  `Interrupted` is the step that remains; the server may drip, refuse or break off as often as it likes. `Kill` is not fair.
* `Stacks`: weak fairness of the script. Every command and every wait has a limit, after which it breaks; the services need
  not do anything.

`ApiReads` and `Algorithms` claim no liveness.

Limits of the liveness results. `ScriptsEnd` rests on every command having a limit. `scripts/recovery_drill.py:414-419` has one that does not: it asks `git` for
the commit without a timeout. `ExportsSettle` assumes that a job does not kill
its worker every time: such a claim is rolled back with its attempt count, and is first in
line again. `RunsSettle` excepts a job whose run was committed by a worker that died or lost its
connection before the outcome was recorded (`Orphaned`), which is what `queue_killed_claim` finds.

## 5. Proofs

All theorems hold for every value of the constants that satisfies the assumptions of the module that declares them:
that sets are finite, limits positive, the placeholders (`NoWorker`, `NoRow`, `NoRequest`) distinct from what they stand
in for, and that inputs have their shape: windows begin before they end, a batch is a sequence of records, pipes end at nodes, what a
server sends is a sequence of rows. Nothing is assumed of what the programs do with them.
`BucketAssum` takes the rate and the burst of a bucket to be positive: `config/settings.py:36-37` accepts any number, but with a rate of zero an empty
bucket is never filled again, and with a burst of zero it refuses everything. A step from an
invariant to the next state has one lemma per action; frame lemmas say once what a step of one actor leaves true of all others.

| Property | Theorem | Module |
| --- | --- | --- |
| `OwnershipIsExclusive`, `CommittedRowsAgree` | `OwnershipExcludes`, `RowsAreConsistent` | `JobQueueProofs` |
| `DownloadsAreWhole`, `OutcomesAreFinal`, `ImplementsLifecycle` | `DownloadsFindFiles`, `OutcomesStay`, `QueueImplementsLifecycle` | `JobQueueProofs` |
| `ImplementsQueue`, `StatusesAreOfLastRun` | `PipelineImplementsQueue`, `StatusesReplacedAsAWhole` | `JobQueueProofs` |
| `BucketsAreExact`, `MostRecentStay`, `RequestsAreBounded` | `GatewayAccountsExactly`, `GatewayKeepsMostRecent`, `GatewayBoundsRequests` | `GatewayProofs`, `TokenBucketsProofs` |
| `KeyIsFree`, `AnswersAreTrue`, `ImplementsAtomicIngest` | `IngestKeyIsFree`, `IngestAnswersAreTrue`, `IngestImplementsAtomicIngest` | `IngestIdempotencyProofs` |
| `AuditsAreTrue`, `DeadlocksNeedOthers`, `ImplementsAtomicImport` | `ImportAuditsAreTrue`, `NoaaImportsDoNotDeadlock`, `ImportsImplementAtomicImport` | `DatasetImportProofs` |
| `ChunksAreWhole`, `BudgetHolds`, `OutcomeIsTold` | `FilesArriveWhole`, `DownloadsAreBounded`, `OutcomesAreTold` | `DatasetImportProofs` |
| `ReadersAgree` | `BothReadersAgree` | `DatasetImportProofs` |
| `WindowsAreSound`, `ReportIsMaximum`, `MatchingIsExact`, `AuditReconciles` | `EvaluationIsSound`, `EvaluationIsMaximum`, `EvaluationIsExact`, `AuditIsExact` | `AlgorithmsProofs` |
| `EpisodesAreMaximal` | `DetectionIsMaximal` | `AlgorithmsProofs` |
| `AnswersAreEarned`, `PagesSkipNothing`, `ReadsAgree`, `RollupLags`, `GapsAreReal` | `ReadsAreEarned`, `ClientsMissNothing`, `WaysToReadAgree`, `RollupLagsByAPeriod`, `QaCountsRealGaps` | `ApiReadsProofs` |
| `VerdictIsEarned`, `OthersAreUntouched` | `VerdictsAreEarned`, `OthersKeepTheirs` | `StacksProofs` |

**Queue.** The properties are not inductive: that two workers never own a job
depends on what an uncommitted image says of the committed row. `IInv` adds
`WorkersAgree` (what a program counter means), `LocksAgree` (who holds a row
lock), `DraftsAgree` (the images of an open transaction are what the row functions make of the
committed rows) and `RowsAgree` (the committed columns fit together).
Files are outside of it, because a worker without a connection still writes them: `FilesIInv` adds `FilesAgree`, that wherever an
export is completed or about to be, its file is there, and whole as long as no connection was closed. `OutcomesStay` is an
action property: `TableStep` first says which actions change committed rows at all. `QueueImplementsLifecycle` maps a commit to
the delivery, failure or completion of an attempt, and all else that a worker does to a stutter.

**Pipeline.** `PipelineImplementsQueue` shows that every step of the pipeline is a
step of `JobQueue` or a stutter, so the theorems above hold of it. `PipelineIInv` adds `HandlersAgree`: a
run committed while a handler is active is new to that handler, so it is not
among the rows its DELETE saw. From it follow `StatusesReplacedAsAWhole` and
`OnlyOverlappingRunsCollide`, a consequence no run checks by itself: the primary key stops a run only if another one was committed since its
reset began.

**Gateway.** That a bucket keeps its rate says nothing of its tokens, so `IInv` of `TokenBuckets` adds (`Accounts`) that they are
an account of its grants: from no grant on could more have been granted than the tokens allow, `Covers`, and some window of
grants (or the full burst) has left exactly these tokens, `Tight`. `Covers` gives the rate, `Tight` that
nothing is refused in vain. An eviction starts a new account. That the right bucket is evicted
(`CacheKeepsMostRecent`) rests on the order of the cache being the end of the list of all keys in the order of their last use. `GatewayProofs` carries
this to both caches: every step of `Gateway` is a step of each instance or leaves it alone. `RequestsIInv` is the invariant of the
requests: the timer that is set at the arrival is never set again, whatever the body and the endpoint do.

**Ingest.** `IInv` says who holds the lock of a key (`LocksAgree`), what a request has deleted or committed and not yet told (`RequestsAgree`), and
(`InsertsAgree`) that no slot has two uncommitted or an uncommitted and a committed observation; therefore the verdicts a request has
found so far (`VerdictsHold`) stay those the whole batch would get now, whatever others commit meanwhile. That is why its commit is the one step
of `AtomicIngest`, and why an INSERT of the answer never meets a taken key.

**Imports.** For every import, `CommandAgrees` gives its place in its batch, and `DraftAgrees` says that what it has drafted is not stored,
is the first record for its slot among those passed, and that each record passed is drafted or stored: so the count of inserts is exact and
the commit is the one step of `AtomicImport`. `PassedAgree` says of a NOAA import that all it has passed agrees with what is stored, except in the statement
that is still to be compared. `HoldsAsset` gives the absence of deadlocks: a NOAA import has locked the one asset of its records before it
inserts, so no other import with that asset is past its lock, and what it waits for is never a NOAA import that waits for it.

**NOAA commands.** `CommandIInv` has a part per concern. `ClockAgrees` says how much of the budget was gone when the pending operation began, so that
it can add one timeout, and the headers and the first part another. `BodyAgrees`: what was received and what is still to come are what
the server set out to send. `YearsAgree`: the files are those of the first years, in order. `BatchAgrees`: the batch is what parsing
these files one after the other gives; parsing itself stays uninterpreted there, and what it is parsed into is unique because two different results would have a
first file at which they differ. `OutcomeAgrees` and `FilesAgree` relate transaction, report and exit status, and the
temporary file to the report that is being written.

For `ReadersAgree`, `RowsAgree` says what the batch tells of the rows of all files, in terms of sets of rows: which times and signatures were seen, which
times have a record, how many were rejected for each reason, and that it has failed exactly if two rows of a time differ. One row preserves it
(`RowAgrees`, by the cases of `ReceiveRow`), therefore a file does (`ChunkAgrees`). A validation also goes on after a conflict; that it still tells the truth needs
that none of its rows is unreadable, which it has checked itself. The lengths rest on `Spans`: the merged intervals are in order and do not touch. They
cover what the reports cover (`SupportCovers`, over the times in their order), so `Minutes` counts it (`MinutesCount`) and the gaps are the rest.
`StoredIsDescribed` draws the conclusion for the database: an import has stored one record for each time that a quality report of the same files calls
quantitative, and no other.

**Matching and evaluation.** `GreedyIsMaximum` proves the claim in the docstring of `_match` for all lists,
onsets and tolerances. The invariant is `NothingIsLost`: whatever matching of the lists
there is, the pairs found and some matching of what lies ahead are at least as many. The exchange is in
`FirstPairCostsOne`: if the two first events had other partners, those partners are within tolerance of each
other, so pairing the first two costs at most one pair. `TooEarlyIsUnmatched` and
`TooLateIsUnmatched` are the two skips. For the whole evaluation, `WindowsAgree` says that the windows merged so far are the reviewed time taken so far, do not
touch, and begin no later than those left; hence no window is reopened. `GroupsAgree` says what was decided about each event. The trimmed
cores separate no detection from a label within tolerance, so a matching of all events splits into matchings of windows, and their maxima add up.

**Threshold events.** The two definitions of an episode meet in runs: sets of rows at or above the threshold that are linked row to row
(`GroupsAreMaximalRuns`, `SustainedIsRun`). Rows have the same `EpisodeId` exactly if no row between them begins a new episode. The sample period is
at most the larger of `MaxGap` and the default (`PeriodIsBounded`), which bounds what an event that is kept can lack of `MinDuration`.

**Batches.** `BatchInv`: the rows that were looked at are as many as the records and the rejections, and the place of a record is the number of rows
kept up to its own.

**Reads.** A traversal has followed some set of nodes (`Followed`): the pipes from there are found, and lead into it or into the frontier. With an upper bound,
`SearchSound`, that makes an answer lie between what could be reached in the network of its first query and in that of its end; `NodesWithin` is a recursive
function, and `WithinIs` shows that its equation has a solution. `Admitted` splits the decisions of `common/auth.py` by cases.
`PagesInv`: what was there at first was sent or has at least the rank of the next page; ranks only grow while nothing is dropped. The agreement of raw and gap-filled
reads is arithmetic of the borders of buckets. `CopyInv` is about the aggregate: what it holds was committed to that bucket, and a row that is not in its bucket
was committed since the last refresh (not `Ripe`), or its bucket was not due then, or the row came too late for the first refresh after it to reach back to its bucket (not `Timely`). `RollupLagsByAPeriod` follows because the clock is never more than `Period` past the last refresh; the policy's window must hold a bucket for a whole period
(`PolicyAssumption`: 30 days against 15 minutes). Gaps are counted by an injection of the steps between
rows into the buckets between them, marks by disjointness, since rows outside of the window are never unmarked.

**Scripts.** `IInv` says what each passed phase has shown and that nothing undoes it; that a project is owned only if nothing was found under its label, and
that only an owned project is torn down.

Only model-checked, and why:

* Liveness (`ExportsSettle`, `RunsSettle`, `RequestsEnd`, `ImportsEnd`, `CommandEnds`, `ScriptsEnd`): out of the prover's reach. The refinement
  theorems are about what steps do, and say nothing of fairness.
* The three expected violations of section 3: they are counterexamples of a small instance.

Every safety invariant and action property of a run has a theorem. Induction over data is done by hand where it is needed: a recursive function exists
and obeys its equation (`RecursionExists`), and the least argument at which a claim about it fails leads to a contradiction (`SmallestOf`).

## 6. Assumptions about what is not under src/

PostgreSQL is modelled from how the code uses it: READ COMMITTED statements that see what was committed
when they began and test their WHERE clause again after a wait; `FOR UPDATE SKIP LOCKED`; unique keys, whose
insertion waits for the uncommitted row of another transaction; advisory locks that end with the
transaction; `now()` as the begin of the transaction; detection of deadlocks; rollback of the transaction of
a closed connection; `FOR UPDATE` of a referenced row, which excludes the `FOR KEY SHARE` that the check of a
foreign key takes, in both directions. The client of the ingest API keeps one body per key while it retries, or it gets a conflict.
A query sees what was committed when it began, so two queries of a request can see different tables. `time_bucket` rounds down. The jobs of
TimescaleDB's policies run in time: a refresh follows the one before within the `schedule_interval` of migration 0003 (`Tick`), or `RollupLags` would hold with the real
interval in its place. A continuous aggregate is read as it was last refreshed (`materialized_only`, the default since TimescaleDB 2.13; the project pins 2.25), a
refresh makes whole buckets only, buckets that writers touched are made anew, and dropping chunks leaves the aggregate alone. PyJWT checks signature, algorithm, audience,
issuer and expiry. Each operation of httpx ends with an answer or with its timeout. `os.replace` replaces a file in one
step. `docker compose down` removes what has the label of the project, containers before volumes and images; a `docker`
command that exceeds its limit may have had its effect.

## 7. Not modelled, and why

* Which days and assets a CSV file holds, its columns, the delivery log: data no property tells apart.
* `run_analytics.main` runs the pipeline from the command line without the queue; `run_scenario.py` appears as a writer of `Telemetry` only.
* `rain_event`, `overflow_event` and `hotspot` rows only append under the id of their run; comparing two runs reads them.
* More pipes than `ANALYTICS_PIPE_LIMIT`: `Pipes` is a whole network within the limit. Beyond it two overlapping runs can select disjoint
  pipes, meet no taken key and both commit, so `StatusesAreOfLastRun` and its theorem are about networks within the limit.
* Idempotency rows from before the digest column existed (`api/routers/ingest.py:77-81`).
* Elements of a JSON list that are not objects: `adapters/rain_gauge_http.py:31-36` and `river_level_http.py:31-36` drop them before a batch is counted, so the rows that
  `ExternalRecords` receives, and the counts that `AuditReconciles` adds up, begin after that.
* The report inside `dataset_import.validation_report` (`jobs/ingest_external.py:172-173`) is stored before the inserts are counted, so its own `inserted` stays 0;
  `AuditsAreTrue` is about the column.
* The content of a file that a worker without a connection rewrites: it can truncate the file of a
  completed job. `DownloadsAreWhole` says what remains true then.
* The formats of files and payloads (`adapters/`): a row is what its text shows. Finite and infinite numbers are one case of
  a reading that cannot be converted. `generate_external_telemetry.py` writes test files.
* Of the NOAA reports: their wording, percentiles and daily tables beyond the lengths that add up. The database transaction
  of an import is one step in `GhcnhCommands` and is taken apart in `DatasetImport`, which begins with the accepted records.
* A dry run of the NOAA command touches nothing in the database. Observations of other writers count as those of a file import.
* Counts, rates, identifiers and serialisation of an evaluation report. Hotspot and status scores: floating point.
* Of the gateway: which tenant a token names, CORS, metrics, the error handlers; a tenant quota that is switched off; several API
  processes, which limit each on its own; the thread of an endpoint that goes on after its request was cancelled; and
  the streaming of a response, which comes after the deadline was last looked at. Rounding of the token arithmetic.
* Notes, events, cities and health: single statements. `deps.py` opens one session per request, which the models begin with.
* Removal of assets: no code removes assets that are in use. `qa_weekly_report.py` adds up daily rows.
* Of the reads: the downgrade of migration 0003, and the metric, of which the models have one. A page that misses rows because old chunks are dropped while it is being followed:
  `PagesSkipNothing` says so.
* Values of generated telemetry and networks: random floating-point numbers.
* What the regressions of the smoke test do inside their phase (`scripts/smoke_export_jobs.py`, `smoke_ingest_idempotency.py`): they test
  what `JobQueue` and `IngestIdempotency` model. Durations and targets of the drill; tables and figures of the case study.
* The web client: view state of React. Migrations: declarative. Formatting, metrics, logging.

## 8. Plan

1. Proofs: consequences across modules, as `StoredIsDescribed` is one: that the records of a NOAA batch are what `DatasetImport` begins with, and what
   `AtomicIngest` and `JobLifecycle` promise by themselves, to be carried over by the refinements.
2. Models: a subset of pipes that differs between runs, the comparison of two runs, note permissions, and the order of answers in
   the web client.
