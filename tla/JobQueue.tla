------------------------------ MODULE JobQueue ------------------------------
(***************************************************************************)
(* The background job queue: the API that submits, cancels and retries     *)
(* jobs, and the worker processes of jobs/queue_worker.py that run them.   *)
(*                                                                         *)
(* A worker claims a row, runs its handler and records the outcome in one  *)
(* database transaction.  row and export hold what is COMMITTED; a worker  *)
(* keeps what it has written and not committed in txRow and txExport, and  *)
(* owns the row lock of its job meanwhile (held).  A process that dies, or *)
(* whose connection is closed by the server, is rolled back: the lock goes *)
(* and the uncommitted images are lost.  What it did to the CSV file stays.*)
(*                                                                         *)
(* The handler of an analytics job is the exception: run_city_analytics    *)
(* commits the session itself, so the claim becomes durable and the lock   *)
(* is released before the worker has marked the job completed.             *)
(***************************************************************************)
EXTENDS QueueRows, FiniteSets

CONSTANTS
  ExportJobs,     \* export_csv and report_csv jobs, each paired with an export_job row
  AnalyticsJobs,  \* analytics_run jobs
  NoJob,          \* a worker without a job
  MaxCrashes,     \* bound: how many times a busy worker process dies
  MaxDrops        \* bound: how many times the server closes a busy worker's connection

Jobs == ExportJobs \cup AnalyticsJobs

ASSUME JobsAssumption ==
  /\ ExportJobs \cap AnalyticsJobs = {}
  /\ NoJob \notin Jobs
ASSUME BoundsAssumption == MaxCrashes \in Nat /\ MaxDrops \in Nat

VARIABLES
  row,        \* row[j]: the committed job_queue row of j
  due,        \* jobs whose committed row is queued with scheduled_at <= now
  ahead,      \* ahead[j]: jobs of due with an earlier scheduled_at than j
  held,       \* held[j]: the worker whose open transaction has locked row j
  export,     \* export[j]: the committed export_job row of j
  artifact,   \* artifact[j]: the CSV file of j on the export volume
  published,  \* published[j]: completed analytics runs j has committed
  pc,         \* pc[w]: where worker w is
  job,        \* job[w]: the job w works on
  txRow,      \* txRow[w]: w's image of its job's row
  txExport,   \* txExport[w]: w's image of its job's export_job row
  lost,       \* workers whose connection is closed and who have not noticed
  crashes,    \* busy workers that have died so far
  drops       \* connections closed so far

tables == <<row, due, ahead, export, published>>
process == <<pc, job, txRow, txExport, lost>>
faults == <<crashes, drops>>
vars == <<row, due, ahead, held, export, artifact, published,
          pc, job, txRow, txExport, lost, crashes, drops>>

-----------------------------------------------------------------------------
(* The paired export_job row: status, whether file_path is recorded, and   *)
(* whether error_message is set.                                           *)

ExportRow == [status   : {"absent", "queued", "running", "completed", "failed"},
              filePath : BOOLEAN,
              error    : BOOLEAN]

ExportImage(status, filePath, error) ==
  [status |-> status, filePath |-> filePath, error |-> error]

NoExport == ExportImage("absent", FALSE, FALSE)

Artifact == {"none", "partial", "whole"}

Idle == {"idle", "dead"}
Phase == Idle \cup {"claimed", "queried", "writing", "written", "published", "outcome"}

TypeOK ==
  /\ row \in [Jobs -> QueueRow]
  /\ due \in SUBSET Jobs
  /\ ahead \in [Jobs -> SUBSET Jobs]
  /\ held \in [Jobs -> Workers \cup {NoWorker}]
  /\ export \in [Jobs -> ExportRow]
  /\ artifact \in [Jobs -> Artifact]
  /\ published \in [Jobs -> Nat]
  /\ pc \in [Workers -> Phase]
  /\ job \in [Workers -> Jobs \cup {NoJob}]
  /\ txRow \in [Workers -> QueueRow]
  /\ txExport \in [Workers -> ExportRow]
  /\ lost \in SUBSET Workers
  /\ crashes \in 0..MaxCrashes
  /\ drops \in 0..MaxDrops

Init ==
  /\ row = [j \in Jobs |-> AbsentRow]
  /\ due = {}
  /\ ahead = [j \in Jobs |-> {}]
  /\ held = [j \in Jobs |-> NoWorker]
  /\ export = [j \in Jobs |-> NoExport]
  /\ artifact = [j \in Jobs |-> "none"]
  /\ published = [j \in Jobs |-> 0]
  /\ pc = [w \in Workers |-> "idle"]
  /\ job = [w \in Workers |-> NoJob]
  /\ txRow = [w \in Workers |-> AbsentRow]
  /\ txExport = [w \in Workers |-> NoExport]
  /\ lost = {}
  /\ crashes = 0
  /\ drops = 0

-----------------------------------------------------------------------------
(* scheduled_at, seen through the order it induces on the due rows.  A row *)
(* becomes due at an instant later than every scheduled_at already due.    *)

(* Mutant of BecomesDue: descending order, the latest scheduled_at first.  *)
BecomesDueNewestFirst(j) ==
  /\ due' = due \cup {j}
  /\ ahead' = [k \in Jobs |-> IF k \in due \ {j} THEN ahead[k] \cup {j}
                              ELSE IF k = j THEN {} ELSE ahead[k]]

BecomesDue(j) ==
  /\ due' = due \cup {j}
  /\ ahead' = [k \in Jobs |-> IF k = j THEN due \ {j} ELSE ahead[k] \ {j}]

NoLongerDue(j) ==
  /\ due' = due \ {j}
  /\ ahead' = [k \in Jobs |-> IF k = j THEN {} ELSE ahead[k] \ {j}]

(* The delay mark_job_failed added to scheduled_at has passed. *)
BackoffElapses(j) ==
  /\ row[j].status = "queued"
  /\ j \notin due
  /\ BecomesDue(j)
  /\ UNCHANGED <<row, held, export, artifact, published, process, faults>>

-----------------------------------------------------------------------------
(* Requests.  Each is one short transaction of the API or of the scheduler.*)
(* An UPDATE waits for a row lock and then tests its WHERE clause again,   *)
(* which is why cancel and retry need the row to be free.                  *)

Submit(j) ==
  /\ row[j].status = "absent"
  /\ row' = [row EXCEPT ![j] = EnqueuedRow]
  /\ export' = IF j \in ExportJobs
               THEN [export EXCEPT ![j] = ExportImage("queued", FALSE, FALSE)]
               ELSE export
  /\ BecomesDue(j)
  /\ UNCHANGED <<held, artifact, published, process, faults>>

Retry(j) ==
  /\ held[j] = NoWorker
  /\ Retryable(row[j])
  /\ row' = [row EXCEPT ![j] = RetriedRow(row[j])]
  /\ BecomesDue(j)
  /\ UNCHANGED <<held, export, artifact, published, process, faults>>

Cancel(j) ==
  /\ held[j] = NoWorker
  /\ Cancellable(row[j])
  /\ row' = [row EXCEPT ![j] = CancelledRow(row[j])]
  /\ NoLongerDue(j)
  /\ UNCHANGED <<held, export, artifact, published, process, faults>>

-----------------------------------------------------------------------------
(* The worker loop. *)

(* Mutant of Runnable: the SELECT does not lock, so it sees held rows too. *)
RunnableIgnoresLocks == {j \in due : row[j].status = "queued"}

(* The rows fetch_next_job can select: SKIP LOCKED passes over the held.   *)
Runnable == {j \in due : row[j].status = "queued" /\ held[j] = NoWorker}

Claim(w) ==
  /\ pc[w] = "idle"
  /\ \E j \in Runnable :
       /\ ahead[j] \cap Runnable = {}
       /\ held' = [held EXCEPT ![j] = w]
       /\ job' = [job EXCEPT ![w] = j]
       /\ txRow' = [txRow EXCEPT ![w] = ClaimedRow(row[j], w)]
       /\ txExport' = [txExport EXCEPT ![w] = export[j]]
  /\ pc' = [pc EXCEPT ![w] = "claimed"]
  /\ UNCHANGED <<tables, artifact, lost, faults>>

(* w's transaction is open and the server still knows it. *)
Connected(w) == job[w] # NoJob /\ w \notin lost

(* _handle_export and _handle_report up to the last query: the paired row  *)
(* is marked running, inside the transaction.                              *)
StartExport(w) ==
  /\ pc[w] = "claimed"
  /\ Connected(w)
  /\ job[w] \in ExportJobs
  /\ txExport' = [txExport EXCEPT ![w] = ExportImage("running", FALSE, FALSE)]
  /\ pc' = [pc EXCEPT ![w] = "queried"]
  /\ UNCHANGED <<tables, held, artifact, job, txRow, lost, faults>>

(* run_export_csv and run_report_csv open the file with mode "w": whatever *)
(* an earlier attempt left there is truncated.  No database access: a      *)
(* worker whose connection is gone does this too.                          *)
OpenFile(w) ==
  /\ pc[w] = "queried"
  /\ artifact' = [artifact EXCEPT ![job[w]] = "partial"]
  /\ pc' = [pc EXCEPT ![w] = "writing"]
  /\ UNCHANGED <<tables, held, job, txRow, txExport, lost, faults>>

CloseFile(w) ==
  /\ pc[w] = "writing"
  /\ artifact' = [artifact EXCEPT ![job[w]] = "whole"]
  /\ pc' = [pc EXCEPT ![w] = "written"]
  /\ UNCHANGED <<tables, held, job, txRow, txExport, lost, faults>>

(* Mutant of ExportSucceeds: the outcome is recorded before the file is closed. *)
ExportSucceedsEarly(w) ==
  /\ pc[w] \in {"queried", "writing", "written"}
  /\ Connected(w)
  /\ txExport' = [txExport EXCEPT ![w] = ExportImage("completed", TRUE, FALSE)]
  /\ txRow' = [txRow EXCEPT ![w] = SucceededRow(@)]
  /\ pc' = [pc EXCEPT ![w] = "outcome"]
  /\ UNCHANGED <<tables, held, artifact, job, lost, faults>>

(* The handler returns: the paired row is completed with its file_path, the*)
(* savepoint is released and mark_job_success runs.                        *)
ExportSucceeds(w) ==
  /\ pc[w] = "written"
  /\ Connected(w)
  /\ txExport' = [txExport EXCEPT ![w] = ExportImage("completed", TRUE, FALSE)]
  /\ txRow' = [txRow EXCEPT ![w] = SucceededRow(@)]
  /\ pc' = [pc EXCEPT ![w] = "outcome"]
  /\ UNCHANGED <<tables, held, artifact, job, lost, faults>>

(* Mutant of PublishRun: the claim was never flushed, so the inner commit  *)
(* releases a row that is still queued.                                    *)
PublishRunUnclaimed(w) ==
  /\ pc[w] = "claimed"
  /\ Connected(w)
  /\ job[w] \in AnalyticsJobs
  /\ published' = [published EXCEPT ![job[w]] = @ + 1]
  /\ held' = [held EXCEPT ![job[w]] = NoWorker]
  /\ pc' = [pc EXCEPT ![w] = "published"]
  /\ UNCHANGED <<row, due, ahead, export, artifact, job, txRow, txExport, lost, faults>>

(* run_city_analytics stores a completed run and commits the session: the  *)
(* claim is committed with it and the row lock is released.                *)
PublishRun(w) ==
  /\ pc[w] = "claimed"
  /\ Connected(w)
  /\ job[w] \in AnalyticsJobs
  /\ published' = [published EXCEPT ![job[w]] = @ + 1]
  /\ row' = [row EXCEPT ![job[w]] = txRow[w]]
  /\ NoLongerDue(job[w])
  /\ held' = [held EXCEPT ![job[w]] = NoWorker]
  /\ pc' = [pc EXCEPT ![w] = "published"]
  /\ UNCHANGED <<export, artifact, job, txRow, txExport, lost, faults>>

(* mark_job_success, in the transaction that follows the inner commit. *)
AnalyticsSucceeds(w) ==
  /\ pc[w] = "published"
  /\ held[job[w]] = NoWorker
  /\ held' = [held EXCEPT ![job[w]] = w]
  /\ txRow' = [txRow EXCEPT ![w] = SucceededRow(@)]
  /\ pc' = [pc EXCEPT ![w] = "outcome"]
  /\ UNCHANGED <<tables, artifact, job, txExport, lost, faults>>

(* The handler raises.  The savepoint is rolled back, so the paired row is *)
(* as it was before the claim unless this was the last attempt; then       *)
(* mark_job_failed records the error.                                      *)
HandlerRaises(w) ==
  /\ pc[w] \in {"claimed", "queried", "writing", "written"}
  /\ Connected(w)
  /\ txExport' = [txExport EXCEPT ![w] =
                    IF job[w] \in ExportJobs /\ Exhausted(txRow[w])
                    THEN ExportImage("failed", FALSE, TRUE)
                    ELSE export[job[w]]]
  /\ txRow' = [txRow EXCEPT ![w] = FailedRow(@)]
  /\ pc' = [pc EXCEPT ![w] = "outcome"]
  /\ UNCHANGED <<tables, held, artifact, job, lost, faults>>

(* The end of an attempt, however it ends: w forgets its job. *)
LeaveJob(w, next) ==
  /\ job' = [job EXCEPT ![w] = NoJob]
  /\ txRow' = [txRow EXCEPT ![w] = AbsentRow]
  /\ txExport' = [txExport EXCEPT ![w] = NoExport]
  /\ lost' = lost \ {w}
  /\ pc' = [pc EXCEPT ![w] = next]

Commit(w) ==
  /\ pc[w] = "outcome"
  /\ Connected(w)
  /\ row' = [row EXCEPT ![job[w]] = txRow[w]]
  /\ export' = [export EXCEPT ![job[w]] = txExport[w]]
  /\ NoLongerDue(job[w])
  /\ held' = [held EXCEPT ![job[w]] = NoWorker]
  /\ LeaveJob(w, "idle")
  /\ UNCHANGED <<artifact, published, faults>>

-----------------------------------------------------------------------------
(* Faults.  The server rolls the open transaction back and frees its lock. *)

Release(w) ==
  held' = IF held[job[w]] = w THEN [held EXCEPT ![job[w]] = NoWorker] ELSE held

(* A busy process is killed, or its commit fails and the exception leaves  *)
(* run_worker.                                                             *)
Crash(w) ==
  /\ pc[w] \notin Idle
  /\ crashes < MaxCrashes
  /\ crashes' = crashes + 1
  /\ Release(w)
  /\ LeaveJob(w, "dead")
  /\ UNCHANGED <<tables, artifact, drops>>

(* The server closes the connection of a transaction; w has not noticed.   *)
LoseConnection(w) ==
  /\ Connected(w)
  /\ pc[w] # "published"
  /\ drops < MaxDrops
  /\ drops' = drops + 1
  /\ lost' = lost \cup {w}
  /\ Release(w)
  /\ UNCHANGED <<tables, artifact, pc, job, txRow, txExport, crashes>>

(* The next statement on the closed connection raises; so does the failure *)
(* path, which needs the same session, and the process ends.               *)
NoticeLostConnection(w) ==
  /\ w \in lost
  /\ LeaveJob(w, "dead")
  /\ UNCHANGED <<tables, held, artifact, faults>>

(* Whoever operates the worker starts it again. *)
Restart(w) ==
  /\ pc[w] = "dead"
  /\ pc' = [pc EXCEPT ![w] = "idle"]
  /\ UNCHANGED <<tables, held, artifact, job, txRow, txExport, lost, faults>>

-----------------------------------------------------------------------------
Request(j) == Submit(j) \/ Retry(j) \/ Cancel(j)

Handler(w) ==
  \/ StartExport(w) \/ OpenFile(w) \/ CloseFile(w) \/ ExportSucceeds(w)
  \/ PublishRun(w) \/ AnalyticsSucceeds(w) \/ HandlerRaises(w)

Work(w) == Claim(w) \/ Handler(w) \/ Commit(w) \/ NoticeLostConnection(w) \/ Restart(w)

Fault(w) == Crash(w) \/ LoseConnection(w)

Next ==
  \/ \E j \in Jobs : Request(j) \/ BackoffElapses(j)
  \/ \E w \in Workers : Work(w) \/ Fault(w)

Spec == Init /\ [][Next]_vars

(* The loop of every worker goes on, a dead worker is started again and    *)
(* time passes.  Nothing obliges a client or an operator to act.           *)
Fairness ==
  /\ \A w \in Workers : WF_vars(Work(w))
  /\ \A j \in Jobs : WF_vars(BackoffElapses(j))

FairSpec == Spec /\ Fairness

-----------------------------------------------------------------------------
(* Properties *)

(* w is working for the committed queue: its transaction is open, or it is *)
(* between the inner commit of an analytics run and mark_job_success.      *)
Owns(w, j) == job[w] = j /\ w \notin lost

(* Two workers never own the same job, whatever crashes, dropped           *)
(* connections, cancellations and retries come between: FOR UPDATE SKIP    *)
(* LOCKED in fetch_next_job, and the committed "running" of an analytics   *)
(* job whose lock is gone, exclude a second claim.                         *)
SingleOwner ==
  \A w1, w2 \in Workers, j \in Jobs : Owns(w1, j) /\ Owns(w2, j) => w1 = w2

(* A worker never owns a job that is already settled: an operator's cancel *)
(* or retry takes effect before the claim or after the outcome, never      *)
(* under a running handler.                                                *)
NoWorkOnSettledJob ==
  \A w \in Workers, j \in Jobs : Owns(w, j) => row[j].status \in {"queued", "running"}

(* The two above together: a job is worked on by one worker, or by none    *)
(* once it is settled.                                                     *)
OwnershipIsExclusive == SingleOwner /\ NoWorkOnSettledJob

(* Committed lock fields are set exactly while the committed status is     *)
(* "running", and no export ever shows either: a rolled back, failed,      *)
(* retried or cancelled attempt leaves no owner behind in the row.         *)
NoStaleLockFields ==
  \A j \in Jobs :
    /\ row[j].lockedBy # NoWorker <=> row[j].status = "running"
    /\ row[j].status = "running" => j \in AnalyticsJobs /\ published[j] = 1

(* Attempts are counted only with their error: a queued row has attempts   *)
(* on its count exactly when it carries the error of one, and a failed row *)
(* has used them all.  A killed attempt leaves neither.                    *)
AttemptsMatchErrors ==
  \A j \in Jobs :
    /\ row[j].status = "queued" =>
         /\ row[j].attempts < MaxAttempts
         /\ row[j].lastError <=> row[j].attempts > 0
    /\ row[j].status = "failed" => row[j].lastError /\ row[j].attempts = MaxAttempts
    /\ row[j].status = "completed" => ~row[j].lastError /\ row[j].attempts > 0

(* The two rows of an export settle together: the export_job row that      *)
(* clients poll is completed exactly when the queue row is, has failed     *)
(* whenever the queue row has, and is never committed as running.          *)
PairAgrees ==
  \A j \in ExportJobs :
    /\ export[j].status = "completed" <=> row[j].status = "completed"
    /\ row[j].status = "failed" => export[j].status = "failed"
    /\ export[j].status = "failed" => row[j].status # "completed" /\ export[j].error
    /\ export[j].status # "running"

(* What is committed of a job is consistent, whatever attempts failed,     *)
(* died or were retried before: lock fields, attempts and the paired row.  *)
CommittedRowsAgree == NoStaleLockFields /\ AttemptsMatchErrors /\ PairAgrees

(* download_job serves only whole files: a completed export has its path   *)
(* recorded and its file is finished, although attempts that fail or die   *)
(* leave partial files under the same name.  A worker that lost its        *)
(* connection still truncates and writes the file; even then it exists, so *)
(* a race between workers never answers a download JOB_FILE_NOT_FOUND.     *)
DownloadsAreWhole ==
  \A j \in ExportJobs :
    export[j].status = "completed" =>
      /\ export[j].filePath
      /\ artifact[j] # "none"
      /\ drops = 0 => artifact[j] = "whole"

(* An analytics job stores one completed run at most, over all its         *)
(* attempts and retries.                                                   *)
PublishedAtMostOnce == \A j \in AnalyticsJobs : published[j] <= 1

(* The attempt count of a job goes down only when an operator retries a    *)
(* settled job, and only a claimed job becomes settled other than by a     *)
(* cancel: no fault hands out fresh attempts.                              *)
AttemptsAreSpent ==
  [][\A j \in Jobs :
       /\ row'[j].attempts < row[j].attempts =>
            row[j].status \in {"failed", "cancelled"} /\ row'[j].status = "queued"
       /\ row'[j].attempts <= row[j].attempts + 1
       /\ ~Settled(row[j]) /\ Settled(row'[j]) /\ row'[j].status # "cancelled"
            => \E w \in Workers : Owns(w, j)]_vars

(* What a client has been told is never taken back: a completed pair never *)
(* changes, and only a worker that lost its connection touches its file.   *)
CompletionIsFinal ==
  [][\A j \in Jobs : row[j].status = "completed" =>
       /\ row'[j] = row[j]
       /\ export'[j] = export[j]
       /\ artifact'[j] # artifact[j] => \E w \in lost : job[w] = j]_vars

(* A sequence of faults, cancels and retries neither hands out attempts    *)
(* nor reopens what is completed.                                          *)
OutcomesAreFinal == AttemptsAreSpent /\ CompletionIsFinal

(* Every submitted export is settled in the end, by its worker or by an    *)
(* operator, once crashes stop: neither a backoff nor older jobs, nor a    *)
(* lock left by a dead worker, can hold it back for ever.                  *)
ExportsSettle ==
  \A j \in ExportJobs : row[j].status = "queued" ~> Settled(row[j])

-----------------------------------------------------------------------------
(* The inductive invariant behind the properties above. *)

(* A worker has a job exactly while it is busy; only a busy worker with an *)
(* open transaction can have lost it.                                      *)
WorkersAgree ==
  \A w \in Workers :
    /\ pc[w] \in Idle <=> job[w] = NoJob
    /\ w \in lost => job[w] # NoJob /\ pc[w] # "published"
    /\ pc[w] \in {"queried", "writing", "written"} => job[w] \in ExportJobs
    /\ pc[w] = "published" => job[w] \in AnalyticsJobs

(* The locks are those of the open transactions. *)
LocksAgree ==
  /\ \A j \in Jobs : held[j] # NoWorker =>
       job[held[j]] = j /\ held[j] \notin lost /\ pc[held[j]] # "published"
  /\ \A w \in Workers : Connected(w) =>
       IF pc[w] = "published" THEN held[job[w]] = NoWorker ELSE held[job[w]] = w

(* What an owner has written and not committed, against what is committed. *)
Claimed(w) ==
  /\ row[job[w]].status = "queued"
  /\ txRow[w] = ClaimedRow(row[job[w]], w)

SucceededImages(w) ==
  /\ txRow[w] = SucceededRow(ClaimedRow(row[job[w]], w))
  /\ txExport[w] = ExportImage("completed", TRUE, FALSE)

FailedImages(w) ==
  /\ txRow[w] = FailedRow(ClaimedRow(row[job[w]], w))
  /\ txExport[w] = IF job[w] \in ExportJobs /\ row[job[w]].attempts + 1 = MaxAttempts
                   THEN ExportImage("failed", FALSE, TRUE)
                   ELSE export[job[w]]

(* After the inner commit of an analytics run the row names its worker.    *)
RunPublished(w) ==
  /\ row[job[w]].status = "running"
  /\ row[job[w]].lockedBy = w
  /\ txExport[w] = export[job[w]]

OutcomeReady(w) ==
  \/ /\ row[job[w]].status = "queued"
     /\ \/ job[w] \in ExportJobs /\ SucceededImages(w)
        \/ FailedImages(w)
  \/ /\ job[w] \in AnalyticsJobs
     /\ RunPublished(w)
     /\ txRow[w] = SucceededRow(row[job[w]])

Draft(w) ==
  /\ pc[w] = "claimed" => Claimed(w) /\ txExport[w] = export[job[w]]
  /\ pc[w] \in {"queried", "writing", "written"} => Claimed(w)
  /\ pc[w] = "published" => RunPublished(w) /\ txRow[w] = row[job[w]]
  /\ pc[w] = "outcome" => OutcomeReady(w)

DraftsAgree == \A w \in Workers : Connected(w) => Draft(w)

(* What a committed row says of the published runs and of its pair. *)
RowsAgree ==
  \A j \in Jobs :
    /\ published[j] = IF j \in AnalyticsJobs /\ row[j].status \in {"running", "completed"}
                      THEN 1 ELSE 0
    /\ j \in AnalyticsJobs => export[j] = NoExport
    /\ row[j].lockedBy # NoWorker <=> row[j].status = "running"
    /\ row[j].status = "running" => j \in AnalyticsJobs /\ row[j].attempts > 0
    /\ export[j].status = "completed" => export[j].filePath
    /\ row[j].status = "absent" => row[j].attempts = 0

(* The inductive invariant: every reachable state satisfies it, whatever   *)
(* the constants, and it implies the state properties that do not speak of *)
(* files.                                                                  *)
IInv ==
  /\ TypeOK
  /\ WorkersAgree
  /\ LocksAgree
  /\ DraftsAgree
  /\ RowsAgree
  /\ AttemptsMatchErrors
  /\ PairAgrees

(* The file of j is there, and finished unless a worker that lost its      *)
(* connection may be writing it too.                                       *)
FileReady(j) == artifact[j] # "none" /\ (drops = 0 => artifact[j] = "whole")

(* What the owner of an export has done to its file, and what a completed  *)
(* one promises of it.                                                     *)
FilesAgree ==
  /\ drops = 0 => lost = {}
  /\ \A w \in Workers : Connected(w) /\ job[w] \in ExportJobs =>
       /\ pc[w] = "writing" => artifact[job[w]] # "none"
       /\ pc[w] = "written" => FileReady(job[w])
       /\ pc[w] = "outcome" /\ txExport[w].status = "completed" => FileReady(job[w])
  /\ \A j \in ExportJobs : export[j].status = "completed" => FileReady(j)

(* The inductive invariant of the files. *)
FilesIInv == IInv /\ FilesAgree

-----------------------------------------------------------------------------
(* Workers, locks, transactions and faults are invisible in the committed  *)
(* rows: the queue behaves like the atomic lifecycle of JobLifecycle.  A   *)
(* result appears in the very step that makes its job delivered.           *)
Stage(r) ==
  CASE r.status = "queued" -> "pending"
    [] r.status \in {"running", "completed"} -> "delivered"
    [] OTHER -> r.status

Failures(r) == IF Stage(r) = "delivered" THEN r.attempts - 1 ELSE r.attempts

Results(j) ==
  IF j \in ExportJobs
  THEN IF export[j].status = "completed" /\ export[j].filePath THEN 1 ELSE 0
  ELSE published[j]

Lifecycle == INSTANCE JobLifecycle WITH
  state    <- [j \in Jobs |-> Stage(row[j])],
  failures <- [j \in Jobs |-> Failures(row[j])],
  results  <- [j \in Jobs |-> Results(j)]

(* The committed rows implement the atomic lifecycle of a job. *)
ImplementsLifecycle == Lifecycle!Spec

(* docs/deployment/backup_restore_drills.md:131-133 says that the worker   *)
(* holds its claim and handler in one transaction and that a killed        *)
(* attempt rolls back its claim.                                           *)
KilledClaimRollsBack ==
  [][\A w \in Workers :
       pc[w] \notin Idle /\ pc'[w] = "dead" => row'[job[w]].status # "running"]_vars

(* docs/api.md:99-101 tells the client to poll the job endpoint until its  *)
(* status is completed or failed; so when the queue has nothing left to do *)
(* for an export, its export_job row must have one of the two.             *)
PollingEnds ==
  \A j \in ExportJobs :
    Settled(row[j]) => export[j].status \in {"completed", "failed"}
=============================================================================
