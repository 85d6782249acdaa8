------------------------------ MODULE QueueRows ------------------------------
(***************************************************************************)
(* The rows of table job_queue and the functions of storage/repos/jobs.py  *)
(* that change one row.  A row is the record every consumer of the queue   *)
(* reads: the API, the worker, the scheduler and the backlog snapshot.     *)
(*                                                                         *)
(* locked_at and locked_by are always written together, so lockedBy stands *)
(* for both.  scheduled_at is kept outside the row, by the modules that    *)
(* need to know which rows are due and in which order.                     *)
(***************************************************************************)
EXTENDS Naturals

CONSTANTS
  Workers,      \* worker processes, the values of build_worker_id()
  NoWorker,     \* locked_by IS NULL
  MaxAttempts   \* column max_attempts, the same for every job

ASSUME WorkerAssumption == NoWorker \notin Workers
ASSUME AttemptsAssumption == MaxAttempts \in Nat \ {0}

QueueStatus == {"absent", "queued", "running", "completed", "failed", "cancelled"}

QueueRow == [status    : QueueStatus,
             attempts  : 0..MaxAttempts,
             lockedBy  : Workers \cup {NoWorker},
             lastError : BOOLEAN]

RowImage(status, attempts, lockedBy, lastError) ==
  [status |-> status, attempts |-> attempts, lockedBy |-> lockedBy, lastError |-> lastError]

AbsentRow == RowImage("absent", 0, NoWorker, FALSE)

(* enqueue_job *)
EnqueuedRow == RowImage("queued", 0, NoWorker, FALSE)

(* fetch_next_job: what the claiming worker writes. *)
ClaimedRow(r, w) == RowImage("running", r.attempts + 1, w, r.lastError)

(* mark_job_success *)
SucceededRow(r) == RowImage("completed", r.attempts, NoWorker, FALSE)

(* Mutant of Exhausted: ">" for ">=", one attempt too many. *)
ExhaustedTooLate(r) == r.attempts > MaxAttempts

(* The test mark_job_failed and run_worker both make: no attempt is left. *)
Exhausted(r) == r.attempts >= MaxAttempts

(* Mutant of FailedRow: the lock fields of a failed attempt are not cleared. *)
FailedRowKeepsLock(r) ==
  RowImage(IF Exhausted(r) THEN "failed" ELSE "queued", r.attempts, r.lockedBy, TRUE)

(* mark_job_failed *)
FailedRow(r) ==
  RowImage(IF Exhausted(r) THEN "failed" ELSE "queued", r.attempts, NoWorker, TRUE)

(* Mutant of Retryable: a completed row can be retried. *)
RetryableCompleted(r) == r.status \in {"completed", "failed", "cancelled"}

(* The WHERE clauses and the assignments of retry_job and cancel_job. *)
Retryable(r) == r.status \in {"failed", "cancelled"}
RetriedRow(r) == RowImage("queued", 0, NoWorker, FALSE)

Cancellable(r) == r.status = "queued"
CancelledRow(r) == RowImage("cancelled", r.attempts, NoWorker, r.lastError)

(* The row is settled: no worker and no timer will ever change it again.   *)
Settled(r) == r.status \in {"completed", "failed", "cancelled"}
=============================================================================
