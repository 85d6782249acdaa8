--------------------------- MODULE JobQueueProofs ---------------------------
(***************************************************************************)
(* Theorems about JobQueue for every set of jobs and workers, every        *)
(* MaxAttempts and every number of crashes and closed connections; then    *)
(* about AnalyticsPipeline: it implements JobQueue, so what is proved of   *)
(* the queue holds of it, and overlapping runs of a city replace its       *)
(* statuses as a whole.                                                    *)
(***************************************************************************)
EXTENDS AnalyticsPipeline, FiniteSetTheorems, SequenceTheorems, TLAPS

(* The assumptions on the constants are used throughout. *)
USE WorkerAssumption, AttemptsAssumption, JobsAssumption, BoundsAssumption

-----------------------------------------------------------------------------
(* The row functions, by what they do to each field. *)

(* The two constant rows. *)
LEMMA RowConstants ==
  /\ AbsentRow \in QueueRow /\ EnqueuedRow \in QueueRow
  /\ AbsentRow.status = "absent" /\ AbsentRow.attempts = 0
  /\ AbsentRow.lockedBy = NoWorker /\ AbsentRow.lastError = FALSE
  /\ EnqueuedRow.status = "queued" /\ EnqueuedRow.attempts = 0
  /\ EnqueuedRow.lockedBy = NoWorker /\ EnqueuedRow.lastError = FALSE
BY DEF RowImage, AbsentRow, EnqueuedRow, QueueRow, QueueStatus

(* A claim counts one attempt and names its worker. *)
LEMMA ClaimedRowFields ==
  ASSUME NEW r \in QueueRow, NEW w \in Workers, r.attempts < MaxAttempts
  PROVE  /\ ClaimedRow(r, w) \in QueueRow
         /\ ClaimedRow(r, w).status = "running"
         /\ ClaimedRow(r, w).attempts = r.attempts + 1
         /\ ClaimedRow(r, w).lockedBy = w
         /\ ClaimedRow(r, w).lastError = r.lastError
BY DEF RowImage, ClaimedRow, QueueRow, QueueStatus

(* A success keeps the attempts and clears lock and error. *)
LEMMA SucceededRowFields ==
  ASSUME NEW r \in QueueRow
  PROVE  /\ SucceededRow(r) \in QueueRow
         /\ SucceededRow(r).status = "completed"
         /\ SucceededRow(r).attempts = r.attempts
         /\ SucceededRow(r).lockedBy = NoWorker
         /\ SucceededRow(r).lastError = FALSE
BY DEF RowImage, SucceededRow, QueueRow, QueueStatus

(* A failure is final exactly when the attempts are used up. *)
LEMMA FailedRowFields ==
  ASSUME NEW r \in QueueRow
  PROVE  /\ FailedRow(r) \in QueueRow
         /\ r.attempts = MaxAttempts => FailedRow(r).status = "failed"
         /\ r.attempts < MaxAttempts => FailedRow(r).status = "queued"
         /\ FailedRow(r).attempts = r.attempts
         /\ FailedRow(r).lockedBy = NoWorker
         /\ FailedRow(r).lastError = TRUE
BY DEF RowImage, FailedRow, Exhausted, QueueRow, QueueStatus

(* A cancelled row keeps its attempts and its error. *)
LEMMA CancelledRowFields ==
  ASSUME NEW r \in QueueRow
  PROVE  /\ CancelledRow(r) \in QueueRow
         /\ CancelledRow(r).status = "cancelled"
         /\ CancelledRow(r).attempts = r.attempts
         /\ CancelledRow(r).lockedBy = NoWorker
         /\ CancelledRow(r).lastError = r.lastError
BY DEF RowImage, CancelledRow, QueueRow, QueueStatus

(* The images of an export_job row are export_job rows. *)
LEMMA ExportImageFields ==
  ASSUME NEW s \in {"absent", "queued", "running", "completed", "failed"},
         NEW f \in BOOLEAN, NEW e \in BOOLEAN
  PROVE  /\ ExportImage(s, f, e) \in ExportRow
         /\ ExportImage(s, f, e).status = s
         /\ ExportImage(s, f, e).filePath = f
         /\ ExportImage(s, f, e).error = e
BY DEF ExportImage, ExportRow

-----------------------------------------------------------------------------

(* An empty queue satisfies the invariant. *)
LEMMA InitIInv == Init => IInv
<1> SUFFICES ASSUME Init PROVE IInv
  OBVIOUS
<1> USE DEF Init
<1>1. NoExport \in ExportRow /\ NoExport.status = "absent" /\ NoExport.error = FALSE
  BY DEF NoExport, ExportImage, ExportRow
<1>2. TypeOK
  BY <1>1, RowConstants DEF TypeOK, Phase, Idle, Artifact
<1>3. WorkersAgree
  BY DEF WorkersAgree, Idle
<1>4. LocksAgree
  BY DEF LocksAgree, Connected
<1>5. DraftsAgree
  BY DEF DraftsAgree, Connected
<1>6. RowsAgree
  BY <1>1, RowConstants DEF RowsAgree, Jobs
<1>7. AttemptsMatchErrors
  BY RowConstants DEF AttemptsMatchErrors
<1>8. PairAgrees
  BY <1>1, RowConstants DEF PairAgrees, Jobs
<1>. QED
  BY <1>2, <1>3, <1>4, <1>5, <1>6, <1>7, <1>8 DEF IInv
-----------------------------------------------------------------------------
(* Who owns a job, and what a step of someone else leaves alone. *)

(* A worker with an open transaction owns a job that is not settled. *)
LEMMA OwnerFacts ==
  ASSUME IInv, NEW w \in Workers, Connected(w)
  PROVE  /\ job[w] \in Jobs
         /\ pc[w] \notin Idle
         /\ Draft(w)
         /\ row[job[w]].status \in {"queued", "running"}
         /\ pc[w] # "published" => held[job[w]] = w
         /\ pc[w] = "published" => held[job[w]] = NoWorker /\ row[job[w]].status = "running"
         /\ row[job[w]].status = "running" => row[job[w]].lockedBy = w
<1>1. job[w] \in Jobs /\ pc[w] \notin Idle /\ pc[w] \in Phase
  BY DEF IInv, TypeOK, WorkersAgree, Connected
<1>2. Draft(w)
  BY DEF IInv, DraftsAgree
<1>3. /\ pc[w] # "published" => held[job[w]] = w
      /\ pc[w] = "published" => held[job[w]] = NoWorker
  BY DEF IInv, LocksAgree
<1>. QED
  BY <1>1, <1>2, <1>3 DEF Draft, Claimed, OutcomeReady, RunPublished, Phase, Idle

(* No job has two owners. *)
LEMMA SoleOwner ==
  ASSUME IInv, NEW w \in Workers, NEW v \in Workers,
         Connected(w), Connected(v), job[v] = job[w]
  PROVE  v = w
BY OwnerFacts

(* The images of a worker that a step does not concern stay in agreement.  *)
LEMMA DraftFrame ==
  ASSUME NEW v \in Workers, Draft(v),
         UNCHANGED <<pc[v], job[v], txRow[v], txExport[v]>>,
         UNCHANGED <<row[job[v]], export[job[v]]>>
  PROVE  Draft(v)'
<1>1. /\ (job[v])' = job[v]
      /\ (row[job[v]])' = row[job[v]]
      /\ (export[job[v]])' = export[job[v]]
  OBVIOUS
<1>. QED
  BY <1>1 DEF Draft, Claimed, OutcomeReady, SucceededImages, FailedImages, RunPublished

-----------------------------------------------------------------------------
(* Requests and time. *)

(* The passing of a delay changes the order of claims only. *)
LEMMA BackoffElapsesIInv ==
  ASSUME IInv, NEW j \in Jobs, BackoffElapses(j)
  PROVE  IInv'
<1> USE DEF IInv, BackoffElapses, process, faults
<1>1. TypeOK'
  BY DEF TypeOK, BecomesDue
<1>2. WorkersAgree' /\ LocksAgree'
  BY DEF WorkersAgree, LocksAgree, Connected
<1>3. DraftsAgree'
  BY DraftFrame DEF DraftsAgree, Connected
<1>4. RowsAgree' /\ AttemptsMatchErrors' /\ PairAgrees'
  BY DEF RowsAgree, AttemptsMatchErrors, PairAgrees
<1>. QED
  BY <1>1, <1>2, <1>3, <1>4

(* The step of a request on a job that nobody owns. *)
LEMMA RequestFrame ==
  ASSUME IInv, NEW j \in Jobs,
         \A w \in Workers : Connected(w) => job[w] # j,
         NEW r, row' = [row EXCEPT ![j] = r],
         \A k \in Jobs \ {j} : export'[k] = export[k],
         UNCHANGED <<held, process>>
  PROVE  WorkersAgree' /\ LocksAgree' /\ DraftsAgree'
<1> USE DEF IInv, process
<1>1. WorkersAgree' /\ LocksAgree'
  BY DEF WorkersAgree, LocksAgree, Connected
<1>2. DraftsAgree'
  <2> SUFFICES ASSUME NEW v \in Workers, Connected(v)'
               PROVE  Draft(v)'
    BY DEF DraftsAgree
  <2>1. Connected(v)
    BY DEF Connected
  <2>2. Draft(v) /\ job[v] \in Jobs \ {j}
    BY <2>1, OwnerFacts
  <2>3. UNCHANGED <<row[job[v]], export[job[v]]>>
    BY <2>2 DEF TypeOK
  <2>. QED
    BY <2>2, <2>3, DraftFrame
<1>. QED
  BY <1>1, <1>2

(* A new row, and its paired row, agree. *)
LEMMA SubmitIInv ==
  ASSUME IInv, NEW j \in Jobs, Submit(j)
  PROVE  IInv'
<1> USE DEF IInv, Submit, process, faults
<1>1. /\ ExportImage("queued", FALSE, FALSE) \in ExportRow
      /\ ExportImage("queued", FALSE, FALSE).status = "queued"
  BY ExportImageFields
<1>2. TypeOK'
  BY RowConstants, <1>1 DEF TypeOK, BecomesDue, Jobs
<1>3. \A w \in Workers : Connected(w) => job[w] # j
  BY OwnerFacts
<1>4. WorkersAgree' /\ LocksAgree' /\ DraftsAgree'
  BY <1>3, RequestFrame, Zenon DEF TypeOK
<1>5. RowsAgree'
  BY <1>1, RowConstants DEF RowsAgree, Jobs, TypeOK
<1>6. AttemptsMatchErrors'
  BY RowConstants DEF AttemptsMatchErrors, TypeOK
<1>7. PairAgrees'
  BY <1>1, RowConstants DEF PairAgrees, Jobs, TypeOK
<1>. QED
  BY <1>2, <1>4, <1>5, <1>6, <1>7

(* A retried row starts again without a trace of its attempts. *)
LEMMA RetryIInv ==
  ASSUME IInv, NEW j \in Jobs, Retry(j)
  PROVE  IInv'
<1> USE DEF IInv, Retry, Retryable, process, faults
<1>1. RetriedRow(row[j]) = EnqueuedRow
  BY DEF RetriedRow, EnqueuedRow
<1>2. TypeOK'
  BY RowConstants, <1>1 DEF TypeOK, BecomesDue
<1>3. \A w \in Workers : Connected(w) => job[w] # j
  BY OwnerFacts
<1>4. WorkersAgree' /\ LocksAgree' /\ DraftsAgree'
  BY <1>3, RequestFrame
<1>5. RowsAgree'
  BY <1>1, RowConstants DEF RowsAgree, TypeOK
<1>6. AttemptsMatchErrors'
  BY <1>1, RowConstants DEF AttemptsMatchErrors, TypeOK
<1>7. PairAgrees'
  BY <1>1, RowConstants DEF PairAgrees, TypeOK, Jobs
<1>. QED
  BY <1>2, <1>4, <1>5, <1>6, <1>7

(* A cancel meets a row that nobody works on. *)
LEMMA CancelIInv ==
  ASSUME IInv, NEW j \in Jobs, Cancel(j)
  PROVE  IInv'
<1> USE DEF IInv, Cancel, Cancellable, process, faults
<1>1. row[j] \in QueueRow /\ row[j].status = "queued"
  BY DEF TypeOK
<1>2. TypeOK'
  BY <1>1, CancelledRowFields DEF TypeOK, NoLongerDue
<1>3. \A w \in Workers : Connected(w) => job[w] # j
  BY OwnerFacts
<1>4. WorkersAgree' /\ LocksAgree' /\ DraftsAgree'
  BY <1>3, RequestFrame
<1>5. RowsAgree'
  BY <1>1, CancelledRowFields DEF RowsAgree, TypeOK
<1>6. AttemptsMatchErrors'
  BY <1>1, CancelledRowFields DEF AttemptsMatchErrors, TypeOK
<1>7. PairAgrees'
  BY <1>1, CancelledRowFields DEF PairAgrees, TypeOK, Jobs
<1>. QED
  BY <1>2, <1>4, <1>5, <1>6, <1>7
-----------------------------------------------------------------------------
(* Steps of a worker. *)

(* The other owners are not concerned by a step of w that writes, at most, *)
(* the rows of the job w owns.                                             *)
LEMMA WorkerFrame ==
  ASSUME IInv, NEW w \in Workers,
         \A v \in Workers \ {w} :
           /\ UNCHANGED <<pc[v], job[v], txRow[v], txExport[v]>>
           /\ v \in lost' <=> v \in lost,
         \/ UNCHANGED <<row, export>>
         \/ /\ Connected(w)
            /\ \A k \in Jobs \ {job[w]} : UNCHANGED <<row[k], export[k]>>
  PROVE  \A v \in Workers \ {w} : Connected(v)' =>
           /\ Connected(v)
           /\ Draft(v)'
           /\ Connected(w) => job[v] # job[w]
<1> SUFFICES ASSUME NEW v \in Workers \ {w}, Connected(v)'
             PROVE  /\ Connected(v)
                    /\ Draft(v)'
                    /\ Connected(w) => job[v] # job[w]
  OBVIOUS
<1>1. Connected(v)
  BY DEF Connected
<1>2. Draft(v) /\ job[v] \in Jobs
  BY <1>1, OwnerFacts
<1>3. Connected(w) => job[v] # job[w]
  BY <1>1, SoleOwner
<1>4. UNCHANGED <<row[job[v]], export[job[v]]>>
  BY <1>2, <1>3
<1>. QED
  BY <1>1, <1>2, <1>3, <1>4, DraftFrame

(* A claim makes its worker the owner of a row nobody owned. *)
LEMMA ClaimIInv ==
  ASSUME IInv, NEW w \in Workers, Claim(w)
  PROVE  IInv'
<1> USE DEF IInv, tables, faults
<1>1. PICK j \in Runnable :
        /\ held' = [held EXCEPT ![j] = w]
        /\ job' = [job EXCEPT ![w] = j]
        /\ txRow' = [txRow EXCEPT ![w] = ClaimedRow(row[j], w)]
        /\ txExport' = [txExport EXCEPT ![w] = export[j]]
  BY DEF Claim
<1>2. /\ j \in Jobs /\ row[j].status = "queued" /\ held[j] = NoWorker
      /\ row[j] \in QueueRow /\ row[j].attempts < MaxAttempts /\ export[j] \in ExportRow
      /\ pc[w] = "idle" /\ pc' = [pc EXCEPT ![w] = "claimed"]
      /\ UNCHANGED <<row, due, ahead, export, published, lost, artifact, crashes, drops>>
  BY DEF Runnable, TypeOK, AttemptsMatchErrors, Claim
<1>3. ClaimedRow(row[j], w) \in QueueRow
  BY <1>2, ClaimedRowFields
<1>4. job[w] = NoJob /\ ~Connected(w)
  BY <1>2 DEF WorkersAgree, Idle, Connected
<1>5. \A v \in Workers \ {w} : UNCHANGED <<pc[v], job[v], txRow[v], txExport[v]>>
  BY <1>1, <1>2 DEF TypeOK
<1>6. \A v \in Workers \ {w} : Connected(v)' => Connected(v) /\ Draft(v)'
  BY <1>2, <1>5, WorkerFrame
<1>7. TypeOK'
  BY <1>1, <1>2, <1>3 DEF TypeOK, Phase
<1>8. WorkersAgree'
  BY <1>1, <1>2 DEF WorkersAgree, TypeOK, Idle
<1>9. LocksAgree'
  <2>1. ASSUME NEW k \in Jobs, held'[k] # NoWorker
        PROVE  job'[held'[k]] = k /\ held'[k] \notin lost' /\ pc'[held'[k]] # "published"
    BY <1>1, <1>2, <1>4, <2>1 DEF LocksAgree, WorkersAgree, TypeOK, Idle
  <2>2. ASSUME NEW v \in Workers, Connected(v)'
        PROVE  IF pc'[v] = "published" THEN held'[job'[v]] = NoWorker ELSE held'[job'[v]] = v
    <3>1. CASE v = w
      BY <3>1, <1>1, <1>2 DEF TypeOK
    <3>2. CASE v # w
      <4>1. Connected(v) /\ job'[v] = job[v] /\ pc'[v] = pc[v]
        BY <3>2, <2>2, <1>5, <1>6
      <4>2. job[v] # j
        BY <4>1, <1>2, OwnerFacts
      <4>. QED
        BY <4>1, <4>2, <1>1, <1>2 DEF LocksAgree, TypeOK
    <3>. QED
      BY <3>1, <3>2
  <2>. QED
    BY <2>1, <2>2 DEF LocksAgree
<1>10. DraftsAgree'
  <2>1. Draft(w)'
    BY <1>1, <1>2 DEF Draft, Claimed, TypeOK
  <2>. QED
    BY <2>1, <1>6 DEF DraftsAgree
<1>11. RowsAgree' /\ AttemptsMatchErrors' /\ PairAgrees'
  BY <1>2 DEF RowsAgree, AttemptsMatchErrors, PairAgrees
<1>. QED
  BY <1>7, <1>8, <1>9, <1>10, <1>11

(* A step of the handler that keeps locks and committed rows needs only    *)
(* its own images checked.                                                 *)
LEMMA HandlerFrame ==
  ASSUME IInv, NEW w \in Workers, NEW p \in Phase \ (Idle \cup {"published"}),
         pc[w] \notin Idle \cup {"published"},
         p \in {"queried", "writing", "written"} => job[w] \in ExportJobs,
         pc' = [pc EXCEPT ![w] = p],
         \A v \in Workers \ {w} : UNCHANGED <<txRow[v], txExport[v]>>,
         UNCHANGED <<tables, held, job, lost>>,
         Connected(w) => Draft(w)'
  PROVE  /\ WorkersAgree' /\ LocksAgree' /\ DraftsAgree'
         /\ RowsAgree' /\ AttemptsMatchErrors' /\ PairAgrees'
<1> USE DEF IInv, tables
<1>1. \A v \in Workers : Connected(v)' <=> Connected(v)
  BY DEF Connected
<1>2. \A v \in Workers \ {w} : UNCHANGED <<pc[v], job[v], txRow[v], txExport[v]>>
  BY DEF TypeOK
<1>3. \A v \in Workers \ {w} : Connected(v)' => Draft(v)'
  BY <1>2, WorkerFrame
<1>4. WorkersAgree'
  BY DEF WorkersAgree, TypeOK, Idle
<1>5. LocksAgree'
  BY <1>1 DEF LocksAgree, TypeOK, Idle
<1>6. DraftsAgree'
  BY <1>1, <1>3 DEF DraftsAgree
<1>7. RowsAgree' /\ AttemptsMatchErrors' /\ PairAgrees'
  BY DEF RowsAgree, AttemptsMatchErrors, PairAgrees
<1>. QED
  BY <1>4, <1>5, <1>6, <1>7

(* The running image of the paired row is not committed. *)
LEMMA StartExportIInv ==
  ASSUME IInv, NEW w \in Workers, StartExport(w)
  PROVE  IInv'
<1> USE DEF IInv, StartExport, tables, faults
<1>1. ExportImage("running", FALSE, FALSE) \in ExportRow
  BY ExportImageFields
<1>2. TypeOK'
  BY <1>1 DEF TypeOK, Phase
<1>3. Draft(w)'
  BY DEF DraftsAgree, Draft, Claimed, TypeOK
<1>. QED
  BY <1>2, <1>3, HandlerFrame DEF TypeOK, Phase, Idle

(* Files are not part of the invariant. *)
LEMMA FileIInv ==
  ASSUME IInv, NEW w \in Workers, OpenFile(w) \/ CloseFile(w)
  PROVE  IInv'
<1> USE DEF IInv, OpenFile, CloseFile, tables, faults
<1>1. job[w] \in ExportJobs
  BY DEF WorkersAgree
<1>2. TypeOK'
  BY <1>1 DEF TypeOK, Phase, Artifact, Jobs
<1>3. Connected(w) => Draft(w)'
  BY DEF DraftsAgree, Draft, Claimed, TypeOK
<1>4. CASE OpenFile(w)
  BY <1>1, <1>2, <1>3, <1>4, HandlerFrame DEF TypeOK, Phase, Idle
<1>5. CASE CloseFile(w)
  BY <1>1, <1>2, <1>3, <1>5, HandlerFrame DEF TypeOK, Phase, Idle
<1>. QED
  BY <1>4, <1>5

(* The images of a success agree with the claim. *)
LEMMA ExportSucceedsIInv ==
  ASSUME IInv, NEW w \in Workers, ExportSucceeds(w)
  PROVE  IInv'
<1> USE DEF IInv, ExportSucceeds, tables, faults
<1>1. ExportImage("completed", TRUE, FALSE) \in ExportRow
  BY ExportImageFields
<1>2. TypeOK'
  BY <1>1, SucceededRowFields DEF TypeOK, Phase
<1>3. Draft(w)'
  BY DEF WorkersAgree, DraftsAgree, Draft, Claimed, OutcomeReady, SucceededImages, TypeOK
<1>. QED
  BY <1>2, <1>3, HandlerFrame DEF TypeOK, Phase, Idle

(* The images of a failure agree with the claim. *)
LEMMA HandlerRaisesIInv ==
  ASSUME IInv, NEW w \in Workers, HandlerRaises(w)
  PROVE  IInv'
<1> USE DEF IInv, HandlerRaises, tables, faults
<1>1. ExportImage("failed", FALSE, TRUE) \in ExportRow
  BY ExportImageFields
<1>2. job[w] \in Jobs /\ row[job[w]] \in QueueRow /\ row[job[w]].attempts < MaxAttempts
  BY OwnerFacts DEF Draft, Claimed, TypeOK, AttemptsMatchErrors
<1>3. txRow[w] = ClaimedRow(row[job[w]], w) /\ row[job[w]].status = "queued"
  BY OwnerFacts DEF Draft, Claimed
<1>4. txRow[w].attempts = row[job[w]].attempts + 1
  BY <1>2, <1>3, ClaimedRowFields
<1>5. Exhausted(txRow[w]) <=> row[job[w]].attempts + 1 = MaxAttempts
  BY <1>2, <1>4 DEF Exhausted, QueueRow
<1>6. TypeOK'
  BY <1>1, <1>2, FailedRowFields DEF TypeOK, Phase
<1>7. Draft(w)'
  BY <1>3, <1>5 DEF Draft, OutcomeReady, FailedImages, TypeOK
<1>. QED
  BY <1>6, <1>7, HandlerFrame DEF TypeOK, Phase, Idle

(* The inner commit leaves a running row that names its worker. *)
LEMMA PublishRunIInv ==
  ASSUME IInv, NEW w \in Workers, PublishRun(w)
  PROVE  IInv'
<1> USE DEF IInv, PublishRun, faults
<1>1. /\ job[w] \in Jobs /\ Claimed(w) /\ txExport[w] = export[job[w]]
      /\ held[job[w]] = w /\ row[job[w]] \in QueueRow /\ row[job[w]].attempts < MaxAttempts
  BY OwnerFacts DEF Draft, Claimed, TypeOK, AttemptsMatchErrors
<1>2. /\ txRow[w] \in QueueRow /\ txRow[w].status = "running" /\ txRow[w].lockedBy = w
      /\ txRow[w].attempts = row[job[w]].attempts + 1
  BY <1>1, ClaimedRowFields DEF Claimed
<1>3. \A v \in Workers \ {w} : Connected(v)' => Connected(v) /\ Draft(v)' /\ job[v] # job[w]
  BY WorkerFrame DEF TypeOK
<1>4. TypeOK'
  BY <1>1, <1>2 DEF TypeOK, NoLongerDue, Phase
<1>5. WorkersAgree'
  BY DEF WorkersAgree, TypeOK, Idle, Connected
<1>6. LocksAgree'
  <2>1. ASSUME NEW k \in Jobs, held'[k] # NoWorker
        PROVE  job'[held'[k]] = k /\ held'[k] \notin lost' /\ pc'[held'[k]] # "published"
    BY <1>1, <2>1 DEF LocksAgree, TypeOK
  <2>2. ASSUME NEW v \in Workers, Connected(v)'
        PROVE  IF pc'[v] = "published" THEN held'[job'[v]] = NoWorker ELSE held'[job'[v]] = v
    BY <1>1, <1>3, <2>2 DEF LocksAgree, TypeOK
  <2>. QED
    BY <2>1, <2>2 DEF LocksAgree
<1>7. DraftsAgree'
  <2>1. Draft(w)'
    BY <1>1, <1>2 DEF Draft, RunPublished, TypeOK
  <2>. QED
    BY <2>1, <1>3 DEF DraftsAgree
<1>8. RowsAgree'
  BY <1>1, <1>2 DEF RowsAgree, Claimed, TypeOK, QueueRow
<1>9. AttemptsMatchErrors'
  BY <1>1, <1>2 DEF AttemptsMatchErrors, TypeOK
<1>10. PairAgrees'
  BY <1>1, <1>2 DEF PairAgrees, TypeOK
<1>. QED
  BY <1>4, <1>5, <1>6, <1>7, <1>8, <1>9, <1>10

(* The second transaction of an analytics job takes the lock again. *)
LEMMA AnalyticsSucceedsIInv ==
  ASSUME IInv, NEW w \in Workers, AnalyticsSucceeds(w)
  PROVE  IInv'
<1> USE DEF IInv, AnalyticsSucceeds, tables, faults
<1>1. job[w] \in Jobs /\ job[w] \in AnalyticsJobs /\ Connected(w)
  BY DEF WorkersAgree, TypeOK, Idle, Connected
<1>2. RunPublished(w) /\ txRow[w] = row[job[w]]
  BY <1>1, OwnerFacts DEF Draft
<1>3. \A v \in Workers \ {w} : Connected(v)' => Connected(v) /\ Draft(v)' /\ job[v] # job[w]
  BY <1>1, WorkerFrame DEF TypeOK
<1>4. TypeOK'
  BY <1>1, SucceededRowFields DEF TypeOK, Phase
<1>5. WorkersAgree'
  BY DEF WorkersAgree, TypeOK, Idle
<1>6. LocksAgree'
  <2>1. ASSUME NEW k \in Jobs, held'[k] # NoWorker
        PROVE  job'[held'[k]] = k /\ held'[k] \notin lost' /\ pc'[held'[k]] # "published"
    BY <1>1, <2>1 DEF LocksAgree, TypeOK, Connected
  <2>2. ASSUME NEW v \in Workers, Connected(v)'
        PROVE  IF pc'[v] = "published" THEN held'[job'[v]] = NoWorker ELSE held'[job'[v]] = v
    BY <1>1, <1>3, <2>2 DEF LocksAgree, TypeOK
  <2>. QED
    BY <2>1, <2>2 DEF LocksAgree
<1>7. DraftsAgree'
  <2>1. Draft(w)'
    BY <1>1, <1>2 DEF Draft, OutcomeReady, RunPublished, TypeOK
  <2>. QED
    BY <2>1, <1>3 DEF DraftsAgree
<1>8. RowsAgree' /\ AttemptsMatchErrors' /\ PairAgrees'
  BY DEF RowsAgree, AttemptsMatchErrors, PairAgrees
<1>. QED
  BY <1>4, <1>5, <1>6, <1>7, <1>8

(* A worker that leaves its job gives its lock back, if it still has it.   *)
LEMMA LeaveFrame ==
  ASSUME IInv, NEW w \in Workers, NEW p \in Idle, LeaveJob(w, p),
         pc[w] \notin Idle,
         Release(w),
         \/ UNCHANGED <<row, export>>
         \/ /\ Connected(w)
            /\ \A k \in Jobs \ {job[w]} : UNCHANGED <<row[k], export[k]>>
  PROVE  WorkersAgree' /\ LocksAgree' /\ DraftsAgree'
<1> USE DEF IInv, LeaveJob, Release
<1>1. job[w] \in Jobs
  BY DEF WorkersAgree, TypeOK
<1>2. \A v \in Workers \ {w} : Connected(v)' => Connected(v) /\ Draft(v)'
  BY WorkerFrame DEF TypeOK
<1>3. WorkersAgree'
  BY DEF WorkersAgree, TypeOK, Idle
<1>4. ~Connected(w)'
  BY DEF Connected, TypeOK
<1>5. LocksAgree'
  <2>1. ASSUME NEW k \in Jobs, held'[k] # NoWorker
        PROVE  job'[held'[k]] = k /\ held'[k] \notin lost' /\ pc'[held'[k]] # "published"
    <3>1. held[k] = held'[k] /\ held[k] # w
      BY <1>1, <2>1 DEF LocksAgree, TypeOK
    <3>. QED
      BY <2>1, <3>1 DEF LocksAgree, TypeOK
  <2>2. ASSUME NEW v \in Workers, Connected(v)'
        PROVE  IF pc'[v] = "published" THEN held'[job'[v]] = NoWorker ELSE held'[job'[v]] = v
    <3>1. v # w /\ Connected(v) /\ UNCHANGED <<pc[v], job[v]>>
      BY <1>2, <1>4, <2>2 DEF TypeOK
    <3>2. /\ pc[v] = "published" => held[job[v]] = NoWorker
          /\ pc[v] # "published" => held[job[v]] = v
          /\ job[v] \in Jobs
      BY <3>1, OwnerFacts
    <3>. QED
      BY <3>1, <3>2, <1>1 DEF TypeOK
  <2>. QED
    BY <2>1, <2>2 DEF LocksAgree
<1>6. DraftsAgree'
  BY <1>2, <1>4 DEF DraftsAgree
<1>. QED
  BY <1>3, <1>5, <1>6

(* The three ways an attempt can end, by the images w commits for its job j. *)
DeliversExport(w, j) ==
  /\ j \in ExportJobs /\ row[j].status = "queued"
  /\ txRow[w].status = "completed" /\ txRow[w].lastError = FALSE
  /\ txRow[w].attempts = row[j].attempts + 1
  /\ txExport[w].status = "completed" /\ txExport[w].filePath

RecordsFailure(w, j) ==
  /\ row[j].status = "queued" /\ row[j].attempts + 1 <= MaxAttempts
  /\ txRow[w].status = IF row[j].attempts + 1 = MaxAttempts THEN "failed" ELSE "queued"
  /\ txRow[w].lastError = TRUE
  /\ txRow[w].attempts = row[j].attempts + 1
  /\ IF j \in ExportJobs /\ row[j].attempts + 1 = MaxAttempts
     THEN txExport[w].status = "failed" /\ txExport[w].error
     ELSE txExport[w] = export[j]

CompletesRun(w, j) ==
  /\ j \in AnalyticsJobs /\ row[j].status = "running"
  /\ txRow[w].status = "completed" /\ txRow[w].lastError = FALSE
  /\ txRow[w].attempts = row[j].attempts
  /\ txExport[w] = export[j]

(* A commit is one of the three, and releases the row. *)
LEMMA CommitOutcome ==
  ASSUME IInv, NEW w \in Workers, Commit(w), NEW j, j = job[w]
  PROVE  /\ j \in Jobs /\ held[j] = w /\ Connected(w)
         /\ row[j] \in QueueRow /\ txRow[w] \in QueueRow /\ txExport[w] \in ExportRow
         /\ txRow[w].lockedBy = NoWorker
         /\ DeliversExport(w, j) \/ RecordsFailure(w, j) \/ CompletesRun(w, j)
<1> DEFINE r == txRow[w]
           e == txExport[w]
<1>1. /\ j \in Jobs /\ row[j] \in QueueRow /\ r \in QueueRow /\ e \in ExportRow
      /\ held[j] = w /\ Connected(w) /\ OutcomeReady(w)
  BY OwnerFacts DEF Commit, Draft, IInv, TypeOK
<1>2. row[j].status = "queued" =>
        /\ row[j].attempts < MaxAttempts
        /\ ClaimedRow(row[j], w) \in QueueRow
        /\ ClaimedRow(row[j], w).attempts = row[j].attempts + 1
  BY <1>1, ClaimedRowFields DEF IInv, AttemptsMatchErrors
<1>3. CASE j \in ExportJobs /\ row[j].status = "queued" /\ SucceededImages(w)
  <2>1. /\ r.status = "completed" /\ r.lockedBy = NoWorker
        /\ r.lastError = FALSE /\ r.attempts = row[j].attempts + 1
    <3>1. r = SucceededRow(ClaimedRow(row[j], w))
      BY <1>3 DEF SucceededImages
    <3> HIDE DEF r
    <3>. QED
      BY <3>1, <1>2, <1>3, SucceededRowFields
  <2>2. e.status = "completed" /\ e.filePath
    BY <1>3, ExportImageFields DEF SucceededImages
  <2>. QED
    BY <1>1, <1>3, <2>1, <2>2 DEF DeliversExport
<1>4. CASE row[j].status = "queued" /\ FailedImages(w)
  <2>1. /\ r.lockedBy = NoWorker /\ r.lastError = TRUE
        /\ r.attempts = row[j].attempts + 1
        /\ row[j].attempts + 1 = MaxAttempts => r.status = "failed"
        /\ row[j].attempts + 1 < MaxAttempts => r.status = "queued"
    <3>1. r = FailedRow(ClaimedRow(row[j], w))
      BY <1>4 DEF FailedImages
    <3> HIDE DEF r
    <3>. QED
      BY <3>1, <1>2, <1>4, FailedRowFields
  <2>2. row[j].attempts + 1 = MaxAttempts \/ row[j].attempts + 1 < MaxAttempts
    BY <1>1, <1>2, <1>4 DEF QueueRow
  <2>3. IF j \in ExportJobs /\ row[j].attempts + 1 = MaxAttempts
        THEN e.status = "failed" /\ e.error
        ELSE e = export[j]
    BY <1>4, ExportImageFields DEF FailedImages
  <2>. QED
    BY <1>1, <1>4, <2>1, <2>2, <2>3 DEF RecordsFailure, QueueRow
<1>5. CASE j \in AnalyticsJobs /\ RunPublished(w) /\ r = SucceededRow(row[j])
  <2>1. /\ r.status = "completed" /\ r.lockedBy = NoWorker
        /\ r.lastError = FALSE /\ r.attempts = row[j].attempts
    <3> HIDE DEF r
    <3>. QED
      BY <1>1, <1>5, SucceededRowFields
  <2>2. row[j].status = "running" /\ e = export[j]
    BY <1>5 DEF RunPublished
  <2>. QED
    BY <1>1, <1>5, <2>1, <2>2 DEF CompletesRun
<1>. QED
  BY <1>1, <1>3, <1>4, <1>5 DEF OutcomeReady

(* A commit settles the row and its paired row together. *)
LEMMA CommitIInv ==
  ASSUME IInv, NEW w \in Workers, Commit(w)
  PROVE  IInv'
<1> USE DEF IInv, Commit, faults
<1> DEFINE j == job[w]
           r == txRow[w]
           e == txExport[w]
<1>1. /\ j \in Jobs /\ row[j] \in QueueRow /\ r \in QueueRow /\ e \in ExportRow
      /\ held[j] = w /\ r.lockedBy = NoWorker
  BY CommitOutcome
<1>2. Release(w)
  BY <1>1 DEF Release
<1>3. TypeOK'
  BY <1>1, RowConstants, ExportImageFields DEF TypeOK, LeaveJob, NoLongerDue, Phase, Idle, NoExport
<1>4. WorkersAgree' /\ LocksAgree' /\ DraftsAgree'
  BY <1>1, <1>2, LeaveFrame DEF TypeOK, Idle
<1>5. RowsAgree' /\ AttemptsMatchErrors' /\ PairAgrees'
  <2>1. CASE DeliversExport(w, j)
    <3>1. RowsAgree'
      BY <1>1, <2>1 DEF DeliversExport, RowsAgree, TypeOK
    <3>2. AttemptsMatchErrors' /\ PairAgrees'
      BY <1>1, <2>1 DEF DeliversExport, AttemptsMatchErrors, PairAgrees, TypeOK, QueueRow
    <3>. QED
      BY <3>1, <3>2
  <2>2. CASE RecordsFailure(w, j)
    <3>1. RowsAgree'
      BY <1>1, <2>2 DEF RecordsFailure, RowsAgree, TypeOK, Jobs
    <3>2. AttemptsMatchErrors'
      BY <1>1, <2>2 DEF RecordsFailure, AttemptsMatchErrors, TypeOK, QueueRow
    <3>3. PairAgrees'
      BY <1>1, <2>2 DEF RecordsFailure, PairAgrees, TypeOK, Jobs
    <3>. QED
      BY <3>1, <3>2, <3>3
  <2>3. CASE CompletesRun(w, j)
    <3>1. j \notin ExportJobs
      BY <2>3 DEF CompletesRun
    <3>2. RowsAgree'
      BY <1>1, <2>3, <3>1 DEF CompletesRun, RowsAgree, TypeOK
    <3>3. AttemptsMatchErrors' /\ PairAgrees'
      BY <1>1, <2>3, <3>1 DEF CompletesRun, RowsAgree, AttemptsMatchErrors, PairAgrees, TypeOK
    <3>. QED
      BY <3>2, <3>3
  <2>. QED
    BY <2>1, <2>2, <2>3, CommitOutcome
<1>. QED
  BY <1>3, <1>4, <1>5
-----------------------------------------------------------------------------
(* Faults. *)

(* A process that ends loses its images and gives back its lock. *)
LEMMA DiesIInv ==
  ASSUME IInv, NEW w \in Workers, Crash(w) \/ NoticeLostConnection(w)
  PROVE  IInv'
<1> USE DEF IInv, tables, faults
<1>1. /\ LeaveJob(w, "dead") /\ pc[w] \notin Idle /\ Release(w)
      /\ UNCHANGED <<row, due, ahead, export, published, artifact, drops>>
      /\ crashes' \in 0..MaxCrashes
  <2>1. CASE Crash(w)
    BY <2>1 DEF Crash, TypeOK
  <2>2. CASE NoticeLostConnection(w)
    <3>1. w \in lost /\ job[w] \in Jobs /\ pc[w] \notin Idle
      BY <2>2 DEF NoticeLostConnection, WorkersAgree, TypeOK
    <3>2. held[job[w]] # w
      BY <3>1 DEF LocksAgree
    <3>. QED
      BY <2>2, <3>1, <3>2 DEF NoticeLostConnection, Release, TypeOK
  <2>. QED
    BY <2>1, <2>2
<1>2. NoExport \in ExportRow
  BY ExportImageFields DEF NoExport
<1>3. TypeOK'
  BY <1>1, <1>2, RowConstants DEF TypeOK, LeaveJob, Release, Phase, Idle
<1>4. WorkersAgree' /\ LocksAgree' /\ DraftsAgree'
  BY <1>1, LeaveFrame DEF Idle
<1>5. RowsAgree' /\ AttemptsMatchErrors' /\ PairAgrees'
  BY <1>1 DEF RowsAgree, AttemptsMatchErrors, PairAgrees
<1>. QED
  BY <1>3, <1>4, <1>5

(* A closed connection gives back the lock; its worker owns nothing now. *)
LEMMA LoseConnectionIInv ==
  ASSUME IInv, NEW w \in Workers, LoseConnection(w)
  PROVE  IInv'
<1> USE DEF IInv, LoseConnection, tables
<1>1. job[w] \in Jobs /\ held[job[w]] = w /\ pc[w] \notin Idle
  BY OwnerFacts
<1>2. held' = [held EXCEPT ![job[w]] = NoWorker]
  BY <1>1 DEF Release
<1>3. \A v \in Workers \ {w} : Connected(v)' => Connected(v) /\ Draft(v)' /\ job[v] # job[w]
  BY WorkerFrame DEF TypeOK
<1>4. ~Connected(w)'
  BY DEF Connected
<1>5. TypeOK'
  BY <1>1, <1>2 DEF TypeOK
<1>6. WorkersAgree'
  BY <1>1 DEF WorkersAgree, Connected
<1>7. LocksAgree'
  <2>1. ASSUME NEW k \in Jobs, held'[k] # NoWorker
        PROVE  job'[held'[k]] = k /\ held'[k] \notin lost' /\ pc'[held'[k]] # "published"
    <3>1. held'[k] = held[k] /\ held[k] # w
      BY <1>1, <1>2, <2>1 DEF LocksAgree, TypeOK
    <3>. QED
      BY <2>1, <3>1 DEF LocksAgree, TypeOK
  <2>2. ASSUME NEW v \in Workers, Connected(v)'
        PROVE  IF pc'[v] = "published" THEN held'[job'[v]] = NoWorker ELSE held'[job'[v]] = v
    <3>1. v # w /\ Connected(v) /\ job[v] # job[w]
      BY <1>3, <1>4, <2>2
    <3>. QED
      BY <3>1, <1>1, <1>2 DEF LocksAgree, TypeOK, Connected
  <2>. QED
    BY <2>1, <2>2 DEF LocksAgree
<1>8. DraftsAgree'
  BY <1>3, <1>4 DEF DraftsAgree
<1>9. RowsAgree' /\ AttemptsMatchErrors' /\ PairAgrees'
  BY DEF RowsAgree, AttemptsMatchErrors, PairAgrees
<1>. QED
  BY <1>5, <1>6, <1>7, <1>8, <1>9

(* A restarted worker has no job. *)
LEMMA RestartIInv ==
  ASSUME IInv, NEW w \in Workers, Restart(w)
  PROVE  IInv'
<1> USE DEF IInv, Restart, tables, faults
<1>1. job[w] = NoJob /\ ~Connected(w)
  BY DEF WorkersAgree, Idle, Connected
<1>2. TypeOK'
  BY DEF TypeOK, Phase, Idle
<1>3. WorkersAgree'
  BY DEF WorkersAgree, TypeOK, Idle
<1>4. \A v \in Workers \ {w} : Connected(v)' => Connected(v) /\ Draft(v)'
  BY WorkerFrame DEF TypeOK
<1>5. ~Connected(w)'
  BY <1>1 DEF Connected
<1>6. LocksAgree'
  BY <1>4, <1>5 DEF LocksAgree, TypeOK
<1>7. DraftsAgree'
  BY <1>4, <1>5 DEF DraftsAgree
<1>8. RowsAgree' /\ AttemptsMatchErrors' /\ PairAgrees'
  BY DEF RowsAgree, AttemptsMatchErrors, PairAgrees
<1>. QED
  BY <1>2, <1>3, <1>6, <1>7, <1>8

(* A step that changes nothing. *)
LEMMA StutterIInv == IInv /\ UNCHANGED vars => IInv'
<1> SUFFICES ASSUME IInv, UNCHANGED vars
             PROVE  IInv'
  OBVIOUS
<1> USE DEF IInv, vars
<1>1. TypeOK' /\ WorkersAgree' /\ LocksAgree'
  BY DEF TypeOK, WorkersAgree, LocksAgree, Connected
<1>2. DraftsAgree'
  BY DraftFrame DEF DraftsAgree, Connected
<1>3. RowsAgree' /\ AttemptsMatchErrors' /\ PairAgrees'
  BY DEF RowsAgree, AttemptsMatchErrors, PairAgrees
<1>. QED
  BY <1>1, <1>2, <1>3

(* Every step of the queue keeps the invariant. *)
LEMMA NextIInv == IInv /\ [Next]_vars => IInv'
<1> SUFFICES ASSUME IInv, [Next]_vars
             PROVE  IInv'
  OBVIOUS
<1>1. ASSUME NEW j \in Jobs, Request(j) \/ BackoffElapses(j)
      PROVE  IInv'
  BY <1>1, SubmitIInv, RetryIInv, CancelIInv, BackoffElapsesIInv DEF Request
<1>2. ASSUME NEW w \in Workers, Handler(w)
      PROVE  IInv'
  BY <1>2, StartExportIInv, FileIInv, ExportSucceedsIInv, PublishRunIInv,
     AnalyticsSucceedsIInv, HandlerRaisesIInv DEF Handler
<1>3. ASSUME NEW w \in Workers, Work(w)
      PROVE  IInv'
  BY <1>2, <1>3, ClaimIInv, CommitIInv, DiesIInv, RestartIInv DEF Work
<1>4. ASSUME NEW w \in Workers, Fault(w)
      PROVE  IInv'
  BY <1>4, DiesIInv, LoseConnectionIInv DEF Fault
<1>5. CASE UNCHANGED vars
  BY <1>5, StutterIInv
<1>. QED
  BY <1>1, <1>3, <1>4, <1>5 DEF Next

-----------------------------------------------------------------------------
(* The inductive invariant holds in every reachable state of the queue,    *)
(* for every number of workers, jobs, attempts and faults.                 *)
THEOREM Invariance == Spec => []IInv
BY InitIInv, NextIInv, PTL DEF Spec

(* Every variable keeps its type; attempts never exceed max_attempts.      *)
THEOREM TypeCorrect == Spec => []TypeOK
<1>1. IInv => TypeOK
  BY DEF IInv
<1>. QED
  BY <1>1, Invariance, PTL

(* FOR UPDATE SKIP LOCKED, and the committed status of an analytics job    *)
(* between its two commits, give every job one owner at most.              *)
THEOREM OneOwner == Spec => []SingleOwner
<1>1. IInv => SingleOwner
  BY SoleOwner DEF SingleOwner, Owns, Connected
<1>. QED
  BY <1>1, Invariance, PTL

(* No handler runs for a job an operator cancelled or a worker settled.    *)
THEOREM OwnersWorkOnPendingJobs == Spec => []NoWorkOnSettledJob
<1>1. IInv => NoWorkOnSettledJob
  BY OwnerFacts DEF NoWorkOnSettledJob, Owns, Connected
<1>. QED
  BY <1>1, Invariance, PTL

(* Committed lock fields belong to an analytics job between its commits.   *)
THEOREM LockFieldsAreFresh == Spec => []NoStaleLockFields
<1>1. IInv => NoStaleLockFields
  BY DEF IInv, RowsAgree, NoStaleLockFields
<1>. QED
  BY <1>1, Invariance, PTL

(* Attempts and recorded errors go together in every committed row.        *)
THEOREM AttemptsHaveErrors == Spec => []AttemptsMatchErrors
<1>1. IInv => AttemptsMatchErrors
  BY DEF IInv
<1>. QED
  BY <1>1, Invariance, PTL

(* The queue row and the export_job row of an export settle together.      *)
THEOREM PairsSettleTogether == Spec => []PairAgrees
<1>1. IInv => PairAgrees
  BY DEF IInv
<1>. QED
  BY <1>1, Invariance, PTL

(* An analytics job commits one completed run at most.                     *)
THEOREM OneRunPerJob == Spec => []PublishedAtMostOnce
<1>1. IInv => PublishedAtMostOnce
  BY DEF IInv, RowsAgree, PublishedAtMostOnce, Jobs
<1>. QED
  BY <1>1, Invariance, PTL

(* A job is never worked on twice at a time, nor once it is settled.       *)
THEOREM OwnershipExcludes == Spec => []OwnershipIsExclusive
<1>1. SingleOwner /\ NoWorkOnSettledJob => OwnershipIsExclusive
  BY DEF OwnershipIsExclusive
<1>. QED
  BY <1>1, OneOwner, OwnersWorkOnPendingJobs, PTL

(* The committed rows are consistent after every fault.                    *)
THEOREM RowsAreConsistent == Spec => []CommittedRowsAgree
<1>1. NoStaleLockFields /\ AttemptsMatchErrors /\ PairAgrees => CommittedRowsAgree
  BY DEF CommittedRowsAgree
<1>. QED
  BY <1>1, LockFieldsAreFresh, AttemptsHaveErrors, PairsSettleTogether, PTL

-----------------------------------------------------------------------------
(* The files of the exports. *)

(* A step that writes no file and completes no export without one. *)
LEMMA FilesFrame ==
  ASSUME FilesAgree, lost' \subseteq lost, UNCHANGED <<artifact, drops>>,
         \A j \in ExportJobs : export'[j].status = "completed" =>
           export[j].status = "completed" \/ FileReady(j),
         \A w \in Workers : Connected(w)' /\ job'[w] \in ExportJobs =>
           \/ Connected(w) /\ UNCHANGED <<pc[w], job[w], txExport[w]>>
           \/ pc'[w] \notin {"writing", "written", "outcome"}
           \/ pc'[w] = "outcome" /\ (txExport'[w].status = "completed" => FileReady(job'[w]))
  PROVE  FilesAgree'
<1>1. \A j : FileReady(j)' <=> FileReady(j)
  BY DEF FileReady
<1>2. drops' = 0 => lost' = {}
  BY DEF FilesAgree
<1>3. \A j \in ExportJobs : export'[j].status = "completed" => FileReady(j)'
  BY <1>1 DEF FilesAgree
<1>4. ASSUME NEW w \in Workers, Connected(w)', job'[w] \in ExportJobs
      PROVE  /\ pc'[w] = "writing" => artifact'[job'[w]] # "none"
             /\ pc'[w] = "written" => FileReady(job[w])'
             /\ pc'[w] = "outcome" /\ txExport'[w].status = "completed" => FileReady(job[w])'
  <2>1. FileReady(job[w])' <=> FileReady(job'[w])
    BY DEF FileReady
  <2>. QED
    BY <1>4, <2>1 DEF FilesAgree
<1>. QED
  BY <1>2, <1>3, <1>4 DEF FilesAgree

(* Without closed connections only the owner of a job touches its file. *)
LEMMA OpenFileFiles ==
  ASSUME FilesIInv, NEW w \in Workers, OpenFile(w)
  PROVE  FilesAgree'
<1> USE DEF FilesIInv, OpenFile, tables, faults
<1>1. /\ job[w] \in ExportJobs /\ job[w] \in Jobs
      /\ drops = 0 => Connected(w) /\ row[job[w]].status \in {"queued", "running"}
  <2>1. job[w] \in ExportJobs /\ job[w] # NoJob
    BY DEF IInv, WorkersAgree, Idle
  <2>2. drops = 0 => Connected(w)
    BY <2>1 DEF FilesAgree, Connected
  <2>. QED
    BY <2>1, <2>2, OwnerFacts DEF Jobs
<1>2. artifact' = [artifact EXCEPT ![job[w]] = "partial"] /\ artifact \in [Jobs -> Artifact]
  BY DEF IInv, TypeOK
<1>3. ASSUME NEW j \in Jobs, FileReady(j), drops = 0 => j # job[w]
      PROVE  FileReady(j)'
  BY <1>1, <1>2, <1>3 DEF FileReady
<1>4. ASSUME NEW v \in Workers, Connected(v)', job'[v] \in ExportJobs
      PROVE  /\ pc'[v] = "writing" => artifact'[job'[v]] # "none"
             /\ pc'[v] = "written" => FileReady(job[v])'
             /\ pc'[v] = "outcome" /\ txExport'[v].status = "completed" => FileReady(job[v])'
  <2>1. CASE v = w
    BY <1>1, <1>2, <2>1 DEF IInv, TypeOK
  <2>2. CASE v # w
    <3>1. Connected(v) /\ UNCHANGED <<pc[v], job[v], txExport[v]>>
      BY <1>4, <2>2 DEF Connected, IInv, TypeOK
    <3>2. drops = 0 => job[v] # job[w]
      BY <1>1, <2>2, <3>1, SoleOwner
    <3>3. FileReady(job[v]) => FileReady(job[v])'
      <4>1. (job[v])' = job[v] /\ job[v] \in Jobs
        BY <1>4, <3>1 DEF Jobs
      <4>. QED
        BY <1>1, <1>2, <3>2, <4>1 DEF FileReady
    <3>4. artifact[job[v]] # "none" => artifact'[job[v]] # "none"
      BY <1>2
    <3>. QED
      BY <1>4, <3>1, <3>3, <3>4 DEF FilesAgree
  <2>. QED
    BY <2>1, <2>2
<1>5. ASSUME NEW j \in ExportJobs, export'[j].status = "completed"
      PROVE  FileReady(j)'
  BY <1>1, <1>3, <1>5 DEF FilesAgree, IInv, PairAgrees, Jobs
<1>. QED
  BY <1>4, <1>5 DEF FilesAgree

(* A closed file is whole, whoever wrote it. *)
LEMMA CloseFileFiles ==
  ASSUME FilesIInv, NEW w \in Workers, CloseFile(w)
  PROVE  FilesAgree'
<1> USE DEF FilesIInv, CloseFile, tables, faults
<1>1. job[w] \in ExportJobs /\ job[w] \in Jobs
  BY DEF IInv, WorkersAgree, Jobs
<1>2. artifact' = [artifact EXCEPT ![job[w]] = "whole"] /\ artifact \in [Jobs -> Artifact]
  BY DEF IInv, TypeOK
<1>3. ASSUME NEW j \in Jobs
      PROVE  (FileReady(j) \/ j = job[w]) => FileReady(j)'
  BY <1>1, <1>2 DEF FileReady
<1>4. ASSUME NEW v \in Workers, Connected(v)', job'[v] \in ExportJobs
      PROVE  /\ pc'[v] = "writing" => artifact'[job'[v]] # "none"
             /\ pc'[v] = "written" => FileReady(job[v])'
             /\ pc'[v] = "outcome" /\ txExport'[v].status = "completed" => FileReady(job[v])'
  <2>1. (job[v])' = job[v] /\ job[v] \in Jobs /\ Connected(v)
    BY <1>4 DEF Jobs, Connected
  <2>2. (FileReady(job[v]) \/ v = w) => FileReady(job[v])'
    BY <1>1, <1>2, <2>1 DEF FileReady
  <2>3. artifact[job[v]] # "none" => artifact'[job[v]] # "none"
    BY <1>2
  <2>. QED
    BY <1>4, <2>1, <2>2, <2>3 DEF FilesAgree, IInv, TypeOK
<1>5. \A j \in ExportJobs : export'[j].status = "completed" => FileReady(j)'
  BY <1>3 DEF FilesAgree, Jobs
<1>. QED
  BY <1>4, <1>5 DEF FilesAgree

(* After the first closed connection a file need only be there. *)
LEMMA LoseConnectionFiles ==
  ASSUME FilesIInv, NEW w \in Workers, LoseConnection(w)
  PROVE  FilesAgree'
<1> USE DEF FilesIInv, LoseConnection, tables
<1>1. drops' # 0
  BY DEF IInv, TypeOK
<1>2. \A j : FileReady(j) => FileReady(j)'
  BY <1>1 DEF FileReady
<1>3. ASSUME NEW v \in Workers, Connected(v)'
      PROVE  Connected(v) /\ (job[v])' = job[v] /\ (FileReady(job[v]) => FileReady(job[v])')
  BY <1>1, <1>3 DEF Connected, FileReady
<1>. QED
  BY <1>1, <1>2, <1>3 DEF FilesAgree

(* The other steps write no file; a commit completes an export only when its file is ready. *)
LEMMA HandlerFiles ==
  ASSUME FilesIInv, NEW w \in Workers,
         \/ StartExport(w) \/ ExportSucceeds(w)
         \/ PublishRun(w) \/ AnalyticsSucceeds(w) \/ HandlerRaises(w)
  PROVE  FilesAgree'
<1> USE DEF FilesIInv, tables, faults
<1>1. UNCHANGED <<artifact, drops, lost, export, job>>
  BY DEF StartExport, ExportSucceeds, PublishRun, AnalyticsSucceeds, HandlerRaises
<1>2. \A v \in Workers \ {w} : UNCHANGED <<pc[v], txExport[v]>>
  BY DEF StartExport, ExportSucceeds, PublishRun, AnalyticsSucceeds, HandlerRaises, IInv, TypeOK
<1>3. Connected(w) /\ job[w] \in ExportJobs /\ pc'[w] \in {"writing", "written", "outcome"} =>
        pc'[w] = "outcome" /\ (txExport'[w].status = "completed" => FileReady(job[w]))
  <2>1. CASE StartExport(w)
    BY <2>1 DEF StartExport, IInv, TypeOK
  <2>2. CASE ExportSucceeds(w)
    BY <2>2 DEF ExportSucceeds, FilesAgree, IInv, TypeOK
  <2>3. CASE PublishRun(w) \/ AnalyticsSucceeds(w)
    BY <2>3 DEF PublishRun, AnalyticsSucceeds, IInv, TypeOK, WorkersAgree
  <2>4. CASE HandlerRaises(w)
    <3>1. txExport'[w].status = "completed" => export[job[w]].status = "completed"
      BY <2>4, ExportImageFields DEF HandlerRaises, IInv, TypeOK
    <3>. QED
      BY <2>4, <3>1 DEF HandlerRaises, FilesAgree, IInv, TypeOK
  <2>. QED
    BY <2>1, <2>2, <2>3, <2>4
<1>. QED
  BY <1>1, <1>2, <1>3, FilesFrame DEF Connected

(* The end of an attempt leaves all files alone. *)
LEMMA LeaveFiles ==
  ASSUME FilesIInv, NEW w \in Workers,
         Commit(w) \/ Crash(w) \/ NoticeLostConnection(w) \/ Restart(w)
  PROVE  FilesAgree'
<1> USE DEF FilesIInv, tables, faults
<1>1. /\ UNCHANGED <<artifact, drops>> /\ lost' \subseteq lost
      /\ \A v \in Workers \ {w} : UNCHANGED <<pc[v], job[v], txExport[v]>>
      /\ \A v \in Workers \ {w} : Connected(v)' => Connected(v)
      /\ pc'[w] \in Idle
  BY DEF Commit, Crash, NoticeLostConnection, Restart, LeaveJob, Connected, Idle, IInv, TypeOK
<1>2. ASSUME NEW j \in ExportJobs, export'[j].status = "completed"
      PROVE  export[j].status = "completed" \/ FileReady(j)
  <2>1. CASE Commit(w) /\ j = job[w]
    <3>1. export'[j] = txExport[w] /\ pc[w] = "outcome" /\ Connected(w)
      BY <2>1 DEF Commit, IInv, TypeOK, Jobs
    <3>. QED
      BY <1>2, <2>1, <3>1 DEF FilesAgree
  <2>2. CASE ~(Commit(w) /\ j = job[w])
    BY <1>2, <2>2 DEF Commit, Crash, NoticeLostConnection, Restart, IInv, TypeOK, Jobs
  <2>. QED
    BY <2>1, <2>2
<1>. QED
  BY <1>1, <1>2, FilesFrame DEF Idle

(* Every step keeps the promises about files. *)
LEMMA NextFilesIInv == FilesIInv /\ [Next]_vars => FilesIInv'
<1> SUFFICES ASSUME FilesIInv, [Next]_vars
             PROVE  FilesAgree'
  BY NextIInv DEF FilesIInv
<1>1. ASSUME NEW j \in Jobs, Request(j) \/ BackoffElapses(j)
      PROVE  FilesAgree'
  <2>1. /\ UNCHANGED <<artifact, drops, lost, pc, job, txExport>>
        /\ \A k \in ExportJobs : export'[k].status = "completed" => export[k].status = "completed"
    BY <1>1, ExportImageFields
       DEF Request, Submit, Retry, Cancel, BackoffElapses, process, faults, FilesIInv, IInv, TypeOK, Jobs
  <2>2. \A v : Connected(v)' => Connected(v) /\ UNCHANGED <<pc[v], job[v], txExport[v]>>
    BY <2>1 DEF Connected
  <2>. QED
    BY <2>1, <2>2, FilesFrame DEF FilesIInv
<1>2. ASSUME NEW w \in Workers, Claim(w)
      PROVE  FilesAgree'
  <2>1. /\ UNCHANGED <<artifact, drops, lost, export>> /\ pc'[w] = "claimed"
        /\ \A v \in Workers \ {w} : UNCHANGED <<pc[v], job[v], txExport[v]>>
    BY <1>2 DEF Claim, tables, faults, FilesIInv, IInv, TypeOK
  <2>. QED
    BY <2>1, FilesFrame DEF FilesIInv, Connected
<1>3. ASSUME NEW w \in Workers, Handler(w)
      PROVE  FilesAgree'
  BY <1>3, HandlerFiles, OpenFileFiles, CloseFileFiles DEF Handler
<1>4. ASSUME NEW w \in Workers, Work(w) \/ Fault(w)
      PROVE  FilesAgree'
  BY <1>2, <1>3, <1>4, LeaveFiles, LoseConnectionFiles DEF Work, Fault
<1>5. CASE UNCHANGED vars
  BY <1>5, FilesFrame DEF vars, FilesIInv, Connected
<1>. QED
  BY <1>1, <1>4, <1>5 DEF Next

(* A download finds its file, and finds it finished as long as no          *)
(* connection was closed: the invariant of the files holds in every        *)
(* reachable state.                                                        *)
THEOREM DownloadsFindFiles == Spec => []DownloadsAreWhole
<1>1. Init => FilesIInv
  <2>1. ASSUME Init PROVE FilesAgree
    <3>1. NoExport.status = "absent"
      BY ExportImageFields DEF NoExport
    <3>. QED
      BY <2>1, <3>1 DEF Init, FilesAgree, Connected, Jobs
  <2>. QED
    BY <2>1, InitIInv DEF FilesIInv
<1>2. FilesIInv => DownloadsAreWhole
  BY DEF FilesIInv, IInv, RowsAgree, FilesAgree, FileReady, DownloadsAreWhole, Jobs
<1>. QED
  BY <1>1, <1>2, NextFilesIInv, PTL DEF Spec

-----------------------------------------------------------------------------
(* What a step does to the committed rows. *)

(* Only requests, the inner commit of a run and the end of an attempt      *)
(* change what is committed.                                               *)
LEMMA TableStep ==
  ASSUME IInv, [Next]_vars
  PROVE  \/ UNCHANGED <<row, export, published>>
         \/ \E j \in Jobs : Request(j)
         \/ \E w \in Workers : PublishRun(w) \/ Commit(w)
<1>1. ASSUME NEW w \in Workers, Work(w) \/ Fault(w), ~PublishRun(w), ~Commit(w)
      PROVE  UNCHANGED <<row, export, published>>
  BY <1>1 DEF Work, Fault, Handler, Claim, StartExport, OpenFile, CloseFile, ExportSucceeds,
              AnalyticsSucceeds, HandlerRaises, NoticeLostConnection, Restart, Crash,
              LoseConnection, tables
<1>2. ASSUME NEW j \in Jobs, BackoffElapses(j)
      PROVE  UNCHANGED <<row, export, published>>
  BY <1>2 DEF BackoffElapses
<1>. QED
  BY <1>1, <1>2 DEF Next, vars

(* What the inner commit of a run changes. *)
LEMMA PublishedRow ==
  ASSUME IInv, NEW w \in Workers, PublishRun(w), NEW j, j = job[w]
  PROVE  /\ j \in Jobs /\ j \in AnalyticsJobs /\ Connected(w) /\ row[j] \in QueueRow
         /\ row[j].status = "queued" /\ published[j] = 0
         /\ row' = [row EXCEPT ![j] = txRow[w]] /\ export' = export
         /\ published' = [published EXCEPT ![j] = 1]
         /\ txRow[w].status = "running" /\ txRow[w].attempts = row[j].attempts + 1
<1>1. /\ j \in AnalyticsJobs /\ j \in Jobs /\ Connected(w) /\ row[j] \in QueueRow
      /\ Claimed(w) /\ row[j].attempts < MaxAttempts
  BY OwnerFacts DEF PublishRun, Draft, Claimed, IInv, TypeOK, AttemptsMatchErrors
<1>2. txRow[w].status = "running" /\ txRow[w].attempts = row[j].attempts + 1
  BY <1>1, ClaimedRowFields DEF Claimed
<1>3. published[j] = 0
  BY <1>1 DEF Claimed, IInv, RowsAgree
<1>4. published' = [published EXCEPT ![j] = 1]
  BY <1>3 DEF PublishRun
<1>. QED
  BY <1>1, <1>2, <1>3, <1>4 DEF PublishRun, Claimed

(* What a request changes. *)
LEMMA RequestedRow ==
  ASSUME IInv, NEW j \in Jobs, Request(j)
  PROVE  /\ row[j] \in QueueRow /\ \A w \in Workers : job[w] = j => w \in lost
         /\ published' = published
         /\ \A k \in Jobs \ {j} : row'[k] = row[k] /\ export'[k] = export[k]
         /\ export'[j].status = "completed" <=> export[j].status = "completed"
         /\ export'[j].status = "completed" => export'[j] = export[j]
         /\ \/ /\ row[j].status = "absent" /\ row[j].attempts = 0
               /\ row'[j].status = "queued" /\ row'[j].attempts = 0
            \/ /\ row[j].status \in {"failed", "cancelled"}
               /\ row'[j].status = "queued" /\ row'[j].attempts = 0
            \/ /\ row[j].status = "queued"
               /\ row'[j].status = "cancelled" /\ row'[j].attempts = row[j].attempts
<1>1. row[j] \in QueueRow
  BY DEF IInv, TypeOK
<1>2. CASE Submit(j)
  <2>1. row[j].status = "absent" /\ row[j].attempts = 0
    BY <1>2 DEF Submit, IInv, RowsAgree
  <2>2. row'[j] = EnqueuedRow /\ published' = published /\ job' = job
    BY <1>2 DEF Submit, process, IInv, TypeOK
  <2>. NoExport.status = "absent" /\ ExportImage("queued", FALSE, FALSE).status = "queued"
    BY ExportImageFields DEF NoExport
  <2>4. export[j].status # "completed"
    BY <2>1 DEF IInv, RowsAgree, PairAgrees, Jobs
  <2>3. export'[j].status # "completed"
    BY <1>2, <2>4 DEF Submit, IInv, TypeOK
  <2>5. \A k \in Jobs \ {j} : row'[k] = row[k] /\ export'[k] = export[k]
    BY <1>2 DEF Submit, IInv, TypeOK, Jobs
  <2>6. \A w \in Workers : job[w] = j => w \in lost
    BY <2>1, OwnerFacts, JobsAssumption DEF Connected
  <2>. QED
    BY <1>1, <2>1, <2>2, <2>3, <2>4, <2>5, <2>6, RowConstants
<1>3. CASE Retry(j)
  <2>1. row'[j] = EnqueuedRow
    BY <1>3 DEF Retry, RetriedRow, EnqueuedRow, IInv, TypeOK
  <2>2. row[j].status \in {"failed", "cancelled"}
    BY <1>3 DEF Retry, Retryable
  <2>3. \A w \in Workers : job[w] = j => w \in lost
    BY <2>2, OwnerFacts, JobsAssumption DEF Connected
  <2>. QED
    BY <1>1, <1>3, <2>1, <2>2, <2>3, RowConstants DEF Retry, IInv, TypeOK
<1>4. CASE Cancel(j)
  <2>1. row'[j] = CancelledRow(row[j]) /\ row[j].status = "queued"
    BY <1>4 DEF Cancel, Cancellable, IInv, TypeOK
  <2>2. \A w \in Workers : job[w] = j => w \in lost
    BY <1>4, OwnerFacts, JobsAssumption DEF Cancel, Connected, Cancellable, IInv, LocksAgree
  <2>. QED
    BY <1>1, <1>4, <2>1, <2>2, CancelledRowFields DEF Cancel, IInv, TypeOK
<1>. QED
  BY <1>2, <1>3, <1>4 DEF Request

-----------------------------------------------------------------------------
(* What is spent and what is final. *)

(* A step neither hands out attempts nor settles a job nobody owns. *)
LEMMA AttemptsStep ==
  ASSUME IInv, [Next]_vars, NEW j \in Jobs
  PROVE  /\ row'[j].attempts < row[j].attempts =>
              row[j].status \in {"failed", "cancelled"} /\ row'[j].status = "queued"
         /\ row'[j].attempts <= row[j].attempts + 1
         /\ ~Settled(row[j]) /\ Settled(row'[j]) /\ row'[j].status # "cancelled"
              => \E w \in Workers : Owns(w, j)
<1> DEFINE Kept == row'[j] = row[j]
<1>1. row \in [Jobs -> QueueRow] /\ row[j].attempts \in Nat
  BY DEF IInv, TypeOK, QueueRow
<1>2. CASE Kept
  BY <1>1, <1>2
<1>3. ASSUME NEW k \in Jobs, Request(k)
      PROVE  Kept \/ k = j
  BY <1>3, RequestedRow
<1>4. CASE Request(j)
  BY <1>1, <1>4, RequestedRow DEF Settled
<1>5. ASSUME NEW w \in Workers, PublishRun(w)
      PROVE  Kept \/ /\ row'[j].attempts = row[j].attempts + 1
                     /\ Owns(w, j)
  BY <1>1, <1>5, PublishedRow DEF Owns, Connected
<1>6. ASSUME NEW w \in Workers, Commit(w)
      PROVE  Kept \/ /\ row'[j].attempts \in {row[j].attempts, row[j].attempts + 1}
                     /\ Owns(w, j)
  <2>1. row' = [row EXCEPT ![job[w]] = txRow[w]]
    BY <1>6 DEF Commit
  <2>2. CASE job[w] = j
    <3>1. Connected(w) /\ (DeliversExport(w, j) \/ RecordsFailure(w, j) \/ CompletesRun(w, j))
      BY <1>6, <2>2, CommitOutcome
    <3>2. txRow[w].attempts \in {row[j].attempts, row[j].attempts + 1}
      BY <3>1 DEF DeliversExport, RecordsFailure, CompletesRun
    <3>. QED
      BY <1>1, <2>1, <2>2, <3>1, <3>2 DEF Owns, Connected
  <2>. QED
    BY <1>1, <2>1, <2>2
<1>. QED
  BY <1>1, <1>2, <1>3, <1>4, <1>5, <1>6, TableStep

(* A step leaves a completed pair as it is, and its file to workers that   *)
(* lost their connection.                                                  *)
LEMMA CompletionStep ==
  ASSUME IInv, [Next]_vars, NEW j \in Jobs, row[j].status = "completed"
  PROVE  /\ row'[j] = row[j]
         /\ export'[j] = export[j]
         /\ artifact'[j] # artifact[j] => \E w \in lost : job[w] = j
<1>1. \A w \in Workers : job[w] = j => w \in lost
  BY OwnerFacts, JobsAssumption DEF Connected
<1>2. row'[j] = row[j] /\ export'[j] = export[j]
  <2>1. ASSUME NEW k \in Jobs, Request(k)
        PROVE  row'[j] = row[j] /\ export'[j] = export[j]
    BY <2>1, RequestedRow
  <2>2. ASSUME NEW w \in Workers, PublishRun(w)
        PROVE  row'[j] = row[j] /\ export'[j] = export[j]
    <3>1. row[job[w]].status = "queued"
      BY <2>2, PublishedRow
    <3>2. row' = [row EXCEPT ![job[w]] = txRow[w]] /\ export' = export
      BY <2>2 DEF PublishRun
    <3>. QED
      BY <3>1, <3>2 DEF IInv, TypeOK
  <2>3. ASSUME NEW w \in Workers, Commit(w)
        PROVE  row'[j] = row[j] /\ export'[j] = export[j]
    BY <1>1, <2>3 DEF Commit, Connected, IInv, TypeOK
  <2>. QED
    BY <2>1, <2>2, <2>3, TableStep
<1>3. artifact'[j] # artifact[j] => \E w \in lost : job[w] = j
  <2>1. ASSUME NEW w \in Workers, OpenFile(w) \/ CloseFile(w)
        PROVE  artifact'[j] # artifact[j] => w \in lost /\ job[w] = j
    BY <1>1, <2>1 DEF OpenFile, CloseFile, IInv, TypeOK
  <2>2. ASSUME NEW w \in Workers, Work(w) \/ Fault(w), ~OpenFile(w), ~CloseFile(w)
        PROVE  artifact' = artifact
    BY <2>2 DEF Work, Fault, Handler, Claim, StartExport, ExportSucceeds, PublishRun,
                AnalyticsSucceeds, HandlerRaises, Commit, NoticeLostConnection, Restart, Crash,
                LoseConnection
  <2>3. ASSUME NEW k \in Jobs, Request(k) \/ BackoffElapses(k)
        PROVE  artifact' = artifact
    BY <2>3 DEF Request, Submit, Retry, Cancel, BackoffElapses
  <2>. QED
    BY <2>1, <2>2, <2>3 DEF Next, vars
<1>. QED
  BY <1>2, <1>3

(* Whatever faults, cancels and retries come between, attempts go down     *)
(* only by an operator's retry of a settled job, only a claimed job is     *)
(* settled other than by a cancel, and a completed pair never changes.     *)
THEOREM OutcomesStay == Spec => OutcomesAreFinal
<1>1. IInv /\ [Next]_vars =>
        [\A j \in Jobs :
           /\ row'[j].attempts < row[j].attempts =>
                row[j].status \in {"failed", "cancelled"} /\ row'[j].status = "queued"
           /\ row'[j].attempts <= row[j].attempts + 1
           /\ ~Settled(row[j]) /\ Settled(row'[j]) /\ row'[j].status # "cancelled"
                => \E w \in Workers : Owns(w, j)]_vars
  BY AttemptsStep
<1>2. IInv /\ [Next]_vars =>
        [\A j \in Jobs : row[j].status = "completed" =>
           /\ row'[j] = row[j]
           /\ export'[j] = export[j]
           /\ artifact'[j] # artifact[j] => \E w \in lost : job[w] = j]_vars
  BY CompletionStep
<1>. QED
  BY <1>1, <1>2, Invariance, PTL DEF Spec, OutcomesAreFinal, AttemptsAreSpent, CompletionIsFinal

-----------------------------------------------------------------------------
(* The refinement of the atomic lifecycle. *)

(* The stage and the failures of a row, by its status. *)
LEMMA StageFacts ==
  ASSUME NEW r \in QueueRow
  PROVE  /\ r.status = "queued" => Stage(r) = "pending" /\ Failures(r) = r.attempts
         /\ r.status \in {"running", "completed"} =>
              Stage(r) = "delivered" /\ Failures(r) = r.attempts - 1
         /\ r.status \in {"absent", "failed", "cancelled"} =>
              Stage(r) = r.status /\ Failures(r) = r.attempts
BY DEF Stage, Failures

(* What readers see of a job that is not delivered. *)
LEMMA NoResult ==
  ASSUME IInv, NEW j \in Jobs, row[j].status \notin {"running", "completed"}
  PROVE  Results(j) = 0
BY DEF Results, IInv, RowsAgree, PairAgrees, Jobs

(* The three variables of the lifecycle, as the refinement maps them. *)
AbstractState == [k \in Jobs |-> Stage(row[k])]
AbstractFailures == [k \in Jobs |-> Failures(row[k])]
AbstractResults == [k \in Jobs |-> Results(k)]

(* A step that changes the row and the result of one job changes one entry *)
(* of each.                                                                *)
LEMMA OneEntry ==
  ASSUME NEW j \in Jobs,
         \A k \in Jobs \ {j} : row'[k] = row[k] /\ export'[k] = export[k]
                               /\ published'[k] = published[k]
  PROVE  /\ AbstractState' = [AbstractState EXCEPT ![j] = Stage(row'[j])]
         /\ AbstractFailures' = [AbstractFailures EXCEPT ![j] = Failures(row'[j])]
         /\ AbstractResults' = [AbstractResults EXCEPT ![j] = Results(j)']
         /\ Stage(row'[j]) = Stage(row[j]) => AbstractState' = AbstractState
         /\ Failures(row'[j]) = Failures(row[j]) => AbstractFailures' = AbstractFailures
         /\ Results(j)' = Results(j) => AbstractResults' = AbstractResults
<1>1. \A k \in Jobs : Stage(row[k])' = IF k = j THEN Stage(row'[j]) ELSE Stage(row[k])
  BY DEF Stage
<1>2. \A k \in Jobs : Failures(row[k])' = IF k = j THEN Failures(row'[j]) ELSE Failures(row[k])
  BY DEF Failures, Stage
<1>3. \A k \in Jobs : Results(k)' = IF k = j THEN Results(j)' ELSE Results(k)
  BY DEF Results
<1>4. /\ AbstractState' = [AbstractState EXCEPT ![j] = Stage(row'[j])]
      /\ Stage(row'[j]) = Stage(row[j]) => AbstractState' = AbstractState
  BY <1>1 DEF AbstractState
<1>5. /\ AbstractFailures' = [AbstractFailures EXCEPT ![j] = Failures(row'[j])]
      /\ Failures(row'[j]) = Failures(row[j]) => AbstractFailures' = AbstractFailures
  BY <1>2 DEF AbstractFailures
<1>6. /\ AbstractResults' = [AbstractResults EXCEPT ![j] = Results(j)']
      /\ Results(j)' = Results(j) => AbstractResults' = AbstractResults
  BY <1>3 DEF AbstractResults
<1>. QED
  BY <1>4, <1>5, <1>6

(* A request is a submission, a retry or a cancel of the lifecycle. *)
LEMMA RequestRefines ==
  ASSUME IInv, IInv', NEW j \in Jobs, Request(j)
  PROVE  Lifecycle!Next
<1>1. row[j] \in QueueRow /\ row'[j] \in QueueRow
  BY DEF IInv, TypeOK
<1>2. Results(j)' = Results(j)
  BY RequestedRow DEF Results
<1>3. \A k \in Jobs \ {j} : row'[k] = row[k] /\ export'[k] = export[k]
                            /\ published'[k] = published[k]
  BY RequestedRow
<1>4. /\ AbstractState' = [AbstractState EXCEPT ![j] = Stage(row'[j])]
      /\ AbstractFailures' = [AbstractFailures EXCEPT ![j] = Failures(row'[j])]
      /\ Failures(row'[j]) = Failures(row[j]) => AbstractFailures' = AbstractFailures
      /\ AbstractResults' = AbstractResults
  BY <1>2, <1>3, OneEntry
<1> USE DEF AbstractState, AbstractFailures, AbstractResults
<1>5. CASE /\ row[j].status = "absent" /\ row[j].attempts = 0
           /\ row'[j].status = "queued" /\ row'[j].attempts = 0
  <2>1. Stage(row[j]) = "absent" /\ Stage(row'[j]) = "pending" /\ Failures(row'[j]) = Failures(row[j])
    BY <1>1, <1>5, StageFacts
  <2>2. Lifecycle!Submit(j)
    BY <1>4, <2>1 DEF Lifecycle!Submit
  <2>. QED
    BY <2>2 DEF Lifecycle!Next
<1>6. CASE /\ row[j].status \in {"failed", "cancelled"}
           /\ row'[j].status = "queued" /\ row'[j].attempts = 0
  <2>1. /\ Stage(row[j]) \in {"failed", "cancelled"}
        /\ Stage(row'[j]) = "pending" /\ Failures(row'[j]) = 0
    BY <1>1, <1>6, StageFacts
  <2>2. Lifecycle!Retry(j)
    BY <1>4, <2>1 DEF Lifecycle!Retry
  <2>. QED
    BY <2>2 DEF Lifecycle!Next
<1>7. CASE /\ row[j].status = "queued"
           /\ row'[j].status = "cancelled" /\ row'[j].attempts = row[j].attempts
  <2>1. /\ Stage(row[j]) = "pending" /\ Stage(row'[j]) = "cancelled"
        /\ Failures(row'[j]) = Failures(row[j])
    BY <1>1, <1>7, StageFacts
  <2>2. Lifecycle!Cancel(j)
    BY <1>4, <2>1 DEF Lifecycle!Cancel
  <2>. QED
    BY <2>2 DEF Lifecycle!Next
<1>. QED
  BY <1>5, <1>6, <1>7, RequestedRow

(* The inner commit of an analytics run delivers its result. *)
LEMMA PublishRefines ==
  ASSUME IInv, IInv', NEW w \in Workers, PublishRun(w)
  PROVE  Lifecycle!Next
<1>0. PICK j \in Jobs : j = job[w]
  BY PublishedRow
<1>1. /\ j \in Jobs /\ j \in AnalyticsJobs /\ row[j] \in QueueRow
      /\ row[j].status = "queued" /\ export' = export
      /\ row' = [row EXCEPT ![j] = txRow[w]]
      /\ published' = [published EXCEPT ![j] = 1]
      /\ txRow[w].status = "running" /\ txRow[w].attempts = row[j].attempts + 1
  BY <1>0, PublishedRow
<1>2. row'[j] = txRow[w] /\ row'[j] \in QueueRow /\ row[j].attempts \in Nat
  BY <1>1 DEF IInv, TypeOK, QueueRow
<1>3. /\ Stage(row[j]) = "pending" /\ Stage(row'[j]) = "delivered"
      /\ Failures(row'[j]) = Failures(row[j])
  <2>1. Failures(row'[j]) = row'[j].attempts - 1
    BY <1>1, <1>2, StageFacts
  <2>. QED
    BY <1>1, <1>2, <2>1, StageFacts
<1>4. Results(j) = 0
  BY <1>1, NoResult
<1>5. published'[j] = 1 /\ j \notin ExportJobs
  BY <1>1 DEF IInv, TypeOK
<1>6. \A k \in Jobs \ {j} : row'[k] = row[k] /\ export'[k] = export[k]
                            /\ published'[k] = published[k]
  BY <1>1 DEF IInv, TypeOK
<1>7. /\ AbstractState' = [AbstractState EXCEPT ![j] = Stage(row'[j])]
      /\ AbstractFailures' = AbstractFailures
      /\ AbstractResults' = [AbstractResults EXCEPT ![j] = 1]
  <2>1. Results(j)' = 1
    BY <1>5 DEF Results
  <2>. QED
    BY <1>1, <1>3, <1>6, <2>1, OneEntry
<1>8. Lifecycle!Deliver(j)
  BY <1>1, <1>3, <1>4, <1>7
     DEF Lifecycle!Deliver, AbstractState, AbstractFailures, AbstractResults
<1>. QED
  BY <1>1, <1>8 DEF Lifecycle!Next

(* A commit delivers an export, counts a failure or completes a run that   *)
(* is delivered already.                                                   *)
LEMMA CommitRefines ==
  ASSUME IInv, IInv', NEW w \in Workers, Commit(w)
  PROVE  Lifecycle!Next \/ UNCHANGED <<AbstractState, AbstractFailures, AbstractResults>>
<1>0. PICK j \in Jobs : j = job[w]
  BY CommitOutcome
<1>1. /\ row[j] \in QueueRow /\ txRow[w] \in QueueRow /\ txExport[w] \in ExportRow
      /\ DeliversExport(w, j) \/ RecordsFailure(w, j) \/ CompletesRun(w, j)
  BY <1>0, CommitOutcome
<1>2. /\ row'[j] = txRow[w] /\ export'[j] = txExport[w] /\ published' = published
      /\ row'[j] \in QueueRow /\ row[j].attempts \in Nat
      /\ \A k \in Jobs \ {j} : row'[k] = row[k] /\ export'[k] = export[k]
                               /\ published'[k] = published[k]
  BY <1>0, <1>1 DEF Commit, IInv, TypeOK, QueueRow
<1>3. CASE DeliversExport(w, j)
  <2>1. /\ Stage(row[j]) = "pending" /\ Stage(row'[j]) = "delivered"
        /\ Failures(row'[j]) = Failures(row[j])
    <3>1. /\ row[j].status = "queued" /\ row'[j].status = "completed"
          /\ row'[j].attempts = row[j].attempts + 1
      BY <1>2, <1>3 DEF DeliversExport
    <3>2. Failures(row'[j]) = row'[j].attempts - 1
      BY <1>2, <3>1, StageFacts
    <3>. QED
      BY <1>1, <1>2, <3>1, <3>2, StageFacts
  <2>2. Results(j) = 0
    BY <1>3, NoResult DEF DeliversExport
  <2>3. Results(j)' = 1
    BY <1>2, <1>3 DEF DeliversExport, Results
  <2>4. /\ AbstractState' = [AbstractState EXCEPT ![j] = "delivered"]
        /\ AbstractFailures' = AbstractFailures
        /\ AbstractResults' = [AbstractResults EXCEPT ![j] = 1]
    BY <1>2, <2>1, <2>3, OneEntry
  <2>5. Lifecycle!Deliver(j)
    BY <2>1, <2>2, <2>4
       DEF Lifecycle!Deliver, AbstractState, AbstractFailures, AbstractResults
  <2>. QED
    BY <2>5 DEF Lifecycle!Next
<1>4. CASE RecordsFailure(w, j)
  <2>1. /\ row[j].status = "queued" /\ row'[j].attempts = row[j].attempts + 1
        /\ Stage(row[j]) = "pending" /\ Failures(row[j]) = row[j].attempts
    BY <1>1, <1>2, <1>4, StageFacts DEF RecordsFailure
  <2>2. Results(j)' = Results(j)
    BY <1>2, <1>4, <2>1 DEF RecordsFailure, Results, IInv, PairAgrees
  <2>3. CASE row[j].attempts + 1 = MaxAttempts
    <3>1. row'[j].status = "failed"
      BY <1>2, <1>4, <2>3 DEF RecordsFailure
    <3>2. Stage(row'[j]) = "failed" /\ Failures(row'[j]) = MaxAttempts
      BY <1>2, <2>1, <2>3, <3>1, StageFacts
    <3>3. /\ AbstractState' = [AbstractState EXCEPT ![j] = "failed"]
          /\ AbstractFailures' = [AbstractFailures EXCEPT ![j] = MaxAttempts]
          /\ AbstractResults' = AbstractResults
      BY <1>2, <2>2, <3>2, OneEntry
    <3>4. Lifecycle!GiveUp(j)
      BY <2>1, <2>3, <3>3
         DEF Lifecycle!GiveUp, AbstractState, AbstractFailures, AbstractResults
    <3>. QED
      BY <3>4 DEF Lifecycle!Next
  <2>4. CASE row[j].attempts + 1 # MaxAttempts
    <3>1. row'[j].status = "queued" /\ row[j].attempts + 1 < MaxAttempts
      BY <1>2, <1>4, <2>4 DEF RecordsFailure
    <3>2. Stage(row'[j]) = Stage(row[j]) /\ Failures(row'[j]) = row[j].attempts + 1
      BY <1>2, <2>1, <3>1, StageFacts
    <3>3. /\ AbstractState' = AbstractState
          /\ AbstractFailures' = [AbstractFailures EXCEPT ![j] = row[j].attempts + 1]
          /\ AbstractResults' = AbstractResults
      BY <1>2, <2>2, <3>2, OneEntry
    <3>4. Lifecycle!Fail(j)
      BY <2>1, <3>1, <3>3
         DEF Lifecycle!Fail, AbstractState, AbstractFailures, AbstractResults
    <3>. QED
      BY <3>4 DEF Lifecycle!Next
  <2>. QED
    BY <2>3, <2>4
<1>5. CASE CompletesRun(w, j)
  <2>1. /\ row[j].status = "running" /\ row'[j].status = "completed"
        /\ row'[j].attempts = row[j].attempts
    BY <1>2, <1>5 DEF CompletesRun
  <2>2. Failures(row'[j]) = row'[j].attempts - 1 /\ Failures(row[j]) = row[j].attempts - 1
    BY <1>1, <1>2, <2>1, StageFacts
  <2>3. Stage(row'[j]) = Stage(row[j]) /\ Failures(row'[j]) = Failures(row[j])
    BY <1>1, <1>2, <2>1, <2>2, StageFacts
  <2>4. Results(j)' = Results(j)
    BY <1>2, <1>5 DEF CompletesRun, Results
  <2>. QED
    BY <1>2, <2>3, <2>4, OneEntry
<1>. QED
  BY <1>1, <1>3, <1>4, <1>5

(* Workers, locks, transactions, crashes and lost connections are          *)
(* invisible in the committed rows: every behaviour of the queue is one of *)
(* the atomic lifecycle, in which a job is delivered once, in one step.    *)
THEOREM QueueImplementsLifecycle == Spec => ImplementsLifecycle
<1>1. Init => Lifecycle!Init
  <2>1. ASSUME Init, NEW j \in Jobs
        PROVE  Stage(row[j]) = "absent" /\ Failures(row[j]) = 0 /\ Results(j) = 0
    <3>1. row[j] = AbsentRow /\ row[j] \in QueueRow /\ row[j].status = "absent"
      BY <2>1, RowConstants DEF Init
    <3>2. Stage(row[j]) = "absent" /\ Failures(row[j]) = 0
      BY <3>1, StageFacts, RowConstants
    <3>3. Results(j) = 0
      BY <2>1, <3>1, InitIInv, NoResult
    <3>. QED
      BY <3>2, <3>3
  <2>. QED
    BY <2>1 DEF Lifecycle!Init
<1>2. IInv /\ IInv' /\ [Next]_vars => [Lifecycle!Next]_(Lifecycle!lifecycle)
  <2> SUFFICES ASSUME IInv, IInv', [Next]_vars
               PROVE  \/ Lifecycle!Next
                      \/ UNCHANGED <<AbstractState, AbstractFailures, AbstractResults>>
    BY DEF Lifecycle!lifecycle, AbstractState, AbstractFailures, AbstractResults
  <2>1. CASE UNCHANGED <<row, export, published>>
    BY <2>1 DEF AbstractState, AbstractFailures, AbstractResults, Stage, Failures, Results
  <2>. QED
    BY <2>1, TableStep, RequestRefines, PublishRefines, CommitRefines
<1>. QED
  BY <1>1, <1>2, Invariance, PTL DEF Spec, ImplementsLifecycle, Lifecycle!Spec

(* From here on of AnalyticsPipeline. *)
USE PipelineAssumption

-----------------------------------------------------------------------------
(* The queue, seen through the pipeline. *)

(* What the scheduler is about to submit is an analytics job. *)
PlanOK == plan \in Run

(* Every step of the pipeline keeps PlanOK and is a step of the queue, or  *)
(* leaves the queue alone.                                                 *)
LEMMA QueueStep ==
  ASSUME PlanOK, [PipelineNext]_allVars
  PROVE  [Next]_vars /\ PlanOK'
<1>1. CASE UNCHANGED allVars
  BY <1>1 DEF allVars, pipeline, scheduler, PlanOK
<1>2. CASE Schedule
  <2>1. CASE IntervalElapses
    BY <2>1 DEF IntervalElapses, PlanOK
  <2>2. CASE SchedulerCommits
    BY <2>2 DEF SchedulerCommits, PlanOK, Run, Next, Request, Jobs
  <2>3. ASSUME NEW j \in Jobs, SchedulerDecides(j) PROVE [Next]_vars /\ PlanOK'
    BY <2>3 DEF SchedulerDecides, PlanOK, Run
  <2>. QED
    BY <1>2, <2>1, <2>2, <2>3 DEF Schedule
<1>3. ASSUME NEW j \in Jobs, EnqueueManually(j) PROVE [Next]_vars /\ PlanOK'
  BY <1>3 DEF EnqueueManually, pipeline, scheduler, PlanOK, Next, Request
<1>4. ASSUME NEW w \in Workers, ClaimAnalytics(w) PROVE [Next]_vars /\ PlanOK'
  BY <1>4 DEF ClaimAnalytics, scheduler, PlanOK, Next, Work
<1>5. ASSUME NEW w \in Workers, Raise(w) PROVE [Next]_vars /\ PlanOK'
  BY <1>5 DEF Raise, scheduler, PlanOK, Next, Work, Handler
<1>6. ASSUME NEW w \in Workers, Progress(w) PROVE [Next]_vars /\ PlanOK'
  <2>1. CASE BeginReset(w) \/ FinishReset(w) \/ Score(w)
    BY <2>1 DEF BeginReset, FinishReset, Score, scheduler, PlanOK
  <2>2. CASE Publish(w)
    BY <2>2 DEF Publish, PlanOK, Next, Work, Handler
  <2>. QED
    BY <1>5, <1>6, <2>1, <2>2 DEF Progress, Collide, BreakDeadlock
<1>7. ASSUME NEW w \in Workers, Vanish(w) PROVE [Next]_vars /\ PlanOK'
  BY <1>7 DEF Vanish, scheduler, PlanOK, Next
<1>8. CASE Elsewhere
  BY <1>8 DEF Elsewhere, pipeline, scheduler, PlanOK, Next, Request, Work, Handler
<1>. QED
  BY <1>1, <1>2, <1>3, <1>4, <1>5, <1>6, <1>7, <1>8 DEF PipelineNext, Fail

(* The handler of an analytics job and the scheduler implement what the    *)
(* queue assumes of them, so every theorem about Spec holds here as well.  *)
THEOREM PipelineImplementsQueue == PipelineSpec => ImplementsQueue
<1>1. PipelineInit => Init /\ PlanOK
  BY DEF PipelineInit, PlanOK, Run
<1>2. PlanOK /\ [PipelineNext]_allVars => [Next]_vars /\ PlanOK'
  BY QueueStep
<1>. QED
  BY <1>1, <1>2, PTL DEF PipelineSpec, ImplementsQueue, Spec

-----------------------------------------------------------------------------
(* The orders of a SELECT, and what is left of one after its first pipe.   *)

(* Every order of a SELECT names every pipe. *)
LEMMA OrdersAreComplete ==
  ASSUME NEW order \in Orders
  PROVE  order \in Seq(Pipes) /\ ToSet(order) = Pipes
<1>1. Cardinality(Pipes) \in Nat
  BY FS_CardinalityType
<1>. QED
  BY <1>1 DEF Orders

(* A non-empty sequence of pipes is its first pipe and the rest. *)
LEMMA HeadAndTail ==
  ASSUME NEW s \in Seq(Pipes), s # <<>>
  PROVE  /\ Head(s) \in Pipes
         /\ Tail(s) \in Seq(Pipes)
         /\ ToSet(s) \subseteq {Head(s)} \cup ToSet(Tail(s))
<1>1. Len(s) \in Nat \ {0} /\ DOMAIN s = 1..Len(s)
  BY EmptySeq, LenProperties
<1>2. Head(s) = s[1] /\ Head(s) \in Pipes
  BY <1>1
<1>3. /\ Tail(s) \in Seq(Pipes)
      /\ DOMAIN Tail(s) = 1..(Len(s) - 1)
      /\ \A i \in 1..(Len(s) - 1) : Tail(s)[i] = s[i + 1]
  BY <1>1
<1>4. ASSUME NEW i \in 1..Len(s), i # 1
      PROVE  s[i] \in ToSet(Tail(s))
  <2>1. i - 1 \in 1..(Len(s) - 1) /\ (i - 1) + 1 = i
    BY <1>1, <1>4
  <2>2. Tail(s)[i - 1] = s[i]
    BY <1>3, <2>1
  <2>. QED
    BY <1>3, <2>1, <2>2 DEF ToSet
<1>. QED
  BY <1>1, <1>2, <1>3, <1>4 DEF ToSet

-----------------------------------------------------------------------------

(* An idle city without a run satisfies the invariant. *)
LEMMA InitPipelineIInv == PipelineInit => PipelineIInv
<1> SUFFICES ASSUME PipelineInit PROVE PipelineIInv
  OBVIOUS
<1>1. IInv
  BY InitIInv DEF PipelineInit
<1>2. HandlerTypeOK
  BY EmptySeq DEF PipelineInit, HandlerTypeOK, Step, Run, Unscored
<1>3. HandlersAgree
  BY DEF PipelineInit, HandlersAgree, Unscored
<1>. QED
  BY <1>1, <1>2, <1>3 DEF PipelineIInv, PipelineInit, StatusesAreOfLastRun, Unscored

(* What an action other than Publish leaves alone when it does not concern *)
(* the handler: it keeps the runs, and the workers inside the handler.     *)
LEMMA HandlerFrameIInv ==
  ASSUME PipelineIInv, IInv',
         UNCHANGED <<tablesOfRun, handler, published>>,
         \A w \in Workers : pc[w] = "claimed" /\ Connected(w) =>
                              pc'[w] = "claimed" /\ Connected(w)'
  PROVE  PipelineIInv'
<1> USE DEF PipelineIInv, tablesOfRun, handler
<1>1. HandlerTypeOK' /\ StatusesAreOfLastRun' /\ (last' # NoJob => published'[last'] = 1)
  BY DEF HandlerTypeOK, StatusesAreOfLastRun
<1>2. HandlersAgree'
  BY DEF HandlersAgree, Taken
<1>. QED
  BY <1>1, <1>2

(* A handler that ends without publishing forgets what it wrote. *)
LEMMA ForgetIInv ==
  ASSUME PipelineIInv, IInv', NEW w \in Workers, Forget(w),
         UNCHANGED <<tablesOfRun, published>>,
         \A v \in Workers \ {w} : pc[v] = "claimed" /\ Connected(v) =>
                                    pc'[v] = "claimed" /\ Connected(v)'
  PROVE  PipelineIInv'
<1> USE DEF PipelineIInv, tablesOfRun, Forget
<1>1. HandlerTypeOK' /\ StatusesAreOfLastRun' /\ (last' # NoJob => published'[last'] = 1)
  BY EmptySeq DEF HandlerTypeOK, StatusesAreOfLastRun, Step, Unscored, Run
<1>2. HandlersAgree'
  BY DEF HandlersAgree, HandlerTypeOK, Taken, Unscored
<1>. QED
  BY <1>1, <1>2

(* A reset begins by seeing the committed statuses. *)
LEMMA BeginResetIInv ==
  ASSUME PipelineIInv, IInv', NEW w \in Workers, BeginReset(w)
  PROVE  PipelineIInv'
<1> USE DEF PipelineIInv, tablesOfRun, BeginReset
<1>1. published' = published /\ pc' = pc /\ job' = job /\ lost' = lost
  BY DEF vars
<1>2. HandlerTypeOK' /\ StatusesAreOfLastRun' /\ (last' # NoJob => published'[last'] = 1)
  BY <1>1 DEF HandlerTypeOK, StatusesAreOfLastRun, Step
<1>3. HandlersAgree'
  BY <1>1 DEF HandlersAgree, HandlerTypeOK, StatusesAreOfLastRun, Taken, Handling, Connected
<1>. QED
  BY <1>1, <1>2, <1>3

(* After a reset only rows committed meanwhile are in the way. *)
LEMMA FinishResetIInv ==
  ASSUME PipelineIInv, IInv', NEW w \in Workers, FinishReset(w)
  PROVE  PipelineIInv'
<1> USE DEF PipelineIInv, tablesOfRun, FinishReset
<1>1. published' = published /\ pc' = pc /\ job' = job /\ lost' = lost
  BY DEF vars
<1>2. todo'[w] \in Seq(Pipes) /\ ToSet(todo'[w]) = Pipes
  BY OrdersAreComplete DEF HandlerTypeOK
<1>3. HandlerTypeOK' /\ StatusesAreOfLastRun' /\ (last' # NoJob => published'[last'] = 1)
  BY <1>1, OrdersAreComplete DEF HandlerTypeOK, StatusesAreOfLastRun, Step
<1>4. HandlersAgree'
  BY <1>1, <1>2 DEF HandlersAgree, HandlerTypeOK, Taken, Handling, Connected
<1>. QED
  BY <1>1, <1>3, <1>4

(* A scored pipe moves from what is left to what is done. *)
LEMMA ScoreIInv ==
  ASSUME PipelineIInv, IInv', NEW w \in Workers, Score(w)
  PROVE  PipelineIInv'
<1> USE DEF PipelineIInv, tablesOfRun, Score
<1>1. published' = published /\ pc' = pc /\ job' = job /\ lost' = lost
  BY DEF vars
<1>2. /\ todo[w] \in Seq(Pipes)
      /\ Head(todo[w]) \in Pipes
      /\ Tail(todo[w]) \in Seq(Pipes)
      /\ ToSet(todo[w]) \subseteq {Head(todo[w])} \cup ToSet(Tail(todo[w]))
  BY HeadAndTail DEF HandlerTypeOK
<1>3. HandlerTypeOK' /\ StatusesAreOfLastRun' /\ (last' # NoJob => published'[last'] = 1)
  BY <1>1, <1>2 DEF HandlerTypeOK, StatusesAreOfLastRun
<1>4. HandlersAgree'
  <2>1. Pipes \subseteq scored'[w] \cup ToSet(todo'[w])
    BY <1>2 DEF HandlersAgree, HandlerTypeOK
  <2>. QED
    BY <1>1, <2>1 DEF HandlersAgree, HandlerTypeOK, Taken, Handling, Connected
<1>. QED
  BY <1>1, <1>3, <1>4

(* The run that is committed is new: nobody has seen or shown it yet. *)
LEMMA PublishIInv ==
  ASSUME PipelineIInv, IInv', NEW w \in Workers, Publish(w)
  PROVE  PipelineIInv'
<1> USE DEF PipelineIInv, tablesOfRun
<1> DEFINE run == job[w]
<1>1. /\ run \in AnalyticsJobs
      /\ pc[w] = "claimed" /\ Connected(w)
      /\ published' = [published EXCEPT ![run] = @ + 1]
      /\ pc' = [pc EXCEPT ![w] = "published"]
      /\ job' = job /\ lost' = lost
  BY DEF Publish, PublishRun
<1>2. published[run] = 0 /\ published'[run] = 1 /\ run \in Jobs
  <2>1. row[run].status = "queued"
    BY <1>1, OwnerFacts DEF Draft, Claimed
  <2>. QED
    BY <1>1, <2>1 DEF IInv, RowsAgree, TypeOK, Jobs
<1>3. \A j \in Run : j # NoJob /\ published[j] = 1 => published'[j] = 1 /\ j # run
  BY <1>1, <1>2 DEF IInv, TypeOK, Run, Jobs
<1>4. ToSet(todo[w]) = {}
  BY DEF Publish, ToSet
<1>5. scored[w] = Pipes
  BY <1>4 DEF Publish, HandlersAgree, HandlerTypeOK
<1>6. shown' = [p \in Pipes |-> run] /\ last' = run
  BY <1>5 DEF Publish
<1>7. HandlerTypeOK'
  BY <1>1, <1>6, EmptySeq DEF Publish, Forget, HandlerTypeOK, Step, Unscored, Run
<1>8. HandlersAgree'
  <2> SUFFICES ASSUME NEW v \in Workers
               PROVE  (/\ step[v] # "begun" => pc[v] = "claimed" /\ Connected(v)
                       /\ \A p \in Pipes : seen[v][p] # NoJob => published[seen[v][p]] = 1
                       /\ step[v] = "scoring" =>
                            /\ Pipes \subseteq scored[v] \cup ToSet(todo[v])
                            /\ \A p \in Pipes : Taken(v, p) => seen[v][p] # shown[p])'
    BY DEF HandlersAgree
  <2>1. CASE v = w
    BY <1>1, <2>1 DEF HandlersAgree, HandlerTypeOK, Publish, Forget, Unscored
  <2>2. CASE v # w
    <3>1. UNCHANGED <<pc[v], job[v], step[v], seen[v], erased[v], todo[v], scored[v]>>
      BY <1>1, <2>2 DEF Publish, Forget, IInv, TypeOK, HandlerTypeOK
    <3>2. step'[v] # "begun" => pc'[v] = "claimed" /\ Connected(v)'
      BY <1>1, <3>1 DEF HandlersAgree, Connected
    <3>3. \A p \in Pipes : seen'[v][p] # NoJob => published'[seen'[v][p]] = 1
      BY <1>3, <3>1 DEF HandlersAgree, HandlerTypeOK
    <3>4. \A p \in Pipes : seen'[v][p] # shown'[p]
      <4> SUFFICES ASSUME NEW p \in Pipes
                   PROVE  seen[v][p] # run
        BY <1>6, <3>1
      <4>1. run # NoJob
        BY <1>2, JobsAssumption
      <4>2. seen[v][p] # NoJob => published[seen[v][p]] = 1
        BY DEF HandlersAgree
      <4>. QED
        BY <1>2, <4>1, <4>2
    <3>. QED
      BY <3>1, <3>2, <3>3, <3>4 DEF HandlersAgree, HandlerTypeOK
  <2>. QED
    BY <2>1, <2>2
<1>. QED
  BY <1>2, <1>6, <1>7, <1>8 DEF StatusesAreOfLastRun

(* Every step of the pipeline keeps the invariant. *)
LEMMA NextPipelineIInv == PipelineIInv /\ PlanOK /\ [PipelineNext]_allVars => PipelineIInv'
<1> SUFFICES ASSUME PipelineIInv, PlanOK, [PipelineNext]_allVars
             PROVE  PipelineIInv'
  OBVIOUS
<1>0. IInv'
  BY QueueStep, NextIInv DEF PipelineIInv
<1>1. CASE UNCHANGED allVars
  BY <1>0, <1>1, HandlerFrameIInv DEF allVars, pipeline, vars, Connected
<1>2. CASE Schedule
  <2>1. ASSUME NEW j \in Jobs, SchedulerDecides(j) PROVE PipelineIInv'
    BY <1>0, <2>1, HandlerFrameIInv DEF SchedulerDecides, vars, Connected
  <2>2. CASE SchedulerCommits
    BY <1>0, <2>2, HandlerFrameIInv DEF SchedulerCommits, Submit, process, Connected
  <2>3. CASE IntervalElapses
    BY <1>0, <2>3, HandlerFrameIInv DEF IntervalElapses, vars, Connected
  <2>. QED
    BY <1>2, <2>1, <2>2, <2>3 DEF Schedule
<1>3. ASSUME NEW j \in Jobs, EnqueueManually(j) PROVE PipelineIInv'
  BY <1>0, <1>3, HandlerFrameIInv DEF EnqueueManually, Submit, pipeline, process, Connected
<1>4. ASSUME NEW w \in Workers, ClaimAnalytics(w) PROVE PipelineIInv'
  BY <1>0, <1>4, HandlerFrameIInv DEF ClaimAnalytics, Claim, tables, Connected, PipelineIInv, IInv, TypeOK
<1>5. ASSUME NEW w \in Workers, Raise(w) PROVE PipelineIInv'
  BY <1>0, <1>5, ForgetIInv DEF Raise, HandlerRaises, tables, Connected, PipelineIInv, IInv, TypeOK
<1>6. ASSUME NEW w \in Workers, Progress(w) PROVE PipelineIInv'
  BY <1>0, <1>5, <1>6, BeginResetIInv, FinishResetIInv, ScoreIInv, PublishIInv
     DEF Progress, Collide, BreakDeadlock
<1>7. ASSUME NEW w \in Workers, Vanish(w) PROVE PipelineIInv'
  BY <1>0, <1>7, ForgetIInv
     DEF Vanish, Fault, Crash, LoseConnection, LeaveJob, tables, Connected, PipelineIInv, IInv, TypeOK
<1>8. CASE Elsewhere
  <2>1. ASSUME NEW j \in Jobs, Retry(j) \/ Cancel(j) \/ BackoffElapses(j) PROVE PipelineIInv'
    BY <1>0, <1>8, <2>1, HandlerFrameIInv
       DEF Elsewhere, Retry, Cancel, BackoffElapses, pipeline, process, Connected
  <2>2. ASSUME NEW w \in Workers,
               AnalyticsSucceeds(w) \/ Commit(w) \/ NoticeLostConnection(w) \/ Restart(w)
        PROVE  PipelineIInv'
    <3>1. UNCHANGED <<tablesOfRun, handler, published>>
      BY <1>8, <2>2
         DEF Elsewhere, AnalyticsSucceeds, Commit, NoticeLostConnection, Restart, pipeline, tables
    <3>2. \A v \in Workers : pc[v] = "claimed" /\ Connected(v) =>
                               pc'[v] = "claimed" /\ Connected(v)'
      BY <2>2 DEF AnalyticsSucceeds, Commit, NoticeLostConnection, Restart, LeaveJob,
                  Connected, PipelineIInv, IInv, TypeOK
    <3>. QED
      BY <1>0, <3>1, <3>2, HandlerFrameIInv
  <2>. QED
    BY <1>8, <2>1, <2>2 DEF Elsewhere
<1>. QED
  BY <1>1, <1>2, <1>3, <1>4, <1>5, <1>6, <1>7, <1>8 DEF PipelineNext, Fail

-----------------------------------------------------------------------------
(* The inductive invariant of the handlers and the statuses. *)
THEOREM PipelineInvariance == PipelineSpec => []PipelineIInv
<1>1. PipelineInit => PipelineIInv /\ PlanOK
  BY InitPipelineIInv DEF PipelineInit, PlanOK, Run
<1>2. PipelineIInv /\ PlanOK /\ [PipelineNext]_allVars => PipelineIInv' /\ PlanOK'
  BY NextPipelineIInv, QueueStep
<1>. QED
  BY <1>1, <1>2, PTL DEF PipelineSpec

(* However many runs of a city overlap, its committed statuses are those   *)
(* of the run committed last, all of them.                                 *)
THEOREM StatusesReplacedAsAWhole == PipelineSpec => []StatusesAreOfLastRun
<1>1. PipelineIInv => StatusesAreOfLastRun
  BY DEF PipelineIInv
<1>. QED
  BY <1>1, PipelineInvariance, PTL

(* A primary key conflict in the handler needs a run that was committed    *)
(* after the handler's reset began: runs one after the other never collide.*)
THEOREM OnlyOverlappingRunsCollide == PipelineSpec => []CollisionsNeedOverlap
<1>1. PipelineIInv => CollisionsNeedOverlap
  BY DEF PipelineIInv, HandlersAgree, CollisionsNeedOverlap
<1>. QED
  BY <1>1, PipelineInvariance, PTL
=============================================================================
