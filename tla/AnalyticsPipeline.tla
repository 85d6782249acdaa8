-------------------------- MODULE AnalyticsPipeline --------------------------
(***************************************************************************)
(* The analytics of one city: the periodic scheduler, the operator's       *)
(* enqueue command, and what the handler of an analytics job does to the   *)
(* tables analytics_run and asset_status_latest before its inner commit.   *)
(*                                                                         *)
(* The module refines the analytics part of JobQueue: the step PublishRun  *)
(* of that module is the last of a handler that deletes the statuses of    *)
(* the city and inserts a new one for every pipe, under READ COMMITTED:    *)
(* a statement sees what was committed when it began, waits for the rows   *)
(* another transaction has touched, and looks at them again afterwards.    *)
(*                                                                         *)
(* A job publishes at most one run (PublishedAtMostOnce), so a run has the *)
(* name of its job.                                                        *)
(***************************************************************************)
EXTENDS JobQueue, SequencesExt

CONSTANTS
  Pipes,       \* the pipes of the city, no more than ANALYTICS_PIPE_LIMIT
  ManualJobs   \* analytics jobs submitted by jobs/enqueue_analytics.py

ASSUME PipelineAssumption ==
  /\ IsFiniteSet(Pipes)
  /\ Pipes # {}
  /\ ManualJobs \subseteq AnalyticsJobs

VARIABLES
  shown,    \* shown[p]: the run of the committed asset_status_latest row of p
  last,     \* the run committed last (auxiliary)
  started,  \* jobs in the order in which their last transactions began
  step,     \* step[w]: how far the handler of w is with the statuses
  seen,     \* seen[w]: the committed statuses when the DELETE of w began
  erased,   \* erased[w]: pipes whose committed row w has deleted
  todo,     \* todo[w]: pipes w has yet to score, in the order of its SELECT
  scored,   \* scored[w]: pipes whose new row w has inserted
  stale,    \* the newest end_ts of the city is older than the interval
  plan      \* the job the scheduler is about to commit

tablesOfRun == <<shown, last>>
handler == <<step, seen, erased, todo, scored>>
scheduler == <<stale, plan>>
pipeline == <<tablesOfRun, started, handler, scheduler>>
allVars == <<vars, pipeline>>

(* The orders in which a SELECT without ORDER BY can return the pipes. *)
Orders == {f \in [1..Cardinality(Pipes) -> Pipes] : ToSet(f) = Pipes}

Run == AnalyticsJobs \cup {NoJob}
Unscored == [p \in Pipes |-> NoJob]

Step == {"begun", "resetting", "scoring"}

HandlerTypeOK ==
  /\ shown \in [Pipes -> Run]
  /\ last \in Run
  /\ step \in [Workers -> Step]
  /\ seen \in [Workers -> [Pipes -> Run]]
  /\ erased \in [Workers -> SUBSET Pipes]
  /\ todo \in [Workers -> Seq(Pipes)]
  /\ scored \in [Workers -> SUBSET Pipes]

(* Only a worker inside the handler has uncommitted statuses. *)
PipelineTypeOK ==
  /\ HandlerTypeOK
  /\ started \in Seq(AnalyticsJobs)
  /\ stale \in BOOLEAN
  /\ plan \in Run
  /\ \A w \in Workers : step[w] # "begun" => pc[w] = "claimed" /\ Connected(w)
  /\ \A w \in Workers : step[w] = "begun" => scored[w] = {} /\ erased[w] = {}

PipelineInit ==
  /\ Init
  /\ shown = Unscored
  /\ last = NoJob
  /\ started = <<>>
  /\ step = [w \in Workers |-> "begun"]
  /\ seen = [w \in Workers |-> Unscored]
  /\ erased = [w \in Workers |-> {}]
  /\ todo = [w \in Workers |-> <<>>]
  /\ scored = [w \in Workers |-> {}]
  /\ stale = TRUE
  /\ plan = NoJob

-----------------------------------------------------------------------------
(* Who submits analytics jobs. *)

Unfinished == {j \in AnalyticsJobs : row[j].status \in {"queued", "running"}}

(* The age of the newest run passes the interval. *)
IntervalElapses ==
  /\ last # NoJob
  /\ ~stale
  /\ stale' = TRUE
  /\ UNCHANGED <<vars, tablesOfRun, started, handler, plan>>

(* _should_enqueue finds no unfinished job and no recent run. *)
SchedulerDecides(j) ==
  /\ plan = NoJob
  /\ j \in AnalyticsJobs \ ManualJobs
  /\ row[j].status = "absent"
  /\ Unfinished = {}
  /\ stale
  /\ plan' = j
  /\ UNCHANGED <<vars, tablesOfRun, started, handler, stale>>

(* The pass of the scheduler commits; nothing was locked since it looked.  *)
SchedulerCommits ==
  /\ plan # NoJob
  /\ Submit(plan)
  /\ plan' = NoJob
  /\ UNCHANGED <<tablesOfRun, started, handler, stale>>

EnqueueManually(j) ==
  /\ j \in ManualJobs
  /\ Submit(j)
  /\ UNCHANGED pipeline

-----------------------------------------------------------------------------
(* The handler. *)

(* The first statement of the claim starts the transaction, and created_at *)
(* of the run is the instant the transaction started.                      *)
ClaimAnalytics(w) ==
  /\ Claim(w)
  /\ \E j \in AnalyticsJobs :
       /\ job'[w] = j
       /\ started' = Append(SelectSeq(started, LAMBDA k : k # j), j)
  /\ UNCHANGED <<tablesOfRun, handler, scheduler>>

Handling(w) == pc[w] = "claimed" /\ Connected(w)

(* Rows of asset_status_latest that w has written and not committed. *)
Touched(w) == erased[w] \cup scored[w]

(* w is in a statement that waits for the transaction of v. *)
WaitsFor(w, v) ==
  /\ v # w
  /\ Handling(w)
  /\ \/ step[w] = "resetting" /\ \E p \in erased[v] : seen[w][p] # NoJob
     \/ step[w] = "scoring" /\ todo[w] # <<>> /\ Head(todo[w]) \in Touched(v)

Waits(w) == \E v \in Workers : WaitsFor(w, v)

(* The new run is inserted and the DELETE of the statuses begins. *)
BeginReset(w) ==
  /\ Handling(w)
  /\ step[w] = "begun"
  /\ step' = [step EXCEPT ![w] = "resetting"]
  /\ seen' = [seen EXCEPT ![w] = shown]
  /\ UNCHANGED <<vars, tablesOfRun, started, erased, todo, scored, scheduler>>

(* The DELETE has removed the rows it saw, but for those another run has   *)
(* replaced since.  Then the pipes are selected, in no particular order.   *)
FinishReset(w) ==
  /\ Handling(w)
  /\ step[w] = "resetting"
  /\ ~Waits(w)
  /\ step' = [step EXCEPT ![w] = "scoring"]
  /\ erased' = [erased EXCEPT ![w] = {p \in Pipes : shown[p] # NoJob /\ shown[p] = seen[w][p]}]
  /\ \E order \in Orders : todo' = [todo EXCEPT ![w] = order]
  /\ UNCHANGED <<vars, tablesOfRun, started, seen, scored, scheduler>>

(* The committed row of p is still there for w: its primary key is taken.  *)
Taken(w, p) == shown[p] # NoJob /\ p \notin erased[w]

(* Mutant of Score: a pipe whose key is taken is skipped. *)
ScoreOrSkip(w) ==
  /\ Handling(w)
  /\ step[w] = "scoring"
  /\ todo[w] # <<>>
  /\ ~Waits(w)
  /\ scored' = [scored EXCEPT ![w] = IF Taken(w, Head(todo[w])) THEN @ ELSE @ \cup {Head(todo[w])}]
  /\ todo' = [todo EXCEPT ![w] = Tail(@)]
  /\ UNCHANGED <<vars, tablesOfRun, started, step, seen, erased, scheduler>>

(* A status is inserted; the primary key is asset_id. *)
Score(w) ==
  /\ Handling(w)
  /\ step[w] = "scoring"
  /\ todo[w] # <<>>
  /\ ~Waits(w)
  /\ ~Taken(w, Head(todo[w]))
  /\ scored' = [scored EXCEPT ![w] = @ \cup {Head(todo[w])}]
  /\ todo' = [todo EXCEPT ![w] = Tail(@)]
  /\ UNCHANGED <<vars, tablesOfRun, started, step, seen, erased, scheduler>>

(* What the transaction of w wrote to the statuses is undone. *)
Forget(w) ==
  /\ step' = [step EXCEPT ![w] = "begun"]
  /\ seen' = [seen EXCEPT ![w] = Unscored]
  /\ erased' = [erased EXCEPT ![w] = {}]
  /\ todo' = [todo EXCEPT ![w] = <<>>]
  /\ scored' = [scored EXCEPT ![w] = {}]

(* Mutant of Publish: the claim was not flushed with the run. *)
PublishUnclaimed(w) ==
  /\ step[w] = "scoring"
  /\ todo[w] = <<>>
  /\ PublishRunUnclaimed(w)
  /\ shown' = [p \in Pipes |-> IF p \in scored[w] THEN job[w]
                               ELSE IF p \in erased[w] THEN NoJob ELSE shown[p]]
  /\ last' = job[w]
  /\ stale' = FALSE
  /\ Forget(w)
  /\ UNCHANGED <<started, plan>>

(* The inner commit of run_city_analytics. *)
Publish(w) ==
  /\ step[w] = "scoring"
  /\ todo[w] = <<>>
  /\ PublishRun(w)
  /\ shown' = [p \in Pipes |-> IF p \in scored[w] THEN job[w]
                               ELSE IF p \in erased[w] THEN NoJob ELSE shown[p]]
  /\ last' = job[w]
  /\ stale' = FALSE
  /\ Forget(w)
  /\ UNCHANGED <<started, plan>>

(* An error of the handler rolls back to the savepoint. *)
Raise(w) ==
  /\ HandlerRaises(w)
  /\ Forget(w)
  /\ UNCHANGED <<tablesOfRun, started, scheduler>>

(* Mutant of Collide: the insert that failed is tried again and again. *)
CollideAndInsist(w) ==
  /\ Handling(w)
  /\ step[w] = "scoring"
  /\ todo[w] # <<>>
  /\ ~Waits(w)
  /\ Taken(w, Head(todo[w]))
  /\ UNCHANGED allVars

(* The primary key of a status is taken: IntegrityError. *)
Collide(w) ==
  /\ Handling(w)
  /\ step[w] = "scoring"
  /\ todo[w] # <<>>
  /\ ~Waits(w)
  /\ Taken(w, Head(todo[w]))
  /\ Raise(w)

(* The server breaks a cycle of waits by failing a statement of one of the *)
(* transactions (two workers are enough for a cycle of two).               *)
BreakDeadlock(w) ==
  /\ \E v \in Workers : WaitsFor(w, v) /\ WaitsFor(v, w)
  /\ Raise(w)

(* Any other error: no rain gauge, no telemetry frame, a failed statement. *)
Fail(w) == ~Waits(w) /\ Raise(w)

-----------------------------------------------------------------------------
(* The rest of the queue, seen from the statuses. *)

Elsewhere ==
  /\ \/ \E j \in Jobs : Retry(j) \/ Cancel(j) \/ BackoffElapses(j)
     \/ \E w \in Workers :
          AnalyticsSucceeds(w) \/ Commit(w) \/ NoticeLostConnection(w) \/ Restart(w)
  /\ UNCHANGED pipeline

Vanish(w) ==
  /\ Fault(w)
  /\ Forget(w)
  /\ UNCHANGED <<tablesOfRun, started, scheduler>>

Progress(w) ==
  \/ BeginReset(w) \/ FinishReset(w) \/ Score(w) \/ Publish(w)
  \/ Collide(w) \/ BreakDeadlock(w)

Schedule == IntervalElapses \/ SchedulerCommits \/ \E j \in Jobs : SchedulerDecides(j)

PipelineNext ==
  \/ Schedule
  \/ \E j \in Jobs : EnqueueManually(j)
  \/ \E w \in Workers : ClaimAnalytics(w) \/ Progress(w) \/ Fail(w) \/ Vanish(w)
  \/ Elsewhere

PipelineSpec == PipelineInit /\ [][PipelineNext]_allVars

(* The worker loop, split: a handler that waits for a lock is not excused  *)
(* by an error it might meet later.  Strong fairness of its steps is what  *)
(* the server does: a statement that waits is woken when the transaction   *)
(* it waits for ends, before that worker can claim and score again.        *)
PipelineFairness ==
  /\ \A w \in Workers :
       /\ WF_allVars(ClaimAnalytics(w))
       /\ SF_allVars(Progress(w))
       /\ WF_allVars((AnalyticsSucceeds(w) \/ Commit(w)) /\ UNCHANGED pipeline)
       /\ WF_allVars((NoticeLostConnection(w) \/ Restart(w)) /\ UNCHANGED pipeline)
  /\ \A j \in Jobs : WF_allVars(BackoffElapses(j) /\ UNCHANGED pipeline)

FairPipelineSpec == PipelineSpec /\ PipelineFairness

-----------------------------------------------------------------------------
(* Properties *)

(* The committed statuses are those of the run committed last, every pipe  *)
(* of it and nothing else, however many runs of the city overlapped: the   *)
(* reset and the primary key make the replacement atomic.                  *)
StatusesAreOfLastRun == \A p \in Pipes : shown[p] = last

(* A run meets a taken primary key only when another run was committed     *)
(* after its reset began.  A run alone in its city always replaces the     *)
(* statuses of the runs before it.                                         *)
CollisionsNeedOverlap ==
  \A w \in Workers, p \in Pipes :
    step[w] = "scoring" /\ Taken(w, p) => seen[w] # shown

(* The inductive invariant behind the two.  A run that is committed while  *)
(* another one is in its handler is new to it, so it is not among the rows *)
(* that handler saw and deleted.                                           *)
HandlersAgree ==
  \A w \in Workers :
    /\ step[w] # "begun" => pc[w] = "claimed" /\ Connected(w)
    /\ \A p \in Pipes : seen[w][p] # NoJob => published[seen[w][p]] = 1
    /\ step[w] = "scoring" =>
         /\ Pipes \subseteq scored[w] \cup ToSet(todo[w])
         /\ \A p \in Pipes : Taken(w, p) => seen[w][p] # shown[p]

PipelineIInv ==
  /\ IInv
  /\ HandlerTypeOK
  /\ HandlersAgree
  /\ last # NoJob => published[last] = 1
  /\ StatusesAreOfLastRun

(* A fault between the inner commit and the outcome: the row is running,   *)
(* and no worker will ever finish it.                                      *)
Orphaned(j) ==
  /\ row[j].status = "running" /\ published[j] = 1
  /\ \A w \in Workers : job[w] # j
  /\ crashes + drops > 0

(* Every analytics job that is queued is settled: neither the row locks of *)
(* another run, nor a deadlock between two of them, holds a job for ever.  *)
(* Only a job whose run is stored can be left over instead; the scheduler  *)
(* waits for such a job for ever.                                          *)
RunsSettle ==
  \A j \in AnalyticsJobs : row[j].status = "queued" ~> (Settled(row[j]) \/ Orphaned(j))

(* The handler and the scheduler implement the queue's view of them. *)
ImplementsQueue == Spec

(* get_latest_run_id: the run with the latest created_at. *)
LatestRun ==
  LET stored == {i \in DOMAIN started : published[started[i]] > 0}
  IN  IF stored = {} THEN NoJob
      ELSE started[CHOOSE i \in stored : \A k \in stored : k <= i]

(* docs/data-model.md:33-34 says that asset_status_latest holds the latest *)
(* risk score per asset.  get_city_status reports it next to the events    *)
(* and hotspots of the run get_latest_run_id finds.                        *)
StatusesAreLatest == \A p \in Pipes : shown[p] = LatestRun
=============================================================================
