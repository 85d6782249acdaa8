---------------------------- MODULE StacksProofs ----------------------------
(***************************************************************************)
(* Theorems about the scripts that build something disposable, for any     *)
(* number of services that die and any size of the batch.                  *)
(***************************************************************************)
EXTENDS Stacks, SequenceTheorems, TLAPS

-----------------------------------------------------------------------------
(* DisposableStack: what every script with a project of its own does. *)

StackInv == StackIInv /\ StackVerdict

LEMMA IssueStack ==
  ASSUME StackInv, NEW services, NEW stopped, NEW built, Issue(services, stopped, built)
  PROVE  StackInv'
BY DEF StackInv, StackIInv, StackVerdict, Issue, running, outcome

LEMMA PassStack ==
  ASSUME StackInv, NEW last \in Nat, Pass(last)
  PROVE  StackInv'
<1>1. /\ UNCHANGED <<script, options, owned, theirs, ours, alive, exit>> /\ pc = "phase" /\ issued' = FALSE
      /\ IF step = last
         THEN pc' = "diagnostics" /\ report' = [report EXCEPT !.status = "passed"] /\ step' = step
         ELSE step' = step + 1 /\ pc' = pc /\ report' = report
  BY DEF Pass, running, docker
<1>2. step \in Nat /\ step >= 1 /\ step' \in Nat /\ step' >= 1
  <2>1. step \in Nat /\ step >= 1
    BY DEF StackInv, StackIInv
  <2>2. step' = step \/ step' = step + 1
    BY <1>1
  <2>. QED
    BY <2>1, <2>2
<1>3. CASE step = last
  <2>1. report' = [status |-> "passed", cleanup |-> "not started"]
    BY <1>1, <1>3 DEF StackInv, StackIInv
  <2>. QED
    BY <1>1, <1>2, <1>3, <2>1 DEF StackInv, StackIInv, StackVerdict
<1>4. CASE step # last
  BY <1>1, <1>2, <1>4 DEF StackInv, StackIInv, StackVerdict
<1>. QED
  BY <1>3, <1>4

LEMMA BreakStack ==
  ASSUME StackInv, NEW services, NEW built, Break(services, built)
  PROVE  StackInv'
BY DEF StackInv, StackIInv, StackVerdict, Break, running, outcome

LEMMA ServiceStack ==
  ASSUME StackInv, UNCHANGED <<running, progress, theirs, ours, outcome>>,
         alive' \subseteq alive
  PROVE  StackInv'
BY DEF StackInv, StackIInv, StackVerdict, running, progress, outcome

LEMMA TeardownStack ==
  ASSUME StackInv, Preflight \/ Finally \/ Unwind
  PROVE  StackInv'
<1>. USE DEF StackInv, StackIInv, StackVerdict, running, docker, outcome
<1>1. CASE Preflight
  BY <1>1 DEF Preflight
<1>2. CASE Diagnose
  BY <1>2 DEF Diagnose
<1>3. CASE Keep
  BY <1>3 DEF Keep
<1>4. CASE Remove
  BY <1>4 DEF Remove
<1>5. CASE RemoveFails
  BY <1>5 DEF RemoveFails
<1>6. CASE WriteResult
  BY <1>6 DEF WriteResult
<1>7. CASE Unwind
  BY <1>7 DEF Unwind
<1>. QED
  BY <1>1, <1>2, <1>3, <1>4, <1>5, <1>6, <1>7 DEF Finally

(* The teardown goes on with the phases as they are, and what was started  *)
(* comes to its end.                                                       *)
LEMMA TeardownFrame ==
  ASSUME StackInv, Preflight \/ Finally \/ Unwind
  PROVE  /\ UNCHANGED <<running, step, issued>> /\ alive' \subseteq alive
         /\ report'.status \in {report.status, "failed"}
         /\ UNCHANGED theirs
<1>. USE DEF StackInv, StackIInv, running, docker, outcome
<1>1. CASE Preflight \/ Diagnose \/ WriteResult \/ Unwind
  BY <1>1 DEF Preflight, Diagnose, WriteResult, Unwind
<1>2. CASE Keep
  BY <1>2 DEF Keep
<1>3. CASE Remove
  BY <1>3 DEF Remove
<1>4. CASE RemoveFails
  BY <1>4 DEF RemoveFails
<1>. QED
  BY <1>1, <1>2, <1>3, <1>4 DEF Finally

-----------------------------------------------------------------------------
(* CaseStudy *)

LEMMA CaseInitIInv ==
  ASSUME NEW first \in {"idle", "preflight"}, CaseInit(first)
  PROVE  CaseIInv
BY DEF CaseInit, CaseIInv, CaseVerdict, Removing, InContainer

LEMMA CaseFrame ==
  ASSUME CaseIInv, UNCHANGED caseVars
  PROVE  CaseIInv'
BY DEF CaseIInv, CaseVerdict, Reports, Removing, caseVars, container, database

LEMMA CaseNextIInv ==
  ASSUME CaseIInv, CaseNext
  PROVE  CaseIInv'
<1>. USE DEF CaseIInv, CaseVerdict, Reports, Removing, InContainer, Goes, container, database
<1>0. Len(Artifacts) = 8
  BY DEF Artifacts
<1>1. CASE RefuseOutput
  BY <1>1 DEF RefuseOutput
<1>2. CASE Prepare
  BY <1>2 DEF Prepare
<1>3. CASE Create
  BY <1>3 DEF Create
<1>4. CASE Start
  BY <1>4 DEF Start
<1>5. CASE Persist("first", "replay") \/ Persist("replay", "readback")
  BY <1>5 DEF Persist
<1>6. CASE ReadBack
  BY <1>6 DEF ReadBack
<1>7. CASE StageFails
  BY <1>7 DEF StageFails
<1>8. CASE RemoveContainer
  BY <1>8 DEF RemoveContainer
<1>9. CASE RemovalFails
  BY <1>9 DEF RemovalFails
<1>10. CASE WriteArtifact
  BY <1>0, <1>10 DEF WriteArtifact
<1>11. CASE Complete
  <2>1. Len(imports') = 2 /\ imports'[1].inserted = Cardinality(Batch) /\ imports'[2].inserted = 0
    BY <1>11 DEF Complete
  <2>. QED
    BY <1>11, <2>1 DEF Complete
<1>12. CASE Failed
  BY <1>12 DEF Failed
<1>. QED
  BY <1>1, <1>2, <1>3, <1>4, <1>5, <1>6, <1>7, <1>8, <1>9, <1>10, <1>11, <1>12 DEF CaseNext

-----------------------------------------------------------------------------
(* SmokeStack *)

(* The phases by their numbers. *)
LEMMA PhaseNames ==
  /\ Len(Phases) = IF options.operator THEN 11 ELSE 10
  /\ Phases[1] = "pull" /\ Phases[2] = "build" /\ Phases[3] = "database" /\ Phases[4] = "migrations"
  /\ Phases[5] = "seed" /\ Phases[6] = "readiness" /\ Phases[7] = "api" /\ Phases[8] = "export"
  /\ options.operator => Phases[9] = "operator" /\ Phases[10] = "scheduler" /\ Phases[11] = "regressions"
  /\ ~options.operator => Phases[9] = "scheduler" /\ Phases[10] = "regressions"
<1>1. CASE options.operator
  BY <1>1 DEF Phases
<1>2. CASE ~options.operator
  BY <1>2 DEF Phases
<1>. QED
  BY <1>1, <1>2

LEMMA PhaseNumbers ==
  ASSUME step \in 1..Len(Phases)
  PROVE  /\ Len(Phases) \in {10, 11}
         /\ Name = "migrations" <=> step = 4
         /\ Name = "seed" <=> step = 5
         /\ Name = "readiness" <=> step = 6
         /\ Name = "export" <=> step = 8
         /\ Name = "scheduler" <=> step = Len(Phases) - 1
         /\ Name = "regressions" <=> step = Len(Phases)
<1>1. CASE options.operator
  <2>1. step \in 1..11
    BY <1>1, PhaseNames
  <2>2. step \in {1, 2, 3, 4, 5, 6, 7, 8, 9, 10, 11}
    BY <2>1
  <2>. QED
    BY <1>1, <2>2, PhaseNames DEF Name
<1>2. CASE ~options.operator
  <2>1. step \in 1..10
    BY <1>2, PhaseNames
  <2>2. step \in {1, 2, 3, 4, 5, 6, 7, 8, 9, 10}
    BY <2>1
  <2>. QED
    BY <1>2, <2>2, PhaseNames DEF Name
<1>. QED
  BY <1>1, <1>2

(* The teardown, and services that come up or die, undo nothing.           *)
LEMMA SmokeFrame ==
  ASSUME SmokeIInv, UNCHANGED <<script, options, step, issued, smoke>>,
         alive' \subseteq alive, report'.status \in {report.status, "failed"}
  PROVE  SmokeIInv'
<1>1. Phases' = Phases
  BY DEF Phases
<1>2. Done(8)' <=> Done(8)
  BY DEF Done
<1>. QED
  BY <1>1, <1>2 DEF SmokeIInv, smoke

LEMMA SmokeIssueIInv ==
  ASSUME StackInv, SmokeIInv, SmokeIssue
  PROVE  SmokeIInv'
<1>1. /\ step \in 1..Len(Phases) /\ script = "smoke" /\ pc = "phase" /\ ~issued
      /\ UNCHANGED <<script, options, step, report, facts, analytics>> /\ issued' = TRUE
      /\ alive' = (alive \cup Starts) \ Stops
      /\ export' = IF Name = "export" THEN "queued" ELSE export
      /\ report.status = "failed"
  BY DEF StackInv, StackIInv, SmokeIInv, SmokeIssue, Issue, running, outcome
<1>2. Phases' = Phases
  BY <1>1 DEF Phases
<1>3. step \in Nat /\ (Done(8)' <=> step >= 8) /\ (Done(8) <=> step > 8)
  BY <1>1, PhaseNumbers DEF Done
<1>4. Name = "export" <=> step = 8
  BY <1>1, PhaseNumbers
<1>5. ASSUME options.inject = "worker", step >= 8
      PROVE  "worker" \notin alive'
  <2>1. CASE step = 8
    <3>1. "worker" \in Stops
      BY <1>4, <1>5, <2>1 DEF Stops
    <3>. QED
      BY <1>1, <3>1
  <2>2. CASE step > 8
    <3>1. Name # "readiness" /\ "worker" \notin alive
      BY <1>1, <1>3, <1>5, <2>2, PhaseNumbers DEF SmokeIInv
    <3>2. "worker" \notin Starts
      BY <3>1 DEF Starts
    <3>. QED
      BY <1>1, <3>1, <3>2
  <2>. QED
    BY <1>3, <1>5, <2>1, <2>2
<1>6. ASSUME step = Len(Phases)
      PROVE  {"worker", "scheduler"} \cap alive' = {}
  <2>1. Stops = {"scheduler", "worker"}
    BY <1>1, <1>6, PhaseNumbers DEF Stops
  <2>. QED
    BY <1>1, <2>1
<1>. QED
  BY <1>1, <1>2, <1>3, <1>4, <1>5, <1>6 DEF SmokeIInv

LEMMA SmokePassIInv ==
  ASSUME StackInv, SmokeIInv, SmokePass
  PROVE  SmokeIInv'
<1>1. /\ step \in 1..Len(Phases) /\ script = "smoke" /\ pc = "phase" /\ issued /\ issued' = FALSE
      /\ UNCHANGED <<script, options, alive, export, analytics>>
      /\ report.status = "failed" /\ Shown /\ facts' = facts \cup Leaves
      /\ IF step = Len(Phases)
         THEN report' = [report EXCEPT !.status = "passed"] /\ step' = step
         ELSE step' = step + 1 /\ report' = report
  BY DEF StackInv, StackIInv, SmokeIInv, SmokePass, Pass, running, docker
<1>2. Phases' = Phases /\ Len(Phases) \in {10, 11} /\ step \in Nat
  BY <1>1, PhaseNumbers DEF Phases
<1>3. /\ step = 4 => "schema" \in facts'
      /\ step = 5 => {"fixture", "events"} \subseteq facts'
      /\ step = 8 => export = "completed"
      /\ step = Len(Phases) - 1 => analytics = "completed"
  BY <1>1, PhaseNumbers DEF Leaves, Shown
<1>4. Done(8) <=> step >= 8
  BY <1>1, <1>2 DEF Done
<1>5. CASE step = Len(Phases)
  <2>1. step' = step /\ step > 8 /\ Done(8) /\ Done(8)'
    <3>1. step \in {10, 11} /\ step' = step
      BY <1>1, <1>2, <1>5
    <3>. QED
      BY <3>1 DEF Done
  <2>2. {"worker", "scheduler"} \cap alive = {}
    BY <1>1, <1>5 DEF SmokeIInv
  <2>. QED
    BY <1>1, <1>2, <1>5, <2>1, <2>2 DEF SmokeIInv
<1>6. CASE step # Len(Phases)
  <2>1. /\ step' = step + 1 /\ step' \in 1..Len(Phases) /\ report'.status = "failed"
        /\ Done(8)' <=> step >= 8
    BY <1>1, <1>2, <1>6 DEF Done
  <2>. QED
    BY <1>1, <1>2, <1>3, <1>4, <2>1 DEF SmokeIInv
<1>. QED
  BY <1>5, <1>6

LEMMA SmokeBreakIInv ==
  ASSUME StackInv, SmokeIInv, SmokeBreak
  PROVE  SmokeIInv'
<1>1. /\ script = "smoke" /\ pc \in {"preflight", "phase"} /\ step \in 1..Len(Phases)
      /\ UNCHANGED <<script, options, step, issued, report, smoke>> /\ report.status = "failed"
      /\ \/ alive' = alive
         \/ ~issued /\ \E done \in SUBSET Starts : alive' = alive \cup done
  BY DEF StackInv, StackIInv, SmokeIInv, SmokeBreak, Break, running, outcome
<1>2. CASE alive' = alive
  BY <1>1, <1>2, SmokeFrame
<1>3. CASE alive' # alive
  <2>1. ~issued /\ alive' \subseteq alive \cup Starts
    BY <1>1, <1>3
  <2>2. Phases' = Phases /\ (Done(8)' <=> Done(8)) /\ (Done(8) <=> step > 8) /\ step \in Nat
    BY <1>1, <2>1 DEF Phases, Done
  <2>3. step > 8 /\ "worker" \notin alive => "worker" \notin alive'
    <3>1. step > 8 => Name # "readiness"
      BY <1>1, PhaseNumbers
    <3>. QED
      BY <2>1, <3>1 DEF Starts
  <2>. QED
    BY <1>1, <2>1, <2>2, <2>3 DEF SmokeIInv, smoke
<1>. QED
  BY <1>2, <1>3

(* The worker and the scheduler of the project. *)
LEMMA SmokeServicesIInv ==
  ASSUME SmokeIInv, WorkerWorks \/ SchedulerWorks
  PROVE  SmokeIInv'
<1>1. SUFFICES ASSUME script = "smoke"
               PROVE  SmokeIInv'
  BY DEF SmokeIInv, WorkerWorks, SchedulerWorks, stackVars, running
<1>2. /\ UNCHANGED <<script, options, step, issued, alive, report, facts>>
      /\ Phases' = Phases /\ (Done(8)' <=> Done(8))
  BY DEF WorkerWorks, SchedulerWorks, stackVars, running, progress, docker, outcome, Phases, Done
<1>3. CASE WorkerWorks
  <2>1. "worker" \in alive
    BY <1>3 DEF WorkerWorks
  <2>2. /\ export' # export => export = "queued" /\ export' # "none" /\ options.inject # "worker"
        /\ analytics' # analytics => analytics = "queued"
    BY <1>1, <1>3, <2>1 DEF WorkerWorks, SmokeIInv
  <2>. QED
    BY <1>1, <1>2, <2>2 DEF SmokeIInv
<1>4. CASE SchedulerWorks
  BY <1>1, <1>2, <1>4 DEF SchedulerWorks, SmokeIInv
<1>. QED
  BY <1>3, <1>4

-----------------------------------------------------------------------------
(* RecoveryDrill *)

(* The steps by their numbers. *)
LEMMA StepNames ==
  /\ DOMAIN Steps = 1..23 /\ Len(Steps) = 23
  /\ Steps[1] = "build" /\ Steps[2] = "databases" /\ Steps[3] = "seed"
  /\ Steps[4] = "checkpoint" /\ Steps[5] = "snapshot" /\ Steps[6] = "backup"
  /\ Steps[7] = "copy_out" /\ Steps[8] = "archive_integrity" /\ Steps[9] = "post_backup"
  /\ Steps[10] = "source_outage" /\ Steps[11] = "require_empty" /\ Steps[12] = "transfer"
  /\ Steps[13] = "restore" /\ Steps[14] = "compare" /\ Steps[15] = "restored_api"
  /\ Steps[16] = "claim" /\ Steps[17] = "kill" /\ Steps[18] = "rolled_back"
  /\ Steps[19] = "restart" /\ Steps[20] = "completion" /\ Steps[21] = "retry_first"
  /\ Steps[22] = "retry" /\ Steps[23] = "stale_running"
BY DEF Steps

LEMMA StepNumber ==
  ASSUME NEW k \in 1..23
  PROVE  (CHOOSE n \in DOMAIN Steps : Steps[n] = Steps[k]) = k
<1>1. ASSUME NEW n \in 1..23, Steps[n] = Steps[k]
      PROVE  n = k
  <2>1. n \in {1, 2, 3, 4, 5, 6, 7, 8, 9, 10, 11, 12, 13, 14, 15, 16, 17, 18, 19, 20, 21, 22, 23}
    OBVIOUS
  <2>2. k \in {1, 2, 3, 4, 5, 6, 7, 8, 9, 10, 11, 12, 13, 14, 15, 16, 17, 18, 19, 20, 21, 22, 23}
    OBVIOUS
  <2>. QED
    BY <1>1, <2>1, <2>2, StepNames
<1>. QED
  BY <1>1, StepNames

LEMMA StepNumbers ==
  /\ At("build") <=> AtStep(1)
  /\ At("databases") <=> AtStep(2)
  /\ At("seed") <=> AtStep(3)
  /\ At("checkpoint") <=> AtStep(4)
  /\ At("snapshot") <=> AtStep(5)
  /\ At("backup") <=> AtStep(6)
  /\ At("copy_out") <=> AtStep(7)
  /\ At("archive_integrity") <=> AtStep(8)
  /\ At("post_backup") <=> AtStep(9)
  /\ At("source_outage") <=> AtStep(10)
  /\ At("require_empty") <=> AtStep(11)
  /\ At("transfer") <=> AtStep(12)
  /\ At("restore") <=> AtStep(13)
  /\ At("compare") <=> AtStep(14)
  /\ At("restored_api") <=> AtStep(15)
  /\ At("claim") <=> AtStep(16)
  /\ At("kill") <=> AtStep(17)
  /\ At("rolled_back") <=> AtStep(18)
  /\ At("restart") <=> AtStep(19)
  /\ At("completion") <=> AtStep(20)
  /\ At("retry_first") <=> AtStep(21)
  /\ At("retry") <=> AtStep(22)
  /\ At("stale_running") <=> AtStep(23)
  /\ After("source_outage") <=> step > 10
  /\ After("compare") <=> step > 14
  /\ After("rolled_back") <=> step > 18
<1>1. \A k \in 1..23 : At(Steps[k]) <=> AtStep(k)
  BY StepNumber DEF At
<1>2. \A k \in 1..23 : After(Steps[k]) <=> step > k
  BY StepNumber DEF After
<1>. QED
  BY <1>1, <1>2, StepNames

(* The teardown, and services that come up or die, undo nothing.           *)
LEMMA DrillFrame ==
  ASSUME DrillIInv, UNCHANGED <<script, options, step, issued, drill>>,
         alive' \subseteq alive, report'.status \in {report.status, "failed"}
  PROVE  DrillIInv'
BY DEF DrillIInv, BackupIInv, RecoveryIInv, Done, drill, data, jobs

LEMMA DrillIssueIInv ==
  ASSUME StackInv, DrillIInv, DrillIssue
  PROVE  DrillIInv'
<1>1. /\ script = "drill" /\ pc = "phase" /\ ~issued /\ issued' = TRUE /\ step \in 1..23
      /\ UNCHANGED <<script, options, step, report>>
      /\ alive' = (alive \cup Launches) \ Faults
      /\ report.status = "failed" /\ options.inject \in {"none", "corrupt-backup"}
  BY StepNames DEF StackInv, StackIInv, Options, DrillIInv, BackupIInv, DrillIssue, Issue, running, outcome
<1>2. ASSUME NEW n \in Nat
      PROVE  /\ AtStep(n) <=> step = n
             /\ Done(n) <=> step > n
             /\ Done(n)' <=> step >= n
  BY <1>1 DEF AtStep, Done
<1>3. BackupIInv'
  <2>1. /\ source' = IF step = 3 THEN {"fixture", "export"}
                     ELSE IF step = 4 THEN source \cup {"checkpoint"}
                     ELSE IF step = 9 THEN source \cup {"post_backup"} ELSE source
        /\ snap' = IF step = 5 THEN source ELSE snap
        /\ dump' = IF step = 6 THEN source ELSE dump
        /\ IF step = 7
           THEN archive' \in {Damaged} \cup (IF options.inject = "none" THEN {dump} ELSE {})
           ELSE archive' = archive
        /\ step # 12 => transferred' = transferred
        /\ restored' = IF step = 13 THEN transferred ELSE restored
    BY <1>2, StepNumbers DEF DrillIssue, Changes
  <2>2. /\ source = IF step > 9 THEN Checkpoint \cup {"post_backup"}
                    ELSE IF step > 4 THEN Checkpoint
                    ELSE IF step > 3 THEN {"fixture", "export"} ELSE {}
        /\ snap = IF step > 5 THEN Checkpoint ELSE {}
        /\ dump = IF step > 6 THEN Checkpoint ELSE {}
        /\ step > 7 /\ options.inject # "none" => archive = Damaged
        /\ step > 8 => options.inject = "none"
        /\ step > 10 => "db" \notin alive
        /\ step > 12 => transferred = dump
        /\ restored # {} => step >= 13
        /\ restored \subseteq dump
        /\ step > 14 => restored = snap
    BY <1>1, <1>2 DEF DrillIInv, BackupIInv
  <2>3. source' = IF step >= 9 THEN Checkpoint \cup {"post_backup"}
                  ELSE IF step >= 4 THEN Checkpoint
                  ELSE IF step >= 3 THEN {"fixture", "export"} ELSE {}
    BY <1>1, <2>1, <2>2 DEF Checkpoint
  <2>4. /\ snap' = IF step >= 5 THEN Checkpoint ELSE {}
        /\ dump' = IF step >= 6 THEN Checkpoint ELSE {}
    BY <1>1, <2>1, <2>2
  <2>5. step >= 7 /\ options.inject # "none" => archive' = Damaged
    BY <1>1, <2>1, <2>2
  <2>6. step >= 10 => "db" \notin alive'
    <3>1. step = 10 => Faults = {"db"}
      BY <1>2, StepNumbers DEF Faults
    <3>2. step > 10 => "db" \notin Launches
      BY <1>2, StepNumbers DEF Launches
    <3>. QED
      BY <1>1, <2>2, <3>1, <3>2
  <2>7. step > 12 => transferred' = dump' /\ dump' = dump
    BY <1>1, <2>1, <2>2
  <2>8. /\ restored' # {} => step >= 13
        /\ restored' \subseteq dump'
        /\ step > 14 => restored' = snap'
    BY <1>1, <2>1, <2>2
  <2>9. /\ Done(3)' <=> step >= 3
        /\ Done(4)' <=> step >= 4
        /\ Done(5)' <=> step >= 5
        /\ Done(6)' <=> step >= 6
        /\ Done(7)' <=> step >= 7
        /\ Done(9)' <=> step >= 9
        /\ Done(10)' <=> step >= 10
    BY <1>2
  <2>. QED
    BY <1>1, <2>2, <2>3, <2>4, <2>5, <2>6, <2>7, <2>8, <2>9, StepNames DEF BackupIInv
<1>4. RecoveryIInv'
  <2>1. /\ lock' = IF step = 17 /\ lock = "worker" THEN "dead" ELSE lock
        /\ step \notin {21, 22} => retry' = retry
        /\ UNCHANGED <<job, marker>>
    BY <1>2, StepNumbers DEF DrillIssue, JobsChange
  <2>2. step > 18 => lock' = "free"
    BY <1>1, <2>1 DEF DrillIInv, RecoveryIInv
  <2>. QED
    BY <1>1, <2>1, <2>2 DEF DrillIInv, RecoveryIInv
<1>. QED
  BY <1>1, <1>3, <1>4 DEF DrillIInv

LEMMA DrillPassIInv ==
  ASSUME StackInv, DrillIInv, DrillPass
  PROVE  DrillIInv'
<1>1. /\ script = "drill" /\ pc = "phase" /\ issued /\ issued' = FALSE /\ step \in 1..23
      /\ UNCHANGED <<script, options, alive, drill>>
      /\ report.status = "failed" /\ Verified
      /\ IF step = 23
         THEN step' = step
         ELSE step' = step + 1 /\ report' = report
  <2>1. script = "drill" /\ Verified /\ Pass(23) /\ UNCHANGED drill
    BY StepNames DEF DrillPass
  <2>2. step \in 1..23 /\ report.status = "failed"
    BY <2>1, StepNames DEF StackInv, StackIInv, DrillIInv, BackupIInv, Pass
  <2>. QED
    BY <2>1, <2>2 DEF Pass, running, docker
<1>2. ASSUME NEW n \in 1..22
      PROVE  /\ AtStep(n) <=> step = n
             /\ Done(n) <=> step >= n
             /\ Done(n)' <=> step >= n
  BY <1>1 DEF AtStep, Done
<1>3. /\ step = 8 => archive = dump
      /\ step = 12 => transferred = dump
      /\ step = 14 => restored = snap
      /\ step = 16 => marker
      /\ step = 18 => lock = "free"
      /\ step = 20 => job = [status |-> "completed", attempts |-> 1]
      /\ step = 22 => retry.status = "completed" /\ retry.attempts = 2
  BY <1>1, <1>2, StepNumbers DEF Verified
<1>4. step' \in 1..23 /\ \A n \in 1..22 : step' > n <=> step >= n
  BY <1>1
<1>5. report'.status = "passed" => step' = 23
  BY <1>1
<1>6. BackupIInv'
  <2>1. /\ Done(3)' <=> Done(3)
        /\ Done(4)' <=> Done(4)
        /\ Done(5)' <=> Done(5)
        /\ Done(6)' <=> Done(6)
        /\ Done(7)' <=> Done(7)
        /\ Done(9)' <=> Done(9)
        /\ Done(10)' <=> Done(10)
    BY <1>2
  <2>2. ASSUME step = 8, options.inject # "none"
        PROVE  FALSE
    <3>1. Done(6) /\ Done(7)
      BY <1>2, <2>2
    <3>2. dump = Checkpoint /\ archive = Damaged /\ archive = dump
      BY <1>1, <1>3, <2>2, <3>1 DEF DrillIInv, BackupIInv
    <3>3. "fixture" \in Checkpoint /\ "fixture" \notin Damaged
      BY DEF Checkpoint, Damaged
    <3>. QED
      BY <3>2, <3>3
  <2>3. /\ step' > 8 <=> step >= 8
        /\ step' > 12 <=> step >= 12
        /\ step' > 14 <=> step >= 14
        /\ step >= 13 => step' >= 13
    BY <1>1, <1>4
  <2>. QED
    BY <1>1, <1>3, <1>4, <2>1, <2>2, <2>3, StepNames DEF DrillIInv, BackupIInv, drill, data
<1>7. RecoveryIInv'
  <2>1. step = 20 => job # Untried
    BY <1>3 DEF Untried
  <2>. QED
    BY <1>1, <1>3, <1>4, <1>5, <2>1, StepNames DEF DrillIInv, RecoveryIInv, drill, jobs
<1>. QED
  BY <1>1, <1>6, <1>7 DEF DrillIInv

LEMMA DrillBreakIInv ==
  ASSUME StackInv, DrillIInv, DrillBreak
  PROVE  DrillIInv'
<1>1. /\ script = "drill" /\ step \in 1..23
      /\ UNCHANGED <<script, options, step, issued, report, source, snap, dump, archive, transferred, jobs>>
      /\ alive' \subseteq alive \/ (~issued /\ alive' \subseteq alive \cup Launches)
      /\ IF At("restore") /\ ~issued THEN restored' \subseteq transferred ELSE restored' = restored
  BY StepNames DEF DrillIInv, BackupIInv, DrillBreak, Break, running, outcome
<1>2. ASSUME NEW n \in Nat
      PROVE  /\ pc = "phase" => (AtStep(n) <=> step = n)
             /\ Done(n)' <=> Done(n)
             /\ ~issued => (Done(n) <=> step > n)
  BY <1>1 DEF AtStep, Done
<1>3. /\ Done(3)' <=> Done(3)
      /\ Done(4)' <=> Done(4)
      /\ Done(5)' <=> Done(5)
      /\ Done(6)' <=> Done(6)
      /\ Done(7)' <=> Done(7)
      /\ Done(9)' <=> Done(9)
      /\ Done(10)' <=> Done(10)
  BY <1>2
<1>4. Done(10) => "db" \notin alive'
  <2>1. ASSUME ~issued, step > 10
        PROVE  "db" \notin Launches
    BY <2>1, StepNumbers DEF AtStep, Launches
  <2>. QED
    BY <1>1, <1>2, <2>1 DEF DrillIInv, BackupIInv
<1>5. /\ restored' # {} => step >= 13
      /\ restored' \subseteq dump
      /\ step > 14 => restored' = snap
  <2>1. At("restore") => step = 13
    BY StepNumbers DEF AtStep
  <2>. QED
    BY <1>1, <2>1 DEF DrillIInv, BackupIInv
<1>6. BackupIInv'
  BY <1>1, <1>3, <1>4, <1>5 DEF DrillIInv, BackupIInv
<1>7. RecoveryIInv'
  BY <1>1 DEF DrillIInv, RecoveryIInv, jobs
<1>. QED
  BY <1>1, <1>6, <1>7 DEF DrillIInv

(* The worker of the drill, the server that notices its end, the backoff.  *)
LEMMA DrillServicesIInv ==
  ASSUME StackInv, DrillIInv, WorkerClaims \/ ServerNotices \/ WorkerDrains \/ BackoffPasses
  PROVE  StackInv' /\ DrillIInv'
<1>1. /\ UNCHANGED <<script, options, step, issued, report, data>>
      /\ alive' \subseteq alive
      /\ UNCHANGED <<running, progress, theirs, ours, outcome>>
  BY DEF WorkerClaims, ServerNotices, WorkerDrains, BackoffPasses, stackVars, running, progress, docker, outcome
<1>2. StackInv'
  BY <1>1, ServiceStack
<1>3. BackupIInv'
  BY <1>1 DEF DrillIInv, BackupIInv, Done, data
<1>4. RecoveryIInv'
  <2>1. CASE WorkerClaims
    <3>1. ~marker /\ marker' = TRUE /\ lock' = "worker" /\ job.status = "queued" /\ UNCHANGED retry
      BY <2>1 DEF WorkerClaims
    <3>2. script = "drill" => step \in 1..Len(Steps) /\ step <= 16
      BY <3>1, StepNames DEF DrillIInv, BackupIInv, RecoveryIInv
    <3>3. job = Untried
      BY <3>1 DEF DrillIInv, RecoveryIInv, Untried
    <3>. QED
      BY <1>1, <2>1, <3>1, <3>2, <3>3, StepNames DEF DrillIInv, RecoveryIInv, WorkerClaims
  <2>2. CASE ServerNotices
    BY <1>1, <2>2 DEF DrillIInv, RecoveryIInv, ServerNotices
  <2>3. CASE WorkerDrains
    <3>1. job' = job \/ (lock = "free" /\ job = Untried /\ job' = [status |-> "completed", attempts |-> 1])
      BY <2>3 DEF DrillIInv, RecoveryIInv, WorkerDrains, Untried
    <3>. QED
      BY <1>1, <2>3, <3>1 DEF DrillIInv, RecoveryIInv, WorkerDrains, Untried
  <2>4. CASE BackoffPasses
    <3>1. retry.status = "queued" /\ UNCHANGED <<job, lock, marker>>
      BY <2>4 DEF BackoffPasses
    <3>2. script = "drill" => ~(step > 22)
      BY <3>1 DEF DrillIInv, RecoveryIInv
    <3>. QED
      BY <1>1, <3>1, <3>2 DEF DrillIInv, RecoveryIInv
  <2>. QED
    BY <2>1, <2>2, <2>3, <2>4
<1>. QED
  BY <1>1, <1>2, <1>3, <1>4 DEF DrillIInv, data

-----------------------------------------------------------------------------
(* Stacks: the scripts together. *)

LEMMA InitIInv ==
  ASSUME Init
  PROVE  IInv
<1>1. PICK s \in {"smoke", "drill", "case"}, first \in {"preflight", "idle"} : StackInit(s, first)
  BY DEF Init
<1>2. StackInv
  <2>1. /\ script = s /\ options \in Options(script) /\ pc = first
        /\ ~owned /\ step = 1 /\ issued = FALSE /\ ours = {} /\ alive = {} /\ exit = "none"
        /\ report = [status |-> "failed", cleanup |-> "not started"]
    BY <1>1 DEF StackInit
  <2>2. StackIInv
    <3>1. report \in [status : {"failed", "passed"},
                      cleanup : {"not started", "retained", "completed", "failed"}]
      BY <2>1
    <3>2. report.status = "failed" /\ report.cleanup = "not started" /\ issued \in BOOLEAN
      BY <2>1
    <3>3. step \in Nat /\ step >= 1
      <4>1. step = 1
        BY <2>1
      <4>. QED
        BY ONLY <4>1
    <3>4. pc \in {"idle", "preflight"} /\ script \in {"smoke", "drill", "case"}
      BY <2>1
    <3>. QED
      BY <2>1, <3>1, <3>2, <3>3, <3>4, Zenon DEF StackIInv
  <2>3. StackVerdict
    BY <2>1 DEF StackVerdict
  <2>. QED
    BY <2>2, <2>3 DEF StackInv
<1>3. CaseIInv
  BY CaseInitIInv DEF Init
<1>4. step = 1 /\ issued = FALSE /\ report.status = "failed"
  BY <1>1 DEF StackInit
<1>5. SmokeIInv
  BY <1>4, PhaseNames DEF Init, SmokeInit, SmokeIInv, Done
<1>6. DrillIInv
  BY <1>4, StepNames DEF Init, DrillInit, DrillIInv, BackupIInv, RecoveryIInv, Done, Untried
<1>. QED
  BY <1>2, <1>3, <1>5, <1>6 DEF IInv, StackInv

(* A script does not touch what belongs to the others. *)
LEMMA OtherScripts ==
  ASSUME IInv, UNCHANGED script
  PROVE  /\ script # "smoke" => SmokeIInv'
         /\ script # "drill" /\ UNCHANGED drill => DrillIInv'
         /\ UNCHANGED caseVars => CaseIInv'
<1>1. script # "smoke" => SmokeIInv'
  BY DEF SmokeIInv
<1>2. script # "drill" /\ UNCHANGED drill => DrillIInv'
  BY DEF IInv, DrillIInv, BackupIInv, RecoveryIInv, drill, data, jobs
<1>. QED
  BY <1>1, <1>2, CaseFrame DEF IInv

(* Steps that leave the scripts where they are and start nothing.          *)
LEMMA QuietStep ==
  ASSUME IInv, UNCHANGED <<script, options, step, issued, smoke, drill>>,
         alive' \subseteq alive, report'.status \in {report.status, "failed"}
  PROVE  SmokeIInv' /\ DrillIInv'
BY SmokeFrame, DrillFrame DEF IInv

LEMMA ScriptStepIInv ==
  ASSUME IInv, ScriptStep
  PROVE  IInv'
<1>1. StackInv /\ SmokeIInv /\ DrillIInv /\ CaseIInv
  BY DEF IInv, StackInv
<1>. SUFFICES StackInv' /\ SmokeIInv' /\ DrillIInv' /\ CaseIInv'
  BY DEF IInv, StackInv
<1>2. CASE (SmokeIssue \/ SmokePass \/ SmokeBreak) /\ UNCHANGED <<drill, caseVars>>
  <2>1. StackInv'
    <3>1. Len(Phases) \in Nat
      BY PhaseNames
    <3>. QED
      BY <1>1, <1>2, <3>1, IssueStack, PassStack, BreakStack DEF SmokeIssue, SmokePass, SmokeBreak
  <2>2. SmokeIInv'
    BY <1>1, <1>2, SmokeIssueIInv, SmokePassIInv, SmokeBreakIInv
  <2>3. script = "smoke" /\ UNCHANGED script
    BY <1>2 DEF SmokeIssue, SmokePass, SmokeBreak, Issue, Pass, Break, running
  <2>. QED
    BY <1>2, <2>1, <2>2, <2>3, OtherScripts
<1>3. CASE (DrillIssue \/ DrillPass \/ DrillBreak) /\ UNCHANGED <<smoke, caseVars>>
  <2>1. StackInv'
    <3>1. Len(Steps) \in Nat
      BY StepNames
    <3>. QED
      BY <1>1, <1>3, <3>1, IssueStack, PassStack, BreakStack DEF DrillIssue, DrillPass, DrillBreak
  <2>2. DrillIInv'
    BY <1>1, <1>3, DrillIssueIInv, DrillPassIInv, DrillBreakIInv
  <2>3. script = "drill" /\ UNCHANGED script
    BY <1>3 DEF DrillIssue, DrillPass, DrillBreak, Issue, Pass, Break, running
  <2>. QED
    BY <1>3, <2>1, <2>2, <2>3, OtherScripts
<1>4. CASE (Preflight \/ Finally \/ Unwind) /\ UNCHANGED <<smoke, drill, caseVars>>
  <2>1. StackInv'
    BY <1>1, <1>4, TeardownStack
  <2>2. /\ UNCHANGED <<script, options, step, issued>> /\ alive' \subseteq alive
        /\ report'.status \in {report.status, "failed"}
    BY <1>1, <1>4, TeardownFrame DEF running
  <2>. QED
    BY <1>4, <2>1, <2>2, QuietStep, OtherScripts
<1>5. CASE CaseNext /\ UNCHANGED <<stackVars, smoke, drill>>
  <2>1. /\ UNCHANGED <<script, options, step, issued, running, progress, theirs, ours, outcome>>
        /\ alive' = alive /\ report' = report
    BY <1>5 DEF stackVars, running, progress, docker, outcome
  <2>2. StackInv'
    BY <1>1, <2>1, ServiceStack
  <2>. QED
    BY <1>1, <1>5, <2>1, <2>2, QuietStep, CaseNextIInv
<1>. QED
  BY <1>2, <1>3, <1>4, <1>5 DEF ScriptStep

LEMMA ServicesIInv ==
  ASSUME IInv, Services
  PROVE  IInv'
<1>1. StackInv /\ SmokeIInv /\ DrillIInv /\ CaseIInv
  BY DEF IInv, StackInv
<1>. SUFFICES StackInv' /\ SmokeIInv' /\ DrillIInv' /\ CaseIInv'
  BY DEF IInv, StackInv
<1>2. CASE (WorkerWorks \/ SchedulerWorks) /\ UNCHANGED <<drill, caseVars>>
  <2>1. /\ UNCHANGED <<script, options, step, issued, running, progress, theirs, ours, outcome>>
        /\ alive' = alive /\ report' = report
    BY <1>2 DEF WorkerWorks, SchedulerWorks, stackVars, running, progress, docker, outcome
  <2>2. DrillIInv'
    BY <1>1, <1>2, <2>1, DrillFrame
  <2>. QED
    BY <1>1, <1>2, <2>1, <2>2, ServiceStack, SmokeServicesIInv, OtherScripts
<1>3. CASE /\ WorkerClaims \/ ServerNotices \/ WorkerDrains \/ BackoffPasses
           /\ UNCHANGED <<smoke, caseVars>>
  <2>1. /\ UNCHANGED <<script, options, step, issued, report>> /\ alive' \subseteq alive
    BY <1>3 DEF WorkerClaims, ServerNotices, WorkerDrains, BackoffPasses,
                stackVars, running, progress, docker, outcome
  <2>2. SmokeIInv'
    BY <1>1, <1>3, <2>1, SmokeFrame
  <2>. QED
    BY <1>1, <1>3, <2>1, <2>2, DrillServicesIInv, OtherScripts
<1>4. ASSUME NEW s \in alive, Become(s) \/ Die(s), UNCHANGED <<smoke, drill, caseVars>>
      PROVE  StackInv' /\ SmokeIInv' /\ DrillIInv' /\ CaseIInv'
  <2>1. /\ UNCHANGED <<script, options, step, issued, running, progress, theirs, ours, outcome>>
        /\ alive' \subseteq alive /\ report' = report
    BY <1>4 DEF Become, Die, running, progress, outcome
  <2>2. StackInv'
    BY <1>1, <2>1, ServiceStack
  <2>. QED
    BY <1>1, <1>4, <2>1, <2>2, QuietStep, OtherScripts
<1>. QED
  BY <1>2, <1>3, <1>4 DEF Services

LEMMA NextIInv ==
  ASSUME IInv, [Next]_vars
  PROVE  IInv'
<1>1. CASE UNCHANGED vars
  <2>1. /\ UNCHANGED <<script, options, step, issued, running, progress, theirs, ours, outcome, smoke, drill, caseVars>>
        /\ alive' = alive /\ report' = report
    BY <1>1 DEF vars, stackVars, running, progress, docker, outcome
  <2>2. StackInv'
    BY <2>1, ServiceStack DEF IInv, StackInv
  <2>. QED
    BY <2>1, <2>2, QuietStep, OtherScripts DEF IInv, StackInv
<1>. QED
  BY <1>1, ScriptStepIInv, ServicesIInv DEF Next

(* The inductive invariant: what each script has shown so far, and what    *)
(* its teardown may remove.                                                *)
THEOREM StacksInvariance == Spec => []IInv
<1>. QED
  BY InitIInv, NextIInv, PTL DEF Spec

(* A verdict of success stands for what was shown in this run, a restored  *)
(* database is the one that was backed up, and what is told of a cleanup   *)
(* is so, wherever a command fails, a service dies or a signal arrives.    *)
THEOREM VerdictsAreEarned == Spec => []VerdictIsEarned
<1>1. IInv => VerdictIsEarned
  <2>. SUFFICES ASSUME IInv
                PROVE  SmokeVerdict /\ RestoreIsBackup
    BY DEF IInv, VerdictIsEarned, CaseIInv
  <2>1. SmokeVerdict
    <3>. SUFFICES ASSUME script = "smoke", report.status = "passed"
                  PROVE  /\ options.inject = "none"
                         /\ export = "completed" /\ analytics = "completed"
                         /\ {"schema", "fixture", "events"} \subseteq facts
                         /\ {"worker", "scheduler"} \cap alive = {}
      BY DEF SmokeVerdict
    <3>0. step = Len(Phases)
      BY DEF IInv, SmokeIInv
    <3>1. step \in {10, 11}
      BY <3>0, PhaseNames
    <3>2. options.inject \in {"none", "worker"}
      BY DEF IInv, StackIInv, Options
    <3>3. step > 4 /\ step > 5 /\ step > 8
      BY <3>1
    <3>. QED
      BY <3>0, <3>2, <3>3 DEF IInv, SmokeIInv
  <2>2. RestoreIsBackup
    <3>1. script = "drill" => step \in 1..23
      BY StepNames DEF IInv, DrillIInv, BackupIInv
    <3>2. restored # {} => restored \subseteq dump /\ "db" \notin alive
      BY <3>1 DEF IInv, DrillIInv, BackupIInv, Done
    <3>3. ASSUME script = "drill", After("compare")
          PROVE  restored = snap /\ "checkpoint" \in restored /\ "post_backup" \in source \ restored
      BY <3>1, <3>3, StepNumbers DEF IInv, DrillIInv, BackupIInv, Done, Checkpoint
    <3>4. /\ lock # "free" => job.attempts = 0
          /\ script = "drill" /\ After("rolled_back") => lock = "free"
      BY StepNumbers DEF IInv, DrillIInv, RecoveryIInv, Untried
    <3>5. ASSUME script = "drill", report.status = "passed"
          PROVE  /\ options.inject = "none"
                 /\ job = [status |-> "completed", attempts |-> 1]
                 /\ retry.status = "completed" /\ retry.attempts = 2
      BY <3>5, StepNames DEF IInv, DrillIInv, BackupIInv, RecoveryIInv
    <3>. QED
      BY <3>2, <3>3, <3>4, <3>5 DEF RestoreIsBackup
  <2>. QED
    BY <2>1, <2>2
<1>. QED
  BY <1>1, StacksInvariance, PTL

(* No script removes what it found under the label of its project.         *)
THEOREM OthersKeepTheirs == Spec => OthersAreUntouched
<1>1. ASSUME IInv, [Next]_vars
      PROVE  [OthersStay]_vars
  <2>1. StackInv
    BY <1>1 DEF IInv, StackInv
  <2>2. CASE UNCHANGED vars
    BY <2>2 DEF vars
  <2>3. ASSUME ScriptStep PROVE theirs' = theirs
    <3>1. CASE Preflight \/ Finally \/ Unwind
      BY <2>1, <3>1, TeardownFrame
    <3>. QED
      BY <2>3, <3>1 DEF ScriptStep, SmokeIssue, SmokePass, SmokeBreak, DrillIssue, DrillPass, DrillBreak,
                        Issue, Pass, Break, stackVars, docker
  <2>4. ASSUME Services PROVE theirs' = theirs
    BY <2>4 DEF Services, WorkerWorks, SchedulerWorks, WorkerClaims, ServerNotices, WorkerDrains,
                BackoffPasses, Become, Die, stackVars, docker
  <2>. QED
    BY <1>1, <2>2, <2>3, <2>4 DEF Next, OthersStay
<1>. QED
  BY <1>1, StacksInvariance, PTL DEF Spec, OthersAreUntouched
=============================================================================
