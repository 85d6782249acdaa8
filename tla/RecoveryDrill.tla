---------------------------- MODULE RecoveryDrill ----------------------------
(***************************************************************************)
(* exercise() of scripts/recovery_drill.py with scripts/recovery_probe.py: *)
(* a database is backed up, lost and restored into another one; a worker   *)
(* is killed in the middle of a job and started again; a job is retried.   *)
(* A database is the set of what was committed to it.                      *)
(***************************************************************************)
EXTENDS DisposableStack

VARIABLES
  source, restored,  \* the two databases
  snap,              \* source-snapshot.json
  dump, archive, transferred,  \* the backup: in the source container, on the
                               \* host, in the container of the restored one
  job,     \* the recovered export, as committed
  lock,    \* its row lock: of nobody, of the worker, of a dead connection
  marker,  \* the worker has paused once: its container keeps this file
  retry    \* the second export, and whether its backoff has passed

data == <<source, restored, snap, dump, archive, transferred>>
jobs == <<job, lock, marker, retry>>
drill == <<data, jobs>>

Steps ==
  <<"build", "databases", "seed", "checkpoint", "snapshot", "backup", "copy_out",
    "archive_integrity", "post_backup", "source_outage", "require_empty", "transfer", "restore",
    "compare", "restored_api", "claim", "kill", "rolled_back", "restart", "completion",
    "retry_first", "retry", "stale_running">>

At(name) == AtStep(CHOOSE n \in DOMAIN Steps : Steps[n] = name)
After(name) == step > CHOOSE n \in DOMAIN Steps : Steps[n] = name

Damaged == {"damaged"}

DrillInit ==
  /\ source = {} /\ restored = {} /\ snap = {}
  /\ dump = {} /\ archive = {} /\ transferred = {}
  /\ job = [status |-> "queued", attempts |-> 0]
  /\ lock = "free" /\ marker = FALSE
  /\ retry = [status |-> "none", attempts |-> 0, due |-> FALSE]

Launches ==
  CASE At("databases") -> {"db", "restored-db"}
    [] At("restored_api") -> {"recovered-api"}
    [] At("claim") \/ At("restart") -> {"interrupted-worker"}
    [] OTHER -> {}

(* The fault goes to a container only after its labels were compared.      *)
Faults ==
  CASE At("source_outage") -> {"db"}
    [] At("kill") -> {"interrupted-worker"}
    [] OTHER -> {}

Images == IF At("build") THEN {"images"} ELSE {}

Database ==
  CASE At("build") \/ At("databases") \/ At("archive_integrity") -> {}
    [] ~After("source_outage") -> {"db"}
    [] OTHER -> {"restored-db"}

(* The probes on the source commit what they add, one after the other.     *)
Changes ==
  /\ source' = CASE At("seed") -> {"fixture", "export"}
                 [] At("checkpoint") -> source \cup {"checkpoint"}
                 [] At("post_backup") -> source \cup {"post_backup"}
                 [] OTHER -> source
  /\ snap' = IF At("snapshot") THEN source ELSE snap
  /\ dump' = IF At("backup") THEN source ELSE dump
  /\ IF At("copy_out")
     THEN archive' \in {Damaged} \cup (IF options.inject = "none" THEN {dump} ELSE {})
     ELSE UNCHANGED archive
  /\ IF At("transfer") THEN transferred' \in {archive, Damaged} ELSE UNCHANGED transferred
  /\ restored' = IF At("restore") THEN transferred ELSE restored

(* SIGKILL leaves the connection of the worker to be noticed.              *)
JobsChange ==
  /\ lock' = IF At("kill") /\ lock = "worker" THEN "dead" ELSE lock
  /\ retry' = CASE At("retry_first") -> [status |-> "queued", attempts |-> 1, due |-> FALSE]
                [] At("retry") /\ retry.due -> [retry EXCEPT !.status = "completed", !.attempts = 2]
                [] OTHER -> retry
  /\ UNCHANGED <<job, marker>>

DrillIssue ==
  /\ script = "drill"
  /\ Database \subseteq ready
  /\ At("retry") => retry.due
  /\ Issue(Launches, Faults, Images)
  /\ Changes /\ JobsChange

(* What the drill waits for or compares before it goes on. *)
Verified ==
  /\ At("databases") => {"db", "restored-db"} \subseteq ready
  /\ At("archive_integrity") => archive = dump
  /\ At("require_empty") => restored = {}
  /\ At("transfer") => transferred = dump
  /\ At("compare") => restored = snap
  /\ At("restored_api") => "recovered-api" \in ready /\ "fixture" \in restored
  /\ At("claim") => marker /\ lock = "worker" /\ job.status = "queued"
  /\ At("rolled_back") => lock = "free" /\ job = [status |-> "queued", attempts |-> 0]
  /\ At("completion") => job = [status |-> "completed", attempts |-> 1]
  /\ At("retry") => retry.status = "completed" /\ retry.attempts = 2

DrillPass == script = "drill" /\ Verified /\ Pass(Len(Steps)) /\ UNCHANGED drill

(* pg_restore --exit-on-error can stop in the middle. *)
DrillBreak ==
  /\ script = "drill"
  /\ Break(Launches, Images)
  /\ IF At("restore") /\ ~issued THEN restored' \in SUBSET transferred ELSE UNCHANGED restored
  /\ UNCHANGED <<source, snap, dump, archive, transferred, jobs>>

-----------------------------------------------------------------------------
(* The worker of the drill: paused-worker of recovery_probe.py. *)

WorkerIsUp == {"interrupted-worker", "restored-db"} \subseteq alive

(* It claims the export in an open transaction, writes the marker, pauses. *)
WorkerClaims ==
  /\ WorkerIsUp
  /\ ~marker
  /\ lock = "free" /\ job.status = "queued"
  /\ marker' = TRUE /\ lock' = "worker"
  /\ UNCHANGED <<stackVars, data, job, retry>>

(* A worker that dies by itself leaves a dead connection too. *)
ServerNotices ==
  /\ "restored-db" \in alive
  /\ lock = "dead" \/ (lock = "worker" /\ "interrupted-worker" \notin alive)
  /\ lock' = "free"
  /\ UNCHANGED <<stackVars, data, job, marker, retry>>

(* The second process finds the marker and drains the queue; a row that is *)
(* still locked is skipped, and the worker exits without having done it.   *)
WorkerDrains ==
  /\ WorkerIsUp
  /\ marker /\ lock # "worker"
  /\ job' = IF lock = "free" /\ job.status = "queued"
            THEN [status |-> "completed", attempts |-> job.attempts + 1] ELSE job
  /\ alive' = alive \ {"interrupted-worker"}
  /\ ready' = ready \ {"interrupted-worker"}
  /\ UNCHANGED <<running, progress, theirs, ours, deaths, outcome, data, lock, marker, retry>>

BackoffPasses ==
  /\ retry.status = "queued" /\ ~retry.due
  /\ retry' = [retry EXCEPT !.due = TRUE]
  /\ UNCHANGED <<stackVars, data, job, lock, marker>>

-----------------------------------------------------------------------------
(* docs/deployment/backup_restore_drills.md: a damaged archive is never    *)
(* restored, and nothing is restored while the source can still be         *)
(* written; what was compared is the protected checkpoint and not the      *)
(* write after the backup.  The killed worker leaves no attempt behind, so *)
(* the one that is started in its place finds the job, and is the first to *)
(* have one committed.                                                     *)
RestoreIsBackup ==
  /\ restored # {} => restored \subseteq dump /\ "db" \notin alive
  /\ script = "drill" /\ After("compare") =>
       /\ restored = snap
       /\ "checkpoint" \in restored /\ "post_backup" \in source \ restored
  /\ lock # "free" => job.attempts = 0
  /\ script = "drill" /\ After("rolled_back") => lock = "free"
  /\ script = "drill" /\ report.status = "passed" =>
       /\ options.inject = "none"
       /\ job = [status |-> "completed", attempts |-> 1]
       /\ retry.status = "completed" /\ retry.attempts = 2

Checkpoint == {"fixture", "export", "checkpoint"}

Untried == [status |-> "queued", attempts |-> 0]

(* What the source and the backup hold follows from the commands that were *)
(* executed; a damaged archive does not get past its comparisons.          *)
BackupIInv ==
  script = "drill" =>
    /\ step \in 1..Len(Steps)
    /\ source = IF Done(9) THEN Checkpoint \cup {"post_backup"}
                ELSE IF Done(4) THEN Checkpoint
                ELSE IF Done(3) THEN {"fixture", "export"} ELSE {}
    /\ snap = IF Done(5) THEN Checkpoint ELSE {}
    /\ dump = IF Done(6) THEN Checkpoint ELSE {}
    /\ Done(7) /\ options.inject # "none" => archive = Damaged
    /\ step > 8 => options.inject = "none"
    /\ Done(10) => "db" \notin alive
    /\ step > 12 => transferred = dump
    /\ restored # {} => step >= 13
    /\ restored \subseteq dump
    /\ step > 14 => restored = snap

(* The killed worker has left nothing, and the next one does the job once. *)
RecoveryIInv ==
  /\ job \in {Untried, [status |-> "completed", attempts |-> 1]}
  /\ lock # "free" => job = Untried
  /\ script = "drill" =>
       /\ step > 16 => marker
       /\ step > 18 => lock = "free"
       /\ step > 20 => job # Untried
       /\ step > 22 => retry.status = "completed" /\ retry.attempts = 2
       /\ report.status = "passed" => step = Len(Steps)

DrillIInv ==
  /\ BackupIInv
  /\ RecoveryIInv
  /\ script # "drill" => restored = {}
=============================================================================
