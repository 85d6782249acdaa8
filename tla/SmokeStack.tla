----------------------------- MODULE SmokeStack -----------------------------
(***************************************************************************)
(* exercise() of scripts/smoke_stack.py: the phases of the smoke test, the *)
(* services it starts, and the two jobs it waits for.                      *)
(***************************************************************************)
EXTENDS DisposableStack

VARIABLES
  facts,     \* what the database of the project holds
  export, analytics  \* the job of the export phase; of the scheduler

smoke == <<facts, export, analytics>>

Phases ==
  <<"pull", "build", "database", "migrations", "seed", "readiness", "api", "export">>
    \o (IF options.operator THEN <<"operator">> ELSE <<>>) \o <<"scheduler", "regressions">>

SmokeInit ==
  /\ facts = {}
  /\ export = "none" /\ analytics = "none"

Name == Phases[step]

Starts ==
  CASE Name = "database" -> {"db"}
    [] Name = "readiness" -> {"backend", "worker", "web", "prometheus", "grafana"}
    [] Name = "scheduler" -> {"scheduler"}
    [] OTHER -> {}

(* The regressions drive the queue themselves: no other consumer may run. *)
Stops ==
  CASE Name = "regressions" -> {"scheduler", "worker"}
    [] Name = "export" /\ options.inject = "worker" -> {"worker"}
    [] OTHER -> {}

Builds == IF Name = "build" THEN {"images"} ELSE {}

(* What a phase waits for or asserts. *)
Shown ==
  CASE Name \in {"pull", "build"} -> TRUE
    [] Name \in {"database", "migrations"} -> "db" \in ready
    [] Name = "seed" -> "db" \in ready /\ "schema" \in facts
    [] Name = "readiness" -> Starts \subseteq ready
    [] Name = "api" -> {"db", "backend"} \subseteq ready /\ {"fixture", "events"} \subseteq facts
    [] Name = "export" -> {"db", "backend"} \subseteq ready /\ export = "completed"
    [] Name = "operator" -> {"db", "backend", "web"} \subseteq ready
    [] Name = "scheduler" ->
         {"db", "backend", "prometheus"} \subseteq ready /\ analytics = "completed"
    [] Name = "regressions" -> {"db", "backend"} \subseteq ready

(* What its commands leave in the database: seed_smoke.py is run twice,    *)
(* the second time with the analytics of the fixed window.                 *)
Leaves ==
  CASE Name = "migrations" -> {"schema"}
    [] Name = "seed" -> {"fixture", "events"}
    [] Name = "operator" -> {"scenarios"}
    [] OTHER -> {}

SmokeIssue ==
  /\ script = "smoke"
  /\ Issue(Starts, Stops, Builds)
  /\ export' = IF Name = "export" THEN "queued" ELSE export
  /\ UNCHANGED <<facts, analytics>>

SmokePass ==
  /\ script = "smoke"
  /\ Shown
  /\ Pass(Len(Phases))
  /\ facts' = facts \cup Leaves
  /\ UNCHANGED <<export, analytics>>

SmokeBreak == script = "smoke" /\ Break(Starts, Builds) /\ UNCHANGED smoke

(* The containers of the project do their own work meanwhile. *)
WorkerWorks ==
  /\ {"worker", "db"} \subseteq alive
  /\ \/ export = "queued" /\ export' \in {"completed", "failed"} /\ UNCHANGED analytics
     \/ analytics = "queued" /\ analytics' \in {"completed", "failed"} /\ UNCHANGED export
  /\ UNCHANGED <<stackVars, facts>>

SchedulerWorks ==
  /\ {"scheduler", "db"} \subseteq alive
  /\ analytics = "none"
  /\ analytics' = "queued"
  /\ UNCHANGED <<stackVars, facts, export>>

-----------------------------------------------------------------------------
(* docs/runbooks/smoke.md: a separate worker container must complete the   *)
(* export and the scheduled analytics, and with an injected failure the    *)
(* command returns 1, whatever the other services do.                      *)
SmokeVerdict ==
  script = "smoke" /\ report.status = "passed" =>
    /\ options.inject = "none"
    /\ export = "completed" /\ analytics = "completed"
    /\ {"schema", "fixture", "events"} \subseteq facts
    /\ {"worker", "scheduler"} \cap alive = {}

(* What every phase that was passed has shown still holds: nothing undoes  *)
(* it, and no stopped worker comes back to do an injected job after all.   *)
SmokeIInv ==
  script = "smoke" =>
    /\ step \in 1..Len(Phases)
    /\ step > 4 => "schema" \in facts
    /\ step > 5 => {"fixture", "events"} \subseteq facts
    /\ export # "none" => Done(8)
    /\ step > 8 => export = "completed"
    /\ options.inject = "worker" => export # "completed" /\ (Done(8) => "worker" \notin alive)
    /\ step = Len(Phases) => analytics = "completed"
    /\ step = Len(Phases) /\ (issued \/ report.status = "passed") =>
         {"worker", "scheduler"} \cap alive = {}
    /\ report.status = "passed" => step = Len(Phases)
=============================================================================
