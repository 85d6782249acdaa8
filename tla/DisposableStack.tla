--------------------------- MODULE DisposableStack ---------------------------
(***************************************************************************)
(* run() of scripts/smoke_stack.py and scripts/recovery_drill.py: a script *)
(* that builds a Compose project of its own, goes through its phases,      *)
(* collects diagnostics, removes the project and writes its result.  A     *)
(* phase issues its commands and then waits for what they should bring     *)
(* about.  SIGINT and SIGTERM raise KeyboardInterrupt wherever it is.      *)
(***************************************************************************)
EXTENDS Naturals, Sequences, FiniteSets

CONSTANTS
  MaxDeaths  \* bound: services that stop by themselves

VARIABLES
  script,   \* "smoke" or "drill"; "case" is the script of CaseStudy
  options,  \* the arguments: inject, and for the smoke test keep, operator
  pc,       \* the part of run() that is executed
  owned,    \* the project was found unused: cleanup may remove it
  step,     \* the phase, or a step of one, by its number
  issued,   \* its commands were executed
  theirs,   \* what others have under the label of the project
  ours,     \* what this run created: containers, "data", "images"
  alive, ready,  \* services that run; that answer
  deaths,
  report,   \* status and cleanup, as in result.json
  exit      \* "none", "0", "1", or "unwound": no result was written

running == <<script, options>>
progress == <<pc, owned, step, issued>>
docker == <<theirs, ours, alive, ready, deaths>>
outcome == <<report, exit>>
stackVars == <<running, progress, docker, outcome>>

Options(s) ==
  IF s = "smoke" THEN [keep : BOOLEAN, operator : BOOLEAN, inject : {"none", "worker"}]
  ELSE [keep : {FALSE}, operator : {FALSE},
        inject : {"none"} \cup IF s = "drill" THEN {"corrupt-backup"} ELSE {}]

StackInit(s, first) ==
  /\ script = s
  /\ options \in Options(s)
  /\ theirs \in {{}, {"container"}}
  /\ pc = first /\ owned = FALSE /\ step = 1 /\ issued = FALSE
  /\ ours = {} /\ alive = {} /\ ready = {} /\ deaths = 0
  /\ report = [status |-> "failed", cleanup |-> "not started"]
  /\ exit = "none"

-----------------------------------------------------------------------------
(* Preflight *)

(* Mutant of Preflight: the project is owned before it is known unused. *)
PreflightEager ==
  /\ pc = "preflight"
  /\ owned' = TRUE
  /\ pc' = IF theirs = {} THEN "phase" ELSE "diagnostics"
  /\ UNCHANGED <<running, step, issued, docker, outcome>>

(* require_unused_project *)
Preflight ==
  /\ pc = "preflight"
  /\ owned' = (theirs = {})
  /\ pc' = IF theirs = {} THEN "phase" ELSE "result"
  /\ UNCHANGED <<running, step, issued, docker, outcome>>

-----------------------------------------------------------------------------
(* The phases; services is what the commands of this one start.            *)

AtStep(n) == pc = "phase" /\ step = n

Issue(services, stopped, built) ==
  /\ pc = "phase" /\ ~issued
  /\ issued' = TRUE
  /\ ours' = ours \cup services \cup built \cup {"data" : s \in services}
  /\ alive' = (alive \cup services) \ stopped
  /\ ready' = ready \ stopped
  /\ UNCHANGED <<running, pc, owned, step, theirs, deaths, outcome>>

(* The last phase passed: exercise returns. *)
Pass(last) ==
  /\ pc = "phase" /\ issued
  /\ issued' = FALSE
  /\ IF step = last
     THEN pc' = "diagnostics" /\ report' = [report EXCEPT !.status = "passed"] /\ UNCHANGED step
     ELSE step' = step + 1 /\ UNCHANGED <<pc, report>>
  /\ UNCHANGED <<running, owned, docker, exit>>

(* Mutant of Break: waiting has no deadline. *)
BreakInCommands(services, built) ==
  /\ pc \in {"preflight", "phase"}
  /\ ~issued
  /\ pc' = IF owned THEN "diagnostics" ELSE "result"
  /\ IF pc = "phase"
     THEN \E done \in SUBSET services :
            /\ ours' = ours \cup done \cup {"data" : s \in done} \cup built
            /\ alive' = alive \cup done
     ELSE UNCHANGED <<ours, alive>>
  /\ UNCHANGED <<running, owned, step, issued, theirs, ready, deaths, outcome>>

(* A command fails or exceeds its limit, a wait its deadline, an assertion *)
(* does not hold, a signal arrives: some commands of the phase were done.  *)
Break(services, built) ==
  /\ pc \in {"preflight", "phase"}
  /\ pc' = IF owned THEN "diagnostics" ELSE "result"
  /\ IF pc = "phase" /\ ~issued
     THEN \E done \in SUBSET services :
            /\ ours' = ours \cup done \cup {"data" : s \in done} \cup built
            /\ alive' = alive \cup done
     ELSE UNCHANGED <<ours, alive>>
  /\ UNCHANGED <<running, owned, step, issued, theirs, ready, deaths, outcome>>

Become(s) ==
  /\ s \in alive \ ready
  /\ ready' = ready \cup {s}
  /\ UNCHANGED <<running, progress, theirs, ours, alive, deaths, outcome>>

Die(s) ==
  /\ pc = "phase"
  /\ s \in alive
  /\ deaths < MaxDeaths
  /\ deaths' = deaths + 1
  /\ alive' = alive \ {s}
  /\ ready' = ready \ {s}
  /\ UNCHANGED <<running, progress, theirs, ours, outcome>>

-----------------------------------------------------------------------------
(* finally *)

(* diagnostics catches every Exception. *)
Diagnose ==
  /\ pc = "diagnostics"
  /\ pc' = "cleanup"
  /\ UNCHANGED <<running, owned, step, issued, docker, outcome>>

Keep ==
  /\ pc = "cleanup" /\ options.keep
  /\ report' = [report EXCEPT !.cleanup = "retained"]
  /\ pc' = "result"
  /\ UNCHANGED <<running, owned, step, issued, docker, exit>>

(* compose down removes everything that has the label of the project.      *)
(* The smoke test does not look whether its images could be removed; the   *)
(* drill removes its image only if it is there, and then checks.           *)
Remove ==
  /\ pc = "cleanup" /\ ~options.keep
  /\ theirs' = {}
  /\ \E left \in SUBSET (IF script = "smoke" THEN ours \cap {"images"} ELSE {}) : ours' = left
  /\ alive' = {} /\ ready' = {}
  /\ report' = [report EXCEPT !.cleanup = "completed"]
  /\ pc' = "result"
  /\ UNCHANGED <<running, owned, step, issued, deaths, exit>>

(* Compose removes the containers, then networks and volumes. *)
Remains == {ours, ours \cap {"data", "images"}, ours \cap {"images"}}

(* Mutant of RemoveFails: a failed cleanup does not change the status. *)
RemoveFailsQuietly ==
  /\ pc = "cleanup" /\ ~options.keep
  /\ ours' \in Remains
  /\ alive' = alive \cap ours' /\ ready' = ready \cap ours'
  /\ report' = [report EXCEPT !.cleanup = "failed"]
  /\ pc' = "result"
  /\ UNCHANGED <<running, owned, step, issued, theirs, deaths, exit>>

(* A container that is not of this run, or a command that fails. *)
RemoveFails ==
  /\ pc = "cleanup" /\ ~options.keep
  /\ ours' \in Remains
  /\ alive' = alive \cap ours' /\ ready' = ready \cap ours'
  /\ report' = [status |-> "failed", cleanup |-> "failed"]
  /\ pc' = "result"
  /\ UNCHANGED <<running, owned, step, issued, theirs, deaths, exit>>

WriteResult ==
  /\ pc = "result"
  /\ exit' = IF report.status = "passed" THEN "0" ELSE "1"
  /\ pc' = "ended"
  /\ UNCHANGED <<running, owned, step, issued, docker, report>>

(* KeyboardInterrupt is no Exception: out of the finally clause it leaves  *)
(* run() with the project half removed and no result.                      *)
Unwind ==
  /\ pc \in {"diagnostics", "cleanup", "result"}
  /\ pc' = "ended"
  /\ exit' = "unwound"
  /\ IF pc = "cleanup" /\ ~options.keep THEN ours' \in Remains ELSE UNCHANGED ours
  /\ alive' = alive \cap ours' /\ ready' = ready \cap ours'
  /\ UNCHANGED <<running, owned, step, issued, theirs, deaths, report>>

Finally == Diagnose \/ Keep \/ Remove \/ RemoveFails \/ WriteResult

-----------------------------------------------------------------------------
(* Properties *)

(* docs/runbooks/smoke.md: 0 only when all checks pass and cleanup         *)
(* succeeds; what the result tells of the cleanup is so.  Only a signal    *)
(* during the teardown can leave a project that no result tells of.        *)
StackVerdict ==
  /\ exit = "0" => report.status = "passed" /\ report.cleanup \in {"completed", "retained"}
  /\ report.cleanup = "completed" => ours \subseteq {"images"} /\ alive = {}
  /\ report.cleanup = "retained" => options.keep
  /\ pc = "ended" /\ ours \ {"images"} # {} =>
       exit = "unwound" \/ report.cleanup \in {"retained", "failed"}

(* docs/deployment/backup_restore_drills.md: existing resources are        *)
(* refused, never adopted: no step removes what the run did not create.    *)
OthersStay == theirs' = theirs

-----------------------------------------------------------------------------
(* The inductive invariants behind the properties above. *)

(* The commands of phase n were executed. *)
Done(n) == step > n \/ (step = n /\ issued)

(* A project is owned only where nothing was found, and torn down only if  *)
(* it is owned; the result is written once, after the teardown.            *)
StackIInv ==
  /\ pc \in {"idle", "preflight", "phase", "diagnostics", "cleanup", "result", "ended"}
  /\ script \in {"smoke", "drill", "case"} /\ options \in Options(script)
  /\ step \in Nat /\ step >= 1 /\ issued \in BOOLEAN
  /\ report \in [status : {"failed", "passed"},
                 cleanup : {"not started", "retained", "completed", "failed"}]
  /\ owned => theirs = {}
  /\ pc \in {"phase", "diagnostics", "cleanup"} => owned
  /\ pc \in {"idle", "preflight"} => ~owned /\ ~issued /\ step = 1 /\ ours = {} /\ alive = {}
  /\ pc \in {"idle", "preflight", "phase"} => report.status = "failed"
  /\ pc \notin {"result", "ended"} => report.cleanup = "not started"
  /\ pc # "ended" => exit = "none"
  /\ pc = "result" =>
       /\ report.status = "passed" => report.cleanup \in {"completed", "retained"}
       /\ ours \subseteq {"images"} \/ report.cleanup \in {"retained", "failed"}
=============================================================================
