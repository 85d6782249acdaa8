------------------------------ MODULE CaseStudy ------------------------------
(***************************************************************************)
(* run() of scripts/noaa_case_study.py: the NOAA window goes through an    *)
(* import into a database container that exists only for this run, twice,  *)
(* and is analysed from what was stored.  A stage ends, or fails; Ctrl-C   *)
(* fails it too, and can cut short the removal of the container.           *)
(***************************************************************************)
EXTENDS Naturals, Sequences, FiniteSets

CONSTANTS
  Batch,   \* the accepted records: the eligible observations, as rows
  Altered  \* rows that are not as the batch has them

ASSUME BatchAssumption == IsFiniteSet(Batch) /\ Batch \cap Altered = {}

VARIABLES
  stage,      \* stages of run(), and the parts of the database stages
  fresh,      \* --output-dir did not exist
  exists,     \* the container exists in Docker
  known,      \* its ID was returned to the script
  child,      \* the migration database in it exists
  rows,       \* the rows of telemetry_observation
  imports,    \* the audits, which repeat the reports of the imports
  resources,  \* the cleanup that resources.json tells
  artifacts,  \* how many of its tables and figures are written
  manifest,   \* status in manifest.json
  status      \* exit status

container == <<exists, known, child, resources>>
database == <<rows, imports>>
caseVars == <<stage, fresh, container, database, artifacts, manifest, status>>

Artifacts == <<"case-study.json", "quality.json", "observations.csv", "daily.csv", "timeline.csv",
               "rainfall.svg", "rainfall.png", "report.md">>

CaseInit(first) ==
  /\ stage = first
  /\ fresh \in BOOLEAN
  /\ exists = FALSE /\ known = FALSE /\ child = FALSE
  /\ rows = {} /\ imports = <<>>
  /\ resources = "none"
  /\ artifacts = 0 /\ manifest = "none" /\ status = "none"

Goes(to) == stage' = to

(* An existing output directory is not touched, not even by a manifest. *)
RefuseOutput ==
  /\ stage = "preflight" /\ ~fresh
  /\ status' = "2"
  /\ Goes("ended")
  /\ UNCHANGED <<fresh, container, database, artifacts, manifest>>

(* Before the container: provenance, the pinned source, its archive, the   *)
(* quality and the batch, which must not be empty.                         *)
Prepare ==
  /\ \/ stage = "preflight" /\ fresh /\ Goes("acquisition")
     \/ stage = "acquisition" /\ Goes("quality")
     \/ stage = "quality" /\ Batch # {} /\ Goes("create")
  /\ UNCHANGED <<fresh, container, database, artifacts, manifest, status>>

(* The ID is known only if docker create answers in time. *)
Create ==
  /\ stage = "create"
  /\ \/ exists' = TRUE /\ known' = TRUE /\ resources' = "pending" /\ Goes("start")
     \/ exists' \in BOOLEAN /\ known' = FALSE /\ UNCHANGED resources /\ Goes("failing")
  /\ UNCHANGED <<fresh, child, database, artifacts, manifest, status>>

(* Started, on loopback, reached over TCP; then a database of its own. *)
Start ==
  /\ stage = "start"
  /\ child' = TRUE
  /\ Goes("first")
  /\ UNCHANGED <<fresh, exists, known, resources, database, artifacts, manifest, status>>

(* persist_batch, in a transaction of its own.  What it stores is taken as *)
(* unknown, but for one row at most for a record: the study is to find out *)
(* whether the records went in as they are, and not again by the replay.   *)
Persist(from, to) ==
  /\ stage = from
  /\ \E new \in SUBSET ((Batch \cup Altered) \ rows) :
       LET inserted == Cardinality(new) IN
       /\ inserted <= Cardinality(Batch)
       /\ rows' = rows \cup new
       /\ imports' = Append(imports, [inserted |-> inserted,
                                      existing |-> Cardinality(Batch) - inserted])
  /\ Goes(to)
  /\ UNCHANGED <<fresh, container, artifacts, manifest, status>>

(* One import of everything, one replay of nothing, and no other. *)
Reports ==
  /\ Len(imports) = 2
  /\ imports[1].inserted = Cardinality(Batch)
  /\ imports[2].inserted = 0 /\ imports[2].existing = Cardinality(Batch)

(* What is stored is compared with the batch, and the audits.  If they     *)
(* differ, the stage fails.                                                *)
ReadBack ==
  /\ stage = "readback"
  /\ rows = Batch /\ Reports
  /\ child' = FALSE
  /\ Goes("removing")
  /\ UNCHANGED <<fresh, exists, known, resources, database, artifacts, manifest, status>>

InContainer == {"start", "first", "replay", "readback"}

(* Any exception, and Ctrl-C; the child database may fail to be dropped.   *)
StageFails ==
  /\ stage \in {"preflight", "acquisition", "quality", "artifacts"} \cup InContainer
  /\ stage = "preflight" => fresh
  /\ Goes(IF stage \in InContainer THEN "removing failed" ELSE "failing")
  /\ IF stage \in InContainer THEN child' \in {child, FALSE} ELSE UNCHANGED child
  /\ UNCHANGED <<fresh, exists, known, resources, database, artifacts, manifest, status>>

Removing == stage \in {"removing", "removing failed"}

(* The owner label is verified first; the container takes its databases.   *)
RemoveContainer ==
  /\ Removing
  /\ exists' = FALSE /\ child' = FALSE
  /\ resources' = "removed"
  /\ Goes(IF stage = "removing" THEN "artifacts" ELSE "failing")
  /\ UNCHANGED <<fresh, known, database, artifacts, manifest, status>>

(* A mismatch or a failed command is told; Ctrl-C leaves "pending" there.  *)
RemovalFails ==
  /\ Removing
  /\ exists' \in BOOLEAN /\ child' = (child /\ exists')
  /\ resources' \in {"failed_or_refused", resources}
  /\ Goes("failing")
  /\ UNCHANGED <<fresh, known, database, artifacts, manifest, status>>

(* write_outputs, one file after the other. *)
WriteArtifact ==
  /\ stage = "artifacts"
  /\ artifacts < Len(Artifacts)
  /\ artifacts' = artifacts + 1
  /\ UNCHANGED <<stage, fresh, container, database, manifest, status>>

Complete ==
  /\ stage = "artifacts" /\ artifacts = Len(Artifacts)
  /\ manifest' = "completed"
  /\ status' = "0"
  /\ Goes("ended")
  /\ UNCHANGED <<fresh, container, database, artifacts>>

Failed ==
  /\ stage = "failing"
  /\ manifest' = "failed"
  /\ status' = "2"
  /\ Goes("ended")
  /\ UNCHANGED <<fresh, container, database, artifacts>>

CaseNext ==
  \/ RefuseOutput \/ Prepare \/ Create \/ Start \/ ReadBack \/ StageFails
  \/ Persist("first", "replay") \/ Persist("replay", "readback")
  \/ RemoveContainer \/ RemovalFails
  \/ WriteArtifact \/ Complete \/ Failed

-----------------------------------------------------------------------------
(* docs/runbooks/noaa_case_study.md: a completed manifest stands for one   *)
(* import of the batch as it is, one replay without a row, all artifacts,  *)
(* and a container that is gone.  A container can outlive the run only if  *)
(* its ID was never learned, or its removal failed and the run with it.    *)
CaseVerdict ==
  /\ manifest = "completed" =>
       /\ artifacts = Len(Artifacts) /\ rows = Batch
       /\ Len(imports) = 2 /\ imports[1].inserted = Cardinality(Batch) /\ imports[2].inserted = 0
       /\ ~exists /\ resources = "removed"
  /\ resources = "removed" => ~exists
  /\ stage = "ended" /\ exists =>
       status = "2" /\ (known => resources \in {"pending", "failed_or_refused"})
  /\ ~fresh => manifest = "none" /\ artifacts = 0

(* The inductive invariant behind it: what is known of the container and   *)
(* of the window at each stage.                                            *)
CaseIInv ==
  /\ stage \in {"idle", "preflight", "acquisition", "quality", "create", "artifacts", "failing", "ended"}
              \cup InContainer \cup {"removing", "removing failed"}
  /\ artifacts \in Nat
  /\ resources \in {"none", "pending", "removed", "failed_or_refused"}
  /\ resources = "removed" => ~exists
  /\ known => resources # "none"
  /\ stage \in {"idle", "preflight", "acquisition", "quality", "create"} => ~exists /\ resources = "none"
  /\ stage \in InContainer => resources = "pending"
  /\ Removing => resources = "pending"
  /\ stage \in {"removing", "artifacts"} => rows = Batch /\ Reports
  /\ stage = "artifacts" => resources = "removed"
  /\ stage # "ended" => manifest = "none"
  /\ ~fresh => stage \in {"idle", "preflight", "ended"}
  /\ CaseVerdict
=============================================================================
