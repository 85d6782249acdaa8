------------------------------ MODULE ApiReads -------------------------------
(* What the API reads, while others write: pages of evidence, the daily    *)
(* quality of telemetry, or the network.  The QA job writes nothing that   *)
(* the pages depend on, nor has the copy of the rows to do with either,    *)
(* and the network shares nothing with them: a behaviour is of one of the  *)
(* four.                                                                   *)
EXTENDS Telemetry, AssetReads

CONSTANT RollupWriters  \* bound: the writers while the copy is refreshed

ASSUME RollupWritersAssumption == RollupWriters \subseteq Writers

VARIABLE topic

readVars == <<topic, telemetryVars, assetVars>>

AllCallers == [settings : Deployments, credentials : Callers]

OneOf(S) == {CHOOSE x \in S : TRUE}

ReadInit ==
  \/ /\ topic = "pages"
     /\ TelemetryInit(Queries, {TRUE}, LastTick)
     /\ AssetInit(OneOf(Snapshots), OneOf(AllCallers), OneOf(Requests))
  \/ /\ topic = "quality"
     /\ TelemetryInit(OneOf(Queries), {FALSE}, 0)
     /\ AssetInit(OneOf(Snapshots), OneOf(AllCallers), OneOf(Requests))
  \/ /\ topic = "rollup"
     /\ TelemetryInit(OneOf(Queries), {TRUE}, 0)
     /\ AssetInit(OneOf(Snapshots), OneOf(AllCallers), OneOf(Requests))
  \/ /\ topic = "network"
     /\ TelemetryInit(OneOf(Queries), {FALSE}, 0)
     /\ AssetInit(Snapshots, AllCallers, Requests)

ReadNext ==
  \/ topic = "pages" /\ (Write \/ Page \/ Retain) /\ UNCHANGED <<topic, assetVars>>
  \/ topic = "quality" /\ (Write \/ Check) /\ UNCHANGED <<topic, assetVars>>
  \/ /\ topic = "rollup"
     /\ Maintain \/ \E w \in RollupWriters : WriterStep(w)
     /\ UNCHANGED <<topic, assetVars>>
  \/ topic = "network" /\ AssetNext /\ UNCHANGED <<topic, telemetryVars>>

ReadSpec == ReadInit /\ [][ReadNext]_readVars
=============================================================================
