----------------------------- MODULE Algorithms ------------------------------
(* The sequential computations of the system: an evaluation of detected    *)
(* events, a detection, or the validation of an external batch.            *)
EXTENDS EventEvaluation, ThresholdEvents, ExternalRecords

VARIABLE computes

algorithmVars == <<evaluation, detection, batching, computes>>

NothingDetected == observations = <<>> /\ episodes = {} /\ detected = TRUE

NothingReceived ==
  /\ order = [kind |-> "file", city |-> NoCity, factor |-> 1]
  /\ raw = <<>> /\ rows = <<>> /\ records = <<>>
  /\ stage = "none" /\ next = 1
  /\ rejected = [r \in Reasons |-> 0]

NothingEvaluated ==
  /\ windows = {} /\ detections = {} /\ labels = {}
  /\ unmerged = {} /\ merged = <<>> /\ unplaced = {} /\ group = <<>>
  /\ phase = "none" /\ scored = 0
  /\ StartMatching({}, {})

AlgorithmInit ==
  \/ computes = "evaluation" /\ EvaluationInit /\ NothingDetected /\ NothingReceived
  \/ computes = "detection" /\ NothingEvaluated /\ DetectionInit /\ NothingReceived
  \/ computes = "validation" /\ NothingEvaluated /\ NothingDetected /\ BatchInit

AlgorithmNext ==
  \/ EvaluationNext /\ UNCHANGED <<detection, batching, computes>>
  \/ Detect /\ UNCHANGED <<evaluation, batching, computes>>
  \/ BatchNext /\ UNCHANGED <<evaluation, detection, computes>>

AlgorithmSpec == AlgorithmInit /\ [][AlgorithmNext]_algorithmVars
=============================================================================
