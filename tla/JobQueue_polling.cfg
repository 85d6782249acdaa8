\* A cancelled queue row leaves its export_job row queued.
SPECIFICATION Spec
CONSTANTS
  w1 = w1
  w2 = w2
  e1 = e1
  e2 = e2
  a1 = a1
  Workers = {w1}
  ExportJobs = {e1}
  AnalyticsJobs = {}
  NoWorker = NoWorker
  NoJob = NoJob
  MaxAttempts = 1
  MaxCrashes = 0
  MaxDrops = 0
INVARIANTS
  PollingEnds
CHECK_DEADLOCK FALSE
