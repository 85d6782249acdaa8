\* A killed analytics worker leaves its claim committed.
SPECIFICATION Spec
CONSTANTS
  w1 = w1
  w2 = w2
  e1 = e1
  e2 = e2
  a1 = a1
  Workers = {w1}
  ExportJobs = {}
  AnalyticsJobs = {a1}
  NoWorker = NoWorker
  NoJob = NoJob
  MaxAttempts = 1
  MaxCrashes = 1
  MaxDrops = 0
PROPERTIES
  KilledClaimRollsBack
CHECK_DEADLOCK FALSE
