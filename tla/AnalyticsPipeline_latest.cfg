\* A run that began earlier is committed later.
SPECIFICATION PipelineSpec
CONSTANTS
  w1 = w1
  w2 = w2
  a1 = a1
  a2 = a2
  a3 = a3
  p1 = p1
  p2 = p2
  Workers = {w1, w2}
  ExportJobs = {}
  AnalyticsJobs = {a1, a2}
  ManualJobs = {a2}
  Pipes = {p1, p2}
  NoWorker = NoWorker
  NoJob = NoJob
  MaxAttempts = 1
  MaxCrashes = 0
  MaxDrops = 0
INVARIANTS
  StatusesAreLatest
CHECK_DEADLOCK FALSE
