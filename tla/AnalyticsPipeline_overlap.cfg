\* A scheduled run and a manual one in one city, a crash and a closed connection.
SPECIFICATION FairPipelineSpec
CONSTANTS
  w1 = w1
  w2 = w2
  a1 = a1
  a2 = a2
  a3 = a3
  p1 = p1
  p2 = p2
  Workers = {w1, w2}
  ExportJobs = {}
  AnalyticsJobs = {a1, a2}
  ManualJobs = {a2}
  Pipes = {p1, p2}
  NoWorker = NoWorker
  NoJob = NoJob
  MaxAttempts = 2
  MaxCrashes = 1
  MaxDrops = 1
INVARIANTS
  StatusesAreOfLastRun
PROPERTIES
  ImplementsQueue
  RunsSettle
CHECK_DEADLOCK FALSE
