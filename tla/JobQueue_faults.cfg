\* An export and an analytics job, two workers, a crash and two closed connections.
SPECIFICATION FairSpec
CONSTANTS
  w1 = w1
  w2 = w2
  e1 = e1
  e2 = e2
  a1 = a1
  Workers = {w1, w2}
  ExportJobs = {e1}
  AnalyticsJobs = {a1}
  NoWorker = NoWorker
  NoJob = NoJob
  MaxAttempts = 2
  MaxCrashes = 1
  MaxDrops = 2
INVARIANTS
  TypeOK
  OwnershipIsExclusive
  CommittedRowsAgree
  DownloadsAreWhole
PROPERTIES
  OutcomesAreFinal
  ImplementsLifecycle
  ExportsSettle
CHECK_DEADLOCK FALSE
