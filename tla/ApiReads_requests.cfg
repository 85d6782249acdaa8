\* Two assets, two scenarios, two QA runs; a network of ten assets.
SPECIFICATION ReadSpec
CONSTANTS
  a1 = a1
  a2 = a2
  feed = feed
  device = device
  run1 = run1
  run2 = run2
  s1 = s1
  s2 = s2
  unknown = unknown
  n1 = n1
  n2 = n2
  n3 = n3
  ghost = ghost
  far = far
  p12 = p12
  p23 = p23
  p31 = p31
  p2g = p2g
  pg3 = pg3
  pfar = pfar
  NoScenario = NoScenario
  NoRow = NoRow
  NoNode = NoNode
  NoTenant = NoTenant
  NoToken = NoToken
  NoKey = NoKey
  Assets = {a1, a2}
  Writers = {feed, device, run1, run2}
  Batches <- MCBatches
  RollupWriters = {device, run1}
  Granularity = 2
  MaxGapBuckets = 4
  QaStart = 0
  QaEnd = 7
  OutlierStart = 1
  DriftStart = 2
  DriftMid = 4
  DriftEnd = 8
  Delta = 3
  MinValue = 0
  MaxValue = 8
  Drift = 1
  QaRuns = 2
  Queries <- MCQueries
  Limit = 2
  Times = {0, 1, 3, 6, 7}
  StartOffset = 7
  EndOffset = 2
  Period = 2
  Retention = 7
  ChunkWidth = 2
  LastTick = 12
  Network <- MCNetwork
  Snapshots <- MCSnapshots
  Requests <- MCRequests
  Deployments <- MCDeployments
  Callers <- MCCallers
INVARIANTS
  PagesSkipNothing
  ReadsAgree
  RollupLags
  GapsAreReal
  AnswersAreEarned
CHECK_DEADLOCK FALSE
