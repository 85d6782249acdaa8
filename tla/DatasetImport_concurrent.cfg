\* Two NOAA imports and a file, of two stations.
SPECIFICATION FairSpec
CONSTANTS
  n1 = n1
  n2 = n2
  x1 = x1
  s1 = s1
  s2 = s2
  s3 = s3
  t1 = t1
  v1 = v1
  v2 = v2
  station = station
  gauge = gauge
  Noaa = {n1, n2}
  Others = {x1}
  Slots = {s1, s2, s3, t1}
  Values = {v1, v2}
  Assets = {station, gauge}
  AssetOf <- MCAssetOf
  NoaaBatches <- MCNoaaBatches
  OtherBatches <- MCOtherBatches
  Chunk = 2
  NoRow = NoRow
  NoValue = NoValue
  NoAsset = NoAsset
  NoImport = NoImport
INVARIANTS
  AuditsAreTrue
  DeadlocksNeedOthers
PROPERTIES
  ImportsEnd
  ImplementsAtomicImport
CHECK_DEADLOCK FALSE
