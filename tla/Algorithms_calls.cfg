\* Two windows, detections and labels; four samples; batches of three rows.
SPECIFICATION AlgorithmSpec
CONSTANTS
  PredictionIds = {1, 2}
  ReferenceIds = {1, 2}
  Onsets = {2, 3, 4, 5, 6, 7, 11, 13}
  Early = 1
  Late = 2
  Reviews <- MCReviews
  MaxReviews = 2
  SampleTimes = {0, 1, 2, 5, 9}
  Levels = {0, 2, 3}
  MaxSamples = 4
  Threshold = 2
  MinDuration = 3
  MaxGap = 3
  DefaultPeriod = 1
  known = known
  remote = remote
  alias = alias
  stranger = stranger
  NoCity = NoCity
  NoDevice = NoDevice
  Unreadable = Unreadable
  NoValue = NoValue
  RawRows <- MCRawRows
  MaxRows = 3
  AssetMap <- MCAssetMap
  CityOf <- MCCityOf
  Cities = {NoCity, "here"}
  Factors = {1, 2}
INVARIANTS
  MatchingIsExact
  WindowsAreSound
  ReportIsMaximum
  EpisodesAreMaximal
  AuditReconciles
CHECK_DEADLOCK FALSE
