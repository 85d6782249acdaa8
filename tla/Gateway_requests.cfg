\* Two requests at a time of three clients and a tenant, caches of two buckets.
SPECIFICATION FairSpec
CONSTANTS
  r1 = r1
  r2 = r2
  c1 = c1
  c2 = c2
  c3 = c3
  t1 = t1
  Requests = {r1, r2}
  ClientIds = {c1, c2, c3}
  Tenants = {t1}
  Capacity = 2
  NoBucket = NoBucket
  ClientFull = 4
  ClientCost = 2
  TenantFull = 3
  TenantCost = 1
  Timeout = 2
  MaxBytes = 2
  ChunkSizes = {1, 2}
  Horizon = 1
INVARIANTS
  BucketsAreExact
  MostRecentStay
  RequestsAreBounded
PROPERTIES
  RequestsEnd
CHECK_DEADLOCK FALSE
