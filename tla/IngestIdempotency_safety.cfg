\* Two requests, one key, bodies that cross, expiry and pruning.
SPECIFICATION FairSpec
CONSTANTS
  r1 = r1
  r2 = r2
  r3 = r3
  k1 = k1
  k2 = k2
  s1 = s1
  s2 = s2
  v1 = v1
  v2 = v2
  Requests = {r1, r2}
  Keys = {k1}
  Slots = {s1, s2}
  Values = {v1, v2}
  Bodies <- MCBodies
  PruneBatch = 1
  NoRequest = NoRequest
  NoValue = NoValue
  Invalid = Invalid
  NoKey = NoKey
  NoRow = NoRow
INVARIANTS
  AnswersAreTrue
  KeyIsFree
PROPERTIES
  ImplementsAtomicIngest
  RequestsEnd
CHECK_DEADLOCK FALSE
