\* The smoke test, the recovery drill and the case study.
SPECIFICATION Spec
CONSTANTS
  MaxDeaths = 1
  Batch = {r1, r2}
  Altered = {altered}
INVARIANTS
  VerdictIsEarned
PROPERTIES
  OthersAreUntouched
  ScriptsEnd
CHECK_DEADLOCK FALSE
