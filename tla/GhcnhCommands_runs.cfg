\* A window across two annual files, downloads with two attempts.
SPECIFICATION CommandSpec
CONSTANTS
  Interval = 2
  Day = 3
  Year = 5
  Stale = 2
  MaxRows = 3
  Requests <- MCRequests
  Tasks <- MCTasks
  Upstream <- MCUpstream
  Timeout = 2
  Budget = 3
  Attempts = 2
  MaxBytes = 3
  MaxRetryAfter = 2
  RetryHeaders = {0, 2, 3, Absent, Invalid}
  Absent = Absent
  Invalid = Invalid
  NoPin = NoPin
INVARIANTS
  ChunksAreWhole
  BudgetHolds
  ReadersAgree
  OutcomeIsTold
PROPERTIES
  CommandEnds
CHECK_DEADLOCK FALSE
