SPECIFICATION Spec
CONSTANTS
  Runs = {a1, a2, d1}
  DryRuns = {d1}
  None = None
  Times = {1, 2}
INVARIANTS
  LockFencesPublication
  HistoryOrderedByTime
  ReportsAreTrue
PROPERTIES
  StoreSpec
CHECK_DEADLOCK FALSE
