SPECIFICATION CustodySpec
CONSTANTS
  MaxStarts = 4
  MaxFaults = 3
INVARIANTS
  HistoryIsRetained
CHECK_DEADLOCK FALSE
