SPECIFICATION CustodySpec
CONSTANTS
  MaxStarts = 2
  MaxFaults = 1
INVARIANTS
  UncleanIsBlocked
CHECK_DEADLOCK FALSE
