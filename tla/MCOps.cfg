SPECIFICATION MCSpec
CONSTANTS
  Runs = {r1, r2}
  Nobody = Nobody
  Empty = Empty
  MaxTime = 4
  MaxEvents = 3
  MaxDeaths = 1
  Trees <- MCTrees
  MaxReruns = 2
  Approved <- MCApproved
  MaxDispatches = 4
  MaxManual = 1
INVARIANTS
  IncidentIsToldOnce
  ReleaseWasVerified
  PromotionWasVerified
CHECK_DEADLOCK FALSE
