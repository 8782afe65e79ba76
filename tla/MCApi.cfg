SPECIFICATION MCSpec
CONSTANTS
  Starts = {s1}
  Continues = {c1, c2}
  Intents = {"cheapest"}
  Declared <- MCDeclared
  Booleans <- MCBooleans
  Catalogs <- MCCatalogs
  MaxPublications = 1
  Clients = {k1, k2, k3}
  Cost = 2
  Burst = 4
  MaxClients = 2
  IdleTTL = 5
  SweepInterval = 2
  MaxSkew = 1
  MaxClock = 7
SYMMETRY MCSymmetry
INVARIANTS
  QueryWasOnOffer
  QueryIsWhatWasSaid
  RateBound
  OnlyRecentClients
CHECK_DEADLOCK FALSE
