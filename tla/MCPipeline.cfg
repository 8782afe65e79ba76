SPECIFICATION MCSpec
CONSTANTS
  Retries = 1
  PageSize = 2
  MaxErrors = 2
  MaxPages = 3
  Published = {"milk", "bread"}
  Sites <- MCSites
  ScrapeAll = FALSE
  BatchEnv = 2
  ConcurrencyEnv = 2
  Aliases <- MCAliases
  Catalogue <- MCCatalogue
  Dict <- MCDict
  MaxAge = 36
  FirstFiles <- MCFirstFiles
  MaxNights = 2
  Batches <- MCBatches
  Keys <- MCKeys
  MaxRetries = 1
  MinInterval = 1
  Backoff = 2
  Cooldown = 6
  MaxRuns = 2
INVARIANTS
  ScrapesAreComplete
  ExitTellsTheSnapshot
  ProductsAreKept
PROPERTIES
  AgentIsSteady
  EveryNightEnds
CHECK_DEADLOCK FALSE
