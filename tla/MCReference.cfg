SPECIFICATION MCSpec
CONSTANTS
  BrandAliases <- MCBrands
  Datasets <- MCDatasets
  ChunkSize = 2
  LocationRows = 1
  MaxSeeds = 2
  Texts <- MCTexts
  Replies <- MCReplies
  Keys = 2
  Ttl = 1
  MaxTurns = 2
  MaxTime = 1
INVARIANTS
  CatalogueIsWhole
  DialogueIsHonest
  ComparedIsComparable
PROPERTIES
  SeedEventuallyEnds
CHECK_DEADLOCK FALSE
