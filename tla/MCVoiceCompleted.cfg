SPECIFICATION VoiceSpec
CONSTANTS
  Starts = {s1}
  Continues = {c1, c2}
  Intents = {"cheapest"}
  Declared <- MCDeclared
  Booleans <- MCBooleans
  Catalogs <- MCCatalogs
  MaxPublications = 0
INVARIANTS
  CompletedSessionIsGone
CHECK_DEADLOCK FALSE
