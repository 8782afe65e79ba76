SPECIFICATION MCSpec
CONSTANTS
  Raws = {"a", "b", "c", "d"}
  Stores = {"DINA", "DANA", "FIX_PRICE"}
  StoreOf <- MCStoreOf
  Cards = {1, 2, 3, 4}
  Legacy <- MCLegacy
  Bundles <- MCBundles
  MaxDrop = 50
  Runs = {a1, a2}
  None = None
  Packages <- MCPackages
  Files = 3
  MaxFaults = 3
  MaxLedger = 2
  MaxUpgradeDeaths = 3
INVARIANTS
  OneCardPerGroup
  ReclusterNeverConflicts
  HostIsOldOrNew
PROPERTIES
  CardsAreStable
  RunsEnd
CHECK_DEADLOCK FALSE
