SPECIFICATION MCSpec
CONSTANTS
  Submissions = {s1, s2}
  Shas = {"base", "next"}
  Base = "base"
  MaxSignals = 2
  MaxStarts = 3
  MaxFaults = 3
INVARIANTS
  OneAtATime
  ResultIsTrue
  NothingUncheckedIsPublic
  WayBackIsKept
  VerdictsAreKept
PROPERTIES
  CountedUnderCustody
  ServicesEnd
CHECK_DEADLOCK FALSE
