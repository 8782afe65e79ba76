SPECIFICATION FairSpec
CONSTANTS
  Launches = {l1, l2, l3}
INVARIANTS
  EventIsBound
  VerdictIsAboutTheEvent
  PublishedOnce
PROPERTIES
  LaunchEnds
CHECK_DEADLOCK FALSE
