\* Three descriptors, whole frames, no errors.
SPECIFICATION FairSpec
CHECK_DEADLOCK FALSE
CONSTANTS
  N = 3
  Numbers = 4
  MaySplit = FALSE
  Faults = {}
  Stale = FALSE
  Speeds = {"100"}
  Timeout = 1
  NoLink = "none"
INVARIANTS TypeOK HeadInStep OneOwner InOrder
PROPERTIES StoredIsTaken
