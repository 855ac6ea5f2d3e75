\* Two descriptors, fragments, overruns and bus errors.
SPECIFICATION FairSpec
CHECK_DEADLOCK FALSE
CONSTANTS
  N = 2
  Numbers = 1
  MaySplit = TRUE
  Faults = {"hresp", "overrun"}
  Stale = TRUE
  Speeds = {"100"}
  Timeout = 1
  NoLink = "none"
INVARIANTS ReceiverReady
PROPERTIES AckedIsRearmed
