\* Three well-formed packets for two descriptors and an oversized packet:
\* the ring fills up.  Bus errors and underruns at any time.
SPECIFICATION FairSpec
CONSTANTS
  p1 = p1
  p2 = p2
  p3 = p3
  e1 = e1
  b1 = b1
  N = 2
  Packets = {p1, p2, p3, b1}
  Empty = {}
  Oversized = {b1}
  AckCapacity = 2
  Faults = {"hresp", "underrun"}
  NoAddr = NoAddr
  AddrSpace = 16
  PoolBase = 3
  PoolSize = 8
INVARIANTS OwnedOnce
PROPERTIES ImplementsChannel SubmittedIsTaken
CHECK_DEADLOCK FALSE
