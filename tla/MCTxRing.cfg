\* Two well-formed packets for three descriptors, an empty and an oversized
\* packet: the ring is never full.  Room for every acknowledgement, no errors.
SPECIFICATION FairSpec
CONSTANTS
  p1 = p1
  p2 = p2
  p3 = p3
  e1 = e1
  b1 = b1
  N = 3
  Packets = {p1, p2, e1, b1}
  Empty = {e1}
  Oversized = {b1}
  AckCapacity = 3
  Faults = {}
  NoAddr = NoAddr
  AddrSpace = 16
  PoolBase = 3
  PoolSize = 8
INVARIANTS TypeOK NoLeak HwInsideWindow
PROPERTIES ImplementsChannel AcceptedIsReturned
