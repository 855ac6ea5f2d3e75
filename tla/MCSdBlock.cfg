\* A session of one slot with two requests, and another disk with two.
SPECIFICATION FairSpec
CONSTANTS
  a = a  b = b  r1 = r1  s1 = s1  q1 = q1  t1 = t1
  None = None
  Disks = {a, b}
  MaxGenDisks = 2
  Slots = 1
  Requests = {r1, s1, q1, t1}
  DiskOf <- MCDiskOf
  Syncs = {s1, t1}
  Cached = {b}
INVARIANTS AnswersAnnounced NoLostWakeup
PROPERTIES ImplementsService Drains
CHECK_DEADLOCK FALSE
