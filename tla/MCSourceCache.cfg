CONSTANTS
  p1 = p1  p2 = p2  m1 = m1
  Pinned = {p1, p2}
  Managed = {m1}
  Workspace <- Builds
  Sources = 2
  MaxTroubles = 2
SPECIFICATION Spec
INVARIANTS ReturnedIsPinned
PROPERTIES GoodStaysGood AcquiringRepairs
