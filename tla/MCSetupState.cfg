CONSTANTS
  s1 = s1  s2 = s2  b1 = b1
  Setups = {s1, s2}
  Bundles = {b1}
  Forced = {s2}
  Requests <- Commands
  MaxRuns = 1
  MaxTroubles = 2
CHECK_DEADLOCK FALSE
SPECIFICATION Spec
INVARIANTS QualifiedMeansVerified DeliveredWasVerified
PROPERTIES RerunsRecover
