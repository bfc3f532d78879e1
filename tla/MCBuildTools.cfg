CONSTANTS
  c1 = c1  c2 = c2  c3 = c3
  Clients = {c1, c2, c3}
  MaxPlain = 1
  MaxTroubles = 3
SPECIFICATION Spec
INVARIANTS NoLostWriter CancellationLeavesNoWriter PublishedIsOwn
PROPERTIES RerunsRecover
