SPECIFICATION Spec
CONSTANTS
  Commands <- AllCommands
  Reruns <- Any
  StopPoints <- Everywhere
  MaxStops = 3
INVARIANTS
  ReadyMeansComplete
  EnsuredStaysReady
PROPERTIES
  ReadyOnlyLostToUpgrade
  RerunsRecover
