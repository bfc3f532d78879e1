SPECIFICATION Spec
CONSTANTS
  Commands <- AllCommands
  Reruns <- Any
  StopPoints <- UnwrittenState
  MaxStops = 1
PROPERTIES
  RerunsAlwaysRecover
