SPECIFICATION Spec
CONSTANTS
  p1 = p1
  p2 = p2
  old = old
  new = new
  bad = bad
  NoTree = NoTree
  Procs <- MCProcs
  Trees <- MCTrees
  Valid <- MCValid
INVARIANTS
  ReadersKeepTheirTree
  LastValidatedTreeSurvives
PROPERTIES
  OrdinaryRollback
  PublicationEnds
  ImplementsStableTree
