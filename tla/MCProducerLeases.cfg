SPECIFICATION LeaseSpec
CONSTANTS
  gcc = gcc
  clang = clang
  Setups = {gcc, clang}
  Selection <- MCSelection
  Provider <- MCProvider
  Sources <- MCSources
  Locks <- MCLocks
  Position <- MCPosition
  MaxRuns = 2
CHECK_DEADLOCK FALSE
INVARIANTS
  NoConflict
  DeadlockFree
PROPERTIES
  RunsEnd
