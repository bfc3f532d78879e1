CONSTANTS
  PathOrder <- MCPathOrder
  LibraryNames <- MCLibraryNames
  EntryNames <- MCEntryNames
  StaticNames <- MCStaticNames
  DriverNames <- MCDriverNames
  Component <- MCComponent
  SystemNames <- MCSystemNames
  ForbiddenNames <- MCForbiddenNames
  Imports <- MCImports
  Tampering <- MCTampering
  Sdks = {1}
  Compilers <- MCCompilers
  Ambient = {"", "libc++"}
  MaxImports = 2
  MaxKills = 1
CHECK_DEADLOCK FALSE
SPECIFICATION Spec
INVARIANTS CopyIsFaithful NamesReachTheirOwner LoadedPlansQualify OnlyKillsStrand
PROPERTIES LoadsNothingNewer ImportEnds
