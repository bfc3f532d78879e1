CONSTANTS
  s1 = s1  s2 = s2  i1 = i1  l1 = l1
  Setups = {s1, s2}
  Installers = {i1}
  Launchers = {l1}
  WorkDir <- Shared
  Forced = {s1}
  Selection <- TwoSelections
  Homes = {"home"}
  Home <- OneHome
  FileCount = 2
  Config <- TwoConfigs
  Runtimes = {"libcxx", "libstdcxx"}
  DefaultRuntime = "libcxx"
  MaxRuns <- RunsEach
SPECIFICATION Spec
INVARIANTS ReportedStays InstalledIsConfigured
PROPERTIES ConanFilesStay
