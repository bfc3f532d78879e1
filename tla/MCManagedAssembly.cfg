SPECIFICATION Spec
CONSTANTS
  gcc = gcc
  clang = clang
  libstdcxx = libstdcxx
  libcxx = libcxx
  None = None
  Kits = {gcc, clang}
  Runtimes = {libstdcxx, libcxx}
  Provider <- MCProvider
  Requests <- AllRequests
  StopPoints <- Everywhere
  MaxStops = 1
  MaxDamage = 1
INVARIANTS
  BuildsOnlyWhatIsMissing
  BindsWhatWasAsked
  PlanFollowsLoops
PROPERTIES
  ValidWorkIsKept
  RerunsRecover
