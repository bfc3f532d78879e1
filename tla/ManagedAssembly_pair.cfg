SPECIFICATION Spec
CONSTANTS
  gcc = gcc
  clang = clang
  libstdcxx = libstdcxx
  libcxx = libcxx
  None = None
  Kits = {gcc, clang}
  Runtimes = {libstdcxx, libcxx}
  Provider <- MCProvider
  Requests <- PlainClang
  StopPoints <- AtTheEnd
  MaxStops = 1
  MaxDamage = 0
PROPERTIES
  RerunsAlwaysRecover
