SPECIFICATION EvidenceSpec
CONSTANTS
  None = None
  Programs <- MCPrograms
  Specs <- MCSpecs
  Hosts <- MCHosts
  SdkSpecs <- MCSdkSpecs
  Products <- MCProducts
  SystemLibraries <- MCSystemLibraries
  BuilderFiles = {"libabs"}
  MaxChanges = 4
INVARIANTS
  AcceptedServesTheLock
  
  ProvidersAreOwn
  AuditorsAgree
CHECK_DEADLOCK FALSE
