SPECIFICATION Spec
CONSTANTS
  Hosts <- MCHosts
  MaxCalls = 3
  MaxPurges = 1
INVARIANT TypeOK
INVARIANT SuccessMeansInstalled
INVARIANT CheckAgreesWithInstall
