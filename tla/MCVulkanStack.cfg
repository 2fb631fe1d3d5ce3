SPECIFICATION Spec
CONSTANTS
  t1 = t1
  t2 = t2
  o1 = o1
  o2 = o2
  Threads <- MCThreads
  Objects <- MCObjects
  NameCount = 2
  MaxChanges = 1
  MaxMaps = 2
SYMMETRY Symmetry
INVARIANT TypeOK
INVARIANT PointerIsBacked
INVARIANT NoLibraryLeaks
INVARIANT PanicsAreTheCallers
INVARIANT OwnershipAgrees
