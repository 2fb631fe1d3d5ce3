SPECIFICATION Spec
CONSTANTS
  Names <- MCNames
  Roots <- MCRoots
  Candidates <- MCCandidates
  Trees <- MCTrees
  Links <- MCLinks
  CacheNames <- MCCacheNames
  Targets <- MCTargets
  MaxChanges = 2
INVARIANT RefusesExactlyTheUnsafe
INVARIANT RemovesOnlyCandidates
INVARIANT DoneRemovesAll
INVARIANT ProtectedStay
