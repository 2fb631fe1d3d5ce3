SPECIFICATION Spec
CONSTANTS
  MaxIncludes = 4
  MaxDepth = 3
INVARIANT NoLeak
INVARIANT HandlesReleased
INVARIANT NoBadFree
INVARIANT OpenIncludesAreAlive
INVARIANT WordsNeedAllIncludes
