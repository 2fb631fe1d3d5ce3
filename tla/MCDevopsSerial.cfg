SPECIFICATION Spec
CONSTANTS
  p1 = p1
  p2 = p2
  p3 = p3
  Processes <- Three
  Invocations <- CacheAndImageUsers
  Pins <- EditedPins
  Directories <- TwoDirectories
  ReturnCodes <- SuccessOrFailure
  Serial = TRUE
  MaxEdits = 1
  MaxOutages = 0
  MaxInterrupts = 1
SYMMETRY Symmetry
INVARIANT OwnedWhenSetupsComplete
PROPERTY CleanLeavesNoCache
PROPERTY ImageFollowsThePins
