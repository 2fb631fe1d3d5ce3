SPECIFICATION Spec
CONSTANTS
  p1 = p1
  p2 = p2
  p3 = p3
  Processes <- Two
  Invocations <- KeptAndClean
  Pins <- AgreeingPins
  Directories <- OneDirectory
  ReturnCodes <- SuccessOrFailure
  Serial = TRUE
  MaxEdits = 0
  MaxOutages = 0
  MaxInterrupts = 0
SYMMETRY Symmetry
INVARIANT HostUserOwnsCache
