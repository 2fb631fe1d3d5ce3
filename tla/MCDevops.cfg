SPECIFICATION Spec
CONSTANTS
  p1 = p1
  p2 = p2
  p3 = p3
  Processes <- Two
  Invocations <- AllInvocations
  Pins <- AllPins
  Directories <- OneDirectory
  ReturnCodes <- AllCodes
  Serial = FALSE
  MaxEdits = 0
  MaxOutages = 1
  MaxInterrupts = 1
SYMMETRY Symmetry
INVARIANT TypeOK
 
PROPERTY VolumeChangesAreAskedFor
PROPERTY ImplementsFailFast
