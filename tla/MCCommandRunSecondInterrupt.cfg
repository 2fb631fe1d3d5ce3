SPECIFICATION Spec
CONSTANTS
  MaxLines = 2
  PipeCapacity = 1
  MaxInterrupts = 2
  ReturnCodes <- MCReturnCodes
  MayBreak = {}
INVARIANT SecondInterruptKills
