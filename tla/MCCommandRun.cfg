SPECIFICATION Spec
CONSTANTS
  MaxLines = 2
  PipeCapacity = 1
  MaxInterrupts = 2
  ReturnCodes <- MCReturnCodes
  MayBreak = {"out", "err", "log"}
INVARIANT TypeOK
INVARIANT ScreenMatchesLog
INVARIANT LogIsFramed
INVARIANT ExitCodeIsTheChilds
INVARIANT KilledOnlyOnSecondInterrupt
PROPERTY ImplementsLoggedRun
PROPERTY FullPipeIsDrained
PROPERTY RunEndsAfterChild
