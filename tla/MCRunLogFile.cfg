SPECIFICATION Spec
CONSTANTS
  r1 = r1
  r2 = r2
  r3 = r3
  s1 = s1
  s2 = s2
  Runs <- MCRuns
  Stems <- MCStems
  Earlier = Earlier
  NoLog = NoLog
  MaxEarlier = 2
  MaxLines = 2
INVARIANT TypeOK
INVARIANT OneLogPerRun
INVARIANT NoSuffixGaps
INVARIANT NoMixedLines
PROPERTY LinesAreKept
PROPERTY ImplementsPrivateLogs
PROPERTY OpenEnds
