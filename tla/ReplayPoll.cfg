\* Two challenges, one write and one read.
SPECIFICATION FairSpec
CONSTANTS
  N = 2
  Script <- WriteRead
  Returns <- SomeReturns
  MaxOut = 1
  None = None
  Running = Running
INVARIANTS
  TypeOK
  ReportedBeforeCounted
  VerdictIsExact
PROPERTIES
  Terminates
\* The replay of one poll ends.
CHECK_DEADLOCK FALSE
