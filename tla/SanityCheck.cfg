\* Two challenges, every option, directories left by earlier runs.
SPECIFICATION Spec
CONSTANTS
  Order <- TwoChallenges
  Lookups <- UpToThree
  Leftovers <- SomeLeft
  PovDirs <- SomePovDirs
  Suites <- SomeSuites
  PollTexts <- SomePolls
  PovTexts <- SomePovs
INVARIANTS
  TypeOK
  SummaryAgrees
  PassedOnABinary
  NoLitter
PROPERTIES
  OnlyPassingAreIncluded
\* The task ends.
CHECK_DEADLOCK FALSE
