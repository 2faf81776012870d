\* The test operation runs cb-test with a timeout: cb-test may fill
\* the pipe of stderr; the challenges, the pool and cb-replay may hang.
SPECIFICATION FairSpec
CONSTANTS
  Tree <- TestTree
  Parent <- TestParent
  Holders <- OnlyCbTest
  Awaited <- TestAwaited
  Ending <- OnlyCbTest
  Noisy <- OnlyCbTest
  Loud <- OnlyCbTest
  PipeSize = 1
  Timeout = TRUE
INVARIANTS TypeOK FailureIsReported ReturnedIsClean
PROPERTY CallEnds
CHECK_DEADLOCK FALSE
