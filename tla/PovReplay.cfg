\* Two challenges, POVs of each type and one that is refused.
SPECIFICATION PovFairSpec
CONSTANTS
  N = 2
  Returns <- SomeReturns
  Types <- ThreeTypes
  None = None
INVARIANTS PovTypeOK ReportedBeforeEnd VerdictOfPov
PROPERTY EndsOrStarves
\* The replay of one POV ends.
CHECK_DEADLOCK FALSE
