\* One challenge; a POV that dies before it has negotiated.
SPECIFICATION PovFairSpec
CONSTANTS
  N = 1
  Returns <- TwoReturns
  Types <- ThreeTypes
  None = None
PROPERTY Ends
\* The replay of one POV ends.
CHECK_DEADLOCK FALSE
