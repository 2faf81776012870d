\* Four bytes through a buffer of two; reads of 1 and 3 bytes, discarded two at
\* a time; delimiters of one and of two bytes; room for one byte at first.
SPECIFICATION Spec
CONSTANTS
  N = 4
  Letters = {"a", "d"}
  Delims <- MCDelims
  Lengths = {1, 3}
  Size = 2
  Chunk = 2
  FirstCap = 1
INVARIANTS
  TypeOK
  DelimitedIsExact
PROPERTIES
  ReadsInOrder
  CallReturns
\* A POV whose buffer could not be allocated has ended.
CHECK_DEADLOCK FALSE
