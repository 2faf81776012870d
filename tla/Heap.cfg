\* Two blocks of 4 units and their end chunks, a page of 3 units, requests for
\* chunks of 1 to 3 units and for 2 pages, three pointers.
SPECIFICATION Spec
CONSTANTS
  Room = 4
  Page = 3
  Low = 2
  Requests = {0, 1, 2, 5}
  Ids = {i1, i2}
  Owners = {o1, o2, o3}
  Nobody = Nobody
  MaxTop = 10
SYMMETRY Symmetry
INVARIANTS
  TypeOK
  Tiled
  PrevStaysInNeighbour
PROPERTIES
  AllocatesApart
\* A POV that used NULL has ended.
CHECK_DEADLOCK FALSE
