\* Two processes and four commands.
SPECIFICATION Spec
CONSTANTS
  Order <- AB
  Sources <- Shapes
  Procs = {p1, p2}
  MaxCommands = 4
  None = None
  Absent = Absent
  Torn = Torn
SYMMETRY Processes
INVARIANTS TypeOK EntryIsBacked CheckoutIsUnpatched
PROPERTIES AlreadyMeansWhole
\* Commands end.
CHECK_DEADLOCK FALSE
