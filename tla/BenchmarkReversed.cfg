\* Two processes and three commands.
SPECIFICATION Spec
CONSTANTS
  Order <- AB
  Sources <- Reversed
  Procs = {p1, p2}
  MaxCommands = 3
  None = None
  Absent = Absent
  Torn = Torn
SYMMETRY Processes
INVARIANT CheckoutIsUnpatched
\* Commands end.
CHECK_DEADLOCK FALSE
