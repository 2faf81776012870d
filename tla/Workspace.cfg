\* Two processes: four commands one after the other, or three that overlap.
SPECIFICATION Spec
CONSTANTS
  Procs = {p1, p2}
  Hex <- TwoIds
  Flags <- SomeFlags
  MaxCommands = 4
  MaxShared = 3
  MaxRuns = 2
  None = None
  Absent = Absent
  Torn = Torn
SYMMETRY Processes
INVARIANTS TypeOK KeysAreThere RunsAreOfTheirCompile RunsAreKept
\* Commands end.
CHECK_DEADLOCK FALSE
