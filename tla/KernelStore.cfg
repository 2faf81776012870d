\* Two commands, one with --excl, over two challenges with one test each.
SPECIFICATION Spec
CONSTANTS
  Procs = {p1, p2}
  Privileged = {p1}
  Challenges = {c1, c2}
  Tests = {t1}
  NoOutcome = NoOutcome
  NoProc = NoProc
  NoChallenge = NoChallenge
  NoOp = NoOp
  Unloaded = Unloaded
  Torn = Torn
SYMMETRY Symmetry
INVARIANTS
  TypeOK
  LockHasItsHolder
  NoLostUpdate
PROPERTIES
  OnlyKillTears
\* A torn file with no command running is the end: nothing can start.
CHECK_DEADLOCK FALSE
