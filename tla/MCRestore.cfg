SPECIFICATION MCSpec
CONSTANTS
  f1 = f1
  o1 = o1
  s1 = s1
  a = a
  b = b
  Contents = {a, b}
  Binary = {}
  Absent = Absent
  Lost = Lost
  Blocked = Blocked
  None = None
  Files = {f1}
  Objects = {o1}
  Surfaces = {}
  Connected = {}
  Order <- ObjectThenFile
  Members = {o1, f1}
  Checkpoints = {k1}
  MaxRedrives = 1
  MaxMoves = 2
  MaxCrashes = 1
INVARIANTS RestoreIsTrue
PROPERTIES RestoreTerminates
CHECK_DEADLOCK FALSE
