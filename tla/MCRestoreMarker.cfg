SPECIFICATION RestoreSpec
CONSTANTS
  f1 = f1
  o1 = o1
  s1 = s1
  a = a
  b = b
  Contents = {a, b}
  Binary = {}
  Absent = Absent
  Lost = Lost
  Blocked = Blocked
  None = None
  Files = {f1}
  Objects = {}
  Surfaces = {}
  Connected = {f1}
  Order <- OneFile
  Members = {f1}
  Checkpoints = {k1}
  MaxRedrives = 0
  MaxMoves = 2
  MaxCrashes = 2
PROPERTIES MarkerHonoured
CHECK_DEADLOCK FALSE
