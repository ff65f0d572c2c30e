SPECIFICATION MCSpec
CONSTANTS
  e1 = e1 e2 = e2 a = a b = b f1 = f1 o1 = o1 s1 = s1 k1 = k1 k2 = k2
  c1 = c1 c2 = c2 orphan = orphan
  None = None
  Unset = Unset
  Absent = Absent
  Lost = Lost
  Blocked = Blocked
  Seed = Seed
  Openers = {p1, p2}
  Epochs = {e1, e2}
  InitialFiles <- MCInitialFiles
  MaxOpens = 3
  MaxTotal = 5
SYMMETRY MCSymmetry
INVARIANTS StoreOpens ManifestIsTrue  
PROPERTIES StoreMovesForward
CHECK_DEADLOCK FALSE
