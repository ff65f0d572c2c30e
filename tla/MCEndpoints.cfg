SPECIFICATION MCSpec
CONSTANTS
  None = None
  Absent = Absent
  Lost = Lost
  w1 = w1 w2 = w2 a = a b = b k1 = k1 m1 = m1 m = m p = p q = q v1 = v1
  Artifacts = {f1}
  Tokens = {t1}
  Callers = {c1}
  Workers = {w1, w2}
  MaxLost = 1
  Durable = TRUE
  MaxSessions = 1
  MaxReadSet = 2
  AbsoluteAge = 3
  LeaseTimeout = 1
  MaxVersions = 1
  MaxAge = None
  MaxVersion = 2
  MaxTick = 1
SYMMETRY MCSymmetry
INVARIANTS LogTellsTruth RestoreIsRecorded PolicyIsKept
PROPERTIES NothingLandsLate ReapedOnlyWhenDue
CHECK_DEADLOCK FALSE
