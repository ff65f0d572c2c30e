SPECIFICATION MCSpec
CONSTANTS
  None = None
  f1 = f1 f2 = f2 t1 = t1 t2 = t2 c1 = c1 c2 = c2
  Artifacts = {f1, f2}
  Tokens = {t1, t2}
  Callers = {c1, c2}
  Durable = TRUE
  MaxSessions = 1
  MaxReadSet = 2
  AbsoluteAge = 2
  LeaseTimeout = 1
  MaxVersions = 2
  MaxAge = 1
  MaxVersion = 2
  MaxTick = 2
INVARIANTS SessionCap OnlyOwnerAdmitted PinsAreHonoured RetentionIsExact  NoResurrection
PROPERTIES PinsReleased
